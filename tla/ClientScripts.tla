----------------------------- MODULE ClientScripts -----------------------------
(***************************************************************************)
(* The console operations of the device classes built on LinuxDevice       *)
(* (src/boardfarm3/devices): linux_lan.py, linux_wan.py, linux_wlan.py,    *)
(* linux_router.py and linux_tftp.py.                                      *)
(***************************************************************************)
EXTENDS LibraryScripts

(* linux_lan.py *)
get_default_gateway == execute_command
(* When dhclient is spotted in the list, the prompt behind the list is the *)
(* one that is taken for that of pkill, and so on.                         *)
kill_dhclient(release) == release \o Line \o Spot(Plain, <<>>) \o Plain
check_dut_iface == check_output \o Maybe(check_output \o Raise)
check_dut_iface_async == execute_command \o Maybe(execute_command \o Raise)
configure_dhclient_option60 == Either(Plain, check_output \o Maybe(Plain))
configure_dhclient_option60_async == Either(Plain, execute_command \o Maybe(Plain))
configure_dhclient_option61 == Maybe(get_interface_macaddr) \o check_output \o check_output
configure_dhclient_option61_async == Maybe(get_interface_macaddr) \o Cmds(2)
configure_dhclient_option125 ==
    Either(Plain \o Plain, check_output \o Maybe(Plain \o get_interface_macaddr \o Plain))
configure_dhcpv6_option17 ==
    Either(Plain \o Plain, check_output \o Maybe(Plain \o Plain))

(* The line behind the empty one is the only one a prompt is expected for, *)
(* and the route that is found in the table leaves its prompt behind; the  *)
(* echo the next execute_command waits for makes up for both.              *)
start_ipv4(stop, check, options, renew) ==
    stop \o check \o Maybe(Plain) \o execute_command \o Maybe(execute_command)
        \o kill_dhclient(release_dhcp)
        \o Blank \o Plain \o Plain \o Plain \o Maybe(Plain \o Plain) \o options
        \o Retried(renew \o execute_command, Interrupt \o Prompt)
        \o Plain \o Plain \o Line \o Try(Text, Cmds(3)) \o Maybe(Plain)
        \o execute_command \o Maybe(start_danteproxy)
start_ipv4_lan_client ==
    start_ipv4(stop_danteproxy, check_dut_iface,
               configure_dhclient_option60 \o configure_dhclient_option61, renew_dhcp)
start_ipv4_lan_client_async ==
    start_ipv4(stop_danteproxy_async, check_dut_iface_async,
               configure_dhclient_option60_async \o configure_dhclient_option61_async,
               renew_dhcp_async)
start_ipv6(check) ==
    check \o Maybe(execute_command) \o kill_dhclient(release_ipv6) \o Cmds(5)
        \o Retried(Maybe(renew_ipv6) \o execute_command,
                   kill_dhclient(release_ipv6) \o Interrupt \o Prompt)
        \o Maybe(execute_command)
start_ipv6_lan_client == start_ipv6(check_dut_iface)
start_ipv6_lan_client_async == start_ipv6(check_dut_iface_async)
lan_configure == static_routes \o start_ipv4_lan_client \o Maybe(start_ipv6_lan_client)
lan_configure_async ==
    static_routes \o start_ipv4_lan_client_async \o Maybe(start_ipv6_lan_client_async)
lan_contingency_check ==
    Maybe(Check(execute_command) \o Maybe(execute_command) \o Maybe(execute_command))
enable_ipv6 == Cmds(2)
disable_ipv6 == Cmds(2)
get_interface_mtu_size == Check(execute_command)
update_file_entry == Plain
add_hosts_entry == execute_command \o update_file_entry
delete_hosts_entry == execute_command \o update_file_entry
flush_arp_cache == execute_command
get_arp_table == execute_command
delete_arp_table_entry == execute_command
add_vlan_interface == Cmds(2)
delete_vlan_interface == execute_command
execute_time_sync == execute_command
get_interface_stats == execute_command

(* linux_wan.py *)
configure_dns == Maybe(Plain) \o execute_command
setup_wan ==
    Loop(Either(start_danteproxy, Either(Cmds(2) \o Maybe(Cmds(2)), configure_dns))) \o static_routes
add_env_variable == execute_command \o Loop(execute_command)
validate_dns_env_request == nslookup \o Loop(ping) \o Maybe(Raise)
wan_contingency_check == Maybe(Cmds(2) \o Maybe(validate_dns_env_request))
download_image_to_tftpboot == download_file_from_uri \o execute_command
execute_snmp_command == Either(Raise, execute_command)
reverse_ssh_successful == Either(Raise, Check(execute_command))
get_network_statistics == execute_command
wan_interface_mtu_size == Check(execute_command)
wan_add_route == execute_command \o execute_command \o Check(execute_command)
wan_delete_route == Cmds(2)

(* linux_wlan.py *)
disable_wifi == Cmds(2) \o set_link_state
enable_wifi == set_link_state
reset_wifi_iface == disable_wifi \o enable_wifi
start_ipv4_wlan_client == Cmds(4) \o Try(renew_dhcp, Interrupt \o Prompt \o execute_command)
start_ipv6_wlan_client == Cmds(3) \o disable_ipv6 \o enable_ipv6
set_wlan_scan_channel == execute_command
iwlist_supported_channels == execute_command
is_wlan_connected == execute_command
list_wifi_ssids ==
    execute_command \o Loop(is_wlan_connected \o Maybe(execute_command) \o execute_command)
        \o Maybe(is_wlan_connected \o Maybe(execute_command) \o Raise)
wifi_connect == Cmds(4)
wifi_disconnect == Cmds(2)
change_wifi_region == execute_command \o Check(execute_command)
wifi_client_connect ==
    reset_wifi_iface \o Check(list_wifi_ssids) \o wifi_connect \o Check(is_wlan_connected)
        \o start_ipv4_wlan_client
wlan_configure ==
    Maybe(wifi_client_connect \o static_routes \o start_ipv4_wlan_client
            \o Maybe(start_ipv6_wlan_client) \o start_danteproxy)
wlan_ipv6 == Cmds(2)
wlan_interface_mtu_size == Check(execute_command)
monitor_mode == disable_wifi \o execute_command \o enable_wifi
is_monitor_mode_enabled == execute_command
wlan_default_gateway == execute_command
wlan_time_sync == execute_command

(* linux_router.py and linux_tftp.py *)
router_server_configure == Check(execute_command)
router_routes == execute_command
set_eth_interface_ipv4_address == execute_command \o Check(execute_command)
tftp_server_boot ==
    connect \o set_eth_interface_ipv4_address \o Check(execute_command) \o Check(execute_command)
tftp_post_deploy == execute_command
set_tmp_static_ip == Cmds(6) \o Cmds(2)
lighttpd == execute_command

ClientOps ==
    [get_default_gateway |-> get_default_gateway, check_dut_iface |-> check_dut_iface,
     check_dut_iface_async |-> check_dut_iface_async,
     configure_dhclient_option60 |-> configure_dhclient_option60,
     configure_dhclient_option61 |-> configure_dhclient_option61,
     configure_dhclient_option125 |-> configure_dhclient_option125,
     configure_dhcpv6_option17 |-> configure_dhcpv6_option17,
     start_ipv4_lan_client |-> start_ipv4_lan_client,
     start_ipv4_lan_client_async |-> start_ipv4_lan_client_async,
     start_ipv6_lan_client |-> start_ipv6_lan_client,
     start_ipv6_lan_client_async |-> start_ipv6_lan_client_async,
     lan_configure |-> lan_configure, lan_configure_async |-> lan_configure_async,
     lan_contingency_check |-> lan_contingency_check, enable_ipv6 |-> enable_ipv6,
     disable_ipv6 |-> disable_ipv6, get_interface_mtu_size |-> get_interface_mtu_size,
     add_hosts_entry |-> add_hosts_entry, delete_hosts_entry |-> delete_hosts_entry,
     flush_arp_cache |-> flush_arp_cache, get_arp_table |-> get_arp_table,
     delete_arp_table_entry |-> delete_arp_table_entry, add_vlan_interface |-> add_vlan_interface,
     delete_vlan_interface |-> delete_vlan_interface, execute_time_sync |-> execute_time_sync,
     get_interface_stats |-> get_interface_stats, setup_wan |-> setup_wan,
     add_env_variable |-> add_env_variable, wan_contingency_check |-> wan_contingency_check,
     download_image_to_tftpboot |-> download_image_to_tftpboot,
     execute_snmp_command |-> execute_snmp_command,
     reverse_ssh_successful |-> reverse_ssh_successful,
     get_network_statistics |-> get_network_statistics,
     wan_interface_mtu_size |-> wan_interface_mtu_size, wan_add_route |-> wan_add_route,
     wan_delete_route |-> wan_delete_route, reset_wifi_iface |-> reset_wifi_iface,
     start_ipv4_wlan_client |-> start_ipv4_wlan_client,
     start_ipv6_wlan_client |-> start_ipv6_wlan_client,
     set_wlan_scan_channel |-> set_wlan_scan_channel,
     iwlist_supported_channels |-> iwlist_supported_channels, wifi_disconnect |-> wifi_disconnect,
     change_wifi_region |-> change_wifi_region, wifi_client_connect |-> wifi_client_connect,
     wlan_configure |-> wlan_configure, wlan_ipv6 |-> wlan_ipv6,
     wlan_interface_mtu_size |-> wlan_interface_mtu_size, monitor_mode |-> monitor_mode,
     is_monitor_mode_enabled |-> is_monitor_mode_enabled,
     wlan_default_gateway |-> wlan_default_gateway, wlan_time_sync |-> wlan_time_sync,
     router_server_configure |-> router_server_configure, router_routes |-> router_routes,
     tftp_server_boot |-> tftp_server_boot, tftp_post_deploy |-> tftp_post_deploy,
     set_tmp_static_ip |-> set_tmp_static_ip, lighttpd |-> lighttpd]
=============================================================================
