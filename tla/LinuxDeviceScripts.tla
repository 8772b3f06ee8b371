------------------------- MODULE LinuxDeviceScripts -------------------------
(***************************************************************************)
(* The console operations of the connections (src/boardfarm3/lib/          *)
(* connections) and of LinuxDevice, the base class of the devices          *)
(* (src/boardfarm3/devices/base_devices/linux_device.py).                  *)
(***************************************************************************)
EXTENDS Scripts

(* Of the connections. *)
execute_command == Line \o Echo \o Prompt
Cmds(n) == FlattenSeq([i \in 1 .. n |-> execute_command])
ssh_login == Spawn \o Spot(<<>>, Raise) \o Reply \o Prompt
telnet_login == Attach \o Check(Text)
ser2net_login == telnet_login \o Attach \o Text
local_login == Spawn \o Maybe(Spot(<<>>, Raise) \o Reply) \o Prompt
ldap_login == Spawn \o Spot(<<>>, Raise) \o Reply \o Try(Text, <<>>) \o Blank \o Blank
check_output == Blank \o Line \o Echo \o Try(Prompt, Interrupt \o Raise)
sudo_sendline == Either(Line, Ask \o Spot(Reply \o Prompt, <<>>) \o Line)

(* Of LinuxDevice. *)
static_routes == Loop(Try(Cmds(2), <<>>))
connect == Maybe(ssh_login \o execute_command)
nw_interface_ip_address == execute_command
interface_mask == Check(execute_command)
scp_local_files == Spawn \o Try(Spot(Maybe(Reply), Raise), Raise) \o Prompt \o Maybe(Raise)
download_file_from_uri == Either(scp_local_files, Check(execute_command))

curl == Line \o Text \o Try(Prompt, Interrupt \o Prompt)
set_link_state == sudo_sendline \o Prompt
get_interface_macaddr == Line \o Text \o Prompt
ping == Line \o Prompt
traceroute == Try(Line \o Echo \o Prompt, Interrupt \o Prompt)
run_command_with_args == sudo_sendline \o Prompt
tcpdump_read_pcap == Check(run_command_with_args) \o Maybe(sudo_sendline \o Prompt)
tshark_read_pcap == Check(run_command_with_args) \o Maybe(sudo_sendline \o Prompt)
release_dhcp == sudo_sendline \o Prompt
renew_dhcp == sudo_sendline \o Try(Prompt, Interrupt \o Prompt)
(* The expect after Ctrl-C is not awaited: it is never made. *)
renew_dhcp_async == sudo_sendline \o Try(Prompt, Interrupt)
release_ipv6 == sudo_sendline \o Prompt
renew_ipv6 == sudo_sendline \o Try(Prompt, Interrupt \o Prompt)
start_http_service == Job \o Echo \o Prompt \o Maybe(Raise)
stop_http_service ==
    execute_command \o Maybe(Cmds(2) \o Loop(execute_command) \o Maybe(Raise))
http_get == Check(execute_command)
nmap == Either(Raise, execute_command)
start_danteproxy == Maybe(Line \o Prompt \o execute_command)
stop_danteproxy == execute_command
(* The coroutine is made and never awaited. *)
stop_danteproxy_async == <<>>
start_traffic == Job \o Echo \o Prompt \o Check(execute_command)
stop_traffic == Cmds(3)
delete_file == execute_command
get_date == execute_command
set_date == execute_command
send_multicast_report == Check(execute_command)
send_mldv2_report == Check(send_multicast_report)
set_static_ip == execute_command \o Check(nw_interface_ip_address)
remove_static_ip == execute_command \o Check(nw_interface_ip_address)
del_default_route == execute_command
set_default_gw == execute_command \o Check(execute_command) \o Check(Cmds(2))
start_nping == Job \o Echo \o Prompt \o Either(Raise, Check(execute_command))
stop_nping == execute_command \o Loop(execute_command) \o Maybe(Cmds(2)) \o Check(execute_command)
hping_flood == execute_command
hostname == execute_command
get_process_id == execute_command
kill_process == Check(Cmds(2))
create_upnp_rule == execute_command
delete_upnp_rule == execute_command
get_resolv_conf == execute_command

(* A command that a here-document continues over several lines. *)
Plain == Line \o Prompt

LinuxDeviceOps ==
    [execute_command |-> execute_command, ssh_login |-> ssh_login, telnet_login |-> telnet_login,
     ser2net_login |-> ser2net_login, local_login |-> local_login, ldap_login |-> ldap_login,
     check_output |-> check_output, sudo_sendline |-> sudo_sendline \o Prompt,
     static_routes |-> static_routes, connect |-> connect,
     interface_mask |-> interface_mask, scp_local_files |-> scp_local_files,
     download_file_from_uri |-> download_file_from_uri, curl |-> curl,
     set_link_state |-> set_link_state, get_interface_macaddr |-> get_interface_macaddr,
     ping |-> ping, traceroute |-> traceroute, tcpdump_read_pcap |-> tcpdump_read_pcap,
     tshark_read_pcap |-> tshark_read_pcap, release_dhcp |-> release_dhcp,
     renew_dhcp |-> renew_dhcp, renew_dhcp_async |-> renew_dhcp_async,
     release_ipv6 |-> release_ipv6, renew_ipv6 |-> renew_ipv6,
     start_http_service |-> start_http_service, stop_http_service |-> stop_http_service,
     http_get |-> http_get, nmap |-> nmap, start_danteproxy |-> start_danteproxy,
     stop_danteproxy |-> stop_danteproxy, stop_danteproxy_async |-> stop_danteproxy_async,
     start_traffic |-> start_traffic, stop_traffic |-> stop_traffic, delete_file |-> delete_file,
     get_date |-> get_date, set_date |-> set_date, send_mldv2_report |-> send_mldv2_report,
     set_static_ip |-> set_static_ip, remove_static_ip |-> remove_static_ip,
     del_default_route |-> del_default_route, set_default_gw |-> set_default_gw,
     start_nping |-> start_nping, stop_nping |-> stop_nping, hping_flood |-> hping_flood,
     hostname |-> hostname, get_process_id |-> get_process_id, kill_process |-> kill_process,
     create_upnp_rule |-> create_upnp_rule, delete_upnp_rule |-> delete_upnp_rule,
     get_resolv_conf |-> get_resolv_conf]
=============================================================================
