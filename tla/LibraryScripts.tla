---------------------------- MODULE LibraryScripts ----------------------------
(***************************************************************************)
(* The console operations of the libraries (src/boardfarm3/lib): those of  *)
(* networking.py, multicast.py, network_utils.py and dmcli.py, which work  *)
(* on whatever console they were given, and those of the CPE's software.   *)
(***************************************************************************)
EXTENDS LinuxDeviceScripts

(* networking.py *)
start_tcpdump == Job \o Echo \o Prompt \o Try(Text, Raise)
stop_tcpdump == execute_command \o Maybe(Try(Text, Raise)) \o execute_command
tcpdump_read == execute_command \o Maybe(execute_command)
(* The prompt behind scp is never expected. *)
scp == Ask \o Try(Text \o Reply, <<>>) \o Try(Text \o Reply, <<>>) \o Try(Text, Raise)
traceroute_host == execute_command
get_iptables_list == execute_command
get_ip6tables_list == execute_command
get_iptables_policy == execute_command
get_ip6tables_policy == execute_command
add_drop_rule_iptables == execute_command \o Maybe(execute_command) \o Maybe(Raise)
add_drop_rule_ip6tables == execute_command \o Maybe(execute_command) \o Maybe(Raise)
del_drop_rule == execute_command
nslookup == execute_command
HTTPResult == Maybe(Raise)
curl_http_get == execute_command \o HTTPResult
dns_lookup == execute_command
is_link_up == execute_command

(* multicast.py *)
kill_all_iperf_sessions == Interrupt \o Prompt \o execute_command
read_mcast_trace == execute_command
parse_mcast_trace == Either(Raise, read_mcast_trace)
iperf_session_check == Either(Raise, Check(execute_command))
Background == Job \o Echo \o Prompt
join_iperf_multicast_ssm_group == iperf_session_check \o Background \o execute_command
join_iperf_multicast_asm_group == iperf_session_check \o Background \o execute_command
leave_iperf_multicast_group == Check(execute_command) \o Cmds(3)
start_iperf_multicast_stream == iperf_session_check \o Background \o execute_command
wait_for_multicast_stream_to_end ==
    execute_command
        \o Either(execute_command,
                   execute_command \o Either(execute_command, Cmds(2) \o Raise))
multicast_report == Check(execute_command)
send_igmpv3_report == Check(multicast_report)
multicast_mldv2_report == Check(multicast_report)
gateway_mac_addr == Check(execute_command) \o Check(execute_command)

(* network_utils.py and dmcli.py *)
netstat == execute_command
tftp == Check(execute_command)
gen_uuid == execute_command
trigger_dmcli_cmd == Check(execute_command)

(* cpe_sw.py *)
get_seconds_uptime == Check(execute_command)
sw_interface_ip_address == execute_command
sw_interface_ipv6_address == Check(sw_interface_ip_address)
sw_interface_ipv4addr == Check(sw_interface_ip_address)
(* A missing address is a ValueError, which is caught. *)
is_online == Either(Raise, <<>>) \o Maybe(sw_interface_ip_address) \o Maybe(sw_interface_ip_address)
get_interface_ipv4_netmask == Check(execute_command)
get_interface_mac_addr == execute_command
get_load_avg == Check(execute_command)
get_memory_utilization == execute_command
(* It waits for a time, and consumes nothing. *)
get_board_logs == Either(Blank, Raise)
read_event_logs == execute_command
get_running_processes == execute_command
kill_process_immediately == execute_command
get_file_content == execute_command
add_info_to_file == execute_command
sw_get_date == execute_command
sw_set_date == execute_command
lan_network_ipv4 == get_interface_ipv4_netmask

LibraryOps ==
    [start_tcpdump |-> start_tcpdump, stop_tcpdump |-> stop_tcpdump, tcpdump_read |-> tcpdump_read,
     scp |-> scp, traceroute_host |-> traceroute_host, get_iptables_list |-> get_iptables_list,
     get_ip6tables_list |-> get_ip6tables_list, get_iptables_policy |-> get_iptables_policy,
     get_ip6tables_policy |-> get_ip6tables_policy,
     add_drop_rule_iptables |-> add_drop_rule_iptables,
     add_drop_rule_ip6tables |-> add_drop_rule_ip6tables, del_drop_rule |-> del_drop_rule,
     nslookup |-> nslookup, curl_http_get |-> curl_http_get, dns_lookup |-> dns_lookup,
     is_link_up |-> is_link_up, kill_all_iperf_sessions |-> kill_all_iperf_sessions,
     parse_mcast_trace |-> parse_mcast_trace,
     join_iperf_multicast_ssm_group |-> join_iperf_multicast_ssm_group,
     join_iperf_multicast_asm_group |-> join_iperf_multicast_asm_group,
     leave_iperf_multicast_group |-> leave_iperf_multicast_group,
     start_iperf_multicast_stream |-> start_iperf_multicast_stream,
     wait_for_multicast_stream_to_end |-> wait_for_multicast_stream_to_end,
     send_igmpv3_report |-> send_igmpv3_report, multicast_mldv2_report |-> multicast_mldv2_report,
     gateway_mac_addr |-> gateway_mac_addr, netstat |-> netstat, tftp |-> tftp,
     gen_uuid |-> gen_uuid, trigger_dmcli_cmd |-> trigger_dmcli_cmd,
     get_seconds_uptime |-> get_seconds_uptime, is_online |-> is_online,
     sw_interface_ipv6_address |-> sw_interface_ipv6_address,
     sw_interface_ipv4addr |-> sw_interface_ipv4addr,
     get_interface_mac_addr |-> get_interface_mac_addr, get_load_avg |-> get_load_avg,
     get_memory_utilization |-> get_memory_utilization, get_board_logs |-> get_board_logs,
     read_event_logs |-> read_event_logs, get_running_processes |-> get_running_processes,
     kill_process_immediately |-> kill_process_immediately, get_file_content |-> get_file_content,
     add_info_to_file |-> add_info_to_file, sw_get_date |-> sw_get_date, sw_set_date |-> sw_set_date,
     lan_network_ipv4 |-> lan_network_ipv4]
=============================================================================
