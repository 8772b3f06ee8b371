---------------------------- MODULE ServerScripts ----------------------------
(***************************************************************************)
(* The console operations of the servers and phones that are no            *)
(* LinuxDevice clients (src/boardfarm3/devices/kea_provisioner.py,         *)
(* kamailio.py and the set-up of pjsip_phone.py), and of SNMPv2            *)
(* (src/boardfarm3/lib/SNMPv2.py), which types on the console of the WAN.  *)
(***************************************************************************)
EXTENDS ClientScripts

(* kea_provisioner.py *)
kea_run_command_with_args == sudo_sendline \o Prompt
kea_tshark_read_pcap == Check(kea_run_command_with_args) \o Maybe(sudo_sendline \o Prompt)
kea_start_tcpdump == start_tcpdump
kea_stop_tcpdump == stop_tcpdump
kea_read_tcpdump == tcpdump_read
kea_delete_file == execute_command
kea_contingency_check == Maybe(Check(execute_command))
restart_dhcp_server == execute_command \o Check(execute_command) \o Check(execute_command)
(* Without options there is nothing to write: a KeyError. *)
provision_cpe == Maybe(Raise) \o Plain \o Maybe(Raise) \o Plain \o restart_dhcp_server

(* kamailio.py *)
configure_rtpengine == Cmds(2)
get_online_users == execute_command
get_status == execute_command
remove_endpoint == Check(execute_command)
kamailio_restart == execute_command
kamailio_start == execute_command
kamailio_stop == execute_command
get_expire_timer == Check(execute_command)
set_expire_timer == execute_command \o kamailio_restart
add_user == Either(Raise, Check(execute_command))
get_all_users == Check(Cmds(2)) \o Maybe(Raise)
kamailio_configure ==
    static_routes \o get_all_users \o Loop(remove_endpoint) \o Loop(add_user)
        \o configure_rtpengine \o set_expire_timer
get_vsc_prefix == Either(Raise, Check(execute_command))
set_cf_vsc == Loop(Check(execute_command) \o execute_command)

(* pjsip_phone.py *)
phone_setup ==
    Maybe(Cmds(2) \o Maybe(Cmds(2)) \o Maybe(Cmds(3)) \o Maybe(Cmds(2)) \o static_routes)
phone_setup_async ==
    Maybe(Cmds(2) \o Maybe(Cmds(2)) \o Maybe(Cmds(3)) \o Maybe(Cmds(2)) \o static_routes)

(* SNMPv2.py: an unknown MIB raises before anything is typed. *)
get_mib_oid == Maybe(Raise)
run_snmp_command == execute_snmp_command
parse_snmp_output == Maybe(Raise)
snmpget == get_mib_oid \o run_snmp_command \o parse_snmp_output
snmpset == get_mib_oid \o run_snmp_command \o parse_snmp_output \o Maybe(Raise)
snmpwalk == get_mib_oid \o run_snmp_command \o Maybe(Raise)
snmpbulkget == get_mib_oid \o execute_snmp_command \o Maybe(Raise)

ServerOps ==
    [kea_tshark_read_pcap |-> kea_tshark_read_pcap, kea_start_tcpdump |-> kea_start_tcpdump,
     kea_stop_tcpdump |-> kea_stop_tcpdump, kea_read_tcpdump |-> kea_read_tcpdump,
     kea_delete_file |-> kea_delete_file, kea_contingency_check |-> kea_contingency_check,
     provision_cpe |-> provision_cpe, get_online_users |-> get_online_users,
     get_status |-> get_status, remove_endpoint |-> remove_endpoint,
     kamailio_start |-> kamailio_start, kamailio_stop |-> kamailio_stop,
     get_expire_timer |-> get_expire_timer, set_expire_timer |-> set_expire_timer,
     add_user |-> add_user, get_all_users |-> get_all_users,
     kamailio_configure |-> kamailio_configure, get_vsc_prefix |-> get_vsc_prefix,
     set_cf_vsc |-> set_cf_vsc, phone_setup |-> phone_setup,
     phone_setup_async |-> phone_setup_async, snmpget |-> snmpget, snmpset |-> snmpset,
     snmpwalk |-> snmpwalk, snmpbulkget |-> snmpbulkget]
=============================================================================
