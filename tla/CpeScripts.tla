------------------------------ MODULE CpeScripts ------------------------------
(***************************************************************************)
(* The console operations of the CPEs (src/boardfarm3/devices/             *)
(* rpirdkb_cpe.py, prplos_cpe.py and bananapirdkb_cpe.py), of dmcli.py,    *)
(* and of the use cases that type on a console themselves.                 *)
(***************************************************************************)
EXTENDS ServerScripts

(* retry_on_exception (lib/utils.py): a try that raises, which may be a    *)
(* timeout, and the last one, twice of the times the code tries.           *)
RetriedOnException(script) == Maybe(Try(script, <<>>)) \o script

(* retry (lib/utils.py): as long as the result is false. *)
RetriedWhileFalse(script) == Maybe(script) \o script

(* dmcli.py *)
AddObject == trigger_dmcli_cmd \o Maybe(Raise)
SPV == trigger_dmcli_cmd
GPV == trigger_dmcli_cmd \o Maybe(Raise)
DelObject == trigger_dmcli_cmd
TriggeredAgain == RetriedOnException(execute_command) \o Maybe(Raise)

(* rpirdkb_cpe.py *)
rpi_mac_address == Either(<<>>, Either(execute_command, Raise))
rpi_serial_number == Maybe(execute_command)
rpi_wait_for_hw_boot == execute_command \o Maybe(execute_command) \o Maybe(Raise)
set_up_terminal == execute_command
rpi_version == execute_command
rpi_json_values == Check(execute_command)
rpi_cpe_id == Either(rpi_serial_number, TriggeredAgain \o TriggeredAgain \o rpi_serial_number)
rpi_lan_gateway_ipv4 == execute_command
erouter_addresses == execute_command \o Maybe(execute_command)
rpi_wait_device_online ==
    set_up_terminal \o RetriedOnException(erouter_addresses)
        \o Maybe(RetriedOnException(erouter_addresses)) \o Maybe(Raise)
rpi_configure_management_server ==
    TriggeredAgain \o TriggeredAgain \o TriggeredAgain \o TriggeredAgain
rpi_is_http_gui_running == execute_command
rpi_device_configure ==
    Check(rpi_is_http_gui_running) \o TriggeredAgain
        \o RetriedOnException(execute_command) \o RetriedOnException(execute_command)
(* The text is the kernel's, and the login of the console comes by itself. *)
rpi_factory_reset == set_up_terminal \o SPV \o Text \o Text
rpi_interface_mtu_size == Check(execute_command)

(* prplos_cpe.py *)
prpl_wait_for_hw_boot == execute_command \o Maybe(execute_command) \o Maybe(Raise)
prpl_version == execute_command
prpl_json_values == Check(execute_command)
prpl_cpe_id == Check(execute_command) \o Check(execute_command)
prpl_lan_gateway_ipv4 == execute_command
prpl_wait_device_online == erouter_addresses \o Maybe(erouter_addresses) \o Maybe(Raise)
prpl_is_http_gui_running == prpl_lan_gateway_ipv4 \o execute_command
prpl_device_configure ==
    RetriedWhileFalse(prpl_is_http_gui_running)
        \o Maybe(Cmds(2) \o RetriedWhileFalse(prpl_is_http_gui_running) \o Maybe(Raise))
prpl_interface_mtu_size == Check(execute_command)

(* bananapirdkb_cpe.py *)
banana_tr69_cpe_id == GPV
banana_prep_device ==
    Maybe(Raise) \o execute_command \o Maybe(execute_command)
        \o execute_command \o Maybe(execute_command) \o SPV \o SPV \o SPV \o SPV

(* use_cases: networking.py, dhcp.py, multicast.py and cpe.py *)
connect_via_ssh ==
    Ask \o Spot(Answer \o Spot(Interrupt \o Prompt, Check(execute_command)), <<>>)
remove_dhcp_inform_config == execute_command
remove_dhcp_option125 == Cmds(2)
is_multicast_stream_active == Either(Raise, execute_command)
StreamCheck == Check(is_multicast_stream_active)
mcast_join_ssm == StreamCheck \o Background \o execute_command
mcast_join_asm == StreamCheck \o Background \o execute_command
mcast_leave == StreamCheck \o Cmds(3) \o Maybe(Raise)
mcast_start_stream == StreamCheck \o Background \o execute_command
mcast_wait_for_stream ==
    Either(Raise, Loop(execute_command
        \o Either(<<>>, execute_command \o Maybe(execute_command)) \o execute_command))
        \o Maybe(Raise)
upload_file_to_tftp == execute_command \o Check(execute_command)

CpeOps ==
    [AddObject |-> AddObject, SPV |-> SPV, GPV |-> GPV, DelObject |-> DelObject,
     rpi_mac_address |-> rpi_mac_address, rpi_serial_number |-> rpi_serial_number,
     rpi_wait_for_hw_boot |-> rpi_wait_for_hw_boot, rpi_version |-> rpi_version,
     rpi_json_values |-> rpi_json_values, rpi_cpe_id |-> rpi_cpe_id,
     rpi_lan_gateway_ipv4 |-> rpi_lan_gateway_ipv4,
     rpi_wait_device_online |-> rpi_wait_device_online,
     rpi_configure_management_server |-> rpi_configure_management_server,
     rpi_device_configure |-> rpi_device_configure, rpi_factory_reset |-> rpi_factory_reset,
     rpi_interface_mtu_size |-> rpi_interface_mtu_size,
     prpl_wait_for_hw_boot |-> prpl_wait_for_hw_boot, prpl_version |-> prpl_version,
     prpl_json_values |-> prpl_json_values, prpl_cpe_id |-> prpl_cpe_id,
     prpl_wait_device_online |-> prpl_wait_device_online,
     prpl_device_configure |-> prpl_device_configure,
     prpl_interface_mtu_size |-> prpl_interface_mtu_size,
     banana_tr69_cpe_id |-> banana_tr69_cpe_id, banana_prep_device |-> banana_prep_device,
     connect_via_ssh |-> connect_via_ssh,
     remove_dhcp_inform_config |-> remove_dhcp_inform_config,
     remove_dhcp_option125 |-> remove_dhcp_option125, mcast_join_ssm |-> mcast_join_ssm,
     mcast_join_asm |-> mcast_join_asm, mcast_leave |-> mcast_leave,
     mcast_start_stream |-> mcast_start_stream, mcast_wait_for_stream |-> mcast_wait_for_stream,
     upload_file_to_tftp |-> upload_file_to_tftp]
=============================================================================
