SPECIFICATION DevicesSpec
CONSTANTS
    Studied <- MCStudied
    Probes = {"execute_command", "ping", "curl", "check_output", "start_http_service", "set_link_state", "renew_dhcp"}
    Echoing = {"execute_command"}
    Astray = {"ldap_login", "get_board_logs", "scp", "start_ipv6_lan_client_async", "start_ipv6_lan_client", "start_ipv4_lan_client", "start_ipv4_lan_client_async"}
    Resigned = {"static_routes", "setup_wan", "wlan_configure", "kamailio_configure", "phone_setup", "phone_setup_async", "rpi_cpe_id", "rpi_wait_device_online", "rpi_configure_management_server", "rpi_device_configure"}
    Sessions = {s1, s2}
    Hosts = {lan, wan}
    Ports = {p1, p2}
    Both = FALSE
    HttpPorts = {80, 443}
    OtherUses = {"nping", "other_nping", "capture", "server_stopped"}
    MaxDepth = 2
    Rpcs = {"SPV", "AddObject", "Reboot"}
    Length = 3
    Values = {"a", "b"}
    Retries = 2
    PhoneUses = {"dial", "answer", "hangup", "hold", "reinvite", "phone_start", "phone_kill", "is_idle", "is_ringing", "is_connected", "is_dialing", "is_onhold", "is_call_ended", "is_code_ended", "is_call_waiting", "is_playing_dialtone", "reply_with_code", "dial_feature_code", "is_dialtone_detected"}
    Lagging = {"hangup", "phone_start", "is_code_ended", "is_call_ended", "is_playing_dialtone", "is_dialtone_detected", "dial_feature_code"}
    MaxUses = 3
    MaxEvents = 2
INVARIANTS DevicesTypeOK 
PROPERTIES  BlocksUndone ProvisionedInOrder ProvisioningTakesEffect PhoneInStep
CHECK_DEADLOCK FALSE
