---------------------------- MODULE KeaProvisioner ----------------------------
(***************************************************************************)
(* KeaProvisioner.provision_cpe (src/boardfarm3/devices/                   *)
(* kea_provisioner.py): the configuration of the two DHCP servers is       *)
(* written for a CPE and both servers are started again.  Of the options   *)
(* it keeps whether the DNS server is served and how often the acs-url     *)
(* was encoded.                                                            *)
(***************************************************************************)
EXTENDS Naturals

CONSTANTS
    Macs,           \* the CPEs that are provisioned
    NoMac,
    MaxEncodings    \* a bound on how often the kept options are used

ASSUME MacAssumption == NoMac \notin Macs
ASSUME EncodingsAssumption == MaxEncodings \in Nat \ {0}

VARIABLES
    options,    \* whether boardfarm_server_configure set the default options
    encoded,    \* how often the acs-url of each default option was encoded
    file,       \* the configuration file of each server
    served,     \* what each server has read, if it runs
    provision   \* where provision_cpe is, for which CPE, with whose options

keaVars == <<options, encoded, file, served, provision>>

Families == {"dhcp4", "dhcp6"}
Config == [mac : Macs, dns : BOOLEAN, url : 0 .. MaxEncodings]
Nothing == [mac |-> NoMac, dns |-> FALSE, url |-> 0]
NoCall == [at |-> "idle", mac |-> NoMac, given |-> {}]

KeaTypeOK ==
    /\ options \in BOOLEAN
    /\ encoded \in [Families -> 0 .. MaxEncodings]
    /\ file \in [Families -> Config \cup {Nothing}]
    /\ served \in [Families -> Config \cup {Nothing}]
    /\ provision \in [at : {"idle", "dhcp4.conf", "dhcp6.conf", "stop", "dhcp4", "dhcp6",
                            "returned", "raised"},
                      mac : Macs \cup {NoMac}, given : SUBSET Families]

(* With --skip-boot the options are never set. *)
KeaInit ==
    /\ options \in BOOLEAN
    /\ encoded = [f \in Families |-> 0]
    /\ file = [f \in Families |-> Nothing]
    /\ served = [f \in Families |-> Nothing]
    /\ provision = NoCall

-----------------------------------------------------------------------------
Goes(place) == provision' = [provision EXCEPT !.at = place]

(* provision_cpe: the caller gives the options of some families, and       *)
(* leaves those of the others empty.                                       *)
ProvisionBegins(mac, given) ==
    /\ provision.at = "idle"
    /\ provision' = [at |-> "dhcp4.conf", mac |-> mac, given |-> given]
    /\ UNCHANGED <<options, encoded, file, served>>

Defect_ConfigOf(f) ==
    IF f \in provision.given
    THEN [mac |-> NoMac, dns |-> FALSE, url |-> 1]
    ELSE [mac |-> provision.mac, dns |-> TRUE, url |-> encoded[f] + 1]

(* _get_dhcp_ipv4_config and _get_dhcp_ipv6_config: options that are given *)
(* are all there is, and without any the default ones are encoded in       *)
(* place; there are none if nothing was configured, which raises.          *)
ConfigOf(f) ==
    IF f \in provision.given
    THEN [mac |-> provision.mac, dns |-> FALSE, url |-> 1]
    ELSE [mac |-> provision.mac, dns |-> TRUE, url |-> encoded[f] + 1]

ConfigWritten(f, place) ==
    /\ f \in provision.given \/ (options /\ encoded[f] < MaxEncodings)
    /\ file' = [file EXCEPT ![f] = ConfigOf(f)]
    /\ encoded' = IF f \in provision.given THEN encoded
                  ELSE [encoded EXCEPT ![f] = @ + 1]
    /\ Goes(place)
    /\ UNCHANGED <<options, served>>

WriteConfigs ==
    \/ provision.at = "dhcp4.conf" /\ ConfigWritten("dhcp4", "dhcp6.conf")
    \/ provision.at = "dhcp6.conf" /\ ConfigWritten("dhcp6", "stop")

Defect_StopServers ==
    /\ provision.at = "stop"
    /\ Goes("dhcp4")
    /\ UNCHANGED <<options, encoded, file, served>>

(* keactrl stop *)
StopServers ==
    /\ provision.at = "stop"
    /\ served' = [f \in Families |-> Nothing]
    /\ Goes("dhcp4")
    /\ UNCHANGED <<options, encoded, file>>

(* keactrl start reads the file; it leaves a server alone that runs.       *)
ServerStarted(f, place) ==
    /\ provision.at = f
    /\ served' = IF served[f] = Nothing THEN [served EXCEPT ![f] = file[f]] ELSE served
    /\ Goes(place)
    /\ UNCHANGED <<options, encoded, file>>

StartServers == ServerStarted("dhcp4", "dhcp6") \/ ServerStarted("dhcp6", "returned")

(* No option to encode, no prompt, or a server that does not start.        *)
ProvisionRaises ==
    /\ provision.at \notin {"idle", "returned", "raised"}
    /\ Goes("raised")
    /\ UNCHANGED <<options, encoded, file, served>>

ProvisionEnds ==
    /\ provision.at \in {"returned", "raised"}
    /\ provision' = NoCall
    /\ UNCHANGED <<options, encoded, file, served>>

KeaSteps == WriteConfigs \/ StopServers \/ StartServers \/ ProvisionRaises

-----------------------------------------------------------------------------
(* Properties *)

(* When provision_cpe returns, both servers serve what it wrote for its    *)
(* CPE, whatever calls failed half way before it: no server is left on the *)
(* configuration of an earlier call.                                       *)
ServesWhatItWrote ==
    provision.at = "returned" =>
        \A f \in Families : served[f] = file[f] /\ served[f].mac = provision.mac
=============================================================================
