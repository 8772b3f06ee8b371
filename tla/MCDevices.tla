------------------------------- MODULE MCDevices -------------------------------
(***************************************************************************)
(* Five parts of the devices that share no state: the scripts on a         *)
(* console, iperf traffic between two hosts, the use cases that are        *)
(* with-blocks, provisioning through an ACS, and a SIP phone.  One of them *)
(* runs in each behaviour.                                                 *)
(***************************************************************************)
EXTENDS Annotations, IperfTraffic, ManagedBlocks, Acs, Phone

VARIABLE focus

deviceVars == <<focus, consoleVars, trafficVars, blockVars, acsVars, phoneVars>>

(* The LAN clients' configuration, which only starts one or two of them    *)
(* after the static routes, is left to the operations it is made of.       *)
MCStudied == DOMAIN Ops \ {"lan_configure", "lan_configure_async"}

DevicesInit ==
    /\ focus \in {"console", "traffic", "blocks", "acs", "phone"}
    /\ ConsoleInit /\ (focus # "console" => script = Ops["execute_command"])
    /\ TrafficInit /\ (focus # "traffic" => \A s \in Sessions : route[s] = CHOOSE r \in Routes : TRUE)
    /\ BlocksInit
    /\ AcsInit /\ (focus # "acs" => keeps /\ program = CHOOSE p \in Programs : TRUE)
    /\ PhoneInit

DevicesNext ==
    /\ UNCHANGED focus
    /\ \/ focus = "console" /\ ConsoleNext /\ UNCHANGED <<trafficVars, blockVars, acsVars, phoneVars>>
       \/ focus = "traffic" /\ TrafficNext /\ UNCHANGED <<consoleVars, blockVars, acsVars, phoneVars>>
       \/ focus = "blocks" /\ BlocksNext /\ UNCHANGED <<consoleVars, trafficVars, acsVars, phoneVars>>
       \/ focus = "acs" /\ AcsNext /\ UNCHANGED <<consoleVars, trafficVars, blockVars, phoneVars>>
       \/ focus = "phone" /\ PhoneNext /\ UNCHANGED <<consoleVars, trafficVars, blockVars, acsVars>>

DevicesSpec ==
    /\ DevicesInit /\ [][DevicesNext]_deviceVars
    /\ WF_acsVars(focus = "acs" /\ ClientSteps)
    /\ WF_acsVars(focus = "acs" /\ InReachAgain)
    /\ SF_acsVars(focus = "acs" /\ Executed)

-----------------------------------------------------------------------------
(* Every variable of the five parts keeps its type: the console is at a    *)
(* step of its script, iperf processes are of the sessions that started    *)
(* them, and the ACS's queue keeps to its bound.                           *)
DevicesTypeOK == ConsoleTypeOK /\ TrafficTypeOK /\ BlocksTypeOK /\ AcsTypeOK /\ PhoneTypeOK
=============================================================================
