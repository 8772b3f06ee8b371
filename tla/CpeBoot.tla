-------------------------------- MODULE CpeBoot --------------------------------
(***************************************************************************)
(* The boot of a CPE (src/boardfarm3/devices): a connection to it is       *)
(* opened, the DHCP servers are provisioned for it, it is rebooted, waited *)
(* for, and told the URL of the ACS.  The classes differ in what a reboot  *)
(* does to the connection; the objects of the CPE's software library keep  *)
(* the connection they were built with.                                    *)
(***************************************************************************)
EXTENDS KeaProvisioner, FiniteSets, SequencesExt

CONSTANTS
    Mac,            \* of the CPE that boots
    MaxConsoles     \* a bound on the connections the reconnecting goes through

ASSUME CpeAssumption == Mac \in Macs /\ MaxConsoles \in Nat \ {0, 1}

VARIABLES
    class,      \* "prplos", "rpirdkb" or "bananapi"
    powerport,  \* whether the inventory names a power outlet
    reset,      \* whether the environment asks for a factory reset
    boot,       \* where the boot is
    connection, \* hw._console: the number of the connection, from 1
    opened,     \* how many connections were made
    alive,      \* the connections that are not closed
    handles,    \* the connection that nw_utility, firewall and dmcli hold
    resets,     \* how often a user asked for a reset(), at most once
    cwmp,       \* of the TR-069 client: the URL it holds and the one it runs on
    pending     \* what is still to do of the management server's settings

cpeVars == <<class, powerport, reset, boot, connection, opened, alive, handles, resets, cwmp,
             pending>>

CpeTypeOK ==
    /\ class \in {"prplos", "rpirdkb", "bananapi"}
    /\ powerport \in BOOLEAN /\ reset \in BOOLEAN
    /\ boot \in {"idle", "connect", "login", "provision", "provisioning", "cycle",
                 "reconnect", "relogin", "hw_boot", "factory_reset", "online", "management",
                 "booted", "raised", "reset", "shut"}
    /\ opened \in 0 .. MaxConsoles /\ connection \in 0 .. opened
    /\ alive \subseteq 1 .. opened /\ handles \in 0 .. opened
    /\ resets \in 0 .. 1
    /\ cwmp \in [held : {"old", "new"}, runs : {"off", "old", "new"}]
    /\ pending \in Seq({"url", "off", "on"})

CpeInit ==
    /\ class \in {"prplos", "rpirdkb", "bananapi"}
    /\ powerport \in BOOLEAN /\ reset \in BOOLEAN
    /\ class # "bananapi" => powerport = (class = "rpirdkb")
    /\ class # "rpirdkb" => ~reset
    /\ boot = "idle"
    /\ connection = 0 /\ opened = 0 /\ alive = {} /\ handles = 0
    /\ resets = 0
    /\ cwmp = [held |-> "old", runs |-> "old"] /\ pending = <<>>

-----------------------------------------------------------------------------
fixed == <<class, powerport, reset>>

(* boardfarm_device_boot, and boardfarm_skip_boot where the servers were   *)
(* not configured.                                                         *)
BootBegins ==
    /\ boot = "idle"
    /\ boot' = "connect"
    /\ UNCHANGED <<fixed, keaVars, connection, opened, alive, handles, resets, cwmp, pending>>

(* connect_to_consoles: the connection is kept before it has logged in.    *)
ConsoleOpened ==
    /\ boot \in {"connect", "reconnect"} /\ opened < MaxConsoles
    /\ opened' = opened + 1 /\ connection' = opened'
    /\ alive' = alive \cup {opened'}
    /\ boot' = IF boot = "connect" THEN "login" ELSE "relogin"
    /\ UNCHANGED <<fixed, keaVars, handles, resets, cwmp, pending>>

LoggedIn ==
    /\ boot = "login"
    /\ handles' = connection
    /\ boot' = IF options THEN "provision" ELSE "booted"
    /\ UNCHANGED <<fixed, keaVars, connection, opened, alive, resets, cwmp, pending>>

Provisioning ==
    /\ boot = "provision"
    /\ ProvisionBegins(Mac, {})
    /\ boot' = "provisioning"
    /\ UNCHANGED <<fixed, connection, opened, alive, handles, resets, cwmp, pending>>

Defect_Provisioned ==
    /\ boot = "provisioning"
    /\ ProvisionEnds
    /\ boot' = "cycle"
    /\ handles' = IF class = "bananapi" THEN handles ELSE connection
    /\ UNCHANGED <<fixed, connection, opened, alive, resets, cwmp, pending>>

Provisioned ==
    /\ boot = "provisioning"
    /\ ProvisionEnds
    /\ boot' = IF provision.at = "returned" THEN "cycle" ELSE "raised"
    /\ handles' = IF class = "bananapi" THEN handles ELSE connection
    /\ UNCHANGED <<fixed, connection, opened, alive, resets, cwmp, pending>>

(* The TR-069 client comes back up with the URL it holds. *)
Rebooted ==
    cwmp' = [cwmp EXCEPT !.runs = IF @ = "off" THEN "off" ELSE cwmp.held]

AfterCycle == IF resets = 0 THEN "hw_boot" ELSE "booted"

(* power_cycle of a prplOS device closes the connection and opens another. *)
PrplDockerCycles ==
    class = "prplos" /\ boot' = "reconnect" /\ alive' = alive \ {connection}

(* The outlet; the serial line stays, as get_pdu would raise without one.  *)
RPiCycles == class = "rpirdkb" /\ boot' = AfterCycle /\ UNCHANGED alive

(* Without an outlet the connection may end with the container. *)
BananaPiCycles ==
    /\ class = "bananapi"
    /\ \/ boot' = AfterCycle /\ UNCHANGED alive
       \/ ~powerport /\ boot' = "reconnect" /\ alive' = alive \ {connection}

PowerCycled ==
    /\ boot = "cycle"
    /\ Rebooted
    /\ PrplDockerCycles \/ RPiCycles \/ BananaPiCycles
    /\ UNCHANGED <<fixed, keaVars, connection, opened, handles, resets, pending>>

(* A BananaPi whose connection changed builds its software library again,  *)
(* in its boot but not in a later reset.                                   *)
LoggedInAgain ==
    /\ boot = "relogin"
    /\ boot' = AfterCycle
    /\ handles' = IF class = "bananapi" /\ resets = 0 THEN connection ELSE handles
    /\ UNCHANGED <<fixed, keaVars, connection, opened, alive, resets, cwmp, pending>>

(* A BananaPi closes the connection that does not log in and tries again   *)
(* until its deadline.                                                     *)
LoginFailsAgain ==
    /\ boot = "relogin" /\ class = "bananapi"
    /\ alive' = alive \ {connection}
    /\ boot' \in {"reconnect", "raised"}
    /\ opened = MaxConsoles => boot' = "raised"
    /\ UNCHANGED <<fixed, keaVars, connection, opened, handles, resets, cwmp, pending>>

(* wait_for_hw_boot *)
InterfaceUp ==
    /\ boot = "hw_boot"
    /\ boot' = IF reset THEN "factory_reset" ELSE "online"
    /\ UNCHANGED <<fixed, keaVars, connection, opened, alive, handles, resets, cwmp, pending>>

FactoryReset ==
    /\ boot = "factory_reset"
    /\ cwmp' = [held |-> "old", runs |-> "old"]
    /\ boot' = "online"
    /\ UNCHANGED <<fixed, keaVars, connection, opened, alive, handles, resets, pending>>

(* configure_management_server of the two, and _prep_device of a BananaPi. *)
PrplOSSettings == <<"url", "off", "on">>
RPiSettings == <<"url", "off", "on">>
BananaPiSettings == <<"off", "url", "on">>
SettingsOf == [prplos |-> PrplOSSettings, rpirdkb |-> RPiSettings, bananapi |-> BananaPiSettings]

(* wait_device_online *)
Online ==
    /\ boot = "online"
    /\ boot' = "management"
    /\ pending' = SettingsOf[class]
    /\ UNCHANGED <<fixed, keaVars, connection, opened, alive, handles, resets, cwmp>>

(* Switching the client on has it read its URL. *)
SettingMade ==
    /\ boot = "management" /\ pending # <<>>
    /\ cwmp' = CASE Head(pending) = "url" -> [cwmp EXCEPT !.held = "new"]
                 [] Head(pending) = "off" -> [cwmp EXCEPT !.runs = "off"]
                 [] OTHER -> [cwmp EXCEPT !.runs = cwmp.held]
    /\ pending' = Tail(pending)
    /\ UNCHANGED <<fixed, keaVars, boot, connection, opened, alive, handles, resets>>

BootReturns ==
    /\ boot = "management" /\ pending = <<>>
    /\ boot' = "booted"
    /\ UNCHANGED <<fixed, keaVars, connection, opened, alive, handles, resets, cwmp, pending>>

(* Where the boot can raise: no connection, no login, no provisioner, no   *)
(* reboot seen, no interface, not online, no setting made.                 *)
BootRaises ==
    /\ boot \in {"connect", "login", "provision", "cycle", "reconnect", "hw_boot",
                 "factory_reset", "online", "management"} \/ (boot = "relogin" /\ class = "prplos")
    /\ boot' = "raised"
    /\ UNCHANGED <<fixed, keaVars, connection, opened, alive, handles, resets, cwmp, pending>>

ResetByUser ==
    /\ boot = "booted" /\ resets = 0 /\ provision.at = "idle"
    /\ resets' = 1 /\ boot' = "cycle"
    /\ UNCHANGED <<fixed, keaVars, connection, opened, alive, handles, cwmp, pending>>

ProvisionedByUser ==
    /\ boot = "booted"
    /\ \/ \E m \in Macs, given \in SUBSET Families : ProvisionBegins(m, given)
       \/ ProvisionEnds
    /\ UNCHANGED cpeVars

(* boardfarm_shutdown_device *)
CpeShutDown ==
    /\ boot \in {"booted", "raised"} /\ provision.at = "idle"
    /\ boot' = "shut"
    /\ alive' = alive \ {connection}
    /\ UNCHANGED <<fixed, keaVars, connection, opened, handles, resets, cwmp, pending>>

CpeSteps ==
    \/ BootBegins \/ ConsoleOpened \/ LoggedIn \/ Provisioning \/ Provisioned \/ PowerCycled
    \/ LoggedInAgain \/ LoginFailsAgain \/ InterfaceUp \/ FactoryReset \/ Online
    \/ SettingMade \/ BootReturns \/ BootRaises
    \/ KeaSteps /\ UNCHANGED cpeVars

CpeEnded == boot = "shut" /\ UNCHANGED <<cpeVars, keaVars>>

CpeNext == CpeSteps \/ ResetByUser \/ ProvisionedByUser \/ CpeShutDown \/ CpeEnded

(* The hooks run on: every wait for a connection has a timeout.            *)
CpeSpec ==
    CpeInit /\ KeaInit /\ [][CpeNext]_<<cpeVars, keaVars>> /\ WF_<<cpeVars, keaVars>>(CpeSteps)

-----------------------------------------------------------------------------
(* Properties *)

(* When the boot of an RDK-B device returns, the objects of its software   *)
(* library hold the connection that is open, although the reboot may have  *)
(* replaced it; those of a prplOS device hold the closed one.              *)
HandlesLive ==
    boot = "booted" /\ resets = 0 /\ class # "prplos" => handles \in alive

(* The shutdown leaves no connection open, however many the reconnecting   *)
(* went through and wherever the boot raised.                              *)
ConnectionsClosed == boot = "shut" => alive = {}

(* A CPE is rebooted by its boot only when both DHCP servers run with its  *)
(* configuration: the addresses it asks for are the reserved ones.         *)
RebootsProvisioned ==
    boot \in {"reconnect", "relogin", "hw_boot"} /\ resets = 0 =>
        \A f \in Families : served[f].mac = Mac

(* At the end of a full boot the TR-069 client runs on the URL it was      *)
(* given, not on the one it held before.                                   *)
ClientOnNewUrl == boot = "booted" /\ options /\ resets = 0 => cwmp.runs = "new"

(* A boot returns or raises, also where it connects again and again.       *)
CpeBootEnds == boot = "connect" ~> boot \in {"booted", "raised"}

(* A boot, whatever connections it went through, leaves a CPE that its     *)
(* objects can talk to, that got its own addresses and reports to its ACS, *)
(* and no connection that nobody closes.                                   *)
BootIsSound == HandlesLive /\ ConnectionsClosed /\ RebootsProvisioned /\ ClientOnNewUrl
=============================================================================
