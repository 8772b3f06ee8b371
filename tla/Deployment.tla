------------------------------ MODULE Deployment ------------------------------
(***************************************************************************)
(* One deployment by the command line (src/boardfarm3/main.py): devices    *)
(* are reserved, registered as plugins, set up hook by hook                *)
(* (plugins/setup_environment.py), shut down and released                  *)
(* (plugins/core.py).  A stage calls one hook of every device: one after   *)
(* the other, or as the tasks of an asyncio TaskGroup.  A device is named  *)
(* by its class; there is at most one of a class, a bound of the model.    *)
(***************************************************************************)
EXTENDS Naturals, FiniteSets, SequencesExt

CONSTANTS
    Inventory,  \* the classes of device an inventory can have
    MaxDevices  \* a bound on the devices of one deployment

Classes == {"kea", "wan", "router", "tftp", "kamailio", "genie", "axiros", "cpe",
            "lan", "wlan", "phone"}

ASSUME InventoryAssumption == Inventory \subseteq Classes
ASSUME MaxDevicesAssumption == MaxDevices \in Nat \ {0}

VARIABLES
    at,         \* where main() is
    skipBoot,   \* cmdline_args.skip_boot
    registered, \* the devices, in the order they were registered
    bound,      \* whether main's device_manager has a value
    reserved,   \* whether the devices are reserved
    stage,      \* the position in the chain of hooks
    async,      \* whether the stage is a TaskGroup
    task,       \* how far the stage's hook of each device is
    ran,        \* the hooks that returned
    console,    \* _console of each device: None, created, logged in or closed
    client,     \* whether GenieACS._client was created
    outcome     \* deployment_status, and what happened to the release

deploymentVars == <<at, skipBoot, registered, bound, reserved, stage, async, task, ran,
                    console, client, outcome>>

Devices == ToSet(registered)

-----------------------------------------------------------------------------
(* The hooks that the classes implement, blocking and as a coroutine.      *)

Implements(blocking, coroutine) == [blocking |-> blocking, coroutine |-> coroutine]

KeaProvisioner ==
    Implements({"server_boot", "server_configure", "skip_boot", "shutdown"}, {})
LinuxWAN == Implements({"server_boot", "skip_boot", "shutdown"}, {"skip_boot"})
LinuxRouter ==
    Implements({"server_boot", "server_configure", "skip_boot", "shutdown"}, {"skip_boot"})
LinuxTFTP == Implements({"server_boot", "skip_boot"}, {"skip_boot"})
SIPcenterKamailio5 ==
    Implements({"server_boot", "server_configure", "skip_boot", "shutdown"}, {"skip_boot"})
GenieACS == Implements({"server_boot", "skip_boot", "shutdown"}, {})
AxirosACS == Implements({"server_boot", "skip_boot", "shutdown"}, {})
PrplDockerCPE == Implements({"device_boot", "device_configure", "skip_boot", "shutdown"}, {})
LinuxLAN ==
    Implements({"attached_device_boot", "attached_device_configure", "skip_boot", "shutdown"},
               {"attached_device_boot", "attached_device_configure", "skip_boot"})
LinuxWLAN ==
    Implements({"attached_device_boot", "attached_device_configure", "skip_boot", "shutdown"},
               {"attached_device_boot"})
PJSIPPhone ==
    Implements({"attached_device_boot", "attached_device_configure", "skip_boot"},
               {"attached_device_boot", "attached_device_configure", "skip_boot"})

HooksOf ==
    [kea |-> KeaProvisioner, wan |-> LinuxWAN, router |-> LinuxRouter, tftp |-> LinuxTFTP,
     kamailio |-> SIPcenterKamailio5, genie |-> GenieACS, axiros |-> AxirosACS,
     cpe |-> PrplDockerCPE, lan |-> LinuxLAN, wlan |-> LinuxWLAN, phone |-> PJSIPPhone]

Blocking(hook) == {d \in Devices : hook \in HooksOf[d].blocking}
Coroutine(hook) == {d \in Devices : hook \in HooksOf[d].coroutine}

Chain ==
    IF skipBoot
    THEN <<"skip_boot">>
    ELSE <<"validate_device_requirements", "server_boot", "server_configure",
           "device_boot", "device_configure",
           "attached_device_boot", "attached_device_configure">>
Hook == Chain[stage]

(* AxirosACS has a console too when the inventory gives it an address.     *)
Boots == {"server_boot", "device_boot", "attached_device_boot", "skip_boot"}
Connects(d) == Hook \in Boots

DeploymentTypeOK ==
    /\ at \in {"reserve", "parse", "register", "setup", "stage", "post", "release", "shutdown", "end"}
    /\ skipBoot \in BOOLEAN /\ bound \in BOOLEAN /\ reserved \in BOOLEAN
    /\ Devices \subseteq Inventory /\ Len(registered) <= MaxDevices
    /\ stage \in 1 .. Len(Chain) /\ async \in BOOLEAN
    /\ task \in [Classes -> {"none", "pending", "running", "done", "failed", "cancelled"}]
    /\ ran \subseteq Classes \X (ToSet(Chain) \cup {"shutdown"})
    /\ console \in [Classes -> {"none", "created", "open", "closed"}]
    /\ client \in BOOLEAN
    /\ outcome \in {"none", "success", "failed", "not_released"}

NoTask == [d \in Classes |-> "none"]

DeploymentInit ==
    /\ at = "reserve" /\ skipBoot \in BOOLEAN
    /\ registered = <<>> /\ bound = FALSE /\ reserved = FALSE
    /\ stage = 1 /\ async = FALSE /\ task = NoTask /\ ran = {}
    /\ console = [d \in Classes |-> "none"]
    /\ client = FALSE /\ outcome = "none"

-----------------------------------------------------------------------------
InState(s) == {d \in Classes : task[d] = s}

(* pluggy calls the plugins registered last first, but before them those   *)
(* that ask for it, as the CPEs do when the boot is skipped.               *)
Position(d) == CHOOSE i \in 1 .. Len(registered) : registered[i] = d
CalledFirst(hook, S) ==
    IF hook = "skip_boot" /\ "cpe" \in S
    THEN "cpe"
    ELSE CHOOSE d \in S : \A e \in S : Position(e) <= Position(d)

Reserve ==
    /\ at = "reserve"
    /\ reserved' = TRUE /\ at' = "parse"
    /\ UNCHANGED <<skipBoot, registered, bound, stage, async, task, ran, console, client, outcome>>

(* get_json and boardfarm_parse_config are called outside of the try.      *)
Parse ==
    /\ at = "parse"
    /\ \/ at' = "register" /\ UNCHANGED outcome
       \/ at' = "end" /\ outcome' = "failed"
    /\ UNCHANGED <<skipBoot, registered, bound, reserved, stage, async, task, ran, console, client>>

(* _run_hook: tasks if and only if the devices with the blocking hook are  *)
(* those with the coroutine.                                               *)
CallHook(hook) ==
    LET parallel == Coroutine(hook) = Blocking(hook)
        called == IF parallel THEN Coroutine(hook) ELSE Blocking(hook)
    IN  /\ async' = parallel
        /\ task' = [d \in Classes |-> IF d \in called THEN "pending" ELSE "none"]

(* Every device of the configuration is made and registered, or a class is *)
(* unknown or its constructor raises, with some registered.                *)
Register ==
    /\ at = "register"
    /\ \E n \in 1 .. MaxDevices : \E order \in [1 .. n -> Inventory] :
          IsInjective(order) /\ registered' = order
    /\ \/ bound' = TRUE /\ at' = "setup" /\ UNCHANGED outcome
       \/ bound' = FALSE /\ at' = "release" /\ outcome' = "failed"
    /\ UNCHANGED <<skipBoot, reserved, stage, async, task, ran, console, client>>

StageBegins ==
    /\ at = "setup"
    /\ CallHook(Hook)
    /\ at' = "stage"
    /\ UNCHANGED <<skipBoot, registered, bound, reserved, stage, ran, console, client, outcome>>

(* A hook up to its first await or, without one, up to the login: _connect *)
(* keeps the console before it has logged in, or raises without one.       *)
HookBegins(d) ==
    /\ at = "stage"
    /\ d \in InState("pending") /\ d = CalledFirst(Hook, InState("pending"))
    /\ async \/ InState("running") \cup InState("failed") = {}
    /\ \/ /\ task' = [task EXCEPT ![d] = "running"]
          /\ console' = IF Connects(d) THEN [console EXCEPT ![d] = "created"] ELSE console
       \/ task' = [task EXCEPT ![d] = "failed"] /\ UNCHANGED console
    /\ UNCHANGED <<at, skipBoot, registered, bound, reserved, stage, async, ran, client, outcome>>

ConsoleReady(d) == console' = IF Connects(d) THEN [console EXCEPT ![d] = "open"] ELSE console
ClientMade(d) == client' = (client \/ (d = "genie" /\ Hook \in Boots))

HookReturns(d) ==
    /\ task[d] = "running"
    /\ task' = [task EXCEPT ![d] = "done"]
    /\ ran' = ran \cup {<<d, Hook>>}
    /\ ConsoleReady(d) /\ ClientMade(d)
    /\ UNCHANGED <<at, skipBoot, registered, bound, reserved, stage, async, outcome>>

(* Before the login or behind it. *)
HookRaises(d) ==
    /\ task[d] = "running"
    /\ task' = [task EXCEPT ![d] = "failed"]
    /\ \/ UNCHANGED <<console, client>>
       \/ ConsoleReady(d) /\ UNCHANGED client
       \/ ConsoleReady(d) /\ ClientMade(d)
    /\ UNCHANGED <<at, skipBoot, registered, bound, reserved, stage, async, ran, outcome>>

(* The TaskGroup learns of the first failure and cancels the other tasks.  *)
GroupAborts ==
    /\ at = "stage" /\ async
    /\ InState("failed") # {}
    /\ InState("pending") \cup InState("running") # {}
    /\ task' = [d \in Classes |-> IF task[d] \in {"pending", "running"} THEN "cancelled"
                                  ELSE task[d]]
    /\ UNCHANGED <<at, skipBoot, registered, bound, reserved, stage, async, ran, console, client, outcome>>

Defect_StageReturns ==
    /\ at = "stage"
    /\ InState("pending") \cup InState("running") = {}
    /\ IF stage < Len(Chain)
       THEN stage' = stage + 1 /\ at' = "setup"
       ELSE at' = "post" /\ UNCHANGED stage
    /\ UNCHANGED <<skipBoot, registered, bound, reserved, async, task, ran, console, client, outcome>>

StageReturns ==
    /\ at = "stage"
    /\ InState("pending") \cup InState("running") \cup InState("failed") = {}
    /\ IF stage < Len(Chain)
       THEN stage' = stage + 1 /\ at' = "setup"
       ELSE at' = "post" /\ UNCHANGED stage
    /\ UNCHANGED <<skipBoot, registered, bound, reserved, async, task, ran, console, client, outcome>>

Defect_StageRaises ==
    /\ at = "stage"
    /\ InState("failed") # {}
    /\ InState("running") = {}
    /\ async => InState("pending") = {}
    /\ at' = "setup"
    /\ UNCHANGED <<skipBoot, registered, bound, reserved, stage, async, task, ran, console, client, outcome>>

(* The hooks of a blocking stage that were not called yet are not called;  *)
(* a TaskGroup raises when all of its tasks ended.                         *)
StageRaises ==
    /\ at = "stage"
    /\ InState("failed") # {}
    /\ InState("running") = {}
    /\ async => InState("pending") = {}
    /\ at' = "release" /\ outcome' = "failed"
    /\ UNCHANGED <<skipBoot, registered, bound, reserved, stage, async, task, ran, console, client>>

(* The interactive shell of boardfarm_post_setup_env. *)
PostSetup ==
    /\ at = "post"
    /\ at' = "release" /\ outcome' \in {"success", "failed"}
    /\ UNCHANGED <<skipBoot, registered, bound, reserved, stage, async, task, ran, console, client>>

(* The finally block: device_manager has no value if register raised.      *)
ReleaseBegins ==
    /\ at = "release"
    /\ IF bound
       THEN at' = "shutdown" /\ UNCHANGED outcome
       ELSE at' = "end" /\ outcome' = "not_released"
    /\ UNCHANGED <<skipBoot, registered, bound, reserved, stage, async, task, ran, console, client>>

(* AxirosACS closes its HTTP client only. *)
Disconnects(d) == d # "axiros"

Remaining == {d \in Blocking("shutdown") : <<d, "shutdown">> \notin ran}

Defect_ShutDown(d) ==
    /\ at = "shutdown"
    /\ d \in Remaining /\ d = CalledFirst("shutdown", Remaining)
    /\ console' = IF Disconnects(d) /\ console[d] = "open" THEN [console EXCEPT ![d] = "closed"]
                  ELSE console
    /\ IF d = "genie" /\ ~client
       THEN at' = "end" /\ outcome' = "not_released" /\ UNCHANGED ran
       ELSE ran' = ran \cup {<<d, "shutdown">>} /\ UNCHANGED <<at, outcome>>
    /\ UNCHANGED <<skipBoot, registered, bound, reserved, stage, async, task, client>>

(* boardfarm_shutdown_device of one device: GenieACS closes its console,   *)
(* then its client, which is None unless the boot got as far as that; an   *)
(* exception stops the hook, and the release with it.                      *)
ShutDown(d) ==
    /\ at = "shutdown"
    /\ d \in Remaining /\ d = CalledFirst("shutdown", Remaining)
    /\ console' = IF Disconnects(d) /\ console[d] # "none" THEN [console EXCEPT ![d] = "closed"]
                  ELSE console
    /\ IF d = "genie" /\ ~client
       THEN at' = "end" /\ outcome' = "not_released" /\ UNCHANGED ran
       ELSE ran' = ran \cup {<<d, "shutdown">>} /\ UNCHANGED <<at, outcome>>
    /\ UNCHANGED <<skipBoot, registered, bound, reserved, stage, async, task, client>>

(* Behind the yield of the hook wrapper: the plugin that reserved.         *)
Released ==
    /\ at = "shutdown" /\ Remaining = {}
    /\ reserved' = FALSE /\ at' = "end"
    /\ UNCHANGED <<skipBoot, registered, bound, stage, async, task, ran, console, client, outcome>>

DeploymentSteps ==
    \/ Reserve \/ Parse \/ Register
    \/ StageBegins \/ GroupAborts \/ StageReturns \/ StageRaises
    \/ \E d \in Devices : HookBegins(d) \/ HookReturns(d) \/ HookRaises(d) \/ ShutDown(d)
    \/ PostSetup \/ ReleaseBegins \/ Released

DeploymentEnded == at = "end" /\ UNCHANGED deploymentVars

DeploymentNext == DeploymentSteps \/ DeploymentEnded

(* main() runs on; every hook returns or raises, as pexpect and httpx wait *)
(* with a timeout.                                                         *)
DeploymentSpec ==
    DeploymentInit /\ [][DeploymentNext]_deploymentVars /\ WF_deploymentVars(DeploymentSteps)

-----------------------------------------------------------------------------
(* Properties *)

(* A hook runs only when every device has behind it all the hooks of the   *)
(* earlier stages: a LAN client is configured when the CPE is up and the   *)
(* servers are configured, also where a stage failed or ran as tasks.      *)
StagesInOrder ==
    InState("running") # {} =>
        \A i \in 1 .. stage - 1 : \A d \in Blocking(Chain[i]) : <<d, Chain[i]>> \in ran

(* A deployment is not handed to its user with a device left out: the      *)
(* choice between tasks and blocking calls drops no device's hook.         *)
NobodySkipped ==
    at = "post" => \A i \in 1 .. Len(Chain) :
        \A d \in Blocking(Chain[i]) : <<d, Chain[i]>> \in ran

(* Whatever path the set-up took, each device has a console that is logged *)
(* in when the user is let in.                                             *)
ConnectedForUse ==
    at = "post" => \A d \in Devices : console[d] = "open"

(* No hook is on its way when devices are shut down, also if a task of a   *)
(* stage failed while others were on theirs: it could open a console that  *)
(* nobody closes.                                                          *)
NoHookInShutdown ==
    at \in {"release", "shutdown", "end"} => InState("running") = {}

(* The reservation goes back with the consoles of the devices closed, even *)
(* those a failed login left half open; LinuxTFTP and PJSIPPhone have no   *)
(* hook to close theirs, and AxirosACS's leaves it open.                   *)
ClosedWhenReleased ==
    at = "end" /\ ~reserved =>
        \A d \in Devices \ {"tftp", "phone", "axiros"} : console[d] \in {"none", "closed"}

(* After the devices were registered, the only thing that keeps them       *)
(* reserved for ever is the shutdown of a GenieACS without a client: no    *)
(* failure of a stage does.                                                *)
RegisteredIsReleased ==
    at = "end" /\ bound /\ "genie" \notin Devices => ~reserved

(* The process comes to its end, whatever raised. *)
DeploymentEnds == at = "register" ~> at = "end"

(* The stages are kept apart, in both ways of calling hooks. *)
HooksInOrder == StagesInOrder /\ NobodySkipped /\ NoHookInShutdown

(* The user gets devices with consoles and gives them back without; only   *)
(* the devices named above are an exception.                               *)
DevicesAccounted == ConnectedForUse /\ ClosedWhenReleased /\ RegisteredIsReleased
=============================================================================
