--------------------------- MODULE DeploymentProofs ---------------------------
(***************************************************************************)
(* Theorems about the way from the configuration files to booted devices:  *)
(* about Deployment, for every inventory and number of devices, about      *)
(* CpeBoot and the provisioner it extends, for every set of CPEs and every *)
(* bound, about InventoryConfig, for every list of devices and clients,    *)
(* and about the types of all three.                                       *)
(***************************************************************************)
EXTENDS MCDeployment, FiniteSetTheorems, SequenceTheorems, TLAPS

(***************************************************************************)
(* Deployment: what holds in its states                                    *)
(***************************************************************************)

Hooks == {"validate_device_requirements", "server_boot", "server_configure", "device_boot",
          "device_configure", "attached_device_boot", "attached_device_configure", "skip_boot"}

StagesTyped ==
    /\ skipBoot \in BOOLEAN
    /\ stage \in 1 .. Len(Chain)
    /\ Devices \subseteq Classes
    /\ task \in [Classes -> {"none", "pending", "running", "done", "failed", "cancelled"}]
    /\ console \in [Classes -> {"none", "created", "open", "closed"}]

(* Before the devices are registered nothing has run. *)
NothingRan ==
    at \in {"reserve", "parse", "register"} =>
        /\ stage = 1 /\ ran = {} /\ ~bound
        /\ console = [d \in Classes |-> "none"]

OnlyInAStage == at # "stage" => InState("running") = {}

EarlierStagesRan ==
    at \in {"setup", "stage"} =>
        \A i \in 1 .. stage - 1 : \A d \in Blocking(Chain[i]) : <<d, Chain[i]>> \in ran

(* In a stage every device that implements the hook has a task, a task     *)
(* that is done left its mark, and none is cancelled without a failure.    *)
StageIsComplete ==
    at = "stage" =>
        /\ \A d \in Blocking(Hook) : task[d] # "none"
        /\ \A d \in Devices : task[d] = "done" => <<d, Hook>> \in ran
        /\ InState("cancelled") # {} => InState("failed") # {}

(* What ran belongs to an earlier stage, or to a task of this one that is  *)
(* done.                                                                   *)
RanIsPast ==
    at \in {"setup", "stage"} =>
        \A d \in Devices, h \in Boots : <<d, h>> \in ran =>
            /\ h \in HooksOf[d].blocking
            /\ \/ \E i \in 1 .. stage - 1 : h = Chain[i]
               \/ at = "stage" /\ h = Hook /\ task[d] = "done"

TasksAreOfTheHook ==
    at = "stage" => \A d \in Classes : task[d] # "none" => d \in Blocking(Hook)

BootedIsOpen ==
    at \in {"setup", "stage", "post"} =>
        \A d \in Devices, h \in Boots : <<d, h>> \in ran => console[d] = "open"

ShutDownIsClosed ==
    \A d \in Devices : <<d, "shutdown">> \in ran =>
        /\ at \in {"shutdown", "end"}
        /\ d # "axiros" => console[d] \in {"none", "closed"}

ReservedUntilReleased ==
    /\ at \notin {"reserve", "end"} => reserved
    /\ at = "end" /\ ~reserved => Remaining = {}
    /\ at = "shutdown" => bound

DeploymentInv ==
    /\ StagesTyped
    /\ NothingRan /\ OnlyInAStage /\ EarlierStagesRan
    /\ TasksAreOfTheHook /\ StageIsComplete /\ RanIsPast
    /\ BootedIsOpen /\ ShutDownIsClosed /\ ReservedUntilReleased
    /\ NobodySkipped /\ RegisteredIsReleased

(***************************************************************************)
(* The chain of hooks and the hooks of the classes                         *)
(***************************************************************************)

(* The hooks of the chain are all different, and the shutdown is not one.  *)
LEMMA ChainFacts ==
    ASSUME skipBoot \in BOOLEAN
    PROVE  /\ Len(Chain) \in {1, 7}
           /\ \A i \in 1 .. Len(Chain) : Chain[i] \in Hooks
           /\ \A i, j \in 1 .. Len(Chain) : Chain[i] = Chain[j] => i = j
  BY DEF Chain, Hooks

(* Every class connects in exactly one stage of a chain.                   *)
LEMMA OneBootHook ==
    ASSUME skipBoot \in BOOLEAN, NEW d \in Classes
    PROVE  \A i, j \in 1 .. Len(Chain) :
              /\ Chain[i] \in Boots \cap HooksOf[d].blocking
              /\ Chain[j] \in Boots \cap HooksOf[d].blocking
              => i = j
  BY DEF Chain, Boots, Classes, HooksOf, Implements, KeaProvisioner, LinuxWAN,
     LinuxRouter, LinuxTFTP, SIPcenterKamailio5, GenieACS, AxirosACS,
     PrplDockerCPE, LinuxLAN, LinuxWLAN, PJSIPPhone

LEMMA SomeBootHook ==
    ASSUME skipBoot \in BOOLEAN, NEW d \in Classes
    PROVE  \E i \in 1 .. Len(Chain) : Chain[i] \in Boots \cap HooksOf[d].blocking
  BY DEF Chain, Boots, Classes, HooksOf, Implements, KeaProvisioner, LinuxWAN,
     LinuxRouter, LinuxTFTP, SIPcenterKamailio5, GenieACS, AxirosACS,
     PrplDockerCPE, LinuxLAN, LinuxWLAN, PJSIPPhone

LEMMA ShutDownHook ==
    ASSUME NEW d \in Classes \ {"tftp", "phone"}
    PROVE  "shutdown" \in HooksOf[d].blocking
  BY DEF Classes, HooksOf, Implements, KeaProvisioner, LinuxWAN, LinuxRouter,
     LinuxTFTP, SIPcenterKamailio5, GenieACS, AxirosACS, PrplDockerCPE, LinuxLAN,
     LinuxWLAN, PJSIPPhone

(***************************************************************************)
(* Steps: one lemma for each action                                        *)
(***************************************************************************)

(* The devices change here only, before anything ran.                      *)
LEMMA RegisterKeeps ==
    ASSUME DeploymentInv, Register
    PROVE  DeploymentInv'
<1>1. Devices' \subseteq Classes
  <2>0. PICK n \in 1 .. MaxDevices : \E order \in [1 .. n -> Inventory] : registered' = order
    BY DEF Register
  <2>1. PICK order \in [1 .. n -> Inventory] : registered' = order
    BY <2>0
  <2>2. ToSet(order) \subseteq Classes
    BY InventoryAssumption DEF ToSet
  <2> QED
    BY <2>1, <2>2 DEF Devices
<1>2. at = "register" /\ at' \in {"setup", "release"}
  BY DEF Register
<1>3. stage = 1 /\ ran = {} /\ InState("running") = {}
  BY <1>2 DEF DeploymentInv, NothingRan, OnlyInAStage
<1>4. Chain' = Chain /\ UNCHANGED <<skipBoot, reserved, stage, task, ran, console>>
  BY DEF Register, Chain
<1>5. StagesTyped' /\ OnlyInAStage' /\ NothingRan'
  BY <1>1, <1>2, <1>3, <1>4 DEF DeploymentInv, StagesTyped, OnlyInAStage, NothingRan, InState
<1>6. EarlierStagesRan' /\ RanIsPast' /\ BootedIsOpen' /\ ShutDownIsClosed'
  BY <1>3, <1>4 DEF EarlierStagesRan, RanIsPast, BootedIsOpen, ShutDownIsClosed
<1>7. /\ TasksAreOfTheHook' /\ StageIsComplete' /\ ReservedUntilReleased'
      /\ NobodySkipped' /\ RegisteredIsReleased'
  BY <1>2, <1>4 DEF DeploymentInv, TasksAreOfTheHook, StageIsComplete, ReservedUntilReleased,
     NobodySkipped, RegisteredIsReleased
<1> QED
  BY <1>5, <1>6, <1>7 DEF DeploymentInv

(* Nothing has run yet.                                                    *)
LEMMA ReserveKeeps ==
    ASSUME DeploymentInv, Reserve
    PROVE  DeploymentInv'
<1>fixed. skipBoot' = skipBoot /\ Chain' = Chain /\ Devices' = Devices
  BY DEF Reserve, Chain, Devices
<1>1. StagesTyped'
  BY <1>fixed DEF DeploymentInv, StagesTyped, Reserve
<1>2. NothingRan'
  BY <1>fixed DEF DeploymentInv, NothingRan, Reserve
<1>3. OnlyInAStage'
  BY <1>fixed DEF DeploymentInv, OnlyInAStage, InState, Reserve
<1>4. EarlierStagesRan'
  BY <1>fixed DEF DeploymentInv, EarlierStagesRan, Reserve
<1>5. TasksAreOfTheHook'
  BY <1>fixed DEF DeploymentInv, TasksAreOfTheHook, Reserve
<1>6. StageIsComplete'
  BY <1>fixed DEF DeploymentInv, StageIsComplete, Reserve
<1>7. RanIsPast'
  BY <1>fixed DEF DeploymentInv, RanIsPast, Reserve
<1>8. BootedIsOpen'
  BY <1>fixed DEF DeploymentInv, BootedIsOpen, Reserve
<1>9. ShutDownIsClosed'
  BY <1>fixed DEF DeploymentInv, ShutDownIsClosed, Reserve
<1>10. ReservedUntilReleased'
  BY <1>fixed DEF DeploymentInv, ReservedUntilReleased, Reserve
<1>11. NobodySkipped'
  BY <1>fixed DEF DeploymentInv, NobodySkipped, Reserve
<1>12. RegisteredIsReleased'
  BY <1>fixed DEF DeploymentInv, RegisteredIsReleased, Reserve
<1> QED
  BY <1>1, <1>2, <1>3, <1>4, <1>5, <1>6, <1>7, <1>8, <1>9, <1>10, <1>11, <1>12 DEF
     DeploymentInv

(* Nothing has run yet, and nothing is bound.                              *)
LEMMA ParseKeeps ==
    ASSUME DeploymentInv, Parse
    PROVE  DeploymentInv'
<1>fixed. skipBoot' = skipBoot /\ Chain' = Chain /\ Devices' = Devices
  BY DEF Parse, Chain, Devices
<1>1. StagesTyped'
  BY <1>fixed DEF DeploymentInv, StagesTyped, Parse
<1>2. NothingRan'
  BY <1>fixed DEF DeploymentInv, NothingRan, Parse
<1>3. OnlyInAStage'
  BY <1>fixed DEF DeploymentInv, OnlyInAStage, InState, Parse
<1>4. EarlierStagesRan'
  BY <1>fixed DEF DeploymentInv, EarlierStagesRan, Parse
<1>5. TasksAreOfTheHook'
  BY <1>fixed DEF DeploymentInv, TasksAreOfTheHook, Parse
<1>6. StageIsComplete'
  BY <1>fixed DEF DeploymentInv, StageIsComplete, Parse
<1>7. RanIsPast'
  BY <1>fixed DEF DeploymentInv, RanIsPast, Parse
<1>8. BootedIsOpen'
  BY <1>fixed DEF DeploymentInv, BootedIsOpen, Parse
<1>9. ShutDownIsClosed'
  BY <1>fixed DEF DeploymentInv, ShutDownIsClosed, Parse
<1>10. ReservedUntilReleased'
  BY <1>fixed DEF DeploymentInv, ReservedUntilReleased, Parse
<1>11. NobodySkipped'
  BY <1>fixed DEF DeploymentInv, NobodySkipped, Parse
<1>12. RegisteredIsReleased'
  BY <1>fixed DEF DeploymentInv, RegisteredIsReleased, NothingRan, Parse
<1> QED
  BY <1>1, <1>2, <1>3, <1>4, <1>5, <1>6, <1>7, <1>8, <1>9, <1>10, <1>11, <1>12 DEF
     DeploymentInv

(* Called are all that implement the hook, in either way of calling.       *)
LEMMA StageBeginsKeeps ==
    ASSUME DeploymentInv, StageBegins
    PROVE  DeploymentInv'
<1>fixed. skipBoot' = skipBoot /\ Chain' = Chain /\ Devices' = Devices
  BY DEF StageBegins, Chain, Devices
<1>1. StagesTyped'
  BY <1>fixed DEF DeploymentInv, StagesTyped, StageBegins, CallHook
<1>2. NothingRan'
  BY <1>fixed DEF DeploymentInv, NothingRan, StageBegins, CallHook
<1>3. OnlyInAStage'
  BY <1>fixed DEF DeploymentInv, OnlyInAStage, StageBegins, CallHook
<1>4. EarlierStagesRan'
  BY <1>fixed DEF DeploymentInv, EarlierStagesRan, Blocking, StageBegins, CallHook
<1>5. TasksAreOfTheHook'
  BY <1>fixed DEF DeploymentInv, TasksAreOfTheHook, Blocking, Hook, StageBegins,
     CallHook
<1>6. StageIsComplete'
  BY <1>fixed DEF DeploymentInv, StagesTyped, StageIsComplete, Blocking, Hook, InState,
     StageBegins, CallHook
<1>7. RanIsPast'
  BY <1>fixed DEF DeploymentInv, RanIsPast, StageBegins, CallHook
<1>8. BootedIsOpen'
  BY <1>fixed DEF DeploymentInv, BootedIsOpen, StageBegins, CallHook
<1>9. ShutDownIsClosed'
  BY <1>fixed DEF DeploymentInv, ShutDownIsClosed, StageBegins, CallHook
<1>10. ReservedUntilReleased'
  BY <1>fixed DEF DeploymentInv, ReservedUntilReleased, StageBegins, CallHook
<1>11. NobodySkipped'
  BY <1>fixed DEF DeploymentInv, NobodySkipped, StageBegins, CallHook
<1>12. RegisteredIsReleased'
  BY <1>fixed DEF DeploymentInv, RegisteredIsReleased, StageBegins, CallHook
<1> QED
  BY <1>1, <1>2, <1>3, <1>4, <1>5, <1>6, <1>7, <1>8, <1>9, <1>10, <1>11, <1>12 DEF
     DeploymentInv

(* Only a failure cancels.                                                 *)
LEMMA GroupAbortsKeeps ==
    ASSUME DeploymentInv, GroupAborts
    PROVE  DeploymentInv'
<1>fixed. skipBoot' = skipBoot /\ Chain' = Chain /\ Devices' = Devices
  BY DEF GroupAborts, Chain, Devices
<1>1. StagesTyped'
  BY <1>fixed DEF DeploymentInv, StagesTyped, GroupAborts
<1>2. NothingRan'
  BY <1>fixed DEF DeploymentInv, NothingRan, GroupAborts
<1>3. OnlyInAStage'
  BY <1>fixed DEF DeploymentInv, OnlyInAStage, GroupAborts
<1>4. EarlierStagesRan'
  BY <1>fixed DEF DeploymentInv, EarlierStagesRan, Blocking, GroupAborts
<1>5. TasksAreOfTheHook'
  BY <1>fixed DEF DeploymentInv, TasksAreOfTheHook, Blocking, Hook, GroupAborts
<1>6. StageIsComplete'
  BY <1>fixed DEF DeploymentInv, StagesTyped, StageIsComplete, Blocking, Hook, InState,
     GroupAborts
<1>7. RanIsPast'
  BY <1>fixed DEF DeploymentInv, StagesTyped, RanIsPast, Hook, GroupAborts
<1>8. BootedIsOpen'
  BY <1>fixed DEF DeploymentInv, BootedIsOpen, GroupAborts
<1>9. ShutDownIsClosed'
  BY <1>fixed DEF DeploymentInv, ShutDownIsClosed, GroupAborts
<1>10. ReservedUntilReleased'
  BY <1>fixed DEF DeploymentInv, ReservedUntilReleased, GroupAborts
<1>11. NobodySkipped'
  BY <1>fixed DEF DeploymentInv, NobodySkipped, GroupAborts
<1>12. RegisteredIsReleased'
  BY <1>fixed DEF DeploymentInv, RegisteredIsReleased, GroupAborts
<1> QED
  BY <1>1, <1>2, <1>3, <1>4, <1>5, <1>6, <1>7, <1>8, <1>9, <1>10, <1>11, <1>12 DEF
     DeploymentInv

(* No task is left but those that are done.                                *)
LEMMA StageReturnsKeeps ==
    ASSUME DeploymentInv, StageReturns
    PROVE  DeploymentInv'
<1>fixed. skipBoot' = skipBoot /\ Chain' = Chain /\ Devices' = Devices
  BY DEF StageReturns, Chain, Devices
<1>1. StagesTyped'
  BY <1>fixed DEF DeploymentInv, StagesTyped, StageReturns
<1>2. NothingRan'
  BY <1>fixed DEF DeploymentInv, NothingRan, StageReturns
<1>3. OnlyInAStage'
  BY <1>fixed DEF DeploymentInv, OnlyInAStage, InState, StageReturns
<1>4. EarlierStagesRan'
  BY <1>fixed DEF DeploymentInv, StagesTyped, EarlierStagesRan, StageIsComplete, Blocking,
     Hook, InState, StageReturns
<1>5. TasksAreOfTheHook'
  BY <1>fixed DEF DeploymentInv, TasksAreOfTheHook, StageReturns
<1>6. StageIsComplete'
  BY <1>fixed DEF DeploymentInv, StageIsComplete, StageReturns
<1>7. RanIsPast'
  BY <1>fixed DEF DeploymentInv, StagesTyped, RanIsPast, Hook, StageReturns
<1>8. BootedIsOpen'
  BY <1>fixed DEF DeploymentInv, BootedIsOpen, StageReturns
<1>9. ShutDownIsClosed'
  BY <1>fixed DEF DeploymentInv, ShutDownIsClosed, StageReturns
<1>10. ReservedUntilReleased'
  BY <1>fixed DEF DeploymentInv, ReservedUntilReleased, StageReturns
<1>11. NobodySkipped'
  BY <1>fixed DEF DeploymentInv, StagesTyped, EarlierStagesRan, StageIsComplete, Blocking,
     Hook, InState, StageReturns, NobodySkipped
<1>12. RegisteredIsReleased'
  BY <1>fixed DEF DeploymentInv, RegisteredIsReleased, StageReturns
<1> QED
  BY <1>1, <1>2, <1>3, <1>4, <1>5, <1>6, <1>7, <1>8, <1>9, <1>10, <1>11, <1>12 DEF
     DeploymentInv

(* No hook is on its way when the stage raises.                            *)
LEMMA StageRaisesKeeps ==
    ASSUME DeploymentInv, StageRaises
    PROVE  DeploymentInv'
<1>fixed. skipBoot' = skipBoot /\ Chain' = Chain /\ Devices' = Devices
  BY DEF StageRaises, Chain, Devices
<1>1. StagesTyped'
  BY <1>fixed DEF DeploymentInv, StagesTyped, StageRaises
<1>2. NothingRan'
  BY <1>fixed DEF DeploymentInv, NothingRan, StageRaises
<1>3. OnlyInAStage'
  BY <1>fixed DEF DeploymentInv, OnlyInAStage, InState, StageRaises
<1>4. EarlierStagesRan'
  BY <1>fixed DEF DeploymentInv, EarlierStagesRan, StageRaises
<1>5. TasksAreOfTheHook'
  BY <1>fixed DEF DeploymentInv, TasksAreOfTheHook, StageRaises
<1>6. StageIsComplete'
  BY <1>fixed DEF DeploymentInv, StageIsComplete, StageRaises
<1>7. RanIsPast'
  BY <1>fixed DEF DeploymentInv, RanIsPast, StageRaises
<1>8. BootedIsOpen'
  BY <1>fixed DEF DeploymentInv, BootedIsOpen, StageRaises
<1>9. ShutDownIsClosed'
  BY <1>fixed DEF DeploymentInv, ShutDownIsClosed, StageRaises
<1>10. ReservedUntilReleased'
  BY <1>fixed DEF DeploymentInv, ReservedUntilReleased, StageRaises
<1>11. NobodySkipped'
  BY <1>fixed DEF DeploymentInv, NobodySkipped, StageRaises
<1>12. RegisteredIsReleased'
  BY <1>fixed DEF DeploymentInv, RegisteredIsReleased, StageRaises
<1> QED
  BY <1>1, <1>2, <1>3, <1>4, <1>5, <1>6, <1>7, <1>8, <1>9, <1>10, <1>11, <1>12 DEF
     DeploymentInv

(* A device that connects has not connected in an earlier stage.           *)
LEMMA HookBeginsKeeps ==
    ASSUME DeploymentInv, NEW d \in Devices, HookBegins(d)
    PROVE  DeploymentInv'
<1>fixed. skipBoot' = skipBoot /\ Chain' = Chain /\ Devices' = Devices
  BY DEF HookBegins, Chain, Devices
<1>chain. /\ Len(Chain) \in {1, 7}
          /\ \A i \in 1 .. Len(Chain) : Chain[i] \in Hooks
          /\ \A i, j \in 1 .. Len(Chain) : Chain[i] = Chain[j] => i = j
  BY ChainFacts DEF DeploymentInv, StagesTyped
<1>1. StagesTyped'
  BY <1>fixed DEF DeploymentInv, StagesTyped, HookBegins, Connects
<1>2. NothingRan'
  BY <1>fixed DEF DeploymentInv, NothingRan, HookBegins, Connects
<1>3. OnlyInAStage'
  BY <1>fixed DEF DeploymentInv, OnlyInAStage, HookBegins, Connects
<1>4. EarlierStagesRan'
  BY <1>fixed DEF DeploymentInv, EarlierStagesRan, Blocking, HookBegins, Connects
<1>5. TasksAreOfTheHook'
  BY <1>fixed DEF DeploymentInv, StagesTyped, TasksAreOfTheHook, Blocking, Hook, InState,
     HookBegins, Connects
<1>6. StageIsComplete'
  BY <1>fixed DEF DeploymentInv, StagesTyped, StageIsComplete, Blocking, Hook, InState,
     HookBegins, Connects
<1>7. RanIsPast'
  <2>. SUFFICES ASSUME NEW e \in Devices, NEW h \in Boots, <<e, h>> \in ran
                PROVE  /\ h \in HooksOf[e].blocking
                       /\ \/ \E i \in 1 .. stage - 1 : h = Chain[i]
                          \/ h = Hook /\ task'[e] = "done"
    BY <1>fixed DEF HookBegins, RanIsPast, Hook
  <2>1. /\ h \in HooksOf[e].blocking
        /\ \/ \E i \in 1 .. stage - 1 : h = Chain[i]
           \/ h = Hook /\ task[e] = "done"
    BY DEF HookBegins, DeploymentInv, RanIsPast
  <2>2. task[e] = "done" => task'[e] = "done"
    BY DEF HookBegins, InState, DeploymentInv, StagesTyped
  <2> QED
    BY <2>1, <2>2
<1>8. BootedIsOpen'
  <2>. SUFFICES ASSUME NEW e \in Devices, NEW h \in Boots, <<e, h>> \in ran
                PROVE  console'[e] = "open"
    BY <1>fixed DEF HookBegins, BootedIsOpen
  <2>1. console[e] = "open"
    BY DEF HookBegins, DeploymentInv, BootedIsOpen
  <2>2. CASE e # d \/ ~Connects(d)
    BY <2>1, <2>2 DEF HookBegins, DeploymentInv, StagesTyped
  <2>3. CASE e = d /\ Connects(d)
    <3>1. d \in Classes /\ task[d] = "pending" /\ Hook \in Boots \cap HooksOf[d].blocking
      BY <2>3 DEF HookBegins, Connects, InState, DeploymentInv, StagesTyped, TasksAreOfTheHook,
         Blocking
    <3>2. PICK i \in 1 .. stage - 1 : h = Chain[i] /\ h \in HooksOf[d].blocking
      BY <2>3, <3>1 DEF HookBegins, DeploymentInv, RanIsPast
    <3>3. \A j, k \in 1 .. Len(Chain) :
             /\ Chain[j] \in Boots \cap HooksOf[d].blocking
             /\ Chain[k] \in Boots \cap HooksOf[d].blocking
             => j = k
      BY <3>1, OneBootHook DEF DeploymentInv, StagesTyped
    <3>4. i \in 1 .. Len(Chain) /\ stage \in 1 .. Len(Chain) /\ i # stage
      BY <1>chain, <3>2 DEF DeploymentInv, StagesTyped
    <3> QED
      BY <3>1, <3>2, <3>3, <3>4 DEF Hook
  <2> QED
    BY <2>2, <2>3
<1>9. ShutDownIsClosed'
  BY <1>fixed DEF DeploymentInv, ShutDownIsClosed, HookBegins, Connects
<1>10. ReservedUntilReleased'
  BY <1>fixed DEF DeploymentInv, ReservedUntilReleased, HookBegins, Connects
<1>11. NobodySkipped'
  BY <1>fixed DEF DeploymentInv, NobodySkipped, HookBegins, Connects
<1>12. RegisteredIsReleased'
  BY <1>fixed DEF DeploymentInv, RegisteredIsReleased, HookBegins, Connects
<1> QED
  BY <1>1, <1>2, <1>3, <1>4, <1>5, <1>6, <1>7, <1>8, <1>9, <1>10, <1>11, <1>12 DEF
     DeploymentInv

(* The hook that returns is the one of the stage.                          *)
LEMMA HookReturnsKeeps ==
    ASSUME DeploymentInv, NEW d \in Devices, HookReturns(d)
    PROVE  DeploymentInv'
<1>fixed. skipBoot' = skipBoot /\ Chain' = Chain /\ Devices' = Devices
  BY DEF HookReturns, Chain, Devices
<1>chain. /\ Len(Chain) \in {1, 7}
          /\ \A i \in 1 .. Len(Chain) : Chain[i] \in Hooks
          /\ \A i, j \in 1 .. Len(Chain) : Chain[i] = Chain[j] => i = j
  BY ChainFacts DEF DeploymentInv, StagesTyped
<1>1. StagesTyped'
  BY <1>fixed DEF DeploymentInv, StagesTyped, HookReturns, ConsoleReady, Connects
<1>2. NothingRan'
  BY <1>fixed DEF DeploymentInv, StagesTyped, NothingRan, OnlyInAStage, InState,
     HookReturns, ConsoleReady, Connects
<1>3. OnlyInAStage'
  BY <1>fixed DEF DeploymentInv, OnlyInAStage, InState, HookReturns, ConsoleReady,
     Connects
<1>4. EarlierStagesRan'
  BY <1>fixed DEF DeploymentInv, EarlierStagesRan, Blocking, HookReturns,
     ConsoleReady, Connects
<1>5. TasksAreOfTheHook'
  BY <1>fixed DEF DeploymentInv, TasksAreOfTheHook, Blocking, Hook, HookReturns,
     ConsoleReady, Connects
<1>6. StageIsComplete'
  BY <1>fixed DEF DeploymentInv, StageIsComplete, Blocking, Hook, InState,
     HookReturns, ConsoleReady, Connects
<1>7. RanIsPast'
  <2>. SUFFICES ASSUME at = "stage", NEW e \in Devices, NEW h \in Boots, <<e, h>> \in ran'
                PROVE  /\ h \in HooksOf[e].blocking
                       /\ \/ \E i \in 1 .. stage - 1 : h = Chain[i]
                          \/ h = Hook /\ task'[e] = "done"
    BY <1>fixed DEF HookReturns, RanIsPast, Hook, DeploymentInv, OnlyInAStage, InState, StagesTyped
  <2>1. CASE <<e, h>> \in ran
    <3>1. task[e] = "done" => task'[e] = "done"
      BY DEF HookReturns, DeploymentInv, StagesTyped
    <3> QED
      BY <2>1, <3>1 DEF DeploymentInv, RanIsPast
  <2>2. CASE e = d /\ h = Hook
    BY <2>2 DEF HookReturns, DeploymentInv, StagesTyped, TasksAreOfTheHook, Blocking
  <2> QED
    BY <2>1, <2>2 DEF HookReturns
<1>8. BootedIsOpen'
  BY <1>fixed DEF DeploymentInv, StagesTyped, BootedIsOpen, HookReturns, ConsoleReady,
     Connects
<1>9. ShutDownIsClosed'
  BY <1>fixed, <1>chain DEF DeploymentInv, StagesTyped, OnlyInAStage, ShutDownIsClosed, Hook,
     InState, Hooks, HookReturns, ConsoleReady, Connects
<1>10. ReservedUntilReleased'
  BY <1>fixed DEF DeploymentInv, ReservedUntilReleased, Remaining, Blocking,
     HookReturns, ConsoleReady, Connects
<1>11. NobodySkipped'
  BY <1>fixed DEF DeploymentInv, NobodySkipped, Blocking, HookReturns, ConsoleReady,
     Connects
<1>12. RegisteredIsReleased'
  BY <1>fixed DEF DeploymentInv, RegisteredIsReleased, HookReturns, ConsoleReady,
     Connects
<1> QED
  BY <1>1, <1>2, <1>3, <1>4, <1>5, <1>6, <1>7, <1>8, <1>9, <1>10, <1>11, <1>12 DEF
     DeploymentInv

(* A failure takes no console from a device that has one.                  *)
LEMMA HookRaisesKeeps ==
    ASSUME DeploymentInv, NEW d \in Devices, HookRaises(d)
    PROVE  DeploymentInv'
<1>fixed. skipBoot' = skipBoot /\ Chain' = Chain /\ Devices' = Devices
  BY DEF HookRaises, Chain, Devices
<1>1. StagesTyped'
  BY <1>fixed DEF DeploymentInv, StagesTyped, HookRaises, ConsoleReady, Connects
<1>2. NothingRan'
  BY <1>fixed DEF DeploymentInv, NothingRan, OnlyInAStage, InState, HookRaises,
     ConsoleReady, Connects
<1>3. OnlyInAStage'
  BY <1>fixed DEF DeploymentInv, OnlyInAStage, InState, HookRaises, ConsoleReady,
     Connects
<1>4. EarlierStagesRan'
  BY <1>fixed DEF DeploymentInv, EarlierStagesRan, Blocking, HookRaises, ConsoleReady,
     Connects
<1>5. TasksAreOfTheHook'
  BY <1>fixed DEF DeploymentInv, TasksAreOfTheHook, Blocking, Hook, HookRaises,
     ConsoleReady, Connects
<1>6. StageIsComplete'
  BY <1>fixed DEF DeploymentInv, StageIsComplete, Blocking, Hook, InState, HookRaises,
     ConsoleReady, Connects
<1>7. RanIsPast'
  BY <1>fixed DEF DeploymentInv, RanIsPast, Hook, HookRaises, ConsoleReady, Connects
<1>8. BootedIsOpen'
  BY <1>fixed DEF DeploymentInv, StagesTyped, BootedIsOpen, HookRaises, ConsoleReady,
     Connects
<1>9. ShutDownIsClosed'
  BY <1>fixed DEF DeploymentInv, StagesTyped, OnlyInAStage, ShutDownIsClosed, InState,
     HookRaises, ConsoleReady, Connects
<1>10. ReservedUntilReleased'
  BY <1>fixed DEF DeploymentInv, ReservedUntilReleased, Remaining, Blocking,
     HookRaises, ConsoleReady, Connects
<1>11. NobodySkipped'
  BY <1>fixed DEF DeploymentInv, NobodySkipped, Blocking, HookRaises, ConsoleReady,
     Connects
<1>12. RegisteredIsReleased'
  BY <1>fixed DEF DeploymentInv, RegisteredIsReleased, HookRaises, ConsoleReady,
     Connects
<1> QED
  BY <1>1, <1>2, <1>3, <1>4, <1>5, <1>6, <1>7, <1>8, <1>9, <1>10, <1>11, <1>12 DEF
     DeploymentInv

(* The user is done.                                                       *)
LEMMA PostSetupKeeps ==
    ASSUME DeploymentInv, PostSetup
    PROVE  DeploymentInv'
<1>fixed. skipBoot' = skipBoot /\ Chain' = Chain /\ Devices' = Devices
  BY DEF PostSetup, Chain, Devices
<1>1. StagesTyped'
  BY <1>fixed DEF DeploymentInv, StagesTyped, PostSetup
<1>2. NothingRan'
  BY <1>fixed DEF DeploymentInv, NothingRan, PostSetup
<1>3. OnlyInAStage'
  BY <1>fixed DEF DeploymentInv, OnlyInAStage, InState, PostSetup
<1>4. EarlierStagesRan'
  BY <1>fixed DEF DeploymentInv, EarlierStagesRan, PostSetup
<1>5. TasksAreOfTheHook'
  BY <1>fixed DEF DeploymentInv, TasksAreOfTheHook, PostSetup
<1>6. StageIsComplete'
  BY <1>fixed DEF DeploymentInv, StageIsComplete, PostSetup
<1>7. RanIsPast'
  BY <1>fixed DEF DeploymentInv, RanIsPast, PostSetup
<1>8. BootedIsOpen'
  BY <1>fixed DEF DeploymentInv, BootedIsOpen, PostSetup
<1>9. ShutDownIsClosed'
  BY <1>fixed DEF DeploymentInv, ShutDownIsClosed, PostSetup
<1>10. ReservedUntilReleased'
  BY <1>fixed DEF DeploymentInv, ReservedUntilReleased, PostSetup
<1>11. NobodySkipped'
  BY <1>fixed DEF DeploymentInv, NobodySkipped, PostSetup
<1>12. RegisteredIsReleased'
  BY <1>fixed DEF DeploymentInv, RegisteredIsReleased, PostSetup
<1> QED
  BY <1>1, <1>2, <1>3, <1>4, <1>5, <1>6, <1>7, <1>8, <1>9, <1>10, <1>11, <1>12 DEF
     DeploymentInv

(* Without a manager there is nothing to shut down.                        *)
LEMMA ReleaseBeginsKeeps ==
    ASSUME DeploymentInv, ReleaseBegins
    PROVE  DeploymentInv'
<1>fixed. skipBoot' = skipBoot /\ Chain' = Chain /\ Devices' = Devices
  BY DEF ReleaseBegins, Chain, Devices
<1>1. StagesTyped'
  BY <1>fixed DEF DeploymentInv, StagesTyped, ReleaseBegins
<1>2. NothingRan'
  BY <1>fixed DEF DeploymentInv, NothingRan, ReleaseBegins
<1>3. OnlyInAStage'
  BY <1>fixed DEF DeploymentInv, OnlyInAStage, InState, ReleaseBegins
<1>4. EarlierStagesRan'
  BY <1>fixed DEF DeploymentInv, EarlierStagesRan, ReleaseBegins
<1>5. TasksAreOfTheHook'
  BY <1>fixed DEF DeploymentInv, TasksAreOfTheHook, ReleaseBegins
<1>6. StageIsComplete'
  BY <1>fixed DEF DeploymentInv, StageIsComplete, ReleaseBegins
<1>7. RanIsPast'
  BY <1>fixed DEF DeploymentInv, RanIsPast, ReleaseBegins
<1>8. BootedIsOpen'
  BY <1>fixed DEF DeploymentInv, BootedIsOpen, ReleaseBegins
<1>9. ShutDownIsClosed'
  BY <1>fixed DEF DeploymentInv, ShutDownIsClosed, ReleaseBegins
<1>10. ReservedUntilReleased'
  BY <1>fixed DEF DeploymentInv, ReservedUntilReleased, ReleaseBegins
<1>11. NobodySkipped'
  BY <1>fixed DEF DeploymentInv, NobodySkipped, ReleaseBegins
<1>12. RegisteredIsReleased'
  BY <1>fixed DEF DeploymentInv, RegisteredIsReleased, ReleaseBegins
<1> QED
  BY <1>1, <1>2, <1>3, <1>4, <1>5, <1>6, <1>7, <1>8, <1>9, <1>10, <1>11, <1>12 DEF
     DeploymentInv

(* Only a GenieACS without a client ends the release here.                 *)
LEMMA ShutDownKeeps ==
    ASSUME DeploymentInv, NEW d \in Devices, ShutDown(d)
    PROVE  DeploymentInv'
<1>fixed. skipBoot' = skipBoot /\ Chain' = Chain /\ Devices' = Devices
  BY DEF ShutDown, Chain, Devices
<1>1. StagesTyped'
  BY <1>fixed DEF DeploymentInv, StagesTyped, ShutDown, Disconnects
<1>2. NothingRan'
  BY <1>fixed DEF DeploymentInv, NothingRan, ShutDown, Disconnects
<1>3. OnlyInAStage'
  BY <1>fixed DEF DeploymentInv, OnlyInAStage, InState, ShutDown, Disconnects
<1>4. EarlierStagesRan'
  BY <1>fixed DEF DeploymentInv, EarlierStagesRan, ShutDown, Disconnects
<1>5. TasksAreOfTheHook'
  BY <1>fixed DEF DeploymentInv, TasksAreOfTheHook, ShutDown, Disconnects
<1>6. StageIsComplete'
  BY <1>fixed DEF DeploymentInv, StageIsComplete, ShutDown, Disconnects
<1>7. RanIsPast'
  BY <1>fixed DEF DeploymentInv, RanIsPast, ShutDown, Disconnects
<1>8. BootedIsOpen'
  BY <1>fixed DEF DeploymentInv, BootedIsOpen, ShutDown, Disconnects
<1>9. ShutDownIsClosed'
  BY <1>fixed DEF DeploymentInv, StagesTyped, ShutDownIsClosed, ShutDown, Disconnects
<1>10. ReservedUntilReleased'
  BY <1>fixed DEF DeploymentInv, ReservedUntilReleased, ShutDown, Disconnects
<1>11. NobodySkipped'
  BY <1>fixed DEF DeploymentInv, NobodySkipped, ShutDown, Disconnects
<1>12. RegisteredIsReleased'
  BY <1>fixed DEF DeploymentInv, RegisteredIsReleased, ShutDown, Disconnects
<1> QED
  BY <1>1, <1>2, <1>3, <1>4, <1>5, <1>6, <1>7, <1>8, <1>9, <1>10, <1>11, <1>12 DEF
     DeploymentInv

(* Every device with a hook has been shut down.                            *)
LEMMA ReleasedKeeps ==
    ASSUME DeploymentInv, Released
    PROVE  DeploymentInv'
<1>fixed. skipBoot' = skipBoot /\ Chain' = Chain /\ Devices' = Devices
  BY DEF Released, Chain, Devices
<1>1. StagesTyped'
  BY <1>fixed DEF DeploymentInv, StagesTyped, Released
<1>2. NothingRan'
  BY <1>fixed DEF DeploymentInv, NothingRan, Released
<1>3. OnlyInAStage'
  BY <1>fixed DEF DeploymentInv, OnlyInAStage, InState, Released
<1>4. EarlierStagesRan'
  BY <1>fixed DEF DeploymentInv, EarlierStagesRan, Released
<1>5. TasksAreOfTheHook'
  BY <1>fixed DEF DeploymentInv, TasksAreOfTheHook, Released
<1>6. StageIsComplete'
  BY <1>fixed DEF DeploymentInv, StageIsComplete, Released
<1>7. RanIsPast'
  BY <1>fixed DEF DeploymentInv, RanIsPast, Released
<1>8. BootedIsOpen'
  BY <1>fixed DEF DeploymentInv, BootedIsOpen, Released
<1>9. ShutDownIsClosed'
  BY <1>fixed DEF DeploymentInv, ShutDownIsClosed, Released
<1>10. ReservedUntilReleased'
  BY <1>fixed DEF DeploymentInv, ReservedUntilReleased, Remaining, Blocking, Released
<1>11. NobodySkipped'
  BY <1>fixed DEF DeploymentInv, NobodySkipped, Released
<1>12. RegisteredIsReleased'
  BY <1>fixed DEF DeploymentInv, RegisteredIsReleased, Released
<1> QED
  BY <1>1, <1>2, <1>3, <1>4, <1>5, <1>6, <1>7, <1>8, <1>9, <1>10, <1>11, <1>12 DEF
     DeploymentInv

(***************************************************************************)
(* The theorems                                                            *)
(***************************************************************************)

LEMMA DeploymentStarts ==
    ASSUME DeploymentInit
    PROVE  DeploymentInv
<1>1. Devices = {}
  BY DEF DeploymentInit, Devices, ToSet
<1>2. StagesTyped
  <2>1. stage \in 1 .. Len(Chain)
    <3>1. Len(Chain) \in {1, 7}
      BY ChainFacts DEF DeploymentInit
    <3> QED
      BY <3>1 DEF DeploymentInit
  <2> QED
    BY <1>1, <2>1 DEF DeploymentInit, StagesTyped, NoTask
<1>3. NothingRan /\ OnlyInAStage /\ EarlierStagesRan /\ TasksAreOfTheHook /\ StageIsComplete
  BY DEF DeploymentInit, NothingRan, OnlyInAStage, EarlierStagesRan, TasksAreOfTheHook,
     StageIsComplete, InState, NoTask
<1>4. RanIsPast /\ BootedIsOpen /\ ShutDownIsClosed /\ ReservedUntilReleased
  BY DEF DeploymentInit, RanIsPast, BootedIsOpen, ShutDownIsClosed, ReservedUntilReleased
<1>5. NobodySkipped /\ RegisteredIsReleased
  BY DEF DeploymentInit, NobodySkipped, RegisteredIsReleased
<1> QED
  BY <1>2, <1>3, <1>4, <1>5 DEF DeploymentInv

LEMMA DeploymentStep ==
    ASSUME DeploymentInv, [DeploymentNext]_deploymentVars
    PROVE  DeploymentInv'
<1>1. CASE UNCHANGED deploymentVars
  BY <1>1 DEF deploymentVars, DeploymentInv, StagesTyped, NothingRan, OnlyInAStage,
     EarlierStagesRan, TasksAreOfTheHook, StageIsComplete, RanIsPast, BootedIsOpen,
     ShutDownIsClosed, ReservedUntilReleased, NobodySkipped, RegisteredIsReleased,
     Devices, Chain, Hook, Blocking, InState, Remaining
<1>2. CASE Reserve \/ Parse \/ Register \/ PostSetup \/ ReleaseBegins \/ Released
  BY <1>2, ReserveKeeps, ParseKeeps, RegisterKeeps, PostSetupKeeps, ReleaseBeginsKeeps,
     ReleasedKeeps
<1>3. CASE StageBegins \/ GroupAborts \/ StageReturns \/ StageRaises
  BY <1>3, StageBeginsKeeps, GroupAbortsKeeps, StageReturnsKeeps, StageRaisesKeeps
<1>4. CASE \E d \in Devices : HookBegins(d) \/ HookReturns(d) \/ HookRaises(d) \/ ShutDown(d)
  BY <1>4, HookBeginsKeeps, HookReturnsKeeps, HookRaisesKeeps, ShutDownKeeps
<1> QED
  BY <1>1, <1>2, <1>3, <1>4 DEF DeploymentNext, DeploymentSteps, DeploymentEnded

LEMMA DeploymentInvariant == DeploymentSpec => []DeploymentInv
<1>1. DeploymentInit => DeploymentInv
  BY DeploymentStarts
<1> QED
  BY <1>1, DeploymentStep, PTL DEF DeploymentSpec

(* A hook runs only when every device has behind it all hooks of the       *)
(* earlier stages, no deployment is handed over with a device left out,    *)
(* and no hook is on its way when the devices are shut down: for every     *)
(* inventory, and wherever hooks fail, as blocking calls or as tasks.      *)
THEOREM StagesKeptApart == DeploymentSpec => []HooksInOrder
<1>1. DeploymentInv => HooksInOrder
  <2>. SUFFICES ASSUME DeploymentInv PROVE HooksInOrder
    OBVIOUS
  <2>1. StagesInOrder
    BY DEF DeploymentInv, OnlyInAStage, EarlierStagesRan, StagesInOrder
  <2>2. NoHookInShutdown
    BY DEF DeploymentInv, OnlyInAStage, NoHookInShutdown
  <2> QED
    BY <2>1, <2>2 DEF DeploymentInv, HooksInOrder
<1> QED
  BY <1>1, DeploymentInvariant, PTL

(* Every device has a console that is logged in when the user is let in    *)
(* and none that is open when the reservation goes back, but for the three *)
(* classes that keep theirs; and after registration nothing but a GenieACS *)
(* without a client keeps the devices reserved.                            *)
THEOREM ConsolesAccounted == DeploymentSpec => []DevicesAccounted
<1>1. DeploymentInv => DevicesAccounted
  <2>. SUFFICES ASSUME DeploymentInv PROVE DevicesAccounted
    OBVIOUS
  <2>1. ConnectedForUse
    <3>. SUFFICES ASSUME at = "post", NEW d \in Devices PROVE console[d] = "open"
      BY DEF ConnectedForUse
    <3>1. PICK i \in 1 .. Len(Chain) : Chain[i] \in Boots \cap HooksOf[d].blocking
      BY SomeBootHook DEF DeploymentInv, StagesTyped
    <3>2. <<d, Chain[i]>> \in ran
      BY <3>1 DEF DeploymentInv, NobodySkipped, Blocking
    <3> QED
      BY <3>1, <3>2 DEF DeploymentInv, BootedIsOpen
  <2>2. ClosedWhenReleased
    <3>. SUFFICES ASSUME at = "end", ~reserved, NEW d \in Devices \ {"tftp", "phone", "axiros"}
                  PROVE  console[d] \in {"none", "closed"}
      BY DEF ClosedWhenReleased
    <3>1. "shutdown" \in HooksOf[d].blocking
      BY ShutDownHook DEF DeploymentInv, StagesTyped
    <3>2. <<d, "shutdown">> \in ran
      BY <3>1 DEF DeploymentInv, ReservedUntilReleased, Remaining, Blocking
    <3> QED
      BY <3>2 DEF DeploymentInv, ShutDownIsClosed
  <2> QED
    BY <2>1, <2>2 DEF DeploymentInv, DevicesAccounted
<1> QED
  BY <1>1, DeploymentInvariant, PTL

(***************************************************************************)
(* The boot of a CPE: what holds in its states                             *)
(***************************************************************************)
(* A call of provision_cpe, place by place: what it wrote so far is for    *)
(* its CPE, and what runs since the stop is what it wrote.                 *)
Written(f) == file[f].mac = provision.mac
Behind(place) == CASE place = "dhcp6.conf" -> {"dhcp4"}
                   [] place \in {"stop", "dhcp4", "dhcp6", "returned"} -> Families
                   [] OTHER -> {}

CallIsSound ==
    /\ \A f \in Behind(provision.at) : Written(f)
    /\ provision.at = "dhcp4" => \A f \in Families : served[f] = Nothing
    /\ provision.at = "dhcp6" => served["dhcp4"] = file["dhcp4"] /\ served["dhcp6"] = Nothing
    /\ provision.at = "returned" => \A f \in Families : served[f] = file[f]

(* The boot leaves the provisioner alone but for its own call. *)
OneCallAtATime ==
    /\ boot \notin {"provisioning", "booted"} => provision.at = "idle"
    /\ boot = "provisioning" => provision.mac = Mac

ServersAreRight ==
    boot \in {"cycle", "reconnect", "relogin", "hw_boot"} /\ resets = 0 =>
        \A f \in Families : served[f].mac = Mac

(* There is one open connection at most, the one that hw holds. *)
OneConnection ==
    /\ alive \subseteq {connection}
    /\ boot \in {"idle", "connect", "reconnect", "shut"} => alive = {}
    /\ boot \in {"login", "relogin"} => alive = {connection}

HandlesFollow ==
    resets = 0 /\ (\/ boot \in {"provision", "provisioning", "cycle"}
                   \/ class # "prplos" /\ boot \in {"hw_boot", "factory_reset", "online",
                                                    "management", "booted"})
        => handles = connection /\ alive = {connection}

(* A reboot of the RPi does not end its serial line. *)
LineStays == boot \in {"reconnect", "relogin"} => class # "rpirdkb"

(* The settings of the management server still to be made. *)
SettingsLeft ==
    boot = "management" =>
        /\ pending \in {<<"url", "off", "on">>, <<"off", "url", "on">>, <<"off", "on">>,
                        <<"url", "on">>, <<"on">>, <<>>}
        /\ pending \in {<<"off", "on">>, <<"on">>} => cwmp.held = "new"
        /\ pending = <<>> => cwmp.runs = "new"

Typed ==
    /\ class \in {"prplos", "rpirdkb", "bananapi"}
    /\ provision.at \in {"idle", "dhcp4.conf", "dhcp6.conf", "stop", "dhcp4", "dhcp6",
                         "returned", "raised"}
    /\ provision = [at |-> provision.at, mac |-> provision.mac, given |-> provision.given]
    /\ DOMAIN file = Families /\ DOMAIN served = Families
    /\ cwmp = [held |-> cwmp.held, runs |-> cwmp.runs]

BootInv ==
    /\ Typed /\ CallIsSound
    /\ OneCallAtATime /\ ServersAreRight /\ OneConnection /\ LineStays /\ HandlesFollow
    /\ SettingsLeft /\ ClientOnNewUrl

(***************************************************************************)
(* Steps: one lemma for each action                                        *)
(***************************************************************************)

(* Nothing is open yet.                                                    *)
LEMMA BootBeginsKeeps ==
    ASSUME BootInv, BootBegins
    PROVE  BootInv'
<1>1. Typed'
  BY DEF BootInv, Typed, Families, BootBegins, fixed, keaVars
<1>2. CallIsSound'
  BY DEF BootInv, CallIsSound, Behind, Written, Families, BootBegins, fixed,
     keaVars
<1>3. OneCallAtATime'
  BY DEF BootInv, OneCallAtATime, BootBegins, fixed, keaVars
<1>4. ServersAreRight'
  BY DEF BootInv, ServersAreRight, Families, BootBegins, fixed, keaVars
<1>5. OneConnection'
  BY DEF BootInv, OneConnection, BootBegins, fixed, keaVars
<1>6. LineStays'
  BY DEF BootInv, LineStays, BootBegins, fixed, keaVars
<1>7. HandlesFollow'
  BY DEF BootInv, HandlesFollow, BootBegins, fixed, keaVars
<1>8. SettingsLeft'
  BY DEF BootInv, SettingsLeft, BootBegins, fixed, keaVars
<1>9. ClientOnNewUrl'
  BY DEF BootInv, ClientOnNewUrl, BootBegins, fixed, keaVars
<1> QED
  BY <1>1, <1>2, <1>3, <1>4, <1>5, <1>6, <1>7, <1>8, <1>9 DEF BootInv

(* No connection is open when another one is made.                         *)
LEMMA ConsoleOpenedKeeps ==
    ASSUME BootInv, ConsoleOpened
    PROVE  BootInv'
<1>1. Typed'
  BY DEF BootInv, Typed, Families, ConsoleOpened, fixed, keaVars
<1>2. CallIsSound'
  BY DEF BootInv, CallIsSound, Behind, Written, Families, ConsoleOpened, fixed,
     keaVars
<1>3. OneCallAtATime'
  BY DEF BootInv, OneCallAtATime, ConsoleOpened, fixed, keaVars
<1>4. ServersAreRight'
  BY DEF BootInv, ServersAreRight, Families, ConsoleOpened, fixed, keaVars
<1>5. OneConnection'
  BY DEF BootInv, OneConnection, ConsoleOpened, fixed, keaVars
<1>6. LineStays'
  BY DEF BootInv, LineStays, ConsoleOpened, fixed, keaVars
<1>7. HandlesFollow'
  BY DEF BootInv, HandlesFollow, ConsoleOpened, fixed, keaVars
<1>8. SettingsLeft'
  BY DEF BootInv, SettingsLeft, ConsoleOpened, fixed, keaVars
<1>9. ClientOnNewUrl'
  BY DEF BootInv, ClientOnNewUrl, ConsoleOpened, fixed, keaVars
<1> QED
  BY <1>1, <1>2, <1>3, <1>4, <1>5, <1>6, <1>7, <1>8, <1>9 DEF BootInv

(* The software library takes the connection that is open.                 *)
LEMMA LoggedInKeeps ==
    ASSUME BootInv, LoggedIn
    PROVE  BootInv'
<1>1. Typed'
  BY DEF BootInv, Typed, Families, LoggedIn, fixed, keaVars
<1>2. CallIsSound'
  BY DEF BootInv, CallIsSound, Behind, Written, Families, LoggedIn, fixed, keaVars
<1>3. OneCallAtATime'
  BY DEF BootInv, OneCallAtATime, LoggedIn, fixed, keaVars
<1>4. ServersAreRight'
  BY DEF BootInv, ServersAreRight, Families, LoggedIn, fixed, keaVars
<1>5. OneConnection'
  BY DEF BootInv, OneConnection, LoggedIn, fixed, keaVars
<1>6. LineStays'
  BY DEF BootInv, LineStays, LoggedIn, fixed, keaVars
<1>7. HandlesFollow'
  BY DEF BootInv, OneConnection, HandlesFollow, LoggedIn, fixed, keaVars
<1>8. SettingsLeft'
  BY DEF BootInv, SettingsLeft, LoggedIn, fixed, keaVars
<1>9. ClientOnNewUrl'
  BY DEF BootInv, ClientOnNewUrl, LoggedIn, fixed, keaVars
<1> QED
  BY <1>1, <1>2, <1>3, <1>4, <1>5, <1>6, <1>7, <1>8, <1>9 DEF BootInv

(* The provisioner is idle, and its call is for this CPE.                  *)
LEMMA ProvisioningKeeps ==
    ASSUME BootInv, Provisioning
    PROVE  BootInv'
<1>1. Typed'
  BY DEF BootInv, Typed, Families, Provisioning, ProvisionBegins, fixed
<1>2. CallIsSound'
  BY DEF BootInv, CallIsSound, Behind, Written, Families, Provisioning,
     ProvisionBegins, fixed
<1>3. OneCallAtATime'
  BY DEF BootInv, OneCallAtATime, Provisioning, ProvisionBegins, fixed
<1>4. ServersAreRight'
  BY DEF BootInv, ServersAreRight, Families, Provisioning, ProvisionBegins, fixed
<1>5. OneConnection'
  BY DEF BootInv, OneConnection, Provisioning, ProvisionBegins, fixed
<1>6. LineStays'
  BY DEF BootInv, LineStays, Provisioning, ProvisionBegins, fixed
<1>7. HandlesFollow'
  BY DEF BootInv, HandlesFollow, Provisioning, ProvisionBegins, fixed
<1>8. SettingsLeft'
  BY DEF BootInv, SettingsLeft, Provisioning, ProvisionBegins, fixed
<1>9. ClientOnNewUrl'
  BY DEF BootInv, ClientOnNewUrl, Provisioning, ProvisionBegins, fixed
<1> QED
  BY <1>1, <1>2, <1>3, <1>4, <1>5, <1>6, <1>7, <1>8, <1>9 DEF BootInv

(* The boot goes on only if the call returned, with both servers right.    *)
LEMMA ProvisionedKeeps ==
    ASSUME BootInv, Provisioned
    PROVE  BootInv'
<1>1. Typed'
  BY DEF BootInv, Typed, Families, Provisioned, ProvisionEnds, NoCall, fixed
<1>2. CallIsSound'
  BY DEF BootInv, CallIsSound, Behind, Written, Families, Provisioned,
     ProvisionEnds, NoCall, fixed
<1>3. OneCallAtATime'
  BY DEF BootInv, OneCallAtATime, Provisioned, ProvisionEnds, NoCall, fixed
<1>4. ServersAreRight'
  BY DEF BootInv, CallIsSound, OneCallAtATime, ServersAreRight, Behind, Written,
     Provisioned, ProvisionEnds, NoCall, fixed
<1>5. OneConnection'
  BY DEF BootInv, OneConnection, Provisioned, ProvisionEnds, NoCall, fixed
<1>6. LineStays'
  BY DEF BootInv, LineStays, Provisioned, ProvisionEnds, NoCall, fixed
<1>7. HandlesFollow'
  BY DEF BootInv, HandlesFollow, Provisioned, ProvisionEnds, NoCall, fixed
<1>8. SettingsLeft'
  BY DEF BootInv, SettingsLeft, Provisioned, ProvisionEnds, NoCall, fixed
<1>9. ClientOnNewUrl'
  BY DEF BootInv, ClientOnNewUrl, Provisioned, ProvisionEnds, NoCall, fixed
<1> QED
  BY <1>1, <1>2, <1>3, <1>4, <1>5, <1>6, <1>7, <1>8, <1>9 DEF BootInv

(* A connection that ends takes the boot to the reconnecting.              *)
LEMMA PowerCycledKeeps ==
    ASSUME BootInv, PowerCycled
    PROVE  BootInv'
<1>1. Typed'
  BY DEF BootInv, Typed, Families, PowerCycled, Rebooted, PrplDockerCycles,
     RPiCycles, BananaPiCycles, AfterCycle, fixed, keaVars
<1>2. CallIsSound'
  BY DEF BootInv, CallIsSound, Behind, Written, Families, PowerCycled, Rebooted,
     PrplDockerCycles, RPiCycles, BananaPiCycles, AfterCycle, fixed, keaVars
<1>3. OneCallAtATime'
  BY DEF BootInv, OneCallAtATime, PowerCycled, Rebooted, PrplDockerCycles,
     RPiCycles, BananaPiCycles, AfterCycle, fixed, keaVars
<1>4. ServersAreRight'
  BY DEF BootInv, ServersAreRight, Families, PowerCycled, Rebooted,
     PrplDockerCycles, RPiCycles, BananaPiCycles, AfterCycle, fixed, keaVars
<1>5. OneConnection'
  BY DEF BootInv, OneConnection, PowerCycled, Rebooted, PrplDockerCycles,
     RPiCycles, BananaPiCycles, AfterCycle, fixed, keaVars
<1>6. LineStays'
  BY DEF BootInv, LineStays, PowerCycled, Rebooted, PrplDockerCycles, RPiCycles,
     BananaPiCycles, AfterCycle, fixed, keaVars
<1>7. HandlesFollow'
  BY DEF BootInv, HandlesFollow, PowerCycled, Rebooted, PrplDockerCycles,
     RPiCycles, BananaPiCycles, AfterCycle, fixed, keaVars
<1>8. SettingsLeft'
  BY DEF BootInv, SettingsLeft, PowerCycled, Rebooted, PrplDockerCycles,
     RPiCycles, BananaPiCycles, AfterCycle, fixed, keaVars
<1>9. ClientOnNewUrl'
  BY DEF BootInv, ClientOnNewUrl, PowerCycled, Rebooted, PrplDockerCycles,
     RPiCycles, BananaPiCycles, AfterCycle, fixed, keaVars
<1> QED
  BY <1>1, <1>2, <1>3, <1>4, <1>5, <1>6, <1>7, <1>8, <1>9 DEF BootInv

(* A BananaPi builds its software library again.                           *)
LEMMA LoggedInAgainKeeps ==
    ASSUME BootInv, LoggedInAgain
    PROVE  BootInv'
<1>1. Typed'
  BY DEF BootInv, Typed, Families, LoggedInAgain, AfterCycle, fixed, keaVars
<1>2. CallIsSound'
  BY DEF BootInv, CallIsSound, Behind, Written, Families, LoggedInAgain,
     AfterCycle, fixed, keaVars
<1>3. OneCallAtATime'
  BY DEF BootInv, OneCallAtATime, LoggedInAgain, AfterCycle, fixed, keaVars
<1>4. ServersAreRight'
  BY DEF BootInv, ServersAreRight, Families, LoggedInAgain, AfterCycle, fixed,
     keaVars
<1>5. OneConnection'
  BY DEF BootInv, OneConnection, LoggedInAgain, AfterCycle, fixed, keaVars
<1>6. LineStays'
  BY DEF BootInv, LineStays, LoggedInAgain, AfterCycle, fixed, keaVars
<1>7. HandlesFollow'
  BY DEF BootInv, Typed, OneConnection, LineStays, HandlesFollow, LoggedInAgain,
     AfterCycle, fixed, keaVars
<1>8. SettingsLeft'
  BY DEF BootInv, SettingsLeft, LoggedInAgain, AfterCycle, fixed, keaVars
<1>9. ClientOnNewUrl'
  BY DEF BootInv, ClientOnNewUrl, LoggedInAgain, AfterCycle, fixed, keaVars
<1> QED
  BY <1>1, <1>2, <1>3, <1>4, <1>5, <1>6, <1>7, <1>8, <1>9 DEF BootInv

(* The connection that does not log in is closed.                          *)
LEMMA LoginFailsAgainKeeps ==
    ASSUME BootInv, LoginFailsAgain
    PROVE  BootInv'
<1>1. Typed'
  BY DEF BootInv, Typed, Families, LoginFailsAgain, fixed, keaVars
<1>2. CallIsSound'
  BY DEF BootInv, CallIsSound, Behind, Written, Families, LoginFailsAgain, fixed,
     keaVars
<1>3. OneCallAtATime'
  BY DEF BootInv, OneCallAtATime, LoginFailsAgain, fixed, keaVars
<1>4. ServersAreRight'
  BY DEF BootInv, ServersAreRight, Families, LoginFailsAgain, fixed, keaVars
<1>5. OneConnection'
  BY DEF BootInv, OneConnection, LoginFailsAgain, fixed, keaVars
<1>6. LineStays'
  BY DEF BootInv, LineStays, LoginFailsAgain, fixed, keaVars
<1>7. HandlesFollow'
  BY DEF BootInv, HandlesFollow, LoginFailsAgain, fixed, keaVars
<1>8. SettingsLeft'
  BY DEF BootInv, SettingsLeft, LoginFailsAgain, fixed, keaVars
<1>9. ClientOnNewUrl'
  BY DEF BootInv, ClientOnNewUrl, LoginFailsAgain, fixed, keaVars
<1> QED
  BY <1>1, <1>2, <1>3, <1>4, <1>5, <1>6, <1>7, <1>8, <1>9 DEF BootInv

(* The reboot is behind it.                                                *)
LEMMA InterfaceUpKeeps ==
    ASSUME BootInv, InterfaceUp
    PROVE  BootInv'
<1>1. Typed'
  BY DEF BootInv, Typed, Families, InterfaceUp, fixed, keaVars
<1>2. CallIsSound'
  BY DEF BootInv, CallIsSound, Behind, Written, Families, InterfaceUp, fixed,
     keaVars
<1>3. OneCallAtATime'
  BY DEF BootInv, OneCallAtATime, InterfaceUp, fixed, keaVars
<1>4. ServersAreRight'
  BY DEF BootInv, ServersAreRight, Families, InterfaceUp, fixed, keaVars
<1>5. OneConnection'
  BY DEF BootInv, OneConnection, InterfaceUp, fixed, keaVars
<1>6. LineStays'
  BY DEF BootInv, LineStays, InterfaceUp, fixed, keaVars
<1>7. HandlesFollow'
  BY DEF BootInv, HandlesFollow, InterfaceUp, fixed, keaVars
<1>8. SettingsLeft'
  BY DEF BootInv, SettingsLeft, InterfaceUp, fixed, keaVars
<1>9. ClientOnNewUrl'
  BY DEF BootInv, ClientOnNewUrl, InterfaceUp, fixed, keaVars
<1> QED
  BY <1>1, <1>2, <1>3, <1>4, <1>5, <1>6, <1>7, <1>8, <1>9 DEF BootInv

(* The URL is lost before it is set.                                       *)
LEMMA FactoryResetKeeps ==
    ASSUME BootInv, FactoryReset
    PROVE  BootInv'
<1>1. Typed'
  BY DEF BootInv, Typed, Families, FactoryReset, fixed, keaVars
<1>2. CallIsSound'
  BY DEF BootInv, CallIsSound, Behind, Written, Families, FactoryReset, fixed,
     keaVars
<1>3. OneCallAtATime'
  BY DEF BootInv, OneCallAtATime, FactoryReset, fixed, keaVars
<1>4. ServersAreRight'
  BY DEF BootInv, ServersAreRight, Families, FactoryReset, fixed, keaVars
<1>5. OneConnection'
  BY DEF BootInv, OneConnection, FactoryReset, fixed, keaVars
<1>6. LineStays'
  BY DEF BootInv, LineStays, FactoryReset, fixed, keaVars
<1>7. HandlesFollow'
  BY DEF BootInv, HandlesFollow, FactoryReset, fixed, keaVars
<1>8. SettingsLeft'
  BY DEF BootInv, SettingsLeft, FactoryReset, fixed, keaVars
<1>9. ClientOnNewUrl'
  BY DEF BootInv, ClientOnNewUrl, FactoryReset, fixed, keaVars
<1> QED
  BY <1>1, <1>2, <1>3, <1>4, <1>5, <1>6, <1>7, <1>8, <1>9 DEF BootInv

(* All settings are still to be made, in the order of the class.           *)
LEMMA OnlineKeeps ==
    ASSUME BootInv, Online
    PROVE  BootInv'
<1>1. Typed'
  BY DEF BootInv, Typed, Families, Online, SettingsOf, PrplOSSettings,
     RPiSettings, BananaPiSettings, fixed, keaVars
<1>2. CallIsSound'
  BY DEF BootInv, CallIsSound, Behind, Written, Families, Online, SettingsOf,
     PrplOSSettings, RPiSettings, BananaPiSettings, fixed, keaVars
<1>3. OneCallAtATime'
  BY DEF BootInv, OneCallAtATime, Online, SettingsOf, PrplOSSettings, RPiSettings,
     BananaPiSettings, fixed, keaVars
<1>4. ServersAreRight'
  BY DEF BootInv, ServersAreRight, Families, Online, SettingsOf, PrplOSSettings,
     RPiSettings, BananaPiSettings, fixed, keaVars
<1>5. OneConnection'
  BY DEF BootInv, OneConnection, Online, SettingsOf, PrplOSSettings, RPiSettings,
     BananaPiSettings, fixed, keaVars
<1>6. LineStays'
  BY DEF BootInv, LineStays, Online, SettingsOf, PrplOSSettings, RPiSettings,
     BananaPiSettings, fixed, keaVars
<1>7. HandlesFollow'
  BY DEF BootInv, HandlesFollow, Online, SettingsOf, PrplOSSettings, RPiSettings,
     BananaPiSettings, fixed, keaVars
<1>8. SettingsLeft'
  BY DEF BootInv, Typed, SettingsLeft, Online, SettingsOf, PrplOSSettings,
     RPiSettings, BananaPiSettings, fixed, keaVars
<1>9. ClientOnNewUrl'
  BY DEF BootInv, ClientOnNewUrl, Online, SettingsOf, PrplOSSettings, RPiSettings,
     BananaPiSettings, fixed, keaVars
<1> QED
  BY <1>1, <1>2, <1>3, <1>4, <1>5, <1>6, <1>7, <1>8, <1>9 DEF BootInv

(* In each order the URL is set before the client is switched on.          *)
LEMMA SettingMadeKeeps ==
    ASSUME BootInv, SettingMade
    PROVE  BootInv'
<1>1. Typed'
  BY DEF BootInv, Typed, Families, SettingMade, fixed, keaVars
<1>2. CallIsSound'
  BY DEF BootInv, CallIsSound, Behind, Written, Families, SettingMade, fixed,
     keaVars
<1>3. OneCallAtATime'
  BY DEF BootInv, OneCallAtATime, SettingMade, fixed, keaVars
<1>4. ServersAreRight'
  BY DEF BootInv, ServersAreRight, Families, SettingMade, fixed, keaVars
<1>5. OneConnection'
  BY DEF BootInv, OneConnection, SettingMade, fixed, keaVars
<1>6. LineStays'
  BY DEF BootInv, LineStays, SettingMade, fixed, keaVars
<1>7. HandlesFollow'
  BY DEF BootInv, HandlesFollow, SettingMade, fixed, keaVars
<1>8. SettingsLeft'
  <2>. SUFFICES ASSUME boot = "management", pending # <<>>, pending' = Tail(pending),
                       cwmp' = CASE Head(pending) = "url" -> [cwmp EXCEPT !.held = "new"]
                                 [] Head(pending) = "off" -> [cwmp EXCEPT !.runs = "off"]
                                 [] OTHER -> [cwmp EXCEPT !.runs = cwmp.held]
                PROVE  SettingsLeft'
    BY DEF SettingMade
  <2>1. /\ Tail(<<"url", "off", "on">>) = <<"off", "on">> /\ Tail(<<"url", "on">>) = <<"on">>
        /\ Tail(<<"off", "url", "on">>) = <<"url", "on">>
    OBVIOUS
  <2>2. /\ <<"on">> # <<>> /\ <<"url", "on">> # <<>> /\ <<"off", "on">> # <<>>
        /\ <<"url", "on">> # <<"on">> /\ <<"url", "on">> # <<"off", "on">>
    <3>1. /\ Len(<<"on">>) = 1 /\ Len(<<"url", "on">>) = 2
          /\ Len(<<"off", "on">>) = 2 /\ Len(<<>>) = 0
      OBVIOUS
    <3>2. <<"url", "on">> # <<"off", "on">>
      OBVIOUS
    <3> QED
      BY <3>1, <3>2
  <2>3. cwmp = [held |-> cwmp.held, runs |-> cwmp.runs]
    BY DEF BootInv, Typed
  <2>4. CASE pending \in {<<"url", "off", "on">>, <<"url", "on">>}
    <3>1. Head(pending) = "url" /\ pending' \in {<<"off", "on">>, <<"on">>}
      <4>1. CASE pending = <<"url", "off", "on">>
        BY <4>1, <2>1
      <4>2. CASE pending = <<"url", "on">>
        BY <4>2, <2>1
      <4> QED
        BY <2>4, <4>1, <4>2
    <3>2. cwmp'.held = "new"
      BY <2>3, <3>1
    <3> QED
      BY <2>2, <3>1, <3>2 DEF SettingsLeft
  <2>5. CASE pending = <<"off", "url", "on">>
    <3>1. pending' = <<"url", "on">>
      BY <2>5, <2>1
    <3> QED
      BY <2>2, <3>1 DEF SettingsLeft
  <2>6. CASE pending = <<"off", "on">>
    <3>1. Head(pending) = "off" /\ pending' = <<"on">> /\ cwmp.held = "new"
      BY <2>6 DEF BootInv, SettingsLeft
    <3>2. cwmp'.held = "new"
      BY <2>3, <3>1
    <3> QED
      BY <2>2, <3>1, <3>2 DEF SettingsLeft
  <2>7. CASE pending = <<"on">>
    <3>1. Head(pending) = "on" /\ pending' = <<>> /\ cwmp.held = "new"
      BY <2>7 DEF BootInv, SettingsLeft
    <3>2. cwmp'.runs = "new"
      BY <2>3, <3>1
    <3> QED
      BY <2>2, <3>1, <3>2 DEF SettingsLeft
  <2> QED
    BY <2>4, <2>5, <2>6, <2>7 DEF BootInv, SettingsLeft
<1>9. ClientOnNewUrl'
  BY DEF BootInv, ClientOnNewUrl, SettingMade, fixed, keaVars
<1> QED
  BY <1>1, <1>2, <1>3, <1>4, <1>5, <1>6, <1>7, <1>8, <1>9 DEF BootInv

(* No setting is left: the client runs on the new URL.                     *)
LEMMA BootReturnsKeeps ==
    ASSUME BootInv, BootReturns
    PROVE  BootInv'
<1>1. Typed'
  BY DEF BootInv, Typed, Families, BootReturns, fixed, keaVars
<1>2. CallIsSound'
  BY DEF BootInv, CallIsSound, Behind, Written, Families, BootReturns, fixed,
     keaVars
<1>3. OneCallAtATime'
  BY DEF BootInv, OneCallAtATime, BootReturns, fixed, keaVars
<1>4. ServersAreRight'
  BY DEF BootInv, ServersAreRight, Families, BootReturns, fixed, keaVars
<1>5. OneConnection'
  BY DEF BootInv, OneConnection, BootReturns, fixed, keaVars
<1>6. LineStays'
  BY DEF BootInv, LineStays, BootReturns, fixed, keaVars
<1>7. HandlesFollow'
  BY DEF BootInv, HandlesFollow, BootReturns, fixed, keaVars
<1>8. SettingsLeft'
  BY DEF BootInv, SettingsLeft, BootReturns, fixed, keaVars
<1>9. ClientOnNewUrl'
  BY DEF BootInv, SettingsLeft, ClientOnNewUrl, BootReturns, fixed, keaVars
<1> QED
  BY <1>1, <1>2, <1>3, <1>4, <1>5, <1>6, <1>7, <1>8, <1>9 DEF BootInv

(* Nothing more is promised of the boot.                                   *)
LEMMA BootRaisesKeeps ==
    ASSUME BootInv, BootRaises
    PROVE  BootInv'
<1>1. Typed'
  BY DEF BootInv, Typed, Families, BootRaises, fixed, keaVars
<1>2. CallIsSound'
  BY DEF BootInv, CallIsSound, Behind, Written, Families, BootRaises, fixed,
     keaVars
<1>3. OneCallAtATime'
  BY DEF BootInv, OneCallAtATime, BootRaises, fixed, keaVars
<1>4. ServersAreRight'
  BY DEF BootInv, ServersAreRight, Families, BootRaises, fixed, keaVars
<1>5. OneConnection'
  BY DEF BootInv, OneConnection, BootRaises, fixed, keaVars
<1>6. LineStays'
  BY DEF BootInv, LineStays, BootRaises, fixed, keaVars
<1>7. HandlesFollow'
  BY DEF BootInv, HandlesFollow, BootRaises, fixed, keaVars
<1>8. SettingsLeft'
  BY DEF BootInv, SettingsLeft, BootRaises, fixed, keaVars
<1>9. ClientOnNewUrl'
  BY DEF BootInv, ClientOnNewUrl, BootRaises, fixed, keaVars
<1> QED
  BY <1>1, <1>2, <1>3, <1>4, <1>5, <1>6, <1>7, <1>8, <1>9 DEF BootInv

(* Nothing more is promised of the handles.                                *)
LEMMA ResetByUserKeeps ==
    ASSUME BootInv, ResetByUser
    PROVE  BootInv'
<1>1. Typed'
  BY DEF BootInv, Typed, Families, ResetByUser, fixed, keaVars
<1>2. CallIsSound'
  BY DEF BootInv, CallIsSound, Behind, Written, Families, ResetByUser, fixed,
     keaVars
<1>3. OneCallAtATime'
  BY DEF BootInv, OneCallAtATime, ResetByUser, fixed, keaVars
<1>4. ServersAreRight'
  BY DEF BootInv, ServersAreRight, Families, ResetByUser, fixed, keaVars
<1>5. OneConnection'
  BY DEF BootInv, OneConnection, ResetByUser, fixed, keaVars
<1>6. LineStays'
  BY DEF BootInv, LineStays, ResetByUser, fixed, keaVars
<1>7. HandlesFollow'
  BY DEF BootInv, HandlesFollow, ResetByUser, fixed, keaVars
<1>8. SettingsLeft'
  BY DEF BootInv, SettingsLeft, ResetByUser, fixed, keaVars
<1>9. ClientOnNewUrl'
  BY DEF BootInv, ClientOnNewUrl, ResetByUser, fixed, keaVars
<1> QED
  BY <1>1, <1>2, <1>3, <1>4, <1>5, <1>6, <1>7, <1>8, <1>9 DEF BootInv

(* The user's calls are made when the boot is over.                        *)
LEMMA ProvisionedByUserKeeps ==
    ASSUME BootInv, ProvisionedByUser
    PROVE  BootInv'
<1>1. Typed'
  BY DEF BootInv, Typed, Families, ProvisionedByUser, ProvisionBegins,
     ProvisionEnds, NoCall, cpeVars, fixed
<1>2. CallIsSound'
  BY DEF BootInv, CallIsSound, Behind, Written, Families, ProvisionedByUser,
     ProvisionBegins, ProvisionEnds, NoCall, cpeVars, fixed
<1>3. OneCallAtATime'
  BY DEF BootInv, OneCallAtATime, ProvisionedByUser, ProvisionBegins,
     ProvisionEnds, NoCall, cpeVars, fixed
<1>4. ServersAreRight'
  BY DEF BootInv, ServersAreRight, Families, ProvisionedByUser, ProvisionBegins,
     ProvisionEnds, NoCall, cpeVars, fixed
<1>5. OneConnection'
  BY DEF BootInv, OneConnection, ProvisionedByUser, ProvisionBegins,
     ProvisionEnds, NoCall, cpeVars, fixed
<1>6. LineStays'
  BY DEF BootInv, LineStays, ProvisionedByUser, ProvisionBegins, ProvisionEnds,
     NoCall, cpeVars, fixed
<1>7. HandlesFollow'
  BY DEF BootInv, HandlesFollow, ProvisionedByUser, ProvisionBegins,
     ProvisionEnds, NoCall, cpeVars, fixed
<1>8. SettingsLeft'
  BY DEF BootInv, SettingsLeft, ProvisionedByUser, ProvisionBegins, ProvisionEnds,
     NoCall, cpeVars, fixed
<1>9. ClientOnNewUrl'
  BY DEF BootInv, ClientOnNewUrl, ProvisionedByUser, ProvisionBegins,
     ProvisionEnds, NoCall, cpeVars, fixed
<1> QED
  BY <1>1, <1>2, <1>3, <1>4, <1>5, <1>6, <1>7, <1>8, <1>9 DEF BootInv

(* The one connection is closed.                                           *)
LEMMA CpeShutDownKeeps ==
    ASSUME BootInv, CpeShutDown
    PROVE  BootInv'
<1>1. Typed'
  BY DEF BootInv, Typed, Families, CpeShutDown, fixed, keaVars
<1>2. CallIsSound'
  BY DEF BootInv, CallIsSound, Behind, Written, Families, CpeShutDown, fixed,
     keaVars
<1>3. OneCallAtATime'
  BY DEF BootInv, OneCallAtATime, CpeShutDown, fixed, keaVars
<1>4. ServersAreRight'
  BY DEF BootInv, ServersAreRight, Families, CpeShutDown, fixed, keaVars
<1>5. OneConnection'
  BY DEF BootInv, OneConnection, CpeShutDown, fixed, keaVars
<1>6. LineStays'
  BY DEF BootInv, LineStays, CpeShutDown, fixed, keaVars
<1>7. HandlesFollow'
  BY DEF BootInv, HandlesFollow, CpeShutDown, fixed, keaVars
<1>8. SettingsLeft'
  BY DEF BootInv, SettingsLeft, CpeShutDown, fixed, keaVars
<1>9. ClientOnNewUrl'
  BY DEF BootInv, ClientOnNewUrl, CpeShutDown, fixed, keaVars
<1> QED
  BY <1>1, <1>2, <1>3, <1>4, <1>5, <1>6, <1>7, <1>8, <1>9 DEF BootInv

(* A file is written for the CPE of the call.                              *)
LEMMA WriteConfigsKeeps ==
    ASSUME BootInv, WriteConfigs, UNCHANGED cpeVars
    PROVE  BootInv'
<1>1. Typed'
  BY DEF BootInv, Typed, Families, WriteConfigs, ConfigWritten, ConfigOf, Goes,
     cpeVars, fixed
<1>2. CallIsSound'
  BY DEF BootInv, Typed, CallIsSound, Behind, Written, Families, WriteConfigs,
     ConfigWritten, ConfigOf, Goes, cpeVars, fixed
<1>3. OneCallAtATime'
  BY DEF BootInv, Typed, OneCallAtATime, WriteConfigs, ConfigWritten, ConfigOf,
     Goes, cpeVars, fixed
<1>4. ServersAreRight'
  BY DEF BootInv, ServersAreRight, Families, WriteConfigs, ConfigWritten,
     ConfigOf, Goes, cpeVars, fixed
<1>5. OneConnection'
  BY DEF BootInv, OneConnection, WriteConfigs, ConfigWritten, ConfigOf, Goes,
     cpeVars, fixed, Families
<1>6. LineStays'
  BY DEF BootInv, LineStays, WriteConfigs, ConfigWritten, ConfigOf, Goes, cpeVars,
     fixed, Families
<1>7. HandlesFollow'
  BY DEF BootInv, HandlesFollow, WriteConfigs, ConfigWritten, ConfigOf, Goes,
     cpeVars, fixed, Families
<1>8. SettingsLeft'
  BY DEF BootInv, SettingsLeft, WriteConfigs, ConfigWritten, ConfigOf, Goes,
     cpeVars, fixed, Families
<1>9. ClientOnNewUrl'
  BY DEF BootInv, ClientOnNewUrl, WriteConfigs, ConfigWritten, ConfigOf, Goes,
     cpeVars, fixed, Families
<1> QED
  BY <1>1, <1>2, <1>3, <1>4, <1>5, <1>6, <1>7, <1>8, <1>9 DEF BootInv

(* Both servers are down before either starts.                             *)
LEMMA StopServersKeeps ==
    ASSUME BootInv, StopServers, UNCHANGED cpeVars
    PROVE  BootInv'
<1>1. Typed'
  BY DEF BootInv, Typed, Families, StopServers, Goes, cpeVars, fixed
<1>2. CallIsSound'
  BY DEF BootInv, CallIsSound, Behind, Written, Families, StopServers, Goes,
     cpeVars, fixed
<1>3. OneCallAtATime'
  BY DEF BootInv, OneCallAtATime, StopServers, Goes, cpeVars, fixed
<1>4. ServersAreRight'
  BY DEF BootInv, OneCallAtATime, ServersAreRight, StopServers, Goes, cpeVars,
     fixed
<1>5. OneConnection'
  BY DEF BootInv, OneConnection, StopServers, Goes, cpeVars, fixed
<1>6. LineStays'
  BY DEF BootInv, LineStays, StopServers, Goes, cpeVars, fixed
<1>7. HandlesFollow'
  BY DEF BootInv, HandlesFollow, StopServers, Goes, cpeVars, fixed
<1>8. SettingsLeft'
  BY DEF BootInv, SettingsLeft, StopServers, Goes, cpeVars, fixed
<1>9. ClientOnNewUrl'
  BY DEF BootInv, ClientOnNewUrl, StopServers, Goes, cpeVars, fixed
<1> QED
  BY <1>1, <1>2, <1>3, <1>4, <1>5, <1>6, <1>7, <1>8, <1>9 DEF BootInv

(* A server that is down reads the file it finds.                          *)
LEMMA StartServersKeeps ==
    ASSUME BootInv, StartServers, UNCHANGED cpeVars
    PROVE  BootInv'
<1>1. Typed'
  BY DEF BootInv, Typed, Families, StartServers, ServerStarted, Goes, cpeVars,
     fixed
<1>2. CallIsSound'
  BY DEF BootInv, Typed, CallIsSound, Behind, Written, Families, StartServers,
     ServerStarted, Goes, cpeVars, fixed
<1>3. OneCallAtATime'
  BY DEF BootInv, Typed, OneCallAtATime, StartServers, ServerStarted, Goes,
     cpeVars, fixed
<1>4. ServersAreRight'
  BY DEF BootInv, OneCallAtATime, ServersAreRight, StartServers, ServerStarted,
     Goes, cpeVars, fixed
<1>5. OneConnection'
  BY DEF BootInv, OneConnection, StartServers, ServerStarted, Goes, cpeVars,
     fixed, Families
<1>6. LineStays'
  BY DEF BootInv, LineStays, StartServers, ServerStarted, Goes, cpeVars, fixed,
     Families
<1>7. HandlesFollow'
  BY DEF BootInv, HandlesFollow, StartServers, ServerStarted, Goes, cpeVars,
     fixed, Families
<1>8. SettingsLeft'
  BY DEF BootInv, SettingsLeft, StartServers, ServerStarted, Goes, cpeVars, fixed,
     Families
<1>9. ClientOnNewUrl'
  BY DEF BootInv, ClientOnNewUrl, StartServers, ServerStarted, Goes, cpeVars,
     fixed, Families
<1> QED
  BY <1>1, <1>2, <1>3, <1>4, <1>5, <1>6, <1>7, <1>8, <1>9 DEF BootInv

(* A call that raises promises nothing.                                    *)
LEMMA ProvisionRaisesKeeps ==
    ASSUME BootInv, ProvisionRaises, UNCHANGED cpeVars
    PROVE  BootInv'
<1>1. Typed'
  BY DEF BootInv, Typed, Families, ProvisionRaises, Goes, cpeVars, fixed
<1>2. CallIsSound'
  BY DEF BootInv, CallIsSound, Behind, Written, Families, ProvisionRaises, Goes,
     cpeVars, fixed
<1>3. OneCallAtATime'
  BY DEF BootInv, OneCallAtATime, ProvisionRaises, Goes, cpeVars, fixed
<1>4. ServersAreRight'
  BY DEF BootInv, ServersAreRight, Families, ProvisionRaises, Goes, cpeVars, fixed
<1>5. OneConnection'
  BY DEF BootInv, OneConnection, ProvisionRaises, Goes, cpeVars, fixed
<1>6. LineStays'
  BY DEF BootInv, LineStays, ProvisionRaises, Goes, cpeVars, fixed
<1>7. HandlesFollow'
  BY DEF BootInv, HandlesFollow, ProvisionRaises, Goes, cpeVars, fixed
<1>8. SettingsLeft'
  BY DEF BootInv, SettingsLeft, ProvisionRaises, Goes, cpeVars, fixed
<1>9. ClientOnNewUrl'
  BY DEF BootInv, ClientOnNewUrl, ProvisionRaises, Goes, cpeVars, fixed
<1> QED
  BY <1>1, <1>2, <1>3, <1>4, <1>5, <1>6, <1>7, <1>8, <1>9 DEF BootInv

(***************************************************************************)
(* The theorems                                                            *)
(***************************************************************************)

LEMMA BootStarts ==
    ASSUME CpeInit, KeaInit
    PROVE  BootInv
<1>1. Typed
  BY DEF CpeInit, KeaInit, Typed, NoCall
<1>2. CallIsSound
  BY DEF KeaInit, CallIsSound, Behind, NoCall
<1>3. /\ OneCallAtATime /\ ServersAreRight /\ OneConnection /\ LineStays /\ HandlesFollow
      /\ SettingsLeft /\ ClientOnNewUrl
  BY DEF CpeInit, KeaInit, OneCallAtATime, ServersAreRight, OneConnection, LineStays,
     HandlesFollow, SettingsLeft, ClientOnNewUrl, NoCall
<1> QED
  BY <1>1, <1>2, <1>3 DEF BootInv

LEMMA BootInvariant == CpeSpec => []BootInv
<1>1. CpeInit /\ KeaInit => BootInv
  BY BootStarts
<1>2. ASSUME BootInv, [CpeNext]_<<cpeVars, keaVars>>
      PROVE  BootInv'
  <2>1. CASE UNCHANGED <<cpeVars, keaVars>>
    BY <1>2, <2>1 DEF cpeVars, keaVars, BootInv, Typed, CallIsSound, Behind, Written,
       OneCallAtATime, ServersAreRight, OneConnection, LineStays, HandlesFollow, SettingsLeft,
       ClientOnNewUrl
  <2>2. CASE \/ BootBegins \/ ConsoleOpened \/ LoggedIn \/ Provisioning \/ Provisioned
             \/ PowerCycled \/ LoggedInAgain \/ LoginFailsAgain
    BY <1>2, <2>2, BootBeginsKeeps, ConsoleOpenedKeeps, LoggedInKeeps, ProvisioningKeeps,
       ProvisionedKeeps, PowerCycledKeeps, LoggedInAgainKeeps, LoginFailsAgainKeeps
  <2>3. CASE \/ InterfaceUp \/ FactoryReset \/ Online \/ SettingMade \/ BootReturns
             \/ BootRaises \/ ResetByUser \/ ProvisionedByUser \/ CpeShutDown
    BY <1>2, <2>3, InterfaceUpKeeps, FactoryResetKeeps, OnlineKeeps, SettingMadeKeeps,
       BootReturnsKeeps, BootRaisesKeeps, ResetByUserKeeps, ProvisionedByUserKeeps,
       CpeShutDownKeeps
  <2>4. CASE KeaSteps /\ UNCHANGED cpeVars
    BY <1>2, <2>4, WriteConfigsKeeps, StopServersKeeps, StartServersKeeps,
       ProvisionRaisesKeeps DEF KeaSteps
  <2> QED
    BY <1>2, <2>1, <2>2, <2>3, <2>4 DEF CpeNext, CpeSteps, CpeEnded
<1> QED
  BY <1>1, <1>2, PTL DEF CpeSpec

(* When provision_cpe returns, to a boot or to a user, both DHCP servers   *)
(* serve what it wrote for its CPE, whatever calls failed half way before. *)
THEOREM ProvisionerServes == CpeSpec => []ServesWhatItWrote
<1>1. BootInv => ServesWhatItWrote
  BY DEF BootInv, CallIsSound, Behind, Written, Families, ServesWhatItWrote
<1> QED
  BY <1>1, BootInvariant, PTL

(* A boot of any of the classes, through however many connections, leaves  *)
(* handles on the open connection (but for prplOS), a CPE that rebooted    *)
(* with its own configuration on both servers, a TR-069 client on the new  *)
(* URL, and after the shutdown no connection.                              *)
THEOREM BootKept == CpeSpec => []BootIsSound
<1>1. BootInv => BootIsSound
  <2>. SUFFICES ASSUME BootInv PROVE BootIsSound
    OBVIOUS
  <2>1. HandlesLive
    BY DEF BootInv, HandlesFollow, HandlesLive
  <2>2. ConnectionsClosed
    BY DEF BootInv, OneConnection, ConnectionsClosed
  <2>3. RebootsProvisioned
    BY DEF BootInv, ServersAreRight, RebootsProvisioned
  <2> QED
    BY <2>1, <2>2, <2>3 DEF BootInv, BootIsSound
<1> QED
  BY <1>1, BootInvariant, PTL

(***************************************************************************)
(* InventoryConfig: matching the Wi-Fi clients with devices                *)
(***************************************************************************)

(* Assignment f keeps what the clients that g matched already have. *)
Keeps(f, g) == \A c \in DOMAIN g : f[c] = g[c]

(* No choice so far has made an assignment impossible. *)
MatchingInv ==
    /\ ConfigTypeOK
    /\ parsed.status \in {"matching", "merged"} => AreServed(parsed.wifi)
    /\ parsed.status = "matching" /\ Assignments # {} =>
           \E f \in Assignments : Keeps(f, parsed.wifi)
    /\ MatchingIsRight

(* The first device that fits is never the better one to keep: one that    *)
(* sorts behind it serves whomever it serves, besides the client at hand.  *)
LEMMA LaterServesMore ==
    ASSUME ConfigTypeOK, NEW c \in Clients, NEW c2 \in Clients, NEW d \in Devs, NEW e \in Devs,
           Serves(d, c), Serves(e, c), Serves(d, c2), Sorted(wifiDevices, d, e)
    PROVE  Serves(e, c2)
<1>1. /\ wifiDevices[d] \in Bands /\ wifiDevices[e] \in Bands
      /\ wifiClients[c] \in Bands /\ wifiClients[c2] \in Bands
  BY ElementOfSeq DEF ConfigTypeOK, Devs, Clients
<1>2. BandOrder["2.4GHz"] = 1 /\ BandOrder["5GHz"] = 2 /\ BandOrder["dual"] = 3
  BY DEF BandOrder, Bands
<1>3. CASE wifiDevices[e] = "dual"
  BY <1>3 DEF Serves
<1>4. CASE wifiDevices[e] # "dual"
  <2>1. wifiDevices[e] = wifiClients[c]
    BY <1>4 DEF Serves
  <2>2. wifiDevices[d] # "dual"
    BY <1>1, <1>2, <1>4 DEF Sorted, Bands
  <2> QED
    BY <2>1, <2>2 DEF Serves
<1> QED
  BY <1>3, <1>4

(* The greedy step: whoever can complete the matching before it can after. *)
LEMMA GreedyIsSafe ==
    ASSUME ConfigTypeOK, NEW c \in Clients, NEW d \in Devs, NEW g,
           DOMAIN g \subseteq Clients, g \in [DOMAIN g -> Devs],
           c \notin DOMAIN g, d \notin Range(g), Serves(d, c),
           \A e \in Devs \ Range(g) : Serves(e, c) /\ e # d => Sorted(wifiDevices, d, e),
           NEW f \in Assignments, Keeps(f, g)
    PROVE  \E h \in Assignments : Keeps(h, Gives(g, c, d))
<1>1. /\ f \in [Clients -> Devs]
      /\ \A a, b \in Clients : f[a] = f[b] => a = b
      /\ \A a \in Clients : Serves(f[a], a)
  BY DEF Assignments, AreServed, IsInjective
<1>2. \A x \in DOMAIN g : f[x] = g[x] /\ g[x] \in Range(g)
  BY DEF Keeps, Range
<1>3. ASSUME NEW h \in [Clients -> Devs],
             \A a, b \in Clients : h[a] = h[b] => a = b,
             \A a \in Clients : Serves(h[a], a),
             h[c] = d, \A x \in DOMAIN g : h[x] = f[x]
      PROVE  \E k \in Assignments : Keeps(k, Gives(g, c, d))
  <2>1. h \in Assignments
    BY <1>3 DEF Assignments, AreServed, IsInjective
  <2>2. Keeps(h, Gives(g, c, d))
    BY <1>2, <1>3 DEF Keeps, Gives
  <2> QED
    BY <2>1, <2>2
<1>4. CASE \A x \in Clients : f[x] # d
  <2> DEFINE h == [x \in Clients |-> IF x = c THEN d ELSE f[x]]
  <2>1. h \in [Clients -> Devs]
    BY <1>1
  <2>2. \A a, b \in Clients : h[a] = h[b] => a = b
    BY <1>1, <1>4
  <2>3. \A a \in Clients : Serves(h[a], a)
    BY <1>1
  <2>4. h[c] = d /\ \A x \in DOMAIN g : h[x] = f[x]
    OBVIOUS
  <2> QED
    BY <1>3, <2>1, <2>2, <2>3, <2>4
<1>5. ASSUME NEW c2 \in Clients, f[c2] = d
      PROVE  \E k \in Assignments : Keeps(k, Gives(g, c, d))
  <2>1. CASE c2 = c
    BY <1>1, <1>3, <1>5, <2>1
  <2>2. CASE c2 # c
    <3> DEFINE h == [x \in Clients |-> IF x = c THEN d ELSE IF x = c2 THEN f[c] ELSE f[x]]
    <3>1. h \in [Clients -> Devs]
      BY <1>1
    <3>2. \A a, b \in Clients : h[a] = h[b] => a = b
      BY <1>1, <1>5, <2>2
    <3>3. f[c] \in Devs /\ f[c] # d /\ Serves(f[c], c) /\ Serves(d, c2)
      BY <1>1, <1>5, <2>2
    <3>4. f[c] \notin Range(g)
      <4>1. \A x \in DOMAIN g : g[x] # f[c]
        BY <1>1, <1>2
      <4> QED
        BY <4>1 DEF Range
    <3>5. Serves(f[c], c2)
      BY <3>3, <3>4, LaterServesMore
    <3>6. \A a \in Clients : Serves(h[a], a)
      BY <1>1, <3>5
    <3>7. h[c] = d /\ \A x \in DOMAIN g : h[x] = f[x]
      BY <1>2, <1>5
    <3> QED
      BY <1>3, <3>1, <3>2, <3>6, <3>7
  <2> QED
    BY <2>1, <2>2
<1> QED
  BY <1>4, <1>5

(* As many devices as clients are needed. *)
LEMMA TooFewDevices ==
    ASSUME ConfigTypeOK, Len(wifiDevices) < Len(wifiClients)
    PROVE  Assignments = {}
<1>1. Clients = 1 .. Len(wifiClients) /\ Devs = 1 .. Len(wifiDevices)
  BY LenProperties DEF ConfigTypeOK, Clients, Devs
<1>2. Len(wifiClients) \in Nat /\ Len(wifiDevices) \in Nat
  BY LenProperties DEF ConfigTypeOK
<1>3. \A n \in Nat : IsFiniteSet(1 .. n) /\ Cardinality(1 .. n) = n
  <2> SUFFICES ASSUME NEW n \in Nat
               PROVE  IsFiniteSet(1 .. n) /\ Cardinality(1 .. n) = n
    OBVIOUS
  <2>1. \A a, b \in Int : /\ IsFiniteSet(a .. b)
                          /\ Cardinality(a .. b) = IF a > b THEN 0 ELSE b - a + 1
    BY FS_Interval, Zenon
  <2>2. IsFiniteSet(1 .. n) /\ Cardinality(1 .. n) = IF 1 > n THEN 0 ELSE n - 1 + 1
    <3>1. 1 \in Int /\ n \in Int
      OBVIOUS
    <3> QED
      BY <2>1, <3>1, Zenon
  <2> QED
    BY <2>2
<1>4. /\ IsFiniteSet(Clients) /\ Cardinality(Clients) = Len(wifiClients)
      /\ IsFiniteSet(Devs) /\ Cardinality(Devs) = Len(wifiDevices)
  BY <1>1, <1>2, <1>3
<1>5. SUFFICES ASSUME NEW f \in Assignments PROVE FALSE
  OBVIOUS
<1>6. f \in [Clients -> Devs]
  BY DEF Assignments
<1>7. PICK a, b \in Clients : a # b /\ f[a] = f[b]
  BY <1>2, <1>4, <1>6, FS_PigeonHole
<1> QED
  BY <1>6, <1>7 DEF Assignments, AreServed, IsInjective

(* What is said of the files alone outlives a step that leaves them.       *)
LEMMA FilesKept ==
    ASSUME UNCHANGED files
    PROVE  /\ Devs' = Devs /\ Clients' = Clients /\ Assignments' = Assignments
           /\ \A f : AreServed(f)' <=> AreServed(f)
BY DEF files, Devs, Clients, Assignments, AreServed, Serves

LEMMA ListedKeeps ==
    ASSUME MatchingInv, Listed
    PROVE  MatchingInv'
<1>1. parsed' = parsed /\ parsed.status = "no"
  BY DEF Listed
<1>2. /\ wifiDevices \in Seq(Bands) /\ wifiClients \in Seq(Bands)
      /\ Len(wifiDevices) \in Nat /\ Len(wifiClients) \in Nat
  BY LenProperties DEF MatchingInv, ConfigTypeOK
<1>3. /\ wifiDevices' \in Seq(Bands) /\ Len(wifiDevices)' <= MaxListed
      /\ wifiClients' \in Seq(Bands) /\ Len(wifiClients)' <= MaxListed
      /\ DOMAIN wifiDevices \subseteq DOMAIN wifiDevices'
      /\ DOMAIN wifiClients \subseteq DOMAIN wifiClients'
  <2>1. \A s \in Seq(Bands), b \in Bands :
            /\ Append(s, b) \in Seq(Bands) /\ Len(Append(s, b)) = Len(s) + 1
            /\ Len(s) \in Nat
            /\ DOMAIN s = 1 .. Len(s) /\ DOMAIN Append(s, b) = 1 .. Len(s) + 1
    BY AppendProperties, LenProperties
  <2>2. \A n \in Nat : 1 .. n \subseteq 1 .. n + 1
    OBVIOUS
  <2>3. CASE \E b \in Bands : wifiDevices' = Append(wifiDevices, b) /\ Len(wifiDevices) < MaxListed
                              /\ wifiClients' = wifiClients
    BY <1>2, <2>1, <2>2, <2>3, ListedAssumption DEF MatchingInv, ConfigTypeOK
  <2>4. CASE \E b \in Bands : wifiClients' = Append(wifiClients, b) /\ Len(wifiClients) < MaxListed
                              /\ wifiDevices' = wifiDevices
    BY <1>2, <2>1, <2>2, <2>4, ListedAssumption DEF MatchingInv, ConfigTypeOK
  <2>5. CASE UNCHANGED <<wifiDevices, wifiClients>>
    BY <2>5 DEF MatchingInv, ConfigTypeOK
  <2> QED
    BY <2>3, <2>4, <2>5 DEF Listed
<1>4. lanDevices' \in 0 .. MaxListed /\ lanClients' \in 0 .. MaxListed
  BY DEF Listed, MatchingInv, ConfigTypeOK
<1>5. ConfigTypeOK'
  <2>1. /\ DOMAIN parsed.wifi \subseteq DOMAIN wifiClients
        /\ parsed.wifi \in [DOMAIN parsed.wifi -> DOMAIN wifiDevices]
    BY DEF MatchingInv, ConfigTypeOK, Devs, Clients
  <2>2. /\ DOMAIN parsed.wifi \subseteq DOMAIN wifiClients'
        /\ parsed.wifi \in [DOMAIN parsed.wifi -> DOMAIN wifiDevices']
    BY <1>3, <2>1
  <2> QED
    BY <1>1, <1>3, <1>4, <2>2 DEF MatchingInv, ConfigTypeOK, Devs, Clients
<1> QED
  BY <1>1, <1>5 DEF MatchingInv, MatchingIsRight, RejectedOnlyIfImpossible, ClientsGetOwnDevice

LEMMA ParseBeginsKeeps ==
    ASSUME MatchingInv, ParseBegins
    PROVE  MatchingInv'
<1> DEFINE new == IF lanDevices < lanClients THEN "lan_error"
                  ELSE IF Len(wifiDevices) < Len(wifiClients) THEN "wifi_error"
                  ELSE "matching"
<1>1. parsed'.status = new /\ parsed'.wifi = <<>> /\ UNCHANGED files
  BY DEF ParseBegins, Parsing
<1> HIDE DEF new
<1>2. new \in {"lan_error", "wifi_error", "matching"}
  BY DEF new
<1>3. new = "wifi_error" => Assignments = {}
  BY TooFewDevices DEF MatchingInv, new
<1>4. DOMAIN parsed'.wifi = {} /\ parsed'.wifi \in [{} -> Devs]
  BY <1>1
<1>5. AreServed(parsed.wifi)' /\ \A f : Keeps(f, parsed.wifi')
  BY <1>4 DEF AreServed, IsInjective, Keeps
<1>6. ConfigTypeOK'
  BY <1>1, <1>2, <1>4, FilesKept DEF MatchingInv, ConfigTypeOK, files
<1> QED
  BY <1>1, <1>2, <1>3, <1>5, <1>6, FilesKept
     DEF MatchingInv, MatchingIsRight, RejectedOnlyIfImpossible, ClientsGetOwnDevice

LEMMA ClientMatchedKeeps ==
    ASSUME MatchingInv, NEW c \in Clients, NEW d \in Devs, ClientMatched(c, d)
    PROVE  MatchingInv'
<1> DEFINE g == parsed.wifi
           h == Gives(g, c, d)
<1>1. /\ parsed.status = "matching" /\ parsed'.status = "matching" /\ parsed'.wifi = h
      /\ UNCHANGED files
  BY DEF ClientMatched
<1>2. /\ ConfigTypeOK /\ AreServed(g) /\ DOMAIN g \subseteq Clients /\ g \in [DOMAIN g -> Devs]
  BY <1>1 DEF MatchingInv, ConfigTypeOK
<1>3. /\ c \notin DOMAIN g /\ d \notin Range(g) /\ Serves(d, c)
      /\ \A e \in Devs \ Range(g) : Serves(e, c) /\ e # d => Sorted(wifiDevices, d, e)
  BY DEF ClientMatched, IsFirst, Unmatched, Fitting
<1>4. /\ DOMAIN h = DOMAIN g \cup {c} /\ h \in [DOMAIN h -> Devs]
      /\ h[c] = d /\ \A x \in DOMAIN g : h[x] = g[x] /\ h[x] # d
  BY <1>2, <1>3 DEF Gives, Range
<1>5. AreServed(h)
  BY <1>2, <1>3, <1>4 DEF AreServed, IsInjective
<1>6. Assignments # {} => \E f \in Assignments : Keeps(f, h)
  <2>1. SUFFICES ASSUME NEW f \in Assignments, Keeps(f, g)
                 PROVE  \E k \in Assignments : Keeps(k, h)
    BY <1>1 DEF MatchingInv
  <2> QED
    BY <1>2, <1>3, <2>1, GreedyIsSafe
<1>7. ConfigTypeOK'
  BY <1>1, <1>2, <1>4, FilesKept DEF ConfigTypeOK, files
<1> HIDE DEF h
<1> QED
  BY <1>1, <1>5, <1>6, <1>7, FilesKept
     DEF MatchingInv, MatchingIsRight, RejectedOnlyIfImpossible, ClientsGetOwnDevice

LEMMA NoDeviceFitsKeeps ==
    ASSUME MatchingInv, NEW c \in Clients, NoDeviceFits(c)
    PROVE  MatchingInv'
<1>1. /\ parsed.status = "matching" /\ parsed'.status = "wifi_error" /\ parsed'.wifi = <<>>
      /\ UNCHANGED files /\ c \notin DOMAIN parsed.wifi
      /\ \A d \in Devs \ Range(parsed.wifi) : ~Serves(d, c)
  BY DEF NoDeviceFits, Parsing, Fitting, IsFirst, Unmatched
<1>2. Assignments = {}
  <2>1. SUFFICES ASSUME NEW f \in Assignments, Keeps(f, parsed.wifi)
                 PROVE  FALSE
    BY <1>1 DEF MatchingInv
  <2>2. f \in [Clients -> Devs] /\ IsInjective(f) /\ Serves(f[c], c)
    BY DEF Assignments, AreServed
  <2>3. f[c] \in Range(parsed.wifi)
    BY <1>1, <2>2
  <2>4. PICK x \in DOMAIN parsed.wifi : parsed.wifi[x] = f[c]
    BY <2>3 DEF Range
  <2>5. f[x] = f[c] /\ x \in Clients
    BY <2>1, <2>4 DEF Keeps, MatchingInv, ConfigTypeOK
  <2> QED
    BY <1>1, <2>2, <2>4, <2>5 DEF IsInjective
<1>3. DOMAIN parsed'.wifi = {} /\ parsed'.wifi \in [{} -> Devs]
  BY <1>1
<1>4. ConfigTypeOK'
  BY <1>1, <1>3, FilesKept DEF MatchingInv, ConfigTypeOK, files
<1> QED
  BY <1>1, <1>2, <1>4, FilesKept
     DEF MatchingInv, MatchingIsRight, RejectedOnlyIfImpossible, ClientsGetOwnDevice

LEMMA ParsedKeeps ==
    ASSUME MatchingInv, Parsed
    PROVE  MatchingInv'
<1>1. /\ parsed.status = "matching" /\ parsed'.status = "merged" /\ parsed'.wifi = parsed.wifi
      /\ UNCHANGED files /\ Clients \subseteq DOMAIN parsed.wifi
  BY DEF Parsed, Unmatched
<1>2. parsed.wifi \in Assignments
  BY <1>1 DEF MatchingInv, ConfigTypeOK, Assignments
<1>3. ConfigTypeOK'
  BY <1>1, FilesKept DEF MatchingInv, ConfigTypeOK, files
<1> QED
  BY <1>1, <1>2, <1>3, FilesKept
     DEF MatchingInv, MatchingIsRight, RejectedOnlyIfImpossible, ClientsGetOwnDevice

LEMMA ConfigStarts ==
    ASSUME ConfigInit
    PROVE  MatchingInv
<1>1. parsed.status = "no" /\ parsed.wifi = <<>>
  BY DEF ConfigInit, Parsing
<1>2. ConfigTypeOK
  <2>1. /\ <<>> \in Seq(Bands) /\ Len(<<>>) = 0 /\ 0 \in 0 .. MaxListed /\ 0 <= MaxListed
    BY EmptySeq, ListedAssumption
  <2>2. DOMAIN parsed.wifi = {} /\ parsed.wifi \in [{} -> Devs]
    BY <1>1
  <2> QED
    BY <1>1, <2>1, <2>2 DEF ConfigInit, ConfigTypeOK
<1> QED
  BY <1>1, <1>2 DEF MatchingInv, MatchingIsRight, RejectedOnlyIfImpossible, ClientsGetOwnDevice

LEMMA ConfigStays ==
    ASSUME MatchingInv, UNCHANGED configVars
    PROVE  MatchingInv'
<1>1. UNCHANGED files /\ parsed' = parsed
  BY DEF configVars
<1>2. ConfigTypeOK'
  BY <1>1, FilesKept DEF MatchingInv, ConfigTypeOK, files
<1> QED
  BY <1>1, <1>2, FilesKept
     DEF MatchingInv, MatchingIsRight, RejectedOnlyIfImpossible, ClientsGetOwnDevice

LEMMA ConfigStep ==
    ASSUME MatchingInv, [ConfigNext]_configVars
    PROVE  MatchingInv'
BY ListedKeeps, ParseBeginsKeeps, ClientMatchedKeeps, NoDeviceFitsKeeps, ParsedKeeps,
   ConfigStays DEF ConfigNext, ConfigEnded

LEMMA ConfigInvariant == ConfigSpec => []MatchingInv
<1>1. ConfigInit => MatchingInv
  BY ConfigStarts
<1> QED
  BY <1>1, ConfigStep, PTL DEF ConfigSpec

(* The greedy choice of _merge_with_wifi_config is as good as a search: a  *)
(* merged configuration gives every Wi-Fi client a device of its own that  *)
(* serves its band, and an environment that is turned away cannot be       *)
(* served by any assignment, whatever the files list and in which order.   *)
THEOREM MatchingIsExact == ConfigSpec => []MatchingIsRight
<1>1. MatchingInv => MatchingIsRight
  BY DEF MatchingInv
<1> QED
  BY <1>1, ConfigInvariant, PTL

(***************************************************************************)
(* The types of the three parts                                            *)
(***************************************************************************)

PlacesTyped ==
    /\ at \in {"reserve", "parse", "register", "setup", "stage", "post", "release", "shutdown", "end"}
    /\ bound \in BOOLEAN /\ reserved \in BOOLEAN /\ async \in BOOLEAN /\ client \in BOOLEAN
    /\ registered \in Seq(Inventory) /\ Len(registered) <= MaxDevices
    /\ ran \subseteq Classes \X (ToSet(Chain) \cup {"shutdown"})
    /\ outcome \in {"none", "success", "failed", "not_released"}

LEMMA DevicesInInventory ==
    ASSUME PlacesTyped
    PROVE  Devices \subseteq Inventory
BY ElementOfSeq, LenProperties DEF PlacesTyped, Devices, ToSet

(* A hook of the chain, or the shutdown, is what a device has behind it.   *)
LEMMA RanGrows ==
    ASSUME StagesTyped, PlacesTyped, NEW d \in Devices, NEW h \in {Hook, "shutdown"}
    PROVE  ran \cup {<<d, h>>} \subseteq Classes \X (ToSet(Chain) \cup {"shutdown"})
<1>1. d \in Classes
  BY DEF StagesTyped
<1>2. Hook \in ToSet(Chain)
  BY DEF Hook, ToSet, Chain, StagesTyped
<1> QED
  BY <1>1, <1>2 DEF PlacesTyped

LEMMA PlacesStart ==
    ASSUME DeploymentInit
    PROVE  PlacesTyped
<1>1. registered \in Seq(Inventory) /\ Len(registered) <= MaxDevices
  <2>1. <<>> \in Seq(Inventory) /\ Len(<<>>) = 0 /\ 0 <= MaxDevices
    BY EmptySeq, MaxDevicesAssumption
  <2> QED
    BY <2>1 DEF DeploymentInit
<1>2. ran \subseteq Classes \X (ToSet(Chain) \cup {"shutdown"})
  BY DEF DeploymentInit
<1>3. /\ at = "reserve" /\ outcome = "none"
      /\ bound \in BOOLEAN /\ reserved \in BOOLEAN /\ async \in BOOLEAN /\ client \in BOOLEAN
  BY DEF DeploymentInit
<1> QED
  BY <1>1, <1>2, <1>3 DEF PlacesTyped

LEMMA PlacesKept ==
    ASSUME StagesTyped, PlacesTyped, [DeploymentNext]_deploymentVars
    PROVE  PlacesTyped'
<1>1. CASE UNCHANGED deploymentVars
  <2>1. Chain' = Chain
    BY <1>1 DEF deploymentVars, Chain
  <2> QED
    BY <1>1, <2>1 DEF deploymentVars, PlacesTyped
<1>2. ASSUME UNCHANGED <<skipBoot, registered, ran>>
      PROVE  /\ registered' \in Seq(Inventory) /\ Len(registered') <= MaxDevices
             /\ ran' \subseteq Classes \X (ToSet(Chain') \cup {"shutdown"})
  <2>1. Chain' = Chain
    BY <1>2 DEF Chain
  <2> QED
    BY <1>2, <2>1 DEF PlacesTyped
<1>3. CASE Reserve \/ Parse \/ PostSetup \/ ReleaseBegins \/ Released
  <2>1. /\ at' \in {"parse", "register", "end", "release", "shutdown"}
        /\ outcome' \in {outcome, "failed", "success", "not_released"}
        /\ reserved' \in BOOLEAN /\ UNCHANGED <<skipBoot, registered, ran, bound, async, client>>
    BY <1>3 DEF Reserve, Parse, PostSetup, ReleaseBegins, Released, PlacesTyped
  <2> QED
    BY <1>2, <2>1 DEF PlacesTyped
<1>4. CASE Register
  <2>1. PICK n \in 1 .. MaxDevices : \E order \in [1 .. n -> Inventory] : registered' = order
    BY <1>4 DEF Register
  <2>2. registered' \in Seq(Inventory) /\ Len(registered') <= MaxDevices
    <3>1. n \in Nat /\ n <= MaxDevices
      BY <2>1, MaxDevicesAssumption
    <3>2. registered' \in [1 .. n -> Inventory]
      BY <2>1
    <3>3. registered' \in Seq(Inventory)
      BY <3>1, <3>2, IsASeq
    <3>4. Len(registered') = n
      BY <3>1, <3>2, <3>3, LenProperties
    <3> QED
      BY <3>1, <3>3, <3>4
  <2>3. Chain' = Chain /\ ran' = ran
    BY <1>4 DEF Register, Chain
  <2>4. /\ at' \in {"setup", "release"} /\ outcome' \in {outcome, "failed"}
        /\ bound' \in BOOLEAN /\ UNCHANGED <<reserved, async, client>>
    BY <1>4 DEF Register
  <2> QED
    BY <2>2, <2>3, <2>4 DEF PlacesTyped
<1>5. CASE StageBegins \/ GroupAborts \/ StageReturns \/ StageRaises
  <2>1. /\ at' \in {at, "stage", "setup", "post", "release"} /\ outcome' \in {outcome, "failed"}
        /\ async' \in BOOLEAN /\ UNCHANGED <<skipBoot, registered, ran, bound, reserved, client>>
    BY <1>5 DEF StageBegins, CallHook, GroupAborts, StageReturns, StageRaises, PlacesTyped
  <2> QED
    BY <1>2, <2>1 DEF PlacesTyped
<1>6. ASSUME NEW d \in Devices, HookBegins(d) \/ HookReturns(d) \/ HookRaises(d)
      PROVE  PlacesTyped'
  <2>1. /\ UNCHANGED <<at, skipBoot, registered, bound, reserved, async, outcome>>
        /\ client' \in BOOLEAN
        /\ ran' \in {ran, ran \cup {<<d, Hook>>}}
    BY <1>6 DEF HookBegins, HookReturns, HookRaises, ClientMade, PlacesTyped
  <2>2. ran' \subseteq Classes \X (ToSet(Chain) \cup {"shutdown"}) /\ Chain' = Chain
    BY <2>1, RanGrows DEF PlacesTyped, Chain
  <2> QED
    BY <2>1, <2>2 DEF PlacesTyped
<1>7. ASSUME NEW d \in Devices, ShutDown(d)
      PROVE  PlacesTyped'
  <2>1. /\ UNCHANGED <<skipBoot, registered, bound, reserved, async, client>>
        /\ at' \in {at, "end"} /\ outcome' \in {outcome, "not_released"}
        /\ ran' \in {ran, ran \cup {<<d, "shutdown">>}}
    BY <1>7 DEF ShutDown
  <2>2. ran' \subseteq Classes \X (ToSet(Chain) \cup {"shutdown"}) /\ Chain' = Chain
    BY <2>1, RanGrows DEF PlacesTyped, Chain
  <2> QED
    BY <2>1, <2>2 DEF PlacesTyped
<1> QED
  BY <1>1, <1>3, <1>4, <1>5, <1>6, <1>7 DEF DeploymentNext, DeploymentSteps, DeploymentEnded

(* A connection is one of those that were opened. *)
ConnectionsTyped ==
    /\ opened \in 0 .. MaxConsoles /\ connection \in 0 .. opened
    /\ alive \subseteq 1 .. opened /\ handles \in 0 .. opened

LEMMA ConnectionsKept ==
    ASSUME ConnectionsTyped, opened < MaxConsoles, opened' = opened + 1, connection' = opened',
           alive' = alive \cup {opened'}, handles' = handles
    PROVE  ConnectionsTyped'
BY CpeAssumption DEF ConnectionsTyped

SettingsTyped ==
    /\ cwmp \in [held : {"old", "new"}, runs : {"off", "old", "new"}]
    /\ pending \in Seq({"url", "off", "on"})

LEMMA SettingsKept ==
    ASSUME SettingsTyped, pending # <<>>, pending' = Tail(pending),
           cwmp' = CASE Head(pending) = "url" -> [cwmp EXCEPT !.held = "new"]
                     [] Head(pending) = "off" -> [cwmp EXCEPT !.runs = "off"]
                     [] OTHER -> [cwmp EXCEPT !.runs = cwmp.held]
    PROVE  SettingsTyped'
<1>1. pending' \in Seq({"url", "off", "on"})
  BY HeadTailProperties DEF SettingsTyped
<1>2. cwmp' \in [held : {"old", "new"}, runs : {"off", "old", "new"}]
  BY DEF SettingsTyped
<1> QED
  BY <1>1, <1>2 DEF SettingsTyped

CpeTyped ==
    /\ class \in {"prplos", "rpirdkb", "bananapi"}
    /\ powerport \in BOOLEAN /\ reset \in BOOLEAN
    /\ boot \in {"idle", "connect", "login", "provision", "provisioning", "cycle",
                 "reconnect", "relogin", "hw_boot", "factory_reset", "online", "management",
                 "booted", "raised", "reset", "shut"}
    /\ resets \in 0 .. 1
    /\ ConnectionsTyped /\ SettingsTyped

LEMMA CpeTypesKept ==
    ASSUME CpeTyped, [CpeNext]_<<cpeVars, keaVars>>
    PROVE  CpeTyped'
<1> USE DEF CpeTyped
<1>1. CASE UNCHANGED cpeVars
  BY <1>1 DEF cpeVars, ConnectionsTyped, SettingsTyped
<1>2. CASE BootBegins \/ InterfaceUp \/ BootReturns \/ BootRaises \/ ResetByUser
  <2>1. /\ boot' \in {"connect", "factory_reset", "online", "booted", "raised", "cycle"}
        /\ resets' \in {resets, 1} /\ UNCHANGED <<class, powerport, reset>>
        /\ UNCHANGED <<connection, opened, alive, handles, cwmp, pending>>
    BY <1>2 DEF BootBegins, InterfaceUp, BootReturns, BootRaises, ResetByUser, fixed
  <2> QED
    BY <2>1 DEF ConnectionsTyped, SettingsTyped
<1>3. CASE ConsoleOpened
  <2>1. ConnectionsTyped'
    BY <1>3, ConnectionsKept DEF ConsoleOpened
  <2> QED
    BY <1>3, <2>1 DEF ConsoleOpened, fixed, SettingsTyped
<1>4. CASE LoggedIn \/ Provisioning \/ Provisioned \/ LoggedInAgain
  BY <1>4 DEF LoggedIn, Provisioning, Provisioned, LoggedInAgain, AfterCycle, fixed,
              ConnectionsTyped, SettingsTyped
<1>5. CASE LoginFailsAgain \/ CpeShutDown
  BY <1>5 DEF LoginFailsAgain, CpeShutDown, fixed, ConnectionsTyped, SettingsTyped
<1>6. CASE PowerCycled
  <2>1. boot' \in {"reconnect", "hw_boot", "booted"} /\ alive' \in {alive, alive \ {connection}}
    BY <1>6 DEF PowerCycled, PrplDockerCycles, RPiCycles, BananaPiCycles, AfterCycle
  <2>2. cwmp' \in [held : {"old", "new"}, runs : {"off", "old", "new"}]
    BY <1>6 DEF PowerCycled, Rebooted, SettingsTyped
  <2>3. UNCHANGED <<class, powerport, reset, connection, opened, handles, resets, pending>>
    BY <1>6 DEF PowerCycled, fixed
  <2>4. ConnectionsTyped'
    BY <2>1, <2>3 DEF ConnectionsTyped
  <2>5. SettingsTyped'
    BY <2>2, <2>3 DEF SettingsTyped
  <2> QED
    BY <2>1, <2>3, <2>4, <2>5
<1>7. CASE FactoryReset
  BY <1>7 DEF FactoryReset, fixed, ConnectionsTyped, SettingsTyped
<1>8. CASE Online
  <2>1. pending' \in {<<"url", "off", "on">>, <<"off", "url", "on">>}
    BY <1>8 DEF Online, SettingsOf, PrplOSSettings, RPiSettings, BananaPiSettings
  <2>2. pending' \in Seq({"url", "off", "on"})
    <3> DEFINE S == {"url", "off", "on"}
    <3>1. \A x, y, z \in S : <<x, y, z>> \in Seq(S)
      OBVIOUS
    <3> QED
      BY <2>1, <3>1
  <2>3. ConnectionsTyped' /\ SettingsTyped'
    BY <1>8, <2>2 DEF Online, ConnectionsTyped, SettingsTyped
  <2> QED
    BY <1>8, <2>3 DEF Online, fixed
<1>9. CASE SettingMade
  <2>1. SettingsTyped'
    BY <1>9, SettingsKept DEF SettingMade
  <2> QED
    BY <1>9, <2>1 DEF SettingMade, fixed, ConnectionsTyped
<1> QED
  BY <1>1, <1>2, <1>3, <1>4, <1>5, <1>6, <1>7, <1>8, <1>9
     DEF CpeNext, CpeSteps, CpeEnded, ProvisionedByUser

(* A call in progress is for a CPE of the model. *)
KeaTyped == KeaTypeOK /\ (provision.at # "idle" => provision.mac \in Macs)

LEMMA CpeTypesStart ==
    ASSUME CpeInit, KeaInit
    PROVE  CpeTyped /\ KeaTyped
<1>1. ConnectionsTyped
  BY CpeAssumption DEF CpeInit, ConnectionsTyped
<1>2. SettingsTyped
  BY EmptySeq DEF CpeInit, SettingsTyped
<1>3. CpeTyped
  BY <1>1, <1>2 DEF CpeInit, CpeTyped
<1>4. Nothing \in Config \cup {Nothing} /\ 0 \in 0 .. MaxEncodings
  BY EncodingsAssumption
<1>5. KeaTyped
  BY <1>4 DEF KeaInit, KeaTyped, KeaTypeOK, NoCall
<1> QED
  BY <1>3, <1>5

LEMMA ConfigsTyped ==
    ASSUME KeaTyped, NEW f \in Families, f \in provision.given \/ encoded[f] < MaxEncodings,
           provision.at # "idle"
    PROVE  ConfigOf(f) \in Config
<1>1. /\ encoded[f] \in 0 .. MaxEncodings /\ 1 \in 0 .. MaxEncodings
      /\ encoded[f] < MaxEncodings => encoded[f] + 1 \in 0 .. MaxEncodings
  BY EncodingsAssumption DEF KeaTyped, KeaTypeOK
<1>2. \A m \in Macs, b \in BOOLEAN, u \in 0 .. MaxEncodings : [mac |-> m, dns |-> b, url |-> u] \in Config
  BY DEF Config
<1>3. CASE f \in provision.given
  BY <1>1, <1>2, <1>3 DEF ConfigOf, KeaTyped
<1>4. CASE f \notin provision.given
  BY <1>1, <1>2, <1>4 DEF ConfigOf, KeaTyped
<1> QED
  BY <1>3, <1>4

(* A call of provision_cpe as a record of its type. *)
Calls == [at : {"idle", "dhcp4.conf", "dhcp6.conf", "stop", "dhcp4", "dhcp6", "returned", "raised"},
          mac : Macs \cup {NoMac}, given : SUBSET Families]

LEMMA CallGoesOn ==
    ASSUME KeaTyped, provision.at # "idle",
           NEW place \in {"dhcp6.conf", "stop", "dhcp4", "dhcp6", "returned", "raised"}, Goes(place)
    PROVE  /\ provision' \in Calls /\ provision'.mac \in Macs
BY DEF KeaTyped, KeaTypeOK, Calls, Goes

LEMMA KeaTypesKept ==
    ASSUME KeaTyped, [CpeNext]_<<cpeVars, keaVars>>, Mac \in Macs
    PROVE  KeaTyped'
<1> DEFINE Configs == [Families -> Config \cup {Nothing}]
<1>1. /\ options \in BOOLEAN /\ encoded \in [Families -> 0 .. MaxEncodings]
      /\ file \in Configs /\ served \in Configs /\ provision \in Calls
      /\ provision.at # "idle" => provision.mac \in Macs
  BY DEF KeaTyped, KeaTypeOK, Calls
<1>2. SUFFICES /\ options' \in BOOLEAN /\ encoded' \in [Families -> 0 .. MaxEncodings]
               /\ file' \in Configs /\ served' \in Configs /\ provision' \in Calls
               /\ provision'.at # "idle" => provision'.mac \in Macs
  BY DEF KeaTyped, KeaTypeOK, Calls
<1>3. CASE UNCHANGED keaVars
  BY <1>1, <1>3 DEF keaVars
<1>4. ASSUME NEW m \in Macs, NEW given \in SUBSET Families, ProvisionBegins(m, given)
      PROVE  <1>2!1
  BY <1>1, <1>4 DEF ProvisionBegins, Calls
<1>5. CASE ProvisionEnds
  BY <1>1, <1>5 DEF ProvisionEnds, NoCall, Calls
<1>6. ASSUME NEW f \in Families, NEW place \in {"dhcp6.conf", "stop"},
             provision.at # "idle", ConfigWritten(f, place)
      PROVE  <1>2!1
  <2>1. file' \in Configs
    <3>1. ConfigOf(f) \in Config
      BY <1>6, ConfigsTyped DEF ConfigWritten
    <3> QED
      BY <1>1, <1>6, <3>1 DEF ConfigWritten
  <2>2. encoded' \in [Families -> 0 .. MaxEncodings]
    <3>1. f \in provision.given \/ encoded[f] + 1 \in 0 .. MaxEncodings
      BY <1>1, <1>6, EncodingsAssumption DEF ConfigWritten
    <3> QED
      BY <1>1, <1>6, <3>1 DEF ConfigWritten
  <2>3. provision' \in Calls /\ provision'.mac \in Macs /\ UNCHANGED <<options, served>>
    BY <1>6, CallGoesOn DEF ConfigWritten
  <2> QED
    BY <1>1, <2>1, <2>2, <2>3
<1>7. CASE StopServers
  <2>1. served' \in Configs
    BY <1>7 DEF StopServers
  <2>2. provision' \in Calls /\ provision'.mac \in Macs /\ UNCHANGED <<options, encoded, file>>
    BY <1>7, CallGoesOn DEF StopServers
  <2> QED
    BY <1>1, <2>1, <2>2
<1>8. ASSUME NEW f \in Families, NEW place \in {"dhcp6", "returned"}, ServerStarted(f, place)
      PROVE  <1>2!1
  <2>1. served' \in Configs
    BY <1>1, <1>8 DEF ServerStarted
  <2>2. provision' \in Calls /\ provision'.mac \in Macs /\ UNCHANGED <<options, encoded, file>>
    BY <1>8, CallGoesOn DEF ServerStarted, Families
  <2> QED
    BY <1>1, <2>1, <2>2
<1>9. CASE ProvisionRaises
  BY <1>1, <1>9, CallGoesOn DEF ProvisionRaises
<1>10. CASE KeaSteps
  BY <1>6, <1>7, <1>8, <1>9, <1>10 DEF KeaSteps, WriteConfigs, StartServers, Families
<1> QED
  BY <1>3, <1>4, <1>5, <1>10 DEF CpeNext, CpeSteps, CpeEnded, BootBegins, ConsoleOpened, LoggedIn,
     Provisioning, Provisioned, PowerCycled, LoggedInAgain, LoginFailsAgain, InterfaceUp,
     FactoryReset, Online, SettingMade, BootReturns, BootRaises, ResetByUser,
     ProvisionedByUser, CpeShutDown

(***************************************************************************)
(* The three parts together                                                *)
(***************************************************************************)

SuiteInv ==
    /\ DeploymentInv /\ PlacesTyped
    /\ CpeTyped /\ KeaTyped
    /\ MatchingInv

LEMMA RestingKeeps ==
    ASSUME SuiteInv
    PROVE  /\ UNCHANGED deploymentVars => (DeploymentInv /\ PlacesTyped)'
           /\ UNCHANGED bootVars => (CpeTyped /\ KeaTyped)'
           /\ UNCHANGED configVars => MatchingInv'
<1>1. UNCHANGED deploymentVars => (DeploymentInv /\ PlacesTyped)'
  BY DeploymentStep, PlacesKept DEF SuiteInv, DeploymentInv
<1>2. UNCHANGED bootVars => (CpeTyped /\ KeaTyped)'
  BY CpeTypesKept, KeaTypesKept, CpeAssumption DEF SuiteInv, bootVars
<1>3. UNCHANGED configVars => MatchingInv'
  BY ConfigStays DEF SuiteInv
<1> QED
  BY <1>1, <1>2, <1>3

(* Every variable of the three parts keeps its type: no path through a     *)
(* deployment, a boot with its provisioner or a parse leaves a record half *)
(* made, a connection that was never opened or a client matched with a     *)
(* device that is not listed.                                              *)
THEOREM SuiteTyped == SuiteSpec => []SuiteTypeOK
<1>1. SuiteInit => SuiteInv
  BY DeploymentStarts, PlacesStart, CpeTypesStart, ConfigStarts DEF SuiteInit, SuiteInv
<1>2. ASSUME SuiteInv, [SuiteNext]_suiteVars
      PROVE  SuiteInv'
  <2>1. CASE UNCHANGED suiteVars
    BY <1>2, <2>1, RestingKeeps DEF suiteVars, SuiteInv
  <2>2. CASE DeploymentNext /\ UNCHANGED <<bootVars, configVars>>
    BY <1>2, <2>2, RestingKeeps, DeploymentStep, PlacesKept DEF SuiteInv, DeploymentInv
  <2>3. CASE CpeNext /\ UNCHANGED <<deploymentVars, configVars>>
    BY <1>2, <2>3, RestingKeeps, CpeTypesKept, KeaTypesKept, CpeAssumption DEF SuiteInv
  <2>4. CASE ConfigNext /\ UNCHANGED <<deploymentVars, bootVars>>
    BY <1>2, <2>4, RestingKeeps, ConfigStep DEF SuiteInv
  <2> QED
    BY <1>2, <2>1, <2>2, <2>3, <2>4 DEF SuiteNext
<1>3. SuiteInv => SuiteTypeOK
  <2> SUFFICES ASSUME SuiteInv PROVE SuiteTypeOK
    OBVIOUS
  <2>1. DeploymentTypeOK
    BY DevicesInInventory DEF SuiteInv, DeploymentInv, StagesTyped, PlacesTyped, DeploymentTypeOK
  <2>2. CpeTypeOK
    BY DEF SuiteInv, CpeTyped, ConnectionsTyped, SettingsTyped, CpeTypeOK
  <2> QED
    BY <2>1, <2>2 DEF SuiteInv, KeaTyped, MatchingInv, SuiteTypeOK
<1> QED
  BY <1>1, <1>2, <1>3, PTL DEF SuiteSpec
=============================================================================
