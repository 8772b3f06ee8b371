------------------------- MODULE ControlPlaneProofs -------------------------
(***************************************************************************)
(* Proofs about ControlPlane, for every set of sessions, boards and        *)
(* handlers: its type invariant; as long as the Docker daemon does not     *)
(* fail, that two agents never run on one board, and the refinement of     *)
(* ExclusiveUse; and what is promised of a session whatever fails.         *)
(***************************************************************************)
EXTENDS ControlPlane, TLAPS

-----------------------------------------------------------------------------
(* Types *)

(* Goto, Begin and End, which every step of a task uses, keep tasks typed. *)
LEMMA GotoTyped ==
    ASSUME task \in [Tasks -> TaskRecords], NEW t \in Tasks,
           NEW place \in Places, Goto(t, place)
    PROVE  task' \in [Tasks -> TaskRecords]
BY DEF Goto, TaskRecords

(* Sending a task to a place with a session gives a task record. *)
LEMMA BeginTyped ==
    ASSUME task \in [Tasks -> TaskRecords], NEW t \in Tasks, NEW place \in Places,
           NEW s \in Sessions \cup {None}, NEW retain \in BOOLEAN,
           Begin(t, place, s, retain)
    PROVE  task' \in [Tasks -> TaskRecords]
BY DEF Begin, TaskRecords

(* So does ending its request. *)
LEMMA EndTyped ==
    ASSUME task \in [Tasks -> TaskRecords], NEW t \in Tasks, End(t)
    PROVE  task' \in [Tasks -> TaskRecords]
BY DEF End, Idle, TaskRecords, Places

(* The places a task can be in, one by one. *)
LEMMA PlaceNames ==
    /\ "idle" \in Places /\ "snapshotting" \in Places
    /\ "collecting" \in Places /\ "reaping" \in Places
    /\ "creating" \in Places /\ "starting" \in Places /\ "polling" \in Places
    /\ "configuring" \in Places /\ "booting" \in Places
    /\ "archiving" \in Places /\ "releasing" \in Places /\ "finding" \in Places
    /\ "stopping" \in Places /\ "removing" \in Places
    /\ "stopped" \in Places /\ "stop_failed" \in Places
    /\ "locating" \in Places /\ "erasing" \in Places /\ "erased" \in Places
BY DEF Places, Creating, Teardown, Purging

(* A task's session is one of Sessions, or None. *)
LEMMA TargetTyped ==
    ASSUME task \in [Tasks -> TaskRecords], NEW t \in Tasks
    PROVE  Target(t) \in Sessions \cup {None}
BY DEF TaskRecords, Target

(* Every request of a client keeps the types. *)
LEMMA RequestTypes ==
    ASSUME TypeOK, NEW t \in Handlers, Requests(t)
    PROVE  TypeOK'
<1>1. PICK s \in Sessions :
         \/ \E b \in Boards : CreateSession(t, s, b)
         \/ \E retain \in BOOLEAN : DeleteSession(t, s, retain)
         \/ Snapshot(t, s)
         \/ Diagnostics(t, s)
  BY DEF Requests
<1>2. t \in Tasks /\ task \in [Tasks -> TaskRecords]
  BY DEF Tasks, TypeOK
<1>3. ASSUME NEW b \in Boards, CreateSession(t, s, b) PROVE TypeOK'
  <2>1. task' \in [Tasks -> TaskRecords]
    BY <1>2, <1>3, BeginTyped, PlaceNames DEF CreateSession
  <2> QED
    BY <1>3, <2>1 DEF CreateSession, Acquire, TypeOK
<1>4. ASSUME NEW retain \in BOOLEAN, DeleteSession(t, s, retain) PROVE TypeOK'
  <2>1. task' \in [Tasks -> TaskRecords]
    BY <1>2, <1>4, BeginTyped, PlaceNames DEF DeleteSession
  <2> QED
    BY <1>4, <2>1 DEF DeleteSession, TypeOK
<1>5. ASSUME Snapshot(t, s) \/ Diagnostics(t, s) PROVE TypeOK'
  <2>1. task' \in [Tasks -> TaskRecords]
    BY <1>2, <1>5, BeginTyped, PlaceNames DEF Snapshot, Diagnostics
  <2> QED
    BY <1>5, <2>1 DEF Snapshot, Diagnostics, TypeOK
<1> QED
  BY <1>1, <1>3, <1>4, <1>5

(* So does every step of create_session. *)
LEMMA CreateTypes ==
    ASSUME TypeOK, NEW t \in Handlers, CreateSteps(t)
    PROVE  TypeOK'
<1>1. t \in Tasks /\ task \in [Tasks -> TaskRecords]
  BY DEF Tasks, TypeOK
<1>2. Target(t) \in Sessions \cup {None}
  BY <1>1, TargetTyped
<1>3. CASE ContainerCreated(t)
  <2>1. task' \in [Tasks -> TaskRecords]
    BY <1>1, <1>2, <1>3, GotoTyped, PlaceNames DEF ContainerCreated
  <2> QED
    BY <1>2, <1>3, <2>1 DEF ContainerCreated, TypeOK
<1>4. CASE ContainerStarted(t)
  <2>1. task' \in [Tasks -> TaskRecords]
    BY <1>1, <1>2, <1>4, GotoTyped, PlaceNames DEF ContainerStarted
  <2> QED
    BY <1>2, <1>4, <2>1 DEF ContainerStarted, TypeOK
<1>5. CASE StartFails(t)
  <2>1. task' \in [Tasks -> TaskRecords]
    BY <1>1, <1>2, <1>5, EndTyped DEF StartFails
  <2> QED
    BY <1>2, <1>5, <2>1 DEF StartFails, Release, TypeOK
<1>6. CASE AgentAnswers(t)
  <2>1. task' \in [Tasks -> TaskRecords]
    BY <1>1, <1>2, <1>6, GotoTyped, PlaceNames DEF AgentAnswers
  <2> QED
    BY <1>2, <1>6, <2>1 DEF AgentAnswers, TypeOK
<1>7. CASE BootAccepted(t)
  <2>1. task' \in [Tasks -> TaskRecords]
    BY <1>1, <1>2, <1>7, EndTyped DEF BootAccepted
  <2> QED
    BY <1>2, <1>7, <2>1 DEF BootAccepted, Add, Listing, TypeOK
<1>8. CASE Unwind(t)
  <2>1. task' \in [Tasks -> TaskRecords]
    BY <1>1, <1>2, <1>8, BeginTyped, PlaceNames DEF Unwind
  <2> QED
    BY <1>2, <1>8, <2>1 DEF Unwind, Add, Listing, TypeOK
<1>9. CASE CreateEscapes(t)
  <2>1. task' \in [Tasks -> TaskRecords]
    BY <1>1, <1>2, <1>9, EndTyped DEF CreateEscapes
  <2> QED
    BY <1>2, <1>9, <2>1 DEF CreateEscapes, TypeOK
<1> QED
  BY <1>3, <1>4, <1>5, <1>6, <1>7, <1>8, <1>9 DEF CreateSteps

(* Every step of teardown_session and launcher.stop. *)
LEMMA TeardownTypes ==
    ASSUME TypeOK, NEW t \in Handlers, TeardownSteps(t)
    PROVE  TypeOK'
<1>1. t \in Tasks /\ task \in [Tasks -> TaskRecords]
  BY DEF Tasks, TypeOK
<1>2. Target(t) \in Sessions \cup {None}
  BY <1>1, TargetTyped
<1>3. CASE Archived(t)
  <2>1. task' \in [Tasks -> TaskRecords]
    BY <1>1, <1>2, <1>3, GotoTyped, PlaceNames DEF Archived
  <2> QED
    BY <1>2, <1>3, <2>1 DEF Archived, TypeOK
<1>4. CASE MetaFails(t)
  <2>1. task' \in [Tasks -> TaskRecords]
    BY <1>1, <1>2, <1>4, EndTyped DEF MetaFails
  <2>2. PICK stored \in BOOLEAN, m \in {meta[Target(t)], "none"} :
           /\ bundle' = [bundle EXCEPT ![Target(t)] = @ \/ stored]
           /\ meta' = [meta EXCEPT ![Target(t)] = m]
    BY <1>4 DEF MetaFails
  <2>3. meta' \in [Sessions -> {"none", "fresh", "aged"}]
    BY <2>2 DEF TypeOK
  <2>4. bundle' \in [Sessions -> BOOLEAN]
    BY <2>2 DEF TypeOK
  <2> QED
    BY <1>4, <2>1, <2>3, <2>4 DEF MetaFails, TypeOK
<1>5. CASE DevicesReleased(t)
  <2>1. task' \in [Tasks -> TaskRecords]
    BY <1>1, <1>2, <1>5, GotoTyped, PlaceNames DEF DevicesReleased
  <2> QED
    BY <1>2, <1>5, <2>1 DEF DevicesReleased, TypeOK
<1>6. CASE FindToStop(t)
  <2>1. task' \in [Tasks -> TaskRecords]
    BY <1>1, <1>2, <1>6, GotoTyped, PlaceNames DEF FindToStop
  <2> QED
    BY <1>2, <1>6, <2>1 DEF FindToStop, TypeOK
<1>7. CASE StopContainer(t)
  <2>1. task' \in [Tasks -> TaskRecords]
    BY <1>1, <1>2, <1>7, GotoTyped, PlaceNames DEF StopContainer
  <2> QED
    BY <1>2, <1>7, <2>1 DEF StopContainer, TypeOK
<1>8. CASE RemoveContainer(t)
  <2>1. task' \in [Tasks -> TaskRecords]
    BY <1>1, <1>2, <1>8, GotoTyped, PlaceNames DEF RemoveContainer
  <2> QED
    BY <1>2, <1>8, <2>1 DEF RemoveContainer, TypeOK
<1>9. CASE DaemonFails(t)
  <2>1. task' \in [Tasks -> TaskRecords]
    BY <1>1, <1>2, <1>9, GotoTyped, PlaceNames DEF DaemonFails
  <2> QED
    BY <1>2, <1>9, <2>1 DEF DaemonFails, TypeOK
<1>10. CASE FinishTeardown(t)
  <2>1. task' \in [Tasks -> TaskRecords]
    BY <1>1, <1>2, <1>10, EndTyped DEF FinishTeardown
  <2> QED
    BY <1>2, <1>10, <2>1
       DEF FinishTeardown, Release, MarkDead, Remove, Listing, Corpse, TypeOK
<1> QED
  BY <1>3, <1>4, <1>5, <1>6, <1>7, <1>8, <1>9, <1>10 DEF TeardownSteps

(* Every step of launcher.purge. *)
LEMMA PurgeTypes ==
    ASSUME TypeOK, NEW t \in Tasks, PurgeSteps(t)
    PROVE  TypeOK'
<1>1. t \in Tasks /\ task \in [Tasks -> TaskRecords]
  BY DEF Tasks, TypeOK
<1>2. Target(t) \in Sessions \cup {None}
  BY <1>1, TargetTyped
<1>3. CASE FindToPurge(t)
  <2>1. task' \in [Tasks -> TaskRecords]
    BY <1>1, <1>2, <1>3, GotoTyped, PlaceNames DEF FindToPurge
  <2> QED
    BY <1>2, <1>3, <2>1 DEF FindToPurge, TypeOK
<1>4. CASE EraseContainer(t)
  <2>1. task' \in [Tasks -> TaskRecords]
    BY <1>1, <1>2, <1>4, GotoTyped, PlaceNames DEF EraseContainer
  <2> QED
    BY <1>2, <1>4, <2>1 DEF EraseContainer, TypeOK
<1>5. CASE PurgeFails(t)
  <2>1. task' \in [Tasks -> TaskRecords]
    BY <1>1, <1>2, <1>5, EndTyped DEF PurgeFails
  <2> QED
    BY <1>2, <1>5, <2>1 DEF PurgeFails, TypeOK
<1>6. CASE FinishPurge(t)
  <2>1. task' \in [Tasks -> TaskRecords]
    BY <1>1, <1>2, <1>6, EndTyped DEF FinishPurge
  <2> QED
    BY <1>2, <1>6, <2>1 DEF FinishPurge, Remove, Listing, TypeOK
<1> QED
  BY <1>3, <1>4, <1>5, <1>6 DEF PurgeSteps

(* The types of the variables are kept by every step, whatever fails. *)
LEMMA TypeStep == TypeOK /\ [Next]_vars => TypeOK'
<1> SUFFICES ASSUME TypeOK, [Next]_vars PROVE TypeOK'
  OBVIOUS
<1>1. /\ Handlers \subseteq Tasks /\ Reaper \in Tasks
      /\ task \in [Tasks -> TaskRecords]
  BY DEF Tasks, TypeOK
<1>2. ASSUME NEW t \in Handlers, SnapshotTaken(t) \/ DiagnosticsServed(t) PROVE TypeOK'
  <2>1. task' \in [Tasks -> TaskRecords]
    BY <1>1, <1>2, EndTyped DEF SnapshotTaken, DiagnosticsServed
  <2> QED
    BY <1>2, <2>1 DEF SnapshotTaken, DiagnosticsServed, TypeOK
<1>3. ASSUME StartPass \/ (\E s \in Sessions : ReapCorpse(s)) \/ CorpseReaped PROVE TypeOK'
  <2>1. task' \in [Tasks -> TaskRecords]
    BY <1>1, <1>3, BeginTyped, PlaceNames DEF StartPass, ReapCorpse, CorpseReaped
  <2> QED
    BY <1>3, <2>1 DEF StartPass, ReapCorpse, CorpseReaped, Remove, Listing, TypeOK
<1>4. ASSUME SweepStore PROVE TypeOK'
  <2>1. task' \in [Tasks -> TaskRecords]
    BY <1>1, <1>4, EndTyped DEF SweepStore
  <2> QED
    BY <1>4, <2>1 DEF SweepStore, TypeOK
<1>5. ASSUME NEW s \in Sessions, AgentDies(s) \/ CorpseExpires(s) \/ BundleExpires(s)
      PROVE  TypeOK'
  BY <1>5 DEF AgentDies, CorpseExpires, BundleExpires, TypeOK, Listing, Corpse
<1>6. ASSUME Crash PROVE TypeOK'
  <2>1. Idle \in TaskRecords
    BY PlaceNames DEF Idle, TaskRecords
  <2> QED
    BY <1>6, <2>1 DEF Crash, TypeOK, Listing
<1>7. ASSUME RebuildRegistry \/ RebuildLease PROVE TypeOK'
  BY <1>7 DEF RebuildRegistry, RebuildLease, TypeOK
<1>8. ASSUME UNCHANGED vars PROVE TypeOK'
  BY <1>8 DEF vars, TypeOK
<1> QED
  BY <1>1, <1>2, <1>3, <1>4, <1>5, <1>6, <1>7, <1>8,
     RequestTypes, CreateTypes, TeardownTypes, PurgeTypes
     DEF Next, HandlerSteps, ReaperSteps, Environment

(* Type correctness of the control plane, under every fault. *)
THEOREM TypeCorrect == Spec => []TypeOK
<1>1. Init => TypeOK
  BY PlaceNames DEF Init, TypeOK, Idle, TaskRecords, Listing
<1> QED
  BY <1>1, TypeStep, PTL DEF Spec

-----------------------------------------------------------------------------
(* Exclusive use of the boards, while the daemon does not fail *)

(* What Goto, Begin and End do to the task that takes the step, and that   *)
(* they leave the others alone.                                            *)
LEMMA GotoEffect ==
    ASSUME task \in [Tasks -> TaskRecords], NEW t \in Tasks,
           NEW place, Goto(t, place)
    PROVE  /\ task'[t].at = place /\ task'[t].on = task[t].on
           /\ \A u \in Tasks : u # t => task'[u] = task[u]
BY DEF Goto, TaskRecords

(* Begin changes the record of its task and of no other. *)
LEMMA BeginEffect ==
    ASSUME task \in [Tasks -> TaskRecords], NEW t \in Tasks,
           NEW place, NEW s, NEW retain, Begin(t, place, s, retain)
    PROVE  /\ task'[t].at = place /\ task'[t].on = s
           /\ \A u \in Tasks : u # t => task'[u] = task[u]
BY DEF Begin, TaskRecords

(* End makes its task idle and leaves the others alone. *)
LEMMA EndEffect ==
    ASSUME task \in [Tasks -> TaskRecords], NEW t \in Tasks, End(t)
    PROVE  /\ task'[t].at = "idle" /\ task'[t].on = None
           /\ \A u \in Tasks : u # t => task'[u] = task[u]
BY DEF End, Idle, TaskRecords

(* A task in the middle of a request works on a session that was created,  *)
(* in a process that serves.                                               *)
LEMMA Engaged ==
    ASSUME IndInv, NEW t \in Tasks, task[t].at \notin {"idle", "reaping"}
    PROVE  /\ phase = "serving" /\ task \in [Tasks -> TaskRecords]
           /\ Target(t) \in Sessions
           /\ board[Target(t)] \in Boards /\ board[Target(t)] # None
BY NoneAssumption
   DEF IndInv, TypeOK, QuietWhenDown, TaskHasTarget, FreshIsUntouched, Idle, Target

(* The parts of the invariant about tasks and about the tables. *)
TaskPart == /\ FreshIsUntouched /\ TaskHasTarget
            /\ CreateOwnsSession /\ StopIsFinal
TablePart == /\ LeaseMatchesBoard /\ AgentHoldsLease
             /\ BoardExclusive /\ CorpseIsStopped

(* create_session: the container starts under the lease, and the lease is
   released only where no container was started. *)
LEMMA CreateKeepsInv ==
    ASSUME IndInv, TypeOK', "daemon" \notin Faults, NEW t \in Handlers, CreateSteps(t)
    PROVE  IndInv'
<1>1. t \in Tasks
  BY DEF Tasks
<1>2. task[t].at \notin {"idle", "reaping"}
  BY DEF CreateSteps, ContainerCreated, ContainerStarted, StartFails, AgentAnswers,
      BootAccepted, Unwind, CreateEscapes, At, Creating
<1>3. /\ phase = "serving" /\ task \in [Tasks -> TaskRecords]
      /\ Target(t) \in Sessions
      /\ board[Target(t)] \in Boards /\ board[Target(t)] # None
  BY <1>1, <1>2, Engaged
<1>4. TypeOK /\ TaskPart /\ TablePart
  BY DEF IndInv, TaskPart, TablePart
<1>5. CASE ContainerCreated(t)
  <2>1. /\ task'[t].at = "starting" /\ task'[t].on = task[t].on
        /\ \A u \in Tasks : u # t => task'[u] = task[u]
    BY <1>1, <1>3, <1>5, GotoEffect DEF ContainerCreated
  <2>2. TaskPart'
    BY <1>1, <1>3, <1>4, <1>5, <2>1, NoneAssumption
       DEF ContainerCreated, At, Target, TypeOK, Creating, TaskPart,
           FreshIsUntouched, TaskHasTarget, CreateOwnsSession, StopIsFinal
  <2>3. TablePart'
    BY <1>1, <1>3, <1>4, <1>5, <2>1
       DEF ContainerCreated, At, Target, TypeOK, Creating, Corpse, TablePart,
           LeaseMatchesBoard, AgentHoldsLease, BoardExclusive, CorpseIsStopped,
           CreateOwnsSession, StopIsFinal, FreshIsUntouched
  <2> QED
    BY <1>3, <1>5, <2>2, <2>3
       DEF ContainerCreated, QuietWhenDown, IndInv, TaskPart, TablePart
<1>6. CASE ContainerStarted(t)
  <2>1. /\ task'[t].at = "polling" /\ task'[t].on = task[t].on
        /\ \A u \in Tasks : u # t => task'[u] = task[u]
    BY <1>1, <1>3, <1>6, GotoEffect DEF ContainerStarted
  <2>2. TaskPart'
    BY <1>1, <1>3, <1>4, <1>6, <2>1, NoneAssumption
       DEF ContainerStarted, At, Target, TypeOK, Creating, TaskPart,
           FreshIsUntouched, TaskHasTarget, CreateOwnsSession, StopIsFinal
  <2>3. TablePart'
    <3>1. LeaseMatchesBoard'
      BY <1>1, <1>3, <1>4, <1>6, <2>1, NoneAssumption
         DEF ContainerStarted, At, Target, TypeOK, Creating, TaskPart, TablePart,
             LeaseMatchesBoard
    <3>2. AgentHoldsLease'
      BY <1>1, <1>3, <1>4, <1>6, <2>1, NoneAssumption
         DEF ContainerStarted, At, Target, TypeOK, Creating, TaskPart, TablePart,
             AgentHoldsLease, FreshIsUntouched, CreateOwnsSession, StopIsFinal
    <3>3. BoardExclusive'
      BY <1>1, <1>3, <1>4, <1>6, <2>1, NoneAssumption
         DEF ContainerStarted, At, Target, TypeOK, Creating, TaskPart, TablePart,
             BoardExclusive, AgentHoldsLease, CreateOwnsSession
    <3>4. CorpseIsStopped'
      BY <1>1, <1>3, <1>4, <1>6, <2>1, NoneAssumption
         DEF ContainerStarted, At, Target, TypeOK, Creating, TaskPart, TablePart,
             CorpseIsStopped, CreateOwnsSession, StopIsFinal, Corpse
    <3> QED
      BY <3>1, <3>2, <3>3, <3>4 DEF TablePart
  <2> QED
    BY <1>3, <1>6, <2>2, <2>3
       DEF ContainerStarted, QuietWhenDown, IndInv, TaskPart, TablePart
<1>7. CASE StartFails(t)
  <2>1. /\ task'[t].at = "idle" /\ task'[t].on = None
        /\ \A u \in Tasks : u # t => task'[u] = task[u]
    BY <1>1, <1>3, <1>7, EndEffect DEF StartFails
  <2>2. TaskPart'
    BY <1>1, <1>3, <1>4, <1>7, <2>1, NoneAssumption
       DEF StartFails, At, Target, TypeOK, Creating, Release, TaskPart,
           FreshIsUntouched, TaskHasTarget, CreateOwnsSession, StopIsFinal
  <2>3. TablePart'
    <3>5. \A b \in Boards : lease'[b] = IF lease[b] = Target(t) THEN None ELSE lease[b]
      BY <1>7 DEF StartFails, Release
    <3>6. board' = board
      BY <1>7 DEF StartFails
    <3>1. LeaseMatchesBoard'
      BY <1>4, <3>5, <3>6 DEF TablePart, LeaseMatchesBoard
    <3>2. AgentHoldsLease'
      BY <1>1, <1>3, <1>4, <1>7, <2>1, <3>5, NoneAssumption
         DEF StartFails, At, Target, TypeOK, Creating, TaskPart, TablePart,
             AgentHoldsLease, FreshIsUntouched, CreateOwnsSession, StopIsFinal
    <3>3. BoardExclusive'
      BY <1>1, <1>3, <1>4, <1>7, <2>1, NoneAssumption
         DEF StartFails, At, Target, TypeOK, Creating, TaskPart, TablePart,
             BoardExclusive, AgentHoldsLease, CreateOwnsSession
    <3>4. CorpseIsStopped'
      BY <1>1, <1>3, <1>4, <1>7, <2>1, NoneAssumption
         DEF StartFails, At, Target, TypeOK, Creating, TaskPart, TablePart,
             CorpseIsStopped, CreateOwnsSession, StopIsFinal, Corpse
    <3> QED
      BY <3>1, <3>2, <3>3, <3>4 DEF TablePart
  <2> QED
    BY <1>3, <1>7, <2>2, <2>3 DEF StartFails, QuietWhenDown, IndInv, TaskPart, TablePart
<1>8. CASE AgentAnswers(t)
  <2>1. /\ task'[t].at \in {"configuring", "booting"} /\ task'[t].on = task[t].on
        /\ \A u \in Tasks : u # t => task'[u] = task[u]
    BY <1>1, <1>3, <1>8, GotoEffect DEF AgentAnswers
  <2>2. TaskPart'
    BY <1>1, <1>3, <1>4, <1>8, <2>1, NoneAssumption
       DEF AgentAnswers, At, Target, TypeOK, Creating, TaskPart, FreshIsUntouched,
           TaskHasTarget, CreateOwnsSession, StopIsFinal
  <2>3. TablePart'
    BY <1>1, <1>3, <1>4, <1>8, <2>1
       DEF AgentAnswers, At, Target, TypeOK, Creating, Corpse, TablePart,
           LeaseMatchesBoard, AgentHoldsLease, BoardExclusive, CorpseIsStopped,
           CreateOwnsSession, StopIsFinal, FreshIsUntouched
  <2> QED
    BY <1>3, <1>8, <2>2, <2>3
       DEF AgentAnswers, QuietWhenDown, IndInv, TaskPart, TablePart
<1>9. CASE BootAccepted(t)
  <2>1. /\ task'[t].at = "idle" /\ task'[t].on = None
        /\ \A u \in Tasks : u # t => task'[u] = task[u]
    BY <1>1, <1>3, <1>9, EndEffect DEF BootAccepted
  <2>2. TaskPart'
    BY <1>1, <1>3, <1>4, <1>9, <2>1, NoneAssumption
       DEF BootAccepted, At, Target, TypeOK, Creating, Add, TaskPart,
           FreshIsUntouched, TaskHasTarget, CreateOwnsSession, StopIsFinal
  <2>3. TablePart'
    BY <1>1, <1>3, <1>4, <1>9, <2>1
       DEF BootAccepted, At, Target, TypeOK, Creating, Corpse, Add, TablePart,
           LeaseMatchesBoard, AgentHoldsLease, BoardExclusive, CorpseIsStopped,
           CreateOwnsSession, StopIsFinal, FreshIsUntouched
  <2> QED
    BY <1>3, <1>9, <2>2, <2>3
       DEF BootAccepted, QuietWhenDown, IndInv, TaskPart, TablePart
<1>10. CASE Unwind(t)
  <2>1. /\ task'[t].at = "archiving" /\ task'[t].on = Target(t)
        /\ \A u \in Tasks : u # t => task'[u] = task[u]
    BY <1>1, <1>3, <1>10, BeginEffect, PlaceNames DEF Unwind
  <2>2. TaskPart'
    BY <1>1, <1>3, <1>4, <1>10, <2>1, NoneAssumption
       DEF Unwind, At, Target, TypeOK, Creating, Add, TaskPart, FreshIsUntouched,
           TaskHasTarget, CreateOwnsSession, StopIsFinal
  <2>3. TablePart'
    BY <1>1, <1>3, <1>4, <1>10, <2>1
       DEF Unwind, At, Target, TypeOK, Creating, Corpse, Add, TablePart,
           LeaseMatchesBoard, AgentHoldsLease, BoardExclusive, CorpseIsStopped,
           CreateOwnsSession, StopIsFinal, FreshIsUntouched
  <2> QED
    BY <1>3, <1>10, <2>2, <2>3 DEF Unwind, QuietWhenDown, IndInv, TaskPart, TablePart
<1>11. CASE CreateEscapes(t)
  <2>1. /\ task'[t].at = "idle" /\ task'[t].on = None
        /\ \A u \in Tasks : u # t => task'[u] = task[u]
    BY <1>1, <1>3, <1>11, EndEffect DEF CreateEscapes
  <2>2. TaskPart'
    BY <1>1, <1>3, <1>4, <1>11, <2>1, NoneAssumption
       DEF CreateEscapes, At, Target, TypeOK, Creating, TaskPart, FreshIsUntouched,
           TaskHasTarget, CreateOwnsSession, StopIsFinal
  <2>3. TablePart'
    BY <1>1, <1>3, <1>4, <1>11, <2>1
       DEF CreateEscapes, At, Target, TypeOK, Creating, Corpse, TablePart,
           LeaseMatchesBoard, AgentHoldsLease, BoardExclusive, CorpseIsStopped,
           CreateOwnsSession, StopIsFinal, FreshIsUntouched
  <2> QED
    BY <1>3, <1>11, <2>2, <2>3
       DEF CreateEscapes, QuietWhenDown, IndInv, TaskPart, TablePart
<1> QED
  BY <1>5, <1>6, <1>7, <1>8, <1>9, <1>10, <1>11 DEF CreateSteps

(* teardown_session: the lease is released after the container stopped. *)
LEMMA TeardownKeepsInv ==
    ASSUME IndInv, TypeOK', "daemon" \notin Faults, NEW t \in Handlers, TeardownSteps(t)
    PROVE  IndInv'
<1>1. t \in Tasks
  BY DEF Tasks
<1>2. task[t].at \notin {"idle", "reaping"}
  BY DEF TeardownSteps, Archived, MetaFails, DevicesReleased, FindToStop,
      StopContainer, RemoveContainer, DaemonFails, FinishTeardown, At, Teardown
<1>3. /\ phase = "serving" /\ task \in [Tasks -> TaskRecords]
      /\ Target(t) \in Sessions
      /\ board[Target(t)] \in Boards /\ board[Target(t)] # None
  BY <1>1, <1>2, Engaged
<1>4. TypeOK /\ TaskPart /\ TablePart
  BY DEF IndInv, TaskPart, TablePart
<1>5. CASE Archived(t)
  <2>1. /\ task'[t].at = "releasing" /\ task'[t].on = task[t].on
        /\ \A u \in Tasks : u # t => task'[u] = task[u]
    BY <1>1, <1>3, <1>5, GotoEffect DEF Archived
  <2>2. TaskPart'
    BY <1>1, <1>3, <1>4, <1>5, <2>1, NoneAssumption
       DEF Archived, At, Target, TypeOK, Creating, TaskPart, FreshIsUntouched,
           TaskHasTarget, CreateOwnsSession, StopIsFinal
  <2>3. TablePart'
    BY <1>1, <1>3, <1>4, <1>5, <2>1
       DEF Archived, At, Target, TypeOK, Creating, Corpse, TablePart,
           LeaseMatchesBoard, AgentHoldsLease, BoardExclusive, CorpseIsStopped,
           CreateOwnsSession, StopIsFinal, FreshIsUntouched
  <2> QED
    BY <1>3, <1>5, <2>2, <2>3 DEF Archived, QuietWhenDown, IndInv, TaskPart, TablePart
<1>6. CASE MetaFails(t)
  <2>1. /\ task'[t].at = "idle" /\ task'[t].on = None
        /\ \A u \in Tasks : u # t => task'[u] = task[u]
    BY <1>1, <1>3, <1>6, EndEffect DEF MetaFails
  <2>2. TaskPart'
    BY <1>1, <1>3, <1>4, <1>6, <2>1, NoneAssumption
       DEF MetaFails, At, Target, TypeOK, Creating, TaskPart, FreshIsUntouched,
           TaskHasTarget, CreateOwnsSession, StopIsFinal
  <2>3. TablePart'
    BY <1>1, <1>3, <1>4, <1>6, <2>1
       DEF MetaFails, At, Target, TypeOK, Creating, Corpse, TablePart,
           LeaseMatchesBoard, AgentHoldsLease, BoardExclusive, CorpseIsStopped,
           CreateOwnsSession, StopIsFinal, FreshIsUntouched
  <2> QED
    BY <1>3, <1>6, <2>2, <2>3 DEF MetaFails, QuietWhenDown, IndInv, TaskPart, TablePart
<1>7. CASE DevicesReleased(t)
  <2>1. /\ task'[t].at = "finding" /\ task'[t].on = task[t].on
        /\ \A u \in Tasks : u # t => task'[u] = task[u]
    BY <1>1, <1>3, <1>7, GotoEffect DEF DevicesReleased
  <2>2. TaskPart'
    BY <1>1, <1>3, <1>4, <1>7, <2>1, NoneAssumption
       DEF DevicesReleased, At, Target, TypeOK, Creating, TaskPart,
           FreshIsUntouched, TaskHasTarget, CreateOwnsSession, StopIsFinal
  <2>3. TablePart'
    BY <1>1, <1>3, <1>4, <1>7, <2>1
       DEF DevicesReleased, At, Target, TypeOK, Creating, Corpse, TablePart,
           LeaseMatchesBoard, AgentHoldsLease, BoardExclusive, CorpseIsStopped,
           CreateOwnsSession, StopIsFinal, FreshIsUntouched
  <2> QED
    BY <1>3, <1>7, <2>2, <2>3
       DEF DevicesReleased, QuietWhenDown, IndInv, TaskPart, TablePart
<1>8. CASE FindToStop(t)
  <2>1. /\ task'[t].at = (IF container[Target(t)] = "absent" THEN "stopped" ELSE "stopping")
        /\ task'[t].on = task[t].on
        /\ \A u \in Tasks : u # t => task'[u] = task[u]
    BY <1>1, <1>3, <1>8, GotoEffect DEF FindToStop
  <2>2. TaskPart'
    BY <1>1, <1>3, <1>4, <1>8, <2>1, NoneAssumption
       DEF FindToStop, At, Target, TypeOK, Creating, TaskPart, FreshIsUntouched,
           TaskHasTarget, CreateOwnsSession, StopIsFinal
  <2>3. TablePart'
    BY <1>1, <1>3, <1>4, <1>8, <2>1
       DEF FindToStop, At, Target, TypeOK, Creating, Corpse, TablePart,
           LeaseMatchesBoard, AgentHoldsLease, BoardExclusive, CorpseIsStopped,
           CreateOwnsSession, StopIsFinal, FreshIsUntouched
  <2> QED
    BY <1>3, <1>8, <2>2, <2>3 DEF FindToStop, QuietWhenDown, IndInv, TaskPart, TablePart
<1>9. CASE StopContainer(t)
  <2>1. /\ task'[t].at \in {"stopped", "removing", "stop_failed"} /\ task'[t].on = task[t].on
        /\ \A u \in Tasks : u # t => task'[u] = task[u]
    BY <1>1, <1>3, <1>9, GotoEffect DEF StopContainer
  <2>2. TaskPart'
    BY <1>1, <1>3, <1>4, <1>9, <2>1, NoneAssumption
       DEF StopContainer, At, Target, TypeOK, Creating, TaskPart, FreshIsUntouched,
           TaskHasTarget, CreateOwnsSession, StopIsFinal
  <2>3. TablePart'
    BY <1>1, <1>3, <1>4, <1>9, <2>1
       DEF StopContainer, At, Target, TypeOK, Creating, Corpse, TablePart,
           LeaseMatchesBoard, AgentHoldsLease, BoardExclusive, CorpseIsStopped,
           CreateOwnsSession, StopIsFinal, FreshIsUntouched
  <2> QED
    BY <1>3, <1>9, <2>2, <2>3
       DEF StopContainer, QuietWhenDown, IndInv, TaskPart, TablePart
<1>10. CASE RemoveContainer(t)
  <2>1. /\ task'[t].at \in {"stopped", "stop_failed"} /\ task'[t].on = task[t].on
        /\ \A u \in Tasks : u # t => task'[u] = task[u]
    BY <1>1, <1>3, <1>10, GotoEffect DEF RemoveContainer
  <2>2. TaskPart'
    BY <1>1, <1>3, <1>4, <1>10, <2>1, NoneAssumption
       DEF RemoveContainer, At, Target, TypeOK, Creating, TaskPart,
           FreshIsUntouched, TaskHasTarget, CreateOwnsSession, StopIsFinal
  <2>3. TablePart'
    BY <1>1, <1>3, <1>4, <1>10, <2>1
       DEF RemoveContainer, At, Target, TypeOK, Creating, Corpse, TablePart,
           LeaseMatchesBoard, AgentHoldsLease, BoardExclusive, CorpseIsStopped,
           CreateOwnsSession, StopIsFinal, FreshIsUntouched
  <2> QED
    BY <1>3, <1>10, <2>2, <2>3
       DEF RemoveContainer, QuietWhenDown, IndInv, TaskPart, TablePart
<1>11. CASE DaemonFails(t)
  <2>1. /\ task'[t].at = "stop_failed" /\ task'[t].on = task[t].on
        /\ \A u \in Tasks : u # t => task'[u] = task[u]
    BY <1>1, <1>3, <1>11, GotoEffect DEF DaemonFails
  <2>2. TaskPart'
    BY <1>1, <1>3, <1>4, <1>11, <2>1, NoneAssumption
       DEF DaemonFails, At, Target, TypeOK, Creating, TaskPart, FreshIsUntouched,
           TaskHasTarget, CreateOwnsSession, StopIsFinal
  <2>3. TablePart'
    BY <1>1, <1>3, <1>4, <1>11, <2>1
       DEF DaemonFails, At, Target, TypeOK, Creating, Corpse, TablePart,
           LeaseMatchesBoard, AgentHoldsLease, BoardExclusive, CorpseIsStopped,
           CreateOwnsSession, StopIsFinal, FreshIsUntouched
  <2> QED
    BY <1>3, <1>11, <2>2, <2>3
       DEF DaemonFails, QuietWhenDown, IndInv, TaskPart, TablePart
<1>12. CASE FinishTeardown(t)
  <2>1. /\ task'[t].at = "idle" /\ task'[t].on = None
        /\ \A u \in Tasks : u # t => task'[u] = task[u]
    BY <1>1, <1>3, <1>12, EndEffect DEF FinishTeardown
  <2>2. TaskPart'
    BY <1>1, <1>3, <1>4, <1>12, <2>1, NoneAssumption
       DEF FinishTeardown, At, Target, TypeOK, Creating, Release, MarkDead, Remove,
           TaskPart, FreshIsUntouched, TaskHasTarget, CreateOwnsSession, StopIsFinal
  <2>3. TablePart'
    <3>5. \A b \in Boards : lease'[b] = IF lease[b] = Target(t) THEN None ELSE lease[b]
      BY <1>12 DEF FinishTeardown, Release
    <3>6. board' = board
      BY <1>12 DEF FinishTeardown
    <3>1. LeaseMatchesBoard'
      BY <1>4, <3>5, <3>6 DEF TablePart, LeaseMatchesBoard
    <3>2. AgentHoldsLease'
      BY <1>1, <1>3, <1>4, <1>12, <2>1, <3>5, NoneAssumption
         DEF FinishTeardown, At, Target, TypeOK, Creating, MarkDead, Remove,
             TaskPart, TablePart, AgentHoldsLease, FreshIsUntouched,
             CreateOwnsSession, StopIsFinal
    <3>3. BoardExclusive'
      BY <1>1, <1>3, <1>4, <1>12, <2>1, NoneAssumption
         DEF FinishTeardown, At, Target, TypeOK, Creating, MarkDead, Remove,
             TaskPart, TablePart, BoardExclusive, AgentHoldsLease, CreateOwnsSession
    <3>4. CorpseIsStopped'
      BY <1>1, <1>3, <1>4, <1>12, <2>1, NoneAssumption
         DEF FinishTeardown, At, Target, TypeOK, Creating, MarkDead, Remove,
             TaskPart, TablePart, CorpseIsStopped, CreateOwnsSession, StopIsFinal,
             Corpse
    <3> QED
      BY <3>1, <3>2, <3>3, <3>4 DEF TablePart
  <2> QED
    BY <1>3, <1>12, <2>2, <2>3
       DEF FinishTeardown, QuietWhenDown, IndInv, TaskPart, TablePart
<1> QED
  BY <1>5, <1>6, <1>7, <1>8, <1>9, <1>10, <1>11, <1>12 DEF TeardownSteps

(* launcher.purge removes what no lease is about. *)
LEMMA PurgeKeepsInv ==
    ASSUME IndInv, TypeOK', "daemon" \notin Faults, NEW t \in Tasks, PurgeSteps(t)
    PROVE  IndInv'
<1>1. t \in Tasks
  BY DEF Tasks
<1>2. task[t].at \notin {"idle", "reaping"}
  BY DEF PurgeSteps, FindToPurge, EraseContainer, PurgeFails, FinishPurge, At, Purging
<1>3. /\ phase = "serving" /\ task \in [Tasks -> TaskRecords]
      /\ Target(t) \in Sessions
      /\ board[Target(t)] \in Boards /\ board[Target(t)] # None
  BY <1>1, <1>2, Engaged
<1>4. TypeOK /\ TaskPart /\ TablePart
  BY DEF IndInv, TaskPart, TablePart
<1>5. CASE FindToPurge(t)
  <2>1. /\ task'[t].at \in {"erased", "erasing"} /\ task'[t].on = task[t].on
        /\ \A u \in Tasks : u # t => task'[u] = task[u]
    BY <1>1, <1>3, <1>5, GotoEffect DEF FindToPurge
  <2>2. TaskPart'
    BY <1>1, <1>3, <1>4, <1>5, <2>1, NoneAssumption
       DEF FindToPurge, At, Target, TypeOK, Creating, TaskPart, FreshIsUntouched,
           TaskHasTarget, CreateOwnsSession, StopIsFinal
  <2>3. TablePart'
    BY <1>1, <1>3, <1>4, <1>5, <2>1
       DEF FindToPurge, At, Target, TypeOK, Creating, Corpse, TablePart,
           LeaseMatchesBoard, AgentHoldsLease, BoardExclusive, CorpseIsStopped,
           CreateOwnsSession, StopIsFinal, FreshIsUntouched
  <2> QED
    BY <1>3, <1>5, <2>2, <2>3
       DEF FindToPurge, QuietWhenDown, IndInv, TaskPart, TablePart
<1>6. CASE EraseContainer(t)
  <2>1. /\ task'[t].at = "erased" /\ task'[t].on = task[t].on
        /\ \A u \in Tasks : u # t => task'[u] = task[u]
    BY <1>1, <1>3, <1>6, GotoEffect DEF EraseContainer
  <2>2. TaskPart'
    BY <1>1, <1>3, <1>4, <1>6, <2>1, NoneAssumption
       DEF EraseContainer, At, Target, TypeOK, Creating, TaskPart, FreshIsUntouched,
           TaskHasTarget, CreateOwnsSession, StopIsFinal
  <2>3. TablePart'
    BY <1>1, <1>3, <1>4, <1>6, <2>1
       DEF EraseContainer, At, Target, TypeOK, Creating, Corpse, TablePart,
           LeaseMatchesBoard, AgentHoldsLease, BoardExclusive, CorpseIsStopped,
           CreateOwnsSession, StopIsFinal, FreshIsUntouched
  <2> QED
    BY <1>3, <1>6, <2>2, <2>3
       DEF EraseContainer, QuietWhenDown, IndInv, TaskPart, TablePart
<1>7. CASE PurgeFails(t)
  <2>1. /\ task'[t].at = "idle" /\ task'[t].on = None
        /\ \A u \in Tasks : u # t => task'[u] = task[u]
    BY <1>1, <1>3, <1>7, EndEffect DEF PurgeFails
  <2>2. TaskPart'
    BY <1>1, <1>3, <1>4, <1>7, <2>1, NoneAssumption
       DEF PurgeFails, At, Target, TypeOK, Creating, TaskPart, FreshIsUntouched,
           TaskHasTarget, CreateOwnsSession, StopIsFinal
  <2>3. TablePart'
    BY <1>1, <1>3, <1>4, <1>7, <2>1
       DEF PurgeFails, At, Target, TypeOK, Creating, Corpse, TablePart,
           LeaseMatchesBoard, AgentHoldsLease, BoardExclusive, CorpseIsStopped,
           CreateOwnsSession, StopIsFinal, FreshIsUntouched
  <2> QED
    BY <1>3, <1>7, <2>2, <2>3 DEF PurgeFails, QuietWhenDown, IndInv, TaskPart, TablePart
<1>8. CASE FinishPurge(t)
  <2>1. /\ task'[t].at = "idle" /\ task'[t].on = None
        /\ \A u \in Tasks : u # t => task'[u] = task[u]
    BY <1>1, <1>3, <1>8, EndEffect DEF FinishPurge
  <2>2. TaskPart'
    BY <1>1, <1>3, <1>4, <1>8, <2>1, NoneAssumption
       DEF FinishPurge, At, Target, TypeOK, Creating, Remove, TaskPart,
           FreshIsUntouched, TaskHasTarget, CreateOwnsSession, StopIsFinal
  <2>3. TablePart'
    BY <1>1, <1>3, <1>4, <1>8, <2>1
       DEF FinishPurge, At, Target, TypeOK, Creating, Corpse, Remove, TablePart,
           LeaseMatchesBoard, AgentHoldsLease, BoardExclusive, CorpseIsStopped,
           CreateOwnsSession, StopIsFinal, FreshIsUntouched
  <2> QED
    BY <1>3, <1>8, <2>2, <2>3
       DEF FinishPurge, QuietWhenDown, IndInv, TaskPart, TablePart
<1> QED
  BY <1>5, <1>6, <1>7, <1>8 DEF PurgeSteps

(* A request that starts concerns a session in the registry, which no      *)
(* handler is creating, or a fresh session and a free board.               *)
LEMMA RequestKeepsInv ==
    ASSUME IndInv, TypeOK', NEW t \in Handlers, Requests(t)
    PROVE  IndInv'
<1>1. PICK s \in Sessions :
         \/ \E b \in Boards : CreateSession(t, s, b)
         \/ \E retain \in BOOLEAN : DeleteSession(t, s, retain)
         \/ Snapshot(t, s)
         \/ Diagnostics(t, s)
  BY DEF Requests
<1>2. t \in Tasks /\ task \in [Tasks -> TaskRecords] /\ phase = "serving"
  BY <1>1 DEF Tasks, IndInv, TypeOK, CreateSession, DeleteSession, Snapshot, Diagnostics
<1>3. TypeOK /\ TaskPart /\ TablePart
  BY DEF IndInv, TaskPart, TablePart
<1>4. ASSUME NEW b \in Boards, CreateSession(t, s, b) PROVE IndInv'
  <2>1. /\ task'[t].at = "creating" /\ task'[t].on = s
        /\ \A u \in Tasks : u # t => task'[u] = task[u]
    BY <1>2, <1>4, BeginEffect DEF CreateSession
  <2>2. /\ lease' = [lease EXCEPT ![b] = s] /\ lease[b] = None
        /\ board' = [board EXCEPT ![s] = b] /\ board[s] = None
    BY <1>4 DEF CreateSession, Acquire
  <2>3. /\ registry[s] = "absent" /\ container[s] = "absent" /\ s \notin page
        /\ \A u \in Tasks : task[u].on # s
        /\ \A c \in Boards : lease[c] # s
    BY <1>3, <2>2, NoneAssumption
       DEF TypeOK, TaskPart, TablePart, FreshIsUntouched, LeaseMatchesBoard, Target
  <2>4. registry' = registry /\ container' = container /\ page' = page /\ phase' = phase
    BY <1>4 DEF CreateSession
  <2>5. TaskPart'
    <3>1. FreshIsUntouched' /\ TaskHasTarget' /\ StopIsFinal'
      BY <1>2, <1>3, <2>1, <2>2, <2>3, <2>4, NoneAssumption
         DEF TypeOK, TaskPart, FreshIsUntouched, TaskHasTarget, StopIsFinal, Target
    <3>2. SUFFICES ASSUME NEW u \in Tasks, task'[u].at \in Creating
                   PROVE  LET r == task'[u].on IN
                          /\ lease'[board'[r]] = r
                          /\ registry[r] = "absent" /\ r \notin page
                          /\ \A v \in Tasks : task'[v].on = r => v = u
                          /\ task'[u].at = "creating" => container[r] = "absent"
                          /\ task'[u].at = "starting" => container[r] = "created"
      BY <2>4, <3>1 DEF CreateOwnsSession, TaskPart, Target, At
    <3>3. CASE u = t
      BY <1>2, <1>3, <2>1, <2>2, <2>3, <3>3 DEF TypeOK
    <3>4. CASE u # t
      <4>1. task'[u] = task[u] /\ task[u].on \in Sessions /\ task[u].on # s
        BY <1>3, <2>1, <2>3, <3>2, <3>4 DEF TaskPart, TaskHasTarget, Creating, Target
      <4>2. /\ lease[board[task[u].on]] = task[u].on
            /\ board[task[u].on] \in Boards
        BY <1>3, <3>2, <4>1
           DEF TypeOK, TaskPart, FreshIsUntouched, CreateOwnsSession, Target
      <4>3. lease'[board'[task[u].on]] = task[u].on
        BY <1>3, <2>2, <4>1, <4>2, NoneAssumption DEF TypeOK
      <4> QED
        BY <1>3, <2>1, <2>3, <3>2, <4>1, <4>3
           DEF TaskPart, CreateOwnsSession, Target, At
    <3> QED
      BY <3>3, <3>4
  <2>6. TablePart'
    BY <1>3, <2>2, <2>3, <2>4, NoneAssumption
       DEF TypeOK, TaskPart, TablePart, FreshIsUntouched, LeaseMatchesBoard,
           AgentHoldsLease, BoardExclusive, CorpseIsStopped
  <2> QED
    BY <1>2, <2>4, <2>5, <2>6 DEF QuietWhenDown, IndInv, TaskPart, TablePart
<1>5. ASSUME \/ \E retain \in BOOLEAN : DeleteSession(t, s, retain)
             \/ Snapshot(t, s)
             \/ Diagnostics(t, s)
      PROVE  IndInv'
  <2>1. /\ task'[t].at \in {"archiving", "locating", "snapshotting", "collecting"}
        /\ task'[t].on = s
        /\ \A u \in Tasks : u # t => task'[u] = task[u]
    BY <1>2, <1>5, BeginEffect DEF DeleteSession, Snapshot, Diagnostics
  <2>2. registry[s] # "absent"
    BY <1>5 DEF DeleteSession, Snapshot, Diagnostics, Corpse
  <2>3. UNCHANGED <<phase, lease, registry, container, board, page>>
    BY <1>5 DEF DeleteSession, Snapshot, Diagnostics
  <2>4. TaskPart'
    BY <1>2, <1>3, <2>1, <2>2, <2>3
       DEF TaskPart, FreshIsUntouched, TaskHasTarget, CreateOwnsSession,
           StopIsFinal, Target, At, Creating
  <2>5. TablePart'
    BY <1>3, <2>3 DEF TablePart, LeaseMatchesBoard, AgentHoldsLease, BoardExclusive,
       CorpseIsStopped
  <2> QED
    BY <1>2, <2>3, <2>4, <2>5 DEF QuietWhenDown, IndInv, TaskPart, TablePart
<1> QED
  BY <1>1, <1>4, <1>5

(* Diagnostics end and leave the tables alone. *)
LEMMA DiagnosticsKeepInv ==
    ASSUME IndInv, TypeOK', NEW t \in Handlers, SnapshotTaken(t) \/ DiagnosticsServed(t)
    PROVE  IndInv'
<1>1. t \in Tasks /\ task[t].at \notin {"idle", "reaping"}
  BY DEF Tasks, SnapshotTaken, DiagnosticsServed, At
<1>2. phase = "serving" /\ task \in [Tasks -> TaskRecords]
  BY <1>1, Engaged
<1>3. /\ task'[t].at = "idle" /\ task'[t].on = None
      /\ \A u \in Tasks : u # t => task'[u] = task[u]
  BY <1>1, <1>2, EndEffect DEF SnapshotTaken, DiagnosticsServed
<1>4. UNCHANGED <<phase, lease, registry, container, board, page>>
  BY DEF SnapshotTaken, DiagnosticsServed
<1> QED
  BY <1>1, <1>2, <1>3, <1>4, NoneAssumption
     DEF IndInv, QuietWhenDown, FreshIsUntouched, LeaseMatchesBoard, TaskHasTarget,
         CreateOwnsSession, StopIsFinal, AgentHoldsLease, BoardExclusive,
         CorpseIsStopped, Target, At, Creating

(* The reaper's pass: its page holds corpses, which nobody is creating. *)
LEMMA ReaperKeepsInv ==
    ASSUME IndInv, TypeOK',
           StartPass \/ (\E s \in Sessions : ReapCorpse(s)) \/ CorpseReaped \/ SweepStore
    PROVE  IndInv'
<1>1. Reaper \in Tasks /\ task \in [Tasks -> TaskRecords]
  BY DEF Tasks, IndInv, TypeOK
<1>2. TypeOK /\ TaskPart /\ TablePart
  BY DEF IndInv, TaskPart, TablePart
<1>3. phase = "serving" /\ phase' = "serving"
  <2>1. phase = "serving" \/ task[Reaper].at \in {"reaping", "erased"}
    BY DEF StartPass, ReapCorpse, CorpseReaped, SweepStore, At
  <2>2. phase' = phase
    BY DEF StartPass, ReapCorpse, CorpseReaped, SweepStore
  <2> QED
    BY <1>1, <2>1, <2>2 DEF IndInv, QuietWhenDown, Idle
<1>4. UNCHANGED <<lease, container, board>>
  BY DEF StartPass, ReapCorpse, CorpseReaped, SweepStore
<1>5. CASE StartPass \/ CorpseReaped \/ SweepStore
  <2>1. /\ task'[Reaper].at \in {"reaping", "idle"} /\ task'[Reaper].on = None
        /\ \A u \in Tasks : u # Reaper => task'[u] = task[u]
    BY <1>1, <1>5, BeginEffect, EndEffect DEF StartPass, CorpseReaped, SweepStore
  <2>2. /\ \A s \in page' : registry[s] = "aged" \/ s \in page
        /\ \A s \in Sessions : registry'[s] \in {registry[s], "absent"}
    BY <1>2, <1>5 DEF StartPass, CorpseReaped, SweepStore, Remove, TypeOK
  <2>3. TaskPart'
    BY <1>1, <1>2, <1>4, <2>1, <2>2, NoneAssumption
       DEF TypeOK, TaskPart, FreshIsUntouched, TaskHasTarget, CreateOwnsSession,
           StopIsFinal, Target, At, Creating
  <2>4. TablePart'
    BY <1>2, <1>3, <1>4, <2>2
       DEF TypeOK, TablePart, LeaseMatchesBoard, AgentHoldsLease, BoardExclusive,
           CorpseIsStopped, Corpse
  <2> QED
    BY <1>3, <2>3, <2>4 DEF QuietWhenDown, IndInv, TaskPart, TablePart
<1>6. ASSUME NEW s \in Sessions, ReapCorpse(s) PROVE IndInv'
  <2>1. /\ task'[Reaper].at = "locating" /\ task'[Reaper].on = s
        /\ \A u \in Tasks : u # Reaper => task'[u] = task[u]
    BY <1>1, <1>6, BeginEffect DEF ReapCorpse
  <2>2. s \in page /\ page' = page \ {s} /\ registry' = registry
    BY <1>6 DEF ReapCorpse
  <2>3. TaskPart'
    BY <1>1, <1>2, <1>4, <2>1, <2>2
       DEF TaskPart, FreshIsUntouched, TaskHasTarget, CreateOwnsSession,
           StopIsFinal, Target, At, Creating
  <2>4. TablePart'
    BY <1>2, <1>3, <1>4, <2>2
       DEF TablePart, LeaseMatchesBoard, AgentHoldsLease, BoardExclusive,
           CorpseIsStopped
  <2> QED
    BY <1>3, <2>3, <2>4 DEF QuietWhenDown, IndInv, TaskPart, TablePart
<1> QED
  BY <1>5, <1>6

(* Containers stop, time passes, the process goes down and comes back. *)
LEMMA EnvironmentKeepsInv ==
    ASSUME IndInv, TypeOK', Environment
    PROVE  IndInv'
<1>1. TypeOK /\ TaskPart /\ TablePart /\ QuietWhenDown
  BY DEF IndInv, TaskPart, TablePart
<1>2. ASSUME NEW s \in Sessions, AgentDies(s) \/ CorpseExpires(s) \/ BundleExpires(s)
      PROVE  IndInv'
  <2>1. UNCHANGED <<phase, lease, board, task, page>>
    BY <1>2 DEF AgentDies, CorpseExpires, BundleExpires
  <2>2. \A r \in Sessions :
           /\ \/ container'[r] = container[r]
              \/ container[r] = "running" /\ container'[r] = "exited"
           /\ \/ registry'[r] = registry[r]
              \/ registry[r] = "dead" /\ registry'[r] = "aged"
    <3>1. CASE AgentDies(s)
      BY <1>1, <3>1 DEF AgentDies, TypeOK
    <3>2. CASE CorpseExpires(s)
      BY <1>1, <3>2 DEF CorpseExpires, TypeOK
    <3>3. CASE BundleExpires(s)
      BY <3>3 DEF BundleExpires
    <3> QED
      BY <1>2, <3>1, <3>2, <3>3
  <2>3. TaskPart'
    BY <1>1, <2>1, <2>2
       DEF TypeOK, TaskPart, FreshIsUntouched, TaskHasTarget, CreateOwnsSession,
           StopIsFinal, Target, At, Creating
  <2>4. TablePart'
    BY <1>1, <2>1, <2>2
       DEF TablePart, LeaseMatchesBoard, AgentHoldsLease, BoardExclusive,
           CorpseIsStopped, Corpse
  <2> QED
    BY <1>1, <2>1, <2>3, <2>4 DEF QuietWhenDown, IndInv, TaskPart, TablePart
<1>3. CASE Crash
  <2>1. /\ phase' = "down" /\ page' = {}
        /\ \A t \in Tasks : task'[t] = Idle
        /\ \A b \in Boards : lease'[b] = None
        /\ \A s \in Sessions : registry'[s] = "absent"
        /\ UNCHANGED <<container, board>>
    BY <1>3 DEF Crash
  <2>2. TaskPart'
    BY <1>1, <2>1, NoneAssumption
       DEF TypeOK, TaskPart, FreshIsUntouched, TaskHasTarget, CreateOwnsSession,
           StopIsFinal, Creating, Idle, Target
  <2>3. TablePart'
    BY <1>1, <2>1
       DEF TablePart, LeaseMatchesBoard, AgentHoldsLease, BoardExclusive,
           CorpseIsStopped, Corpse
  <2> QED
    BY <2>1, <2>2, <2>3 DEF IndInv, QuietWhenDown, TaskPart, TablePart
<1>4. CASE RebuildRegistry
  <2>1. \A s \in Sessions : registry'[s] \in ListedAs(s)
    BY <1>4 DEF RebuildRegistry
  <2>2. \A s \in Sessions :
           /\ container[s] = "absent" => registry'[s] = "absent"
           /\ container[s] = "running" => registry'[s] = "live"
    BY <2>1 DEF ListedAs
  <2>3. /\ phase = "down" /\ phase' = "rebuilding"
        /\ UNCHANGED <<lease, container, board, task, page>>
    BY <1>4 DEF RebuildRegistry
  <2>4. QuietWhenDown'
    BY <1>1, <2>3 DEF QuietWhenDown
  <2>5. TaskPart'
    BY <1>1, <2>2, <2>3, <2>4
       DEF QuietWhenDown, TaskPart, FreshIsUntouched, TaskHasTarget,
           CreateOwnsSession, StopIsFinal, Creating, Idle, Target
  <2>6. TablePart'
    BY <1>1, <2>2, <2>3
       DEF TablePart, LeaseMatchesBoard, AgentHoldsLease, BoardExclusive,
           CorpseIsStopped, Corpse
  <2> QED
    BY <2>4, <2>5, <2>6 DEF IndInv, TaskPart, TablePart
<1>5. CASE RebuildLease
  <2>1. /\ phase = "rebuilding" /\ phase' = "serving"
        /\ UNCHANGED <<registry, container, board, task, page>>
    BY <1>5 DEF RebuildLease
  <2>2. \A b \in Boards :
           LET live == {s \in Sessions : container[s] = "running" /\ board[s] = b}
           IN  lease'[b] \in (IF live = {} THEN {None} ELSE live)
    BY <1>5 DEF RebuildLease
  <2>3. LeaseMatchesBoard'
    BY <2>1, <2>2 DEF LeaseMatchesBoard
  <2>4. AgentHoldsLease'
    <3>1. SUFFICES ASSUME NEW s \in Sessions, container[s] = "running"
                   PROVE  lease'[board[s]] = s
      BY <2>1 DEF AgentHoldsLease
    <3>2. board[s] \in Boards
      BY <1>1, <3>1 DEF TypeOK, TaskPart, FreshIsUntouched
    <3>3. \A r \in Sessions : container[r] = "running" /\ board[r] = board[s] => r = s
      BY <1>1, <3>1 DEF TablePart, BoardExclusive
    <3> QED
      BY <2>2, <3>1, <3>2, <3>3
  <2>5. TaskPart' /\ BoardExclusive' /\ CorpseIsStopped' /\ QuietWhenDown'
    BY <1>1, <2>1
       DEF QuietWhenDown, TaskPart, TablePart, FreshIsUntouched, TaskHasTarget,
           CreateOwnsSession, StopIsFinal, BoardExclusive, CorpseIsStopped, Creating,
           Idle, Target
  <2> QED
    BY <2>3, <2>4, <2>5 DEF IndInv, TaskPart
<1> QED
  BY <1>2, <1>3, <1>4, <1>5 DEF Environment

(* The invariant holds at first and is kept by every step. *)
LEMMA InitInv == Init => IndInv
<1> SUFFICES ASSUME Init PROVE IndInv
  OBVIOUS
<1>1. TypeOK
  BY PlaceNames DEF Init, TypeOK, Idle, TaskRecords, Listing
<1> QED
  BY <1>1, NoneAssumption
     DEF Init, IndInv, QuietWhenDown, FreshIsUntouched, LeaseMatchesBoard,
         TaskHasTarget, CreateOwnsSession, StopIsFinal, AgentHoldsLease,
         BoardExclusive, CorpseIsStopped, Idle, Target, Creating, Corpse

(* Every step, or none, keeps the invariant. *)
LEMMA NextInv ==
    ASSUME "daemon" \notin Faults
    PROVE  IndInv /\ [Next]_vars => IndInv'
<1> SUFFICES ASSUME IndInv, [Next]_vars PROVE IndInv'
  OBVIOUS
<1>1. TypeOK'
  BY TypeStep DEF IndInv
<1>2. CASE UNCHANGED vars
  BY <1>2 DEF vars, IndInv, TypeOK, QuietWhenDown, FreshIsUntouched, LeaseMatchesBoard,
     TaskHasTarget, CreateOwnsSession, StopIsFinal, AgentHoldsLease, BoardExclusive,
     CorpseIsStopped, Target, At
<1>3. CASE Next
  BY <1>1, <1>3, RequestKeepsInv, CreateKeepsInv, TeardownKeepsInv, PurgeKeepsInv,
     DiagnosticsKeepInv, ReaperKeepsInv, EnvironmentKeepsInv
     DEF Next, HandlerSteps, ReaperSteps, Tasks
<1> QED
  BY <1>2, <1>3

(* IndInv holds in every state of every behaviour. *)
LEMMA Invariance ==
    ASSUME "daemon" \notin Faults
    PROVE  Spec => []IndInv
BY InitInv, NextInv, PTL DEF Spec

(* While the Docker daemon does not fail, whatever clients ask for, agents *)
(* answer, the disk does, and however often the process crashes: two       *)
(* agents never run on one board.                                          *)
THEOREM Exclusive ==
    ASSUME "daemon" \notin Faults
    PROVE  Spec => []BoardExclusive
<1>1. IndInv => BoardExclusive
  BY DEF IndInv
<1> QED
  BY <1>1, Invariance, PTL

(* ... a running agent holds the lease of its board while requests are     *)
(* served ...                                                              *)
THEOREM RunningIsLeased ==
    ASSUME "daemon" \notin Faults
    PROVE  Spec => []AgentHoldsLease
<1>1. IndInv => AgentHoldsLease
  BY DEF IndInv
<1> QED
  BY <1>1, Invariance, PTL

(* ... and what is listed as a corpse has stopped. *)
THEOREM CorpsesStopped ==
    ASSUME "daemon" \notin Faults
    PROVE  Spec => []CorpseIsStopped
<1>1. IndInv => CorpseIsStopped
  BY DEF IndInv
<1> QED
  BY <1>1, Invariance, PTL

(***************************************************************************)
(* ControlPlane implements ExclusiveUse, for every set of sessions, boards *)
(* and handlers, as long as the Docker daemon does not fail: a step of the *)
(* control plane lets one session claim a board nobody uses, or lets       *)
(* sessions give boards back, or changes nothing of who uses what.         *)
(***************************************************************************)


(* A session uses the board it was created for. *)
Using(s) == board[s] # None /\ (container[s] = "running" \/ lease[board[s]] = s)

(* Users and Spent, told by Using. *)
LEMMA UsersAndSpent ==
    ASSUME TypeOK
    PROVE  /\ \A b \in Boards : Users[b] = {s \in Sessions : board[s] = b /\ Using(s)}
           /\ Users = [b \in Boards |-> Users[b]]
           /\ Spent = {s \in Sessions : board[s] # None /\ ~Using(s)}
<1>1. \A b \in Boards : Users[b] = {s \in Sessions : board[s] = b /\ Using(s)}
  BY NoneAssumption DEF Users, Using
<1>2. Users = [b \in Boards |-> Users[b]]
  BY DEF Users
<1>3. \A s \in Sessions : s \in UNION {Users[b] : b \in Boards} <=> Using(s)
  <2> SUFFICES ASSUME NEW s \in Sessions
               PROVE  s \in UNION {Users[b] : b \in Boards} <=> Using(s)
    OBVIOUS
  <2>1. s \in UNION {Users[b] : b \in Boards} <=> \E b \in Boards : s \in Users[b]
    OBVIOUS
  <2>2. Using(s) => board[s] \in Boards
    BY DEF Using, TypeOK
  <2> QED
    BY <1>1, <2>1, <2>2
<1>4. Spent = {s \in Sessions : board[s] # None /\ ~Using(s)}
  BY <1>3 DEF Spent
<1> QED
  BY <1>1, <1>2, <1>4

(* The same of the next state. *)
LEMMA NextUsersAndSpent ==
    ASSUME TypeOK'
    PROVE  /\ \A b \in Boards : Users'[b] = {s \in Sessions : board'[s] = b /\ Using(s)'}
           /\ Users' = [b \in Boards |-> Users'[b]]
           /\ Spent' = {s \in Sessions : board'[s] # None /\ ~Using(s)'}
<1>1. /\ (\A b \in Boards : Users[b] = {s \in Sessions : board[s] = b /\ Using(s)})'
      /\ (Users = [b \in Boards |-> Users[b]])'
      /\ (Spent = {s \in Sessions : board[s] # None /\ ~Using(s)})'
  BY UsersAndSpent, PTL
<1> QED
  BY <1>1

(* No board has two users: a running agent holds the lease of its board    *)
(* while requests are served, and without leases only one agent runs on it *)
LEMMA OneUser ==
    ASSUME IndInv, NEW s \in Sessions, NEW t \in Sessions,
           Using(s), Using(t), board[s] = board[t]
    PROVE  s = t
<1>1. board[s] \in Boards /\ None \notin Sessions
  BY NoneAssumption DEF IndInv, TypeOK, Using
<1>2. CASE phase = "serving"
  BY <1>1, <1>2 DEF IndInv, AgentHoldsLease, Using
<1>3. CASE phase # "serving"
  <2>1. lease[board[s]] = None
    BY <1>1, <1>3 DEF IndInv, QuietWhenDown
  <2> QED
    BY <1>1, <2>1 DEF IndInv, BoardExclusive, Using
<1> QED
  BY <1>2, <1>3

(* A step after which no session uses a board that did not before lets     *)
(* sessions give boards back.                                              *)
LEMMA LeavingIsYield ==
    ASSUME IndInv, TypeOK', board' = board,
           \A s \in Sessions : Using(s)' => Using(s)
    PROVE  \E freed \in SUBSET Boards : Use!Yield(freed)
<1> DEFINE freed == {b \in Boards : Users'[b] # Users[b]}
<1>1. /\ \A b \in Boards : Users[b] = {s \in Sessions : board[s] = b /\ Using(s)}
      /\ Spent = {s \in Sessions : board[s] # None /\ ~Using(s)}
  BY UsersAndSpent DEF IndInv
<1>2. /\ \A b \in Boards : Users'[b] = {s \in Sessions : board[s] = b /\ Using(s)'}
      /\ Users' = [b \in Boards |-> Users'[b]]
      /\ Spent' = {s \in Sessions : board[s] # None /\ ~Using(s)'}
  BY NextUsersAndSpent
<1>3. \A b \in Boards : Users'[b] = IF b \in freed THEN {} ELSE Users[b]
  <2> SUFFICES ASSUME NEW b \in Boards, Users'[b] # Users[b] PROVE Users'[b] = {}
    OBVIOUS
  <2>1. Users'[b] \subseteq Users[b]
    BY <1>1, <1>2
  <2>2. PICK s \in Users[b] : s \notin Users'[b]
    BY <2>1
  <2>3. \A t \in Users[b] : t = s
    BY <1>1, <2>2, OneUser
  <2> QED
    BY <2>1, <2>2, <2>3
<1>4. Users' = [b \in Boards |-> IF b \in freed THEN {} ELSE Users[b]]
  BY <1>2, <1>3
<1>5. Spent' = Spent \cup UNION {Users[b] : b \in freed}
  <2>1. ASSUME NEW s \in Sessions
        PROVE  s \in UNION {Users[b] : b \in freed} <=> Using(s) /\ ~Using(s)'
    <3>1. s \in UNION {Users[b] : b \in freed} <=> \E b \in freed : s \in Users[b]
      OBVIOUS
    <3>2. \A b \in Boards : s \in Users[b] <=> board[s] = b /\ Using(s)
      BY <1>1
    <3>3. \A b \in Boards : s \in Users'[b] <=> board[s] = b /\ Using(s)'
      BY <1>2
    <3>4. Using(s) => board[s] \in Boards
      BY DEF Using, IndInv, TypeOK
    <3>5. CASE Using(s) /\ ~Using(s)'
      BY <3>1, <3>2, <3>3, <3>4, <3>5
    <3>6. CASE Using(s) /\ Using(s)'
      BY <1>3, <3>1, <3>2, <3>3, <3>4, <3>6
    <3>7. CASE ~Using(s)
      BY <3>1, <3>2, <3>7
    <3> QED
      BY <3>5, <3>6, <3>7
  <2>2. \A s \in Sessions : Using(s) => board[s] # None
    BY DEF Using
  <2>3. UNION {Users[b] : b \in freed} \subseteq Sessions
    BY <1>1
  <2> QED
    BY <1>1, <1>2, <2>1, <2>2, <2>3
<1>6. freed \in SUBSET Boards
  OBVIOUS
<1> HIDE DEF freed
<1> QED
  BY <1>4, <1>5, <1>6 DEF Use!Yield

(* create_session claims its board: the lease is free, and so no agent     *)
(* runs on the board; the session's identifier was never drawn before.     *)
LEMMA CreateIsClaim ==
    ASSUME IndInv, TypeOK', NEW t \in Handlers, NEW s \in Sessions, NEW b \in Boards,
           CreateSession(t, s, b)
    PROVE  Use!Claim(b, s)
<1>1. /\ phase = "serving" /\ board[s] = None /\ lease[b] = None /\ UNCHANGED container
      /\ \A c \in Boards : lease'[c] = IF c = b THEN s ELSE lease[c]
      /\ \A r \in Sessions : board'[r] = IF r = s THEN b ELSE board[r]
      /\ None \notin Sessions /\ None \notin Boards
  BY NoneAssumption DEF CreateSession, Acquire, IndInv, TypeOK
<1>2. \A r \in Sessions : Using(r)' <=> (r = s \/ Using(r))
  <2>1. \A r \in Sessions : board[r] \in Boards \cup {None}
    BY DEF IndInv, TypeOK
  <2>2. ASSUME NEW r \in Sessions, r # s PROVE Using(r)' <=> Using(r)
    <3>1. board'[r] = board[r] /\ container' = container
      BY <1>1, <2>2
    <3>2. CASE board[r] = b
      BY <1>1, <2>2, <3>1, <3>2 DEF Using
    <3>3. CASE board[r] # b
      BY <1>1, <2>1, <3>1, <3>3 DEF Using
    <3> QED
      BY <3>2, <3>3
  <2>3. Using(s)'
    BY <1>1 DEF Using
  <2> QED
    BY <2>2, <2>3
<1>3. ~Using(s)
  BY <1>1 DEF Using
<1>4. \A r \in Sessions : board[r] = b => ~Using(r)
  BY <1>1 DEF Using, IndInv, AgentHoldsLease
<1>5. /\ \A c \in Boards : Users[c] = {r \in Sessions : board[r] = c /\ Using(r)}
      /\ Users = [c \in Boards |-> Users[c]]
      /\ Spent = {r \in Sessions : board[r] # None /\ ~Using(r)}
  BY UsersAndSpent DEF IndInv
<1>6. /\ \A c \in Boards : Users'[c] = {r \in Sessions : board'[r] = c /\ Using(r)'}
      /\ Users' = [c \in Boards |-> Users'[c]]
      /\ Spent' = {r \in Sessions : board'[r] # None /\ ~Using(r)'}
  BY NextUsersAndSpent
<1>7. Users[b] = {} /\ s \notin Spent
  BY <1>1, <1>4, <1>5
<1>8. Users' = [Users EXCEPT ![b] = {s}]
  <2>1. ASSUME NEW c \in Boards PROVE Users'[c] = IF c = b THEN {s} ELSE Users[c]
    <3>1. \A r \in Sessions : r \in Users'[c] <=> board'[r] = c /\ Using(r)'
      BY <1>6
    <3>2. \A r \in Sessions : r \in Users[c] <=> board[r] = c /\ Using(r)
      BY <1>5
    <3>3. Users'[c] \subseteq Sessions /\ Users[c] \subseteq Sessions
      BY <1>5, <1>6
    <3>4. CASE c = b
      <4>1. \A r \in Sessions : r \in Users'[c] <=> r = s
        BY <1>1, <1>2, <1>4, <3>1, <3>4
      <4> QED
        BY <3>3, <3>4, <4>1
    <3>5. CASE c # b
      <4>1. \A r \in Sessions : r \in Users'[c] <=> r \in Users[c]
        BY <1>1, <1>2, <1>3, <3>1, <3>2, <3>5
      <4> QED
        BY <3>3, <3>5, <4>1
    <3> QED
      BY <3>4, <3>5
  <2>2. Users' = [c \in Boards |-> IF c = b THEN {s} ELSE Users[c]]
    BY <1>6, <2>1
  <2> QED
    BY <1>5, <2>2
<1>9. Spent' = Spent
  BY <1>1, <1>2, <1>3, <1>5, <1>6
<1> QED
  BY <1>7, <1>8, <1>9 DEF Use!Claim

(* No other request lets a session use a board.                            *)
LEMMA RequestsJoinNobody ==
    ASSUME NEW t \in Handlers, Requests(t),
           ~ \E s \in Sessions, b \in Boards : CreateSession(t, s, b)
    PROVE  board' = board /\ \A s \in Sessions : Using(s)' => Using(s)
  BY DEF Requests, DeleteSession, Snapshot, Diagnostics, Using

(* A container that starts belongs to a session that holds the lease.      *)
LEMMA CreateStepsJoinNobody ==
    ASSUME IndInv, "daemon" \notin Faults, NEW t \in Handlers, CreateSteps(t)
    PROVE  board' = board /\ \A s \in Sessions : Using(s)' => Using(s)
<1>1. Target(t) \in Sessions
  BY DEF CreateSteps, ContainerCreated, ContainerStarted, StartFails, AgentAnswers, BootAccepted,
         Unwind, CreateEscapes, At, IndInv, TaskHasTarget, Tasks
<1>2. CASE ContainerCreated(t)
  BY <1>1, <1>2 DEF ContainerCreated, Using, IndInv, TypeOK
<1>3. CASE ContainerStarted(t)
  <2>1. lease[board[Target(t)]] = Target(t) /\ board[Target(t)] # None
    BY <1>1, <1>3 DEF ContainerStarted, At, IndInv, CreateOwnsSession, FreshIsUntouched, Creating, Tasks
  <2>2. Using(Target(t))
    BY <2>1 DEF Using
  <2>3. \A s \in Sessions \ {Target(t)} : container'[s] = container[s]
    BY <1>1, <1>3 DEF ContainerStarted, IndInv, TypeOK
  <2> QED
    BY <1>3, <2>2, <2>3 DEF ContainerStarted, Using
<1>4. CASE StartFails(t)
  <2>1. container' = container /\ board' = board
    BY <1>4 DEF StartFails
  <2>2. \A b \in Boards : lease'[b] \in {lease[b], None}
    BY <1>4 DEF StartFails, Release
  <2>3. \A s \in Sessions : board[s] \in Boards \cup {None} /\ s # None
    BY NoneAssumption DEF IndInv, TypeOK
  <2> QED
    BY <2>1, <2>2, <2>3 DEF Using
<1>5. CASE AgentAnswers(t) \/ BootAccepted(t) \/ Unwind(t) \/ CreateEscapes(t)
  BY <1>5 DEF AgentAnswers, BootAccepted, Unwind, CreateEscapes, Using
<1> QED
  BY <1>2, <1>3, <1>4, <1>5 DEF CreateSteps

(* A teardown stops containers and releases leases. *)
LEMMA TeardownJoinsNobody ==
    ASSUME IndInv, "daemon" \notin Faults, NEW t \in Handlers, TeardownSteps(t)
    PROVE  board' = board /\ \A s \in Sessions : Using(s)' => Using(s)
<1>1. CASE Archived(t) \/ MetaFails(t) \/ DevicesReleased(t) \/ FindToStop(t)
  BY <1>1 DEF Archived, MetaFails, DevicesReleased, FindToStop, Using
<1>2. CASE StopContainer(t) \/ RemoveContainer(t)
  <2>1. \A s \in Sessions : container'[s] = "running" => container[s] = "running"
    BY <1>2 DEF StopContainer, RemoveContainer, IndInv, TypeOK
  <2> QED
    BY <1>2, <2>1 DEF StopContainer, RemoveContainer, Using
<1>3. CASE FinishTeardown(t)
  <2>1. \A b \in Boards : lease'[b] \in {lease[b], None}
    BY <1>3 DEF FinishTeardown, Release
  <2>2. \A s \in Sessions : board[s] \in Boards \cup {None} /\ s # None
    BY NoneAssumption DEF IndInv, TypeOK
  <2> QED
    BY <1>3, <2>1, <2>2 DEF FinishTeardown, Using
<1> QED
  BY <1>1, <1>2, <1>3 DEF TeardownSteps, DaemonFails

(* A purge removes containers. *)
LEMMA PurgeJoinsNobody ==
    ASSUME IndInv, NEW t \in Tasks, PurgeSteps(t)
    PROVE  board' = board /\ \A s \in Sessions : Using(s)' => Using(s)
<1>1. CASE EraseContainer(t)
  <2>1. \A s \in Sessions : container'[s] = "running" => container[s] = "running"
    BY <1>1 DEF EraseContainer, IndInv, TypeOK
  <2> QED
    BY <1>1, <2>1 DEF EraseContainer, Using
<1>2. CASE FindToPurge(t) \/ PurgeFails(t) \/ FinishPurge(t)
  BY <1>2 DEF FindToPurge, PurgeFails, FinishPurge, Using
<1> QED
  BY <1>1, <1>2 DEF PurgeSteps

(* The environment starts no agents; the leases rebuilt after a crash are  *)
(* those of agents that run.                                               *)
LEMMA EnvironmentJoinsNobody ==
    ASSUME IndInv, Environment
    PROVE  board' = board /\ \A s \in Sessions : Using(s)' => Using(s)
<1> USE DEF IndInv
<1>1. CASE \E s \in Sessions : AgentDies(s)
  <2>1. \A s \in Sessions : container'[s] = "running" => container[s] = "running"
    BY <1>1 DEF AgentDies, TypeOK
  <2> QED
    BY <1>1, <2>1 DEF AgentDies, Using
<1>2. CASE \E s \in Sessions : CorpseExpires(s) \/ BundleExpires(s)
  BY <1>2 DEF CorpseExpires, BundleExpires, Using
<1>3. CASE Crash
  <2>1. \A s \in Sessions : board[s] \in Boards \cup {None} /\ s # None
    BY NoneAssumption DEF TypeOK
  <2> QED
    BY <1>3, <2>1 DEF Crash, Using
<1>4. CASE RebuildRegistry
  BY <1>4 DEF RebuildRegistry, Using
<1>5. CASE RebuildLease
  <2>1. \A s \in Sessions : board[s] \in Boards \cup {None} /\ s # None
    BY NoneAssumption DEF TypeOK
  <2>2. UNCHANGED <<board, container>>
    BY <1>5 DEF RebuildLease
  <2>3. ASSUME NEW s \in Sessions, board[s] \in Boards, lease'[board[s]] = s
        PROVE  container[s] = "running"
    BY <1>5, <2>1, <2>3 DEF RebuildLease
  <2> QED
    BY <2>1, <2>2, <2>3 DEF Using
<1> QED
  BY <1>1, <1>2, <1>3, <1>4, <1>5 DEF Environment

(* Every step of the control plane is a step of the abstract specification *)
(* or changes nothing there.                                               *)
LEMMA StepImplements ==
    ASSUME IndInv, TypeOK', "daemon" \notin Faults, [Next]_vars
    PROVE  [Use!Next]_<<Users, Spent>>
<1>1. CASE UNCHANGED vars
  <2>1. Users' = Users /\ Spent' = Spent
    BY <1>1 DEF vars, Users, Spent
  <2> QED
    BY <2>1
<1>2. CASE \E t \in Handlers, s \in Sessions, b \in Boards : CreateSession(t, s, b)
  BY <1>2, CreateIsClaim DEF Use!Next
<1>3. CASE Next /\ ~ \E t \in Handlers, s \in Sessions, b \in Boards : CreateSession(t, s, b)
  <2>1. board' = board /\ \A s \in Sessions : Using(s)' => Using(s)
    <3>1. ASSUME NEW t \in Handlers, Requests(t)
          PROVE  board' = board /\ \A s \in Sessions : Using(s)' => Using(s)
      BY <1>3, <3>1, RequestsJoinNobody
    <3>2. ASSUME NEW t \in Handlers, HandlerSteps(t)
          PROVE  board' = board /\ \A s \in Sessions : Using(s)' => Using(s)
      <4>1. CASE SnapshotTaken(t) \/ DiagnosticsServed(t)
        BY <4>1 DEF SnapshotTaken, DiagnosticsServed, Using
      <4> QED
        BY <3>2, <4>1, CreateStepsJoinNobody, TeardownJoinsNobody, PurgeJoinsNobody
           DEF HandlerSteps, Tasks
    <3>3. CASE StartPass \/ (\E s \in Sessions : ReapCorpse(s)) \/ CorpseReaped \/ SweepStore
      BY <3>3 DEF StartPass, ReapCorpse, CorpseReaped, SweepStore, Using
    <3>4. CASE PurgeSteps(Reaper)
      BY <3>4, PurgeJoinsNobody DEF Tasks
    <3>5. CASE Environment
      BY <3>5, EnvironmentJoinsNobody
    <3> QED
      BY <1>3, <3>1, <3>2, <3>3, <3>4, <3>5 DEF Next, ReaperSteps
  <2> QED
    BY <2>1, LeavingIsYield DEF Use!Next
<1> QED
  BY <1>1, <1>2, <1>3

(* Initially nobody uses a board, and nobody has. *)
LEMMA InitImplements == Init => Use!Init
<1> SUFFICES ASSUME Init PROVE Use!Init
  OBVIOUS
<1>1. \A b \in Boards : {s \in Sessions : board[s] = b /\ (container[s] = "running" \/ lease[b] = s)} = {}
  BY NoneAssumption DEF Init
<1>2. Users = [b \in Boards |-> {}]
  BY <1>1 DEF Users
<1>3. Spent = {}
  BY DEF Spent, Init
<1> QED
  BY <1>2, <1>3 DEF Use!Init

(* The inductive invariant of the control plane holds in every behaviour.  *)
THEOREM InvariantHolds ==
    ASSUME "daemon" \notin Faults
    PROVE  Spec => []IndInv
BY Invariance

(* The control plane implements ExclusiveUse: whatever is requested, and   *)
(* however often the process crashes, a board in use is not given to a     *)
(* second session, nor a board back to a session that ended.               *)
THEOREM ControlPlaneImplements ==
    ASSUME "daemon" \notin Faults
    PROVE  Spec => ImplementsExclusiveUse
<1>1. IndInv /\ IndInv' /\ [Next]_vars => [Use!Next]_<<Users, Spent>>
  BY StepImplements DEF IndInv
<1> QED
  BY <1>1, Invariance, InitImplements, PTL DEF Spec, ImplementsExclusiveUse, Use!Spec

(***************************************************************************)
(* What ControlPlane promises of a session whatever fails: that the        *)
(* registry has no ghosts, that a teardown frees its board, and that a     *)
(* lease is held by a session a client can reach.  Unlike the exclusive    *)
(* use of boards, none of this needs a daemon that works.                  *)
(***************************************************************************)

(* A session being created is not listed, no corpse, and of one task. *)
CreatesAlone ==
    \A t \in Tasks : task[t].at \in Creating =>
        /\ registry[Target(t)] = "absent" /\ Target(t) \notin page
        /\ \A u \in Tasks : Target(u) = Target(t) => u = t

(* What holds of sessions and tasks under every fault. *)
SessionInv ==
    TypeOK /\ QuietWhenDown /\ FreshIsUntouched /\ TaskHasTarget /\ CreatesAlone

Unleased(s) == \A b \in Boards : lease[b] # s

(* What is purged, or will be in this pass, has no lease. *)
PurgedIsFree ==
    /\ \A t \in Tasks : task[t].at \in Purging => Unleased(Target(t))
    /\ \A s \in page : Unleased(s)

(* Between the two listings of a restart, an agent that still runs is      *)
(* listed as live: it ran at the first.                                    *)
ListedOnRestart ==
    phase = "rebuilding" =>
        \A s \in Sessions : container[s] = "running" => registry[s] = "live"

(* The strengthening of LeaseHasOwner. *)
OwnerInv == SessionInv /\ LeaseHasOwner /\ PurgedIsFree /\ ListedOnRestart

-----------------------------------------------------------------------------
(* Every fault *)

(* A task that is not idle or between two corpses has a session, which was *)
(* created, and the process serves.                                        *)
LEMMA Busy ==
    ASSUME SessionInv, NEW t \in Tasks, task[t].at # "idle"
    PROVE  /\ phase = "serving" /\ task \in [Tasks -> TaskRecords]
           /\ task[t].at # "reaping" =>
                 Target(t) \in Sessions /\ board[Target(t)] # None
BY DEF SessionInv, TypeOK, QuietWhenDown, TaskHasTarget, FreshIsUntouched, Idle, Target

(* What a step of task t within its request may do to sessions: change the *)
(* container and the listing of its own session only, and go on with the   *)
(* same session, begin with one that is listed, or end.                    *)
Move(t) ==
    /\ phase = "serving" /\ phase' = phase /\ board' = board
    /\ page' \subseteq page
    /\ \A u \in Tasks : u # t => task'[u] = task[u]
    /\ \A s \in Sessions : container'[s] # container[s] => s = Target(t)
    /\ \A s \in Sessions : registry'[s] # registry[s] =>
          s = Target(t) /\ task'[t].at \notin Creating
    /\ \/ task'[t].at \in {"idle", "reaping"} /\ task'[t].on = None
       \/ /\ task'[t].on \in Sessions
          /\ \/ task'[t].on = Target(t) /\ (task'[t].at \in Creating => task[t].at \in Creating)
             \/ /\ registry[task'[t].on] # "absent" \/ task'[t].on \in page
                /\ task'[t].at \notin Creating

(* Such steps keep what holds of sessions. *)
LEMMA MoveKeeps ==
    ASSUME SessionInv, TypeOK', NEW t \in Tasks, Move(t)
    PROVE  SessionInv'
<1>1. QuietWhenDown'
  BY DEF Move, QuietWhenDown
<1>2. TaskHasTarget'
  BY NoneAssumption DEF SessionInv, Move, TaskHasTarget, Target
<1>3. FreshIsUntouched'
  BY NoneAssumption DEF SessionInv, Move, FreshIsUntouched, Target
<1>4. CreatesAlone'
  <2> SUFFICES ASSUME NEW u \in Tasks, task'[u].at \in Creating
               PROVE  /\ registry'[task'[u].on] = "absent" /\ task'[u].on \notin page'
                      /\ \A v \in Tasks : task'[v].on = task'[u].on => v = u
    BY DEF CreatesAlone, Target
  <2>1. "idle" \notin Creating /\ "reaping" \notin Creating
    BY DEF Creating
  <2>2. task[u].at \in Creating /\ task'[u].on = task[u].on
    BY <2>1 DEF Move, Target
  <2>3. /\ task[u].on \in Sessions
        /\ registry[task[u].on] = "absent" /\ task[u].on \notin page
        /\ \A v \in Tasks : task[v].on = task[u].on => v = u
    BY <2>1, <2>2 DEF SessionInv, CreatesAlone, TaskHasTarget, Target
  <2>4. registry'[task[u].on] = "absent"
    BY <2>2, <2>3 DEF Move, Target
  <2>5. ASSUME NEW v \in Tasks, task'[v].on = task[u].on PROVE v = u
    BY <2>2, <2>3, <2>5, NoneAssumption DEF Move, Target
  <2> QED
    BY <2>2, <2>3, <2>4, <2>5 DEF Move
<1> QED
  BY <1>1, <1>2, <1>3, <1>4 DEF SessionInv

(* Every step of create_session is one, whether it goes on, is listed at   *)
(* the end, or is given up.                                                *)
LEMMA CreateMoves ==
    ASSUME SessionInv, NEW t \in Handlers, CreateSteps(t)
    PROVE  Move(t)
<1>1. t \in Tasks /\ task[t].at \in Creating
  BY DEF Tasks, CreateSteps, ContainerCreated, ContainerStarted, StartFails,
         AgentAnswers, BootAccepted, Unwind, CreateEscapes, At, Creating
<1>2. task[t].at # "idle" /\ task[t].at # "reaping"
  BY <1>1 DEF Creating
<1>3. /\ phase = "serving" /\ task \in [Tasks -> TaskRecords]
      /\ Target(t) \in Sessions /\ TypeOK
  BY <1>1, <1>2, Busy DEF SessionInv
<1>4. CASE ContainerCreated(t) \/ ContainerStarted(t) \/ AgentAnswers(t)
  <2>1. /\ task'[t].on = task[t].on
        /\ \A u \in Tasks : u # t => task'[u] = task[u]
    BY <1>1, <1>3, <1>4, GotoEffect
       DEF ContainerCreated, ContainerStarted, AgentAnswers
  <2> QED
    BY <1>1, <1>3, <1>4, <2>1
       DEF ContainerCreated, ContainerStarted, AgentAnswers, Move, Target, TypeOK
<1>5. CASE StartFails(t) \/ BootAccepted(t) \/ CreateEscapes(t)
  <2>1. /\ task'[t].at = "idle" /\ task'[t].on = None
        /\ \A u \in Tasks : u # t => task'[u] = task[u]
    BY <1>1, <1>3, <1>5, EndEffect DEF StartFails, BootAccepted, CreateEscapes
  <2>2. task'[t].at \notin Creating
    BY <2>1 DEF Creating
  <2> QED
    BY <1>1, <1>3, <1>5, <2>1, <2>2
       DEF StartFails, BootAccepted, CreateEscapes, Add, Move, TypeOK
<1>6. CASE Unwind(t)
  <2>1. /\ task'[t].at = "archiving" /\ task'[t].on = Target(t)
        /\ \A u \in Tasks : u # t => task'[u] = task[u]
    BY <1>1, <1>3, <1>6, BeginEffect DEF Unwind
  <2>2. task'[t].at \notin Creating
    BY <2>1 DEF Creating
  <2> QED
    BY <1>1, <1>3, <1>6, <2>1, <2>2 DEF Unwind, Add, Move, TypeOK
<1> QED
  BY <1>4, <1>5, <1>6 DEF CreateSteps

(* So is every step of a teardown, though the daemon or the disk fails. *)
LEMMA TeardownMoves ==
    ASSUME SessionInv, NEW t \in Handlers, TeardownSteps(t)
    PROVE  Move(t)
<1>1. t \in Tasks /\ task[t].at \in Teardown
  BY DEF Tasks, TeardownSteps, Archived, MetaFails, DevicesReleased, FindToStop,
         StopContainer, RemoveContainer, DaemonFails, FinishTeardown, At, Teardown
<1>2. task[t].at # "idle" /\ task[t].at # "reaping"
  BY <1>1 DEF Teardown
<1>3. /\ phase = "serving" /\ task \in [Tasks -> TaskRecords]
      /\ Target(t) \in Sessions /\ TypeOK
  BY <1>1, <1>2, Busy DEF SessionInv
<1>4. CASE \/ Archived(t) \/ DevicesReleased(t) \/ FindToStop(t)
           \/ StopContainer(t) \/ RemoveContainer(t) \/ DaemonFails(t)
  <2>1. PICK place \in Teardown : Goto(t, place)
    BY <1>4 DEF Archived, DevicesReleased, FindToStop, StopContainer,
                RemoveContainer, DaemonFails, Teardown
  <2>2. /\ task'[t].at = place /\ task'[t].on = task[t].on
        /\ \A u \in Tasks : u # t => task'[u] = task[u]
    BY <1>1, <1>3, <2>1, GotoEffect
  <2>3. task'[t].at \notin Creating
    BY <2>2 DEF Teardown, Creating
  <2>4. \A s \in Sessions : container'[s] # container[s] => s = Target(t)
    BY <1>3, <1>4 DEF Archived, DevicesReleased, FindToStop, StopContainer,
                      RemoveContainer, DaemonFails, TypeOK
  <2>5. /\ UNCHANGED <<phase, board, page, registry>>
    BY <1>4 DEF Archived, DevicesReleased, FindToStop, StopContainer,
                RemoveContainer, DaemonFails
  <2> QED
    BY <1>3, <2>2, <2>3, <2>4, <2>5 DEF Move, Target
<1>5. CASE MetaFails(t) \/ FinishTeardown(t)
  <2>1. /\ task'[t].at = "idle" /\ task'[t].on = None
        /\ \A u \in Tasks : u # t => task'[u] = task[u]
    BY <1>1, <1>3, <1>5, EndEffect DEF MetaFails, FinishTeardown
  <2>2. task'[t].at \notin Creating
    BY <2>1 DEF Creating
  <2> QED
    BY <1>1, <1>3, <1>5, <2>1, <2>2
       DEF MetaFails, FinishTeardown, MarkDead, Remove, Move, TypeOK
<1> QED
  BY <1>4, <1>5 DEF TeardownSteps

(* And every step of launcher.purge, also when it comes too late. *)
LEMMA PurgeMoves ==
    ASSUME SessionInv, NEW t \in Tasks, PurgeSteps(t)
    PROVE  Move(t)
<1>1. task[t].at \in Purging
  BY DEF PurgeSteps, FindToPurge, EraseContainer, PurgeFails, FinishPurge, At, Purging
<1>2. task[t].at # "idle" /\ task[t].at # "reaping"
  BY <1>1 DEF Purging
<1>3. /\ phase = "serving" /\ task \in [Tasks -> TaskRecords]
      /\ Target(t) \in Sessions /\ TypeOK
  BY <1>1, <1>2, Busy DEF SessionInv
<1>4. CASE FindToPurge(t) \/ EraseContainer(t)
  <2>1. PICK place \in Purging : Goto(t, place)
    BY <1>4 DEF FindToPurge, EraseContainer, Purging
  <2>2. /\ task'[t].at = place /\ task'[t].on = task[t].on
        /\ \A u \in Tasks : u # t => task'[u] = task[u]
    BY <1>3, <2>1, GotoEffect
  <2>3. task'[t].at \notin Creating
    BY <2>2 DEF Purging, Creating
  <2> QED
    BY <1>3, <1>4, <2>2, <2>3 DEF FindToPurge, EraseContainer, Move, Target, TypeOK
<1>5. CASE PurgeFails(t) \/ FinishPurge(t)
  <2>1. /\ task'[t].at = "idle" /\ task'[t].on = None
        /\ \A u \in Tasks : u # t => task'[u] = task[u]
    BY <1>3, <1>5, EndEffect DEF PurgeFails, FinishPurge
  <2>2. task'[t].at \notin Creating
    BY <2>1 DEF Creating
  <2> QED
    BY <1>3, <1>5, <2>1, <2>2 DEF PurgeFails, FinishPurge, Remove, Move, TypeOK
<1> QED
  BY <1>4, <1>5 DEF PurgeSteps

(* A request about a session finds it listed; a reaper's purge finds it on *)
(* its page; and what else ends a request or a pass changes no session.    *)
LEMMA VisitMoves ==
    ASSUME SessionInv, NEW t \in Tasks, NEW s \in Sessions,
           \/ \E retain \in BOOLEAN : DeleteSession(t, s, retain)
           \/ Snapshot(t, s) \/ Diagnostics(t, s)
           \/ t = Reaper /\ ReapCorpse(s)
    PROVE  Move(t) /\ task'[t].on = s
<1>1. PICK place \in {"archiving", "locating", "snapshotting", "collecting"},
           retain \in BOOLEAN : Begin(t, place, s, retain)
  BY DEF DeleteSession, Snapshot, Diagnostics, ReapCorpse
<1>2. phase = "serving"
  <2>1. CASE ReapCorpse(s) /\ t = Reaper
    BY <2>1, Busy DEF ReapCorpse, At
  <2> QED
    BY <2>1 DEF DeleteSession, Snapshot, Diagnostics
<1>3. task \in [Tasks -> TaskRecords]
  BY DEF SessionInv, TypeOK
<1>4. /\ task'[t].at = place /\ task'[t].on = s
      /\ \A u \in Tasks : u # t => task'[u] = task[u]
  BY <1>1, <1>3, BeginEffect
<1>5. task'[t].at \notin Creating
  BY <1>4 DEF Creating
<1>6. registry[s] # "absent" \/ s \in page
  BY DEF DeleteSession, Snapshot, Diagnostics, ReapCorpse, Corpse
<1>7. page' \subseteq page /\ UNCHANGED <<phase, registry, container, board>>
  BY DEF DeleteSession, Snapshot, Diagnostics, ReapCorpse
<1> QED
  BY <1>2, <1>4, <1>5, <1>6, <1>7 DEF Move

(* The other ends of requests and passes. *)
LEMMA EndMoves ==
    ASSUME SessionInv, NEW t \in Tasks,
           \/ SnapshotTaken(t) \/ DiagnosticsServed(t)
           \/ t = Reaper /\ (CorpseReaped \/ SweepStore)
    PROVE  Move(t)
<1>1. task[t].at # "idle"
  BY DEF SnapshotTaken, DiagnosticsServed, CorpseReaped, SweepStore, At
<1>2. phase = "serving" /\ task \in [Tasks -> TaskRecords] /\ TypeOK
  BY <1>1, Busy DEF SessionInv
<1>3. CASE SnapshotTaken(t) \/ DiagnosticsServed(t) \/ (t = Reaper /\ SweepStore)
  <2>1. /\ task'[t].at = "idle" /\ task'[t].on = None
        /\ \A u \in Tasks : u # t => task'[u] = task[u]
    BY <1>2, <1>3, EndEffect DEF SnapshotTaken, DiagnosticsServed, SweepStore
  <2> QED
    BY <1>2, <1>3, <2>1 DEF SnapshotTaken, DiagnosticsServed, SweepStore, Move
<1>4. CASE t = Reaper /\ CorpseReaped
  <2>1. /\ task'[t].at = "reaping" /\ task'[t].on = None
        /\ \A u \in Tasks : u # t => task'[u] = task[u]
    BY <1>2, <1>4, BeginEffect DEF CorpseReaped
  <2>2. task'[t].at \notin Creating
    BY <2>1 DEF Creating
  <2> QED
    BY <1>2, <1>4, <2>1, <2>2 DEF CorpseReaped, Remove, Move, TypeOK
<1> QED
  BY <1>3, <1>4

(* A new session has a board and one task, and had no trace before. *)
LEMMA CreateBegins ==
    ASSUME SessionInv, TypeOK', NEW t \in Handlers, NEW s \in Sessions, NEW b \in Boards,
           CreateSession(t, s, b)
    PROVE  SessionInv'
<1>1. t \in Tasks /\ task \in [Tasks -> TaskRecords] /\ TypeOK
  BY DEF Tasks, SessionInv, TypeOK
<1>2. /\ task'[t].at = "creating" /\ task'[t].on = s
      /\ \A u \in Tasks : u # t => task'[u] = task[u]
  BY <1>1, BeginEffect DEF CreateSession
<1>3. /\ registry[s] = "absent" /\ s \notin page
      /\ \A u \in Tasks : task[u].on # s
  BY DEF CreateSession, SessionInv, FreshIsUntouched, Target
<1>4. b # None
  BY NoneAssumption
<1>5. QuietWhenDown'
  BY DEF CreateSession, QuietWhenDown
<1>6. FreshIsUntouched'
  BY <1>1, <1>2, <1>4 DEF CreateSession, SessionInv, FreshIsUntouched, Target, TypeOK
<1>7. TaskHasTarget'
  BY <1>2 DEF SessionInv, TaskHasTarget, Target
<1>8. CreatesAlone'
  BY <1>2, <1>3 DEF CreateSession, SessionInv, CreatesAlone, Target
<1> QED
  BY <1>5, <1>6, <1>7, <1>8 DEF SessionInv

(* The environment, a crash and a restart, and the page of a new pass. *)
LEMMA RestKeeps ==
    ASSUME SessionInv, TypeOK', Environment \/ StartPass
    PROVE  SessionInv'
<1>1. TypeOK /\ task \in [Tasks -> TaskRecords] /\ Reaper \in Tasks
  BY DEF SessionInv, TypeOK, Tasks
<1>2. ASSUME NEW s \in Sessions, AgentDies(s) \/ CorpseExpires(s) \/ BundleExpires(s)
      PROVE  SessionInv'
  <2>1. registry' = registry \/ (registry[s] = "dead" /\ registry' = [registry EXCEPT ![s] = "aged"])
    BY <1>2 DEF AgentDies, CorpseExpires, BundleExpires
  <2>2. container' = container
          \/ (container[s] = "running" /\ container' = [container EXCEPT ![s] = "exited"])
    BY <1>2 DEF AgentDies, CorpseExpires, BundleExpires
  <2>3. UNCHANGED <<phase, lease, board, task, page>>
    BY <1>2 DEF AgentDies, CorpseExpires, BundleExpires
  <2>4. QuietWhenDown' /\ TaskHasTarget'
    BY <2>3 DEF SessionInv, QuietWhenDown, TaskHasTarget, Target
  <2>5. FreshIsUntouched'
    BY <1>1, <2>1, <2>2, <2>3 DEF SessionInv, FreshIsUntouched, Target, TypeOK
  <2>6. CreatesAlone'
    <3>1. \A r \in Sessions : registry[r] = "absent" => registry'[r] = "absent"
      BY <1>1, <2>1 DEF TypeOK
    <3>2. \A u \in Tasks : task[u].at \in Creating => task[u].on \in Sessions
      BY DEF SessionInv, TaskHasTarget, Target, Creating
    <3> QED
      BY <2>3, <3>1, <3>2 DEF SessionInv, CreatesAlone, Target
  <2> QED
    BY <2>4, <2>5, <2>6 DEF SessionInv
<1>3. CASE Crash
  <2>1. \A t \in Tasks : task'[t] = Idle
    BY <1>3 DEF Crash
  <2>2. Idle.at = "idle" /\ Idle.on = None /\ "idle" \notin Creating
    BY DEF Idle, Creating
  <2>3. QuietWhenDown'
    BY <1>3, <2>1 DEF Crash, QuietWhenDown
  <2>4. TaskHasTarget' /\ CreatesAlone'
    BY <2>1, <2>2 DEF TaskHasTarget, CreatesAlone
  <2>5. FreshIsUntouched'
    BY <1>3, <2>1, <2>2, NoneAssumption DEF Crash, SessionInv, FreshIsUntouched, Target
  <2> QED
    BY <2>3, <2>4, <2>5 DEF SessionInv
<1>4. CASE RebuildRegistry \/ RebuildLease
  <2>1. /\ \A t \in Tasks : task'[t] = Idle
        /\ page' = {}
    BY <1>4 DEF RebuildRegistry, RebuildLease, SessionInv, QuietWhenDown
  <2>2. Idle.at = "idle" /\ Idle.on = None /\ "idle" \notin Creating
    BY DEF Idle, Creating
  <2>3. QuietWhenDown'
    BY <1>4 DEF RebuildRegistry, RebuildLease, SessionInv, QuietWhenDown
  <2>4. TaskHasTarget' /\ CreatesAlone'
    BY <2>1, <2>2 DEF TaskHasTarget, CreatesAlone
  <2>5. \A s \in Sessions : container[s] = "absent" =>
           registry'[s] = "absent" \/ registry'[s] = registry[s]
    BY <1>4 DEF RebuildRegistry, RebuildLease, ListedAs
  <2>6. FreshIsUntouched'
    BY <1>4, <2>1, <2>2, <2>5, NoneAssumption
       DEF RebuildRegistry, RebuildLease, SessionInv, FreshIsUntouched, Target
  <2> QED
    BY <2>3, <2>4, <2>6 DEF SessionInv
<1>5. CASE StartPass
  <2>1. /\ task'[Reaper].at = "reaping" /\ task'[Reaper].on = None
        /\ \A u \in Tasks : u # Reaper => task'[u] = task[u]
    BY <1>1, <1>5, BeginEffect DEF StartPass
  <2>2. "reaping" \notin Creating /\ "idle" \notin Creating
    BY DEF Creating
  <2>3. \A s \in page' : registry[s] = "aged"
    BY <1>5 DEF StartPass
  <2>4. QuietWhenDown'
    BY <1>5 DEF StartPass, QuietWhenDown
  <2>5. TaskHasTarget'
    BY <2>1 DEF SessionInv, TaskHasTarget, Target
  <2>6. FreshIsUntouched'
    BY <1>5, <2>1, <2>3, NoneAssumption DEF StartPass, SessionInv, FreshIsUntouched, Target
  <2>7. CreatesAlone'
    <3> SUFFICES ASSUME NEW u \in Tasks, task'[u].at \in Creating
                 PROVE  /\ registry'[task'[u].on] = "absent" /\ task'[u].on \notin page'
                        /\ \A v \in Tasks : task'[v].on = task'[u].on => v = u
      BY DEF CreatesAlone, Target
    <3>1. u # Reaper /\ task'[u] = task[u]
      BY <2>1, <2>2
    <3>2. task[u].on \in Sessions
      BY <3>1 DEF SessionInv, TaskHasTarget, Target, Creating
    <3>3. /\ registry[task[u].on] = "absent"
          /\ \A v \in Tasks : task[v].on = task[u].on => v = u
      BY <3>1 DEF SessionInv, CreatesAlone, Target
    <3> QED
      BY <1>5, <2>1, <2>3, <3>1, <3>2, <3>3, NoneAssumption DEF StartPass
  <2> QED
    BY <2>4, <2>5, <2>6, <2>7 DEF SessionInv
<1> QED
  BY <1>2, <1>3, <1>4, <1>5 DEF Environment

(* What holds of sessions is inductive, whatever fails. *)
LEMMA SessionStep == SessionInv /\ [Next]_vars => SessionInv'
<1> SUFFICES ASSUME SessionInv, [Next]_vars PROVE SessionInv'
  OBVIOUS
<1>1. TypeOK'
  BY TypeStep DEF SessionInv
<1>2. Handlers \subseteq Tasks /\ Reaper \in Tasks
  BY DEF Tasks
<1>3. ASSUME NEW t \in Handlers, Requests(t) PROVE SessionInv'
  <2>1. PICK s \in Sessions :
          \/ \E b \in Boards : CreateSession(t, s, b)
          \/ \E retain \in BOOLEAN : DeleteSession(t, s, retain)
          \/ Snapshot(t, s)
          \/ Diagnostics(t, s)
    BY <1>3 DEF Requests
  <2>2. CASE \E b \in Boards : CreateSession(t, s, b)
    BY <1>1, <2>2, CreateBegins
  <2>3. CASE ~ \E b \in Boards : CreateSession(t, s, b)
    BY <1>1, <1>2, <2>1, <2>3, VisitMoves, MoveKeeps
  <2> QED
    BY <2>2, <2>3
<1>4. ASSUME NEW t \in Handlers, HandlerSteps(t) PROVE SessionInv'
  BY <1>1, <1>2, <1>4, CreateMoves, TeardownMoves, PurgeMoves, EndMoves, MoveKeeps
     DEF HandlerSteps
<1>5. CASE ReaperSteps
  BY <1>1, <1>2, <1>5, VisitMoves, PurgeMoves, EndMoves, MoveKeeps DEF ReaperSteps
<1>6. CASE StartPass \/ Environment
  BY <1>1, <1>6, RestKeeps
<1>7. CASE UNCHANGED vars
  BY <1>1, <1>7 DEF vars, SessionInv, QuietWhenDown, FreshIsUntouched, TaskHasTarget,
                    CreatesAlone, Target
<1> QED
  BY <1>3, <1>4, <1>5, <1>6, <1>7 DEF Next

(* At first there are no sessions. *)
LEMMA SessionStart == Init => SessionInv
<1> SUFFICES ASSUME Init PROVE SessionInv
  OBVIOUS
<1>1. TypeOK
  BY PlaceNames DEF Init, TypeOK, Idle, TaskRecords, Listing
<1>2. \A t \in Tasks : task[t].at = "idle" /\ task[t].on = None
  BY DEF Init, Idle
<1>3. "idle" \notin Creating
  BY DEF Creating
<1> QED
  BY <1>1, <1>2, <1>3, NoneAssumption
     DEF Init, SessionInv, QuietWhenDown, FreshIsUntouched, TaskHasTarget, CreatesAlone, Target

(* What a step may do to the listing of a session while the process        *)
(* serves.                                                                 *)
LEMMA ListingStep ==
    ASSUME SessionInv, [Next]_vars, phase = "serving", NEW s \in Sessions
    PROVE  /\ registry[s] \in Corpse => registry'[s] # "live"
           /\ registry[s] = "absent" => registry'[s] \notin Corpse
<1>1. TypeOK /\ Handlers \subseteq Tasks
  BY DEF SessionInv, Tasks
<1>2. \A t \in Tasks : task[t].at \in Creating => registry[Target(t)] = "absent"
  BY DEF SessionInv, CreatesAlone
<1>3. "absent" \notin Corpse /\ "live" \notin Corpse
  BY DEF Corpse
<1>4. ASSUME NEW t \in Handlers, Requests(t) PROVE registry' = registry
  BY <1>4 DEF Requests, CreateSession, DeleteSession, Snapshot, Diagnostics
<1>5. ASSUME NEW t \in Handlers, CreateSteps(t)
      PROVE  \/ registry' = registry
             \/ task[t].at \in Creating /\ registry' = Add(Target(t))
  BY <1>5 DEF CreateSteps, ContainerCreated, ContainerStarted, StartFails, AgentAnswers,
              BootAccepted, Unwind, CreateEscapes, At, Creating
<1>6. ASSUME NEW t \in Handlers, TeardownSteps(t)
      PROVE  registry' \in {registry, MarkDead(Target(t)), Remove(Target(t))}
  BY <1>6 DEF TeardownSteps, Archived, MetaFails, DevicesReleased, FindToStop,
              StopContainer, RemoveContainer, DaemonFails, FinishTeardown
<1>7. ASSUME NEW t \in Tasks, PurgeSteps(t)
      PROVE  registry' \in {registry, Remove(Target(t))}
  BY <1>7 DEF PurgeSteps, FindToPurge, EraseContainer, PurgeFails, FinishPurge
<1>8. ASSUME NEW t \in Handlers, SnapshotTaken(t) \/ DiagnosticsServed(t)
      PROVE  registry' = registry
  BY <1>8 DEF SnapshotTaken, DiagnosticsServed
<1>9. ASSUME StartPass \/ ReaperSteps
      PROVE  registry' \in {registry, Remove(Target(Reaper))}
  BY <1>7, <1>9 DEF StartPass, ReaperSteps, ReapCorpse, CorpseReaped, SweepStore, Tasks
<1>10. ASSUME Environment
       PROVE  \/ registry' = registry
              \/ \E r \in Sessions : CorpseExpires(r)
              \/ Crash
  BY <1>10 DEF Environment, AgentDies, BundleExpires, RebuildRegistry, RebuildLease
<1>11. \/ registry' = registry
       \/ \E t \in Tasks : task[t].at \in Creating /\ registry' = Add(Target(t))
       \/ \E t \in Tasks : registry' \in {MarkDead(Target(t)), Remove(Target(t))}
       \/ \E r \in Sessions : CorpseExpires(r)
       \/ Crash
  <2>1. CASE \E t \in Handlers : Requests(t) \/ HandlerSteps(t)
    BY <1>1, <1>4, <1>5, <1>6, <1>7, <1>8, <2>1 DEF HandlerSteps
  <2>2. CASE StartPass \/ ReaperSteps
    BY <1>9, <2>2 DEF Tasks
  <2>3. CASE Environment
    BY <1>10, <2>3
  <2>4. CASE UNCHANGED vars
    BY <2>4 DEF vars
  <2> QED
    BY <2>1, <2>2, <2>3, <2>4 DEF Next
<1>12. ASSUME NEW t \in Tasks, task[t].at \in Creating, registry' = Add(Target(t))
       PROVE  \/ registry'[s] = registry[s]
              \/ registry[s] = "absent" /\ registry'[s] = "live"
  BY <1>1, <1>2, <1>12 DEF Add, TypeOK
<1>13. ASSUME NEW t \in Tasks, registry' \in {MarkDead(Target(t)), Remove(Target(t))}
       PROVE  \/ registry'[s] = registry[s] \/ registry'[s] = "absent"
              \/ registry[s] # "absent" /\ registry'[s] = "dead"
  BY <1>1, <1>13 DEF MarkDead, Remove, TypeOK
<1>14. ASSUME NEW r \in Sessions, CorpseExpires(r)
       PROVE  \/ registry'[s] = registry[s]
              \/ registry[s] = "dead" /\ registry'[s] = "aged"
  BY <1>1, <1>14 DEF CorpseExpires, TypeOK
<1>15. Crash => registry'[s] = "absent"
  BY DEF Crash
<1> QED
  BY <1>3, <1>11, <1>12, <1>13, <1>14, <1>15

(* While the process serves, no interleaving of creates, deletes, purges   *)
(* and passes, and no fault, brings a corpse back to life or makes one of  *)
(* a session that is not listed: teardown_session marks dead what is still *)
(* listed only, and create_session lists a session that nobody else knows. *)
THEOREM NoGhosts == Spec => NoResurrection
<1>1. SessionInv /\ [Next]_vars =>
        [phase = "serving" =>
           \A s \in Sessions :
              /\ registry[s] \in Corpse => registry'[s] # "live"
              /\ registry[s] = "absent" => registry'[s] \notin Corpse]_vars
  BY ListingStep
<1> QED
  BY <1>1, SessionStart, SessionStep, PTL DEF Spec, NoResurrection

-----------------------------------------------------------------------------
(* While the disk does not fail *)

(* The step that ends a teardown releases the lease, or is a crash. *)
LEMMA TeardownEnds ==
    ASSUME SessionInv, [Next]_vars, "disk" \notin Faults,
           NEW t \in Handlers, task[t].at \in Teardown, task'[t].at = "idle",
           NEW b \in Boards
    PROVE  lease'[b] # Target(t)
<1>1. t \in Tasks /\ TypeOK /\ task \in [Tasks -> TaskRecords] /\ Handlers \subseteq Tasks
  BY DEF SessionInv, Tasks, TypeOK
<1>2. task[t].at \notin {"idle", "reaping", "snapshotting", "collecting"}
                          \cup Creating \cup Purging
  BY DEF Teardown, Creating, Purging
<1>3. Target(t) \in Sessions /\ Target(t) # None
  BY <1>1, <1>2, NoneAssumption DEF SessionInv, TaskHasTarget
<1>4. task'[t] # task[t]
  BY <1>2
<1>5. ASSUME NEW u \in Tasks, u # t, PurgeSteps(u)
      PROVE  task'[t] = task[t]
  BY <1>1, <1>5 DEF PurgeSteps, FindToPurge, EraseContainer, PurgeFails, FinishPurge,
                    Goto, End
<1>6. ASSUME NEW u \in Handlers, u # t, Requests(u) \/ HandlerSteps(u)
      PROVE  task'[t] = task[t]
  <2>1. CASE Requests(u)
    BY <1>1, <1>6, <2>1 DEF Requests, CreateSession, DeleteSession, Snapshot,
                            Diagnostics, Begin
  <2>2. CASE CreateSteps(u)
    BY <1>1, <1>6, <2>2 DEF CreateSteps, ContainerCreated, ContainerStarted, StartFails,
            AgentAnswers, BootAccepted, Unwind, CreateEscapes, Goto, Begin, End
  <2>3. CASE TeardownSteps(u)
    BY <1>1, <1>6, <2>3 DEF TeardownSteps, Archived, MetaFails, DevicesReleased,
            FindToStop, StopContainer, RemoveContainer, DaemonFails, FinishTeardown,
            Goto, End
  <2>4. CASE SnapshotTaken(u) \/ DiagnosticsServed(u)
    BY <1>1, <1>6, <2>4 DEF SnapshotTaken, DiagnosticsServed, End
  <2> QED
    BY <1>1, <1>5, <1>6, <2>1, <2>2, <2>3, <2>4 DEF HandlerSteps
<1>7. ASSUME StartPass \/ ReaperSteps PROVE task'[t] = task[t]
  <2>1. t # Reaper /\ Reaper \in Tasks
    BY TaskAssumption DEF Tasks
  <2> QED
    BY <1>1, <1>5, <1>7, <2>1 DEF StartPass, ReaperSteps, ReapCorpse, CorpseReaped,
                                  SweepStore, Begin, End
<1>8. CASE Requests(t) \/ HandlerSteps(t)
  <2>1. FinishTeardown(t)
    <3>1. ~Requests(t)
      BY <1>2 DEF Requests, CreateSession, DeleteSession, Snapshot, Diagnostics, At
    <3>2. ~CreateSteps(t)
      BY <1>2 DEF CreateSteps, ContainerCreated, ContainerStarted, StartFails,
             AgentAnswers, BootAccepted, Unwind, CreateEscapes, At, Creating
    <3>3. ~PurgeSteps(t)
      BY <1>2 DEF PurgeSteps, FindToPurge, EraseContainer, PurgeFails, FinishPurge, At,
             Purging
    <3>4. ~SnapshotTaken(t) /\ ~DiagnosticsServed(t)
      BY <1>2 DEF SnapshotTaken, DiagnosticsServed, At
    <3>5. ~MetaFails(t)
      BY DEF MetaFails
    <3>6. \A place \in Teardown : ~Goto(t, place)
      <4>1. "idle" \notin Teardown
        BY DEF Teardown
      <4> QED
        BY <1>1, <4>1, GotoEffect
    <3>7. ~(\/ Archived(t) \/ DevicesReleased(t) \/ FindToStop(t)
            \/ StopContainer(t) \/ RemoveContainer(t) \/ DaemonFails(t))
      BY <3>6 DEF Archived, DevicesReleased, FindToStop, StopContainer, RemoveContainer,
             DaemonFails, Teardown
    <3> QED
      BY <1>8, <3>1, <3>2, <3>3, <3>4, <3>5, <3>7 DEF HandlerSteps, TeardownSteps
  <2> QED
    BY <1>3, <2>1 DEF FinishTeardown, Release
<1>9. CASE Environment
  <2>1. Crash
    BY <1>4, <1>9 DEF Environment, AgentDies, CorpseExpires, BundleExpires,
                      RebuildRegistry, RebuildLease
  <2> QED
    BY <1>3, <2>1 DEF Crash
<1>10. CASE UNCHANGED vars
  BY <1>4, <1>10 DEF vars
<1> QED
  BY <1>4, <1>6, <1>7, <1>8, <1>9, <1>10 DEF Next

(* However teardowns, purges and a pass of one session overlap, and though *)
(* the daemon or an agent fails, each teardown that ends has freed its     *)
(* board.  A disk that fails must be excluded: write_meta is in no try     *)
(* block.                                                                  *)
THEOREM BoardsAreFreed == ASSUME "disk" \notin Faults PROVE Spec => TeardownFreesBoard
<1>1. SessionInv /\ [Next]_vars =>
        [\A t \in Handlers :
           task[t].at \in Teardown /\ task'[t].at = "idle" =>
              \A b \in Boards : lease'[b] # Target(t)]_vars
  BY TeardownEnds
<1> QED
  BY <1>1, SessionStart, SessionStep, PTL DEF Spec, TeardownFreesBoard

-----------------------------------------------------------------------------
(* While every answer of an agent is one the handlers expect *)

(* A corpse is nobody's: it has no lease. *)
LEMMA CorpseUnleased ==
    ASSUME OwnerInv, NEW s \in Sessions, registry[s] \in Corpse
    PROVE  Unleased(s)
<1> SUFFICES ASSUME NEW b \in Boards, lease[b] = s PROVE FALSE
  BY DEF Unleased
<1>1. s # None /\ Handlers \subseteq Tasks
  BY NoneAssumption DEF Tasks
<1>2. PICK t \in Tasks : task[t].at \in Creating /\ Target(t) = s
  BY <1>1 DEF OwnerInv, LeaseHasOwner, Corpse
<1> QED
  BY <1>2 DEF OwnerInv, SessionInv, CreatesAlone, Corpse

(* What a step within a request may do to leases: release those of its own *)
(* session, or else leave a session that had one with an owner; and only a *)
(* session without one comes to be purged.                                 *)
LeaseMove(t) ==
    /\ \/ /\ lease' = lease
          /\ \A s \in Sessions : registry'[s] # registry[s] =>
                registry'[s] = "live" \/ Unleased(s)
          /\ task[t].at \in Creating =>
                \/ task'[t].at \in Creating /\ task'[t].on = Target(t)
                \/ registry'[Target(t)] = "live"
       \/ lease' = Release(Target(t))
    /\ task'[t].at \in Purging => Unleased(task'[t].on)

(* Such steps leave every lease with an owner. *)
LEMMA LeaseMoveKeeps ==
    ASSUME OwnerInv, TypeOK', NEW t \in Tasks, Move(t), LeaseMove(t)
    PROVE  OwnerInv'
<1>1. SessionInv'
  BY MoveKeeps DEF OwnerInv
<1>2. \A b \in Boards : lease'[b] # None => lease'[b] = lease[b]
  BY DEF LeaseMove, Release
<1>3. ListedOnRestart'
  BY DEF Move, ListedOnRestart
<1>4. PurgedIsFree'
  <2>1. \A s \in Sessions : Unleased(s) => Unleased(s)'
    BY <1>2, NoneAssumption DEF Unleased
  <2>2. \A s \in page' : s \in Sessions /\ Unleased(s)'
    BY <2>1 DEF Move, OwnerInv, SessionInv, TypeOK, PurgedIsFree
  <2>3. ASSUME NEW u \in Tasks, task'[u].at \in Purging
        PROVE  task'[u].on \in Sessions /\ Unleased(task'[u].on)
    <3>1. task'[u].on \in Sessions
      BY <1>1, <2>3 DEF SessionInv, TaskHasTarget, Target, Purging
    <3>2. CASE u = t
      BY <2>3, <3>1, <3>2 DEF LeaseMove
    <3>3. CASE u # t
      BY <2>3, <3>1, <3>3 DEF Move, OwnerInv, PurgedIsFree, Target
    <3> QED
      BY <3>2, <3>3
  <2> QED
    BY <2>1, <2>2, <2>3 DEF PurgedIsFree, Target, Unleased
<1>5. LeaseHasOwner'
  <2> SUFFICES ASSUME NEW b \in Boards, lease'[b] # None
               PROVE  \/ registry'[lease'[b]] = "live"
                      \/ \E u \in Handlers : task'[u].at \in Creating /\ task'[u].on = lease'[b]
    BY DEF LeaseHasOwner, Target
  <2> DEFINE s == lease[b]
  <2>1. lease'[b] = s /\ s # None /\ s \in Sessions /\ ~Unleased(s)
    BY <1>2 DEF OwnerInv, SessionInv, TypeOK, Unleased
  <2>2. CASE lease' = Release(Target(t))
    <3>1. s # Target(t)
      BY <2>1, <2>2 DEF Release
    <3>2. registry'[s] = registry[s]
      BY <2>1, <3>1 DEF Move
    <3>3. ASSUME NEW u \in Handlers, Target(u) = s PROVE task'[u] = task[u]
      BY <3>1, <3>3 DEF Move, Tasks
    <3> QED
      BY <2>1, <3>2, <3>3 DEF OwnerInv, LeaseHasOwner, Target
  <2>3. CASE lease' # Release(Target(t))
    <3>1. registry[s] = "live" => registry'[s] = "live"
      BY <2>1, <2>3 DEF LeaseMove
    <3>2. ASSUME NEW u \in Handlers, task[u].at \in Creating, Target(u) = s
          PROVE  \/ registry'[s] = "live"
                 \/ task'[u].at \in Creating /\ task'[u].on = s
      BY <2>3, <3>2 DEF LeaseMove, Move, Target, Tasks
    <3> QED
      BY <2>1, <3>1, <3>2 DEF OwnerInv, LeaseHasOwner
  <2> QED
    BY <2>2, <2>3
<1> QED
  BY <1>1, <1>3, <1>4, <1>5 DEF OwnerInv

(* create_session either keeps the session, lists it, or releases it. *)
LEMMA CreateLeases ==
    ASSUME OwnerInv, "reply" \notin Faults, NEW t \in Handlers, CreateSteps(t)
    PROVE  LeaseMove(t)
<1>1. t \in Tasks /\ task[t].at \in Creating
  BY DEF Tasks, CreateSteps, ContainerCreated, ContainerStarted, StartFails,
         AgentAnswers, BootAccepted, Unwind, CreateEscapes, At, Creating
<1>2. /\ task \in [Tasks -> TaskRecords] /\ Target(t) \in Sessions /\ TypeOK
  BY <1>1, Busy DEF OwnerInv, SessionInv, Creating
<1>3. "idle" \notin Purging /\ "archiving" \notin Purging
  BY DEF Purging
<1>4. CASE ContainerCreated(t) \/ ContainerStarted(t) \/ AgentAnswers(t)
  <2>1. PICK place \in {"starting", "polling", "configuring", "booting"} : Goto(t, place)
    BY <1>4 DEF ContainerCreated, ContainerStarted, AgentAnswers
  <2>2. task'[t].at = place /\ task'[t].on = Target(t)
    BY <1>1, <1>2, <2>1, GotoEffect DEF Target
  <2>3. task'[t].at \in Creating /\ task'[t].at \notin Purging
    BY <2>2 DEF Creating, Purging
  <2> QED
    BY <1>4, <2>2, <2>3 DEF ContainerCreated, ContainerStarted, AgentAnswers, LeaseMove
<1>5. CASE StartFails(t)
  BY <1>1, <1>2, <1>3, <1>5, EndEffect DEF StartFails, LeaseMove
<1>6. CASE BootAccepted(t)
  <2>1. task'[t].at = "idle"
    BY <1>1, <1>2, <1>6, EndEffect DEF BootAccepted
  <2> QED
    BY <1>2, <1>3, <1>6, <2>1 DEF BootAccepted, Add, LeaseMove, TypeOK
<1>7. CASE Unwind(t)
  <2>1. task'[t].at = "archiving"
    BY <1>1, <1>2, <1>7, BeginEffect DEF Unwind
  <2> QED
    BY <1>2, <1>3, <1>7, <2>1 DEF Unwind, Add, LeaseMove, TypeOK
<1> QED
  BY <1>4, <1>5, <1>6, <1>7 DEF CreateSteps, CreateEscapes

(* A teardown changes the listing only where it releases the lease. *)
LEMMA TeardownLeases ==
    ASSUME OwnerInv, NEW t \in Handlers, TeardownSteps(t)
    PROVE  LeaseMove(t)
<1>1. t \in Tasks /\ task[t].at \in Teardown
  BY DEF Tasks, TeardownSteps, Archived, MetaFails, DevicesReleased, FindToStop,
         StopContainer, RemoveContainer, DaemonFails, FinishTeardown, At, Teardown
<1>2. task \in [Tasks -> TaskRecords] /\ task[t].at \notin Creating
  BY <1>1 DEF OwnerInv, SessionInv, TypeOK, Teardown, Creating
<1>3. task'[t].at \notin Purging
  <2>1. (\E place \in Teardown : Goto(t, place)) \/ End(t)
    BY DEF TeardownSteps, Archived, MetaFails, DevicesReleased, FindToStop,
           StopContainer, RemoveContainer, DaemonFails, FinishTeardown, Teardown
  <2>2. task'[t].at \in Teardown \cup {"idle"}
    BY <1>1, <1>2, <2>1, GotoEffect, EndEffect
  <2> QED
    BY <2>2 DEF Teardown, Purging
<1>4. lease' = Release(Target(t)) \/ (lease' = lease /\ registry' = registry)
  BY DEF TeardownSteps, Archived, MetaFails, DevicesReleased, FindToStop,
         StopContainer, RemoveContainer, DaemonFails, FinishTeardown
<1> QED
  BY <1>2, <1>3, <1>4 DEF LeaseMove

(* A purge removes from the registry what has no lease. *)
LEMMA PurgeLeases ==
    ASSUME OwnerInv, NEW t \in Tasks, PurgeSteps(t) \/ (t = Reaper /\ CorpseReaped)
    PROVE  LeaseMove(t)
<1>1. task[t].at \in Purging
  BY DEF PurgeSteps, FindToPurge, EraseContainer, PurgeFails, FinishPurge, CorpseReaped,
         At, Purging
<1>2. /\ task \in [Tasks -> TaskRecords] /\ TypeOK /\ Target(t) \in Sessions
      /\ task[t].at \notin Creating /\ Unleased(Target(t))
  BY <1>1, Busy DEF OwnerInv, SessionInv, PurgedIsFree, Purging, Creating
<1>3. lease' = lease /\ registry' \in {registry, Remove(Target(t))}
  BY DEF PurgeSteps, FindToPurge, EraseContainer, PurgeFails, FinishPurge, CorpseReaped
<1>4. \A s \in Sessions : registry'[s] # registry[s] => Unleased(s)
  BY <1>2, <1>3 DEF Remove, TypeOK
<1>5. task'[t].at \in Purging => task'[t].on = Target(t)
  <2>1. \/ \E place \in Places : Goto(t, place)
        \/ End(t) \/ Begin(t, "reaping", None, FALSE)
    BY PlaceNames
       DEF PurgeSteps, FindToPurge, EraseContainer, PurgeFails, FinishPurge, CorpseReaped
  <2>2. "idle" \notin Purging /\ "reaping" \notin Purging
    BY DEF Purging
  <2> QED
    BY <1>2, <2>1, <2>2, GotoEffect, EndEffect, BeginEffect DEF Target
<1> QED
  BY <1>2, <1>3, <1>4, <1>5 DEF LeaseMove

(* A request about a session and the start of a purge: only of a corpse. *)
LEMMA VisitLeases ==
    ASSUME OwnerInv, NEW t \in Tasks, NEW s \in Sessions,
           \/ \E retain \in BOOLEAN : DeleteSession(t, s, retain)
           \/ Snapshot(t, s) \/ Diagnostics(t, s)
           \/ t = Reaper /\ ReapCorpse(s)
    PROVE  LeaseMove(t)
<1>1. task \in [Tasks -> TaskRecords]
  BY DEF OwnerInv, SessionInv, TypeOK
<1>2. task[t].at \notin Creating
  BY DEF DeleteSession, Snapshot, Diagnostics, ReapCorpse, At, Creating
<1>3. lease' = lease /\ registry' = registry
  BY DEF DeleteSession, Snapshot, Diagnostics, ReapCorpse
<1>4. task'[t].on = s
  BY VisitMoves DEF OwnerInv
<1>5. task'[t].at \in Purging => registry[s] \in Corpse \/ s \in page
  <2>1. CASE t = Reaper /\ ReapCorpse(s)
    BY <2>1 DEF ReapCorpse
  <2>2. CASE Snapshot(t, s) \/ Diagnostics(t, s)
    BY <1>1, <2>2, BeginEffect DEF Snapshot, Diagnostics, Purging
  <2>3. CASE \E retain \in BOOLEAN : DeleteSession(t, s, retain)
    BY <1>1, <2>3, BeginEffect DEF DeleteSession, Purging
  <2> QED
    BY <2>1, <2>2, <2>3
<1>6. task'[t].at \in Purging => Unleased(s)
  BY <1>5, CorpseUnleased DEF OwnerInv, PurgedIsFree
<1> QED
  BY <1>2, <1>3, <1>4, <1>6 DEF LeaseMove

(* A new session has the lease and its own handler. *)
LEMMA CreateOwns ==
    ASSUME OwnerInv, SessionInv', NEW t \in Handlers, NEW s \in Sessions, NEW b \in Boards,
           CreateSession(t, s, b)
    PROVE  OwnerInv'
<1>1. /\ t \in Tasks /\ task \in [Tasks -> TaskRecords] /\ TypeOK /\ Handlers \subseteq Tasks
      /\ page \subseteq Sessions
  BY DEF Tasks, OwnerInv, SessionInv, TypeOK
<1>2. /\ task'[t].at = "creating" /\ task'[t].on = s /\ task[t].at = "idle"
      /\ \A u \in Tasks : u # t => task'[u] = task[u]
  BY <1>1, BeginEffect DEF CreateSession, At
<1>3. "creating" \in Creating /\ "creating" \notin Purging /\ "idle" \notin Creating
  BY DEF Creating, Purging
<1>4. s \notin page /\ \A u \in Tasks : Target(u) # s
  BY DEF CreateSession, OwnerInv, SessionInv, FreshIsUntouched
<1>5. \A c \in Boards : lease'[c] = IF c = b THEN s ELSE lease[c]
  BY <1>1 DEF CreateSession, Acquire, TypeOK
<1>6. UNCHANGED <<phase, registry, container, page>>
  BY DEF CreateSession
<1>7. LeaseHasOwner'
  <2> SUFFICES ASSUME NEW c \in Boards, lease'[c] # None
               PROVE  \/ registry'[lease'[c]] = "live"
                      \/ \E u \in Handlers : task'[u].at \in Creating /\ task'[u].on = lease'[c]
    BY DEF LeaseHasOwner, Target
  <2>1. CASE c = b
    BY <1>2, <1>3, <1>5, <2>1
  <2>2. CASE c # b
    <3>1. lease'[c] = lease[c]
      BY <1>5, <2>2
    <3>2. ASSUME NEW u \in Handlers, task[u].at \in Creating PROVE task'[u] = task[u]
      BY <1>1, <1>2, <1>3, <3>2
    <3> QED
      BY <1>6, <3>1, <3>2 DEF OwnerInv, LeaseHasOwner, Target
  <2> QED
    BY <2>1, <2>2
<1>8. PurgedIsFree'
  <2>1. \A r : r # s /\ Unleased(r) => \A c \in Boards : lease'[c] # r
    BY <1>5 DEF Unleased
  <2>2. \A r \in page' : \A c \in Boards : lease'[c] # r
    BY <1>4, <1>6, <2>1 DEF OwnerInv, PurgedIsFree
  <2>3. ASSUME NEW u \in Tasks, task'[u].at \in Purging
        PROVE  \A c \in Boards : lease'[c] # task'[u].on
    <3>1. u # t /\ task'[u] = task[u]
      BY <1>2, <1>3, <2>3
    <3>2. task[u].on # s /\ Unleased(task[u].on)
      BY <1>4, <2>3, <3>1 DEF OwnerInv, PurgedIsFree, Target
    <3> QED
      BY <2>1, <3>1, <3>2
  <2> QED
    BY <2>2, <2>3 DEF PurgedIsFree, Target, Unleased
<1>9. ListedOnRestart'
  BY <1>6 DEF OwnerInv, ListedOnRestart
<1> QED
  BY <1>7, <1>8, <1>9 DEF OwnerInv

(* The environment, a crash, the two listings of a restart, a new page. *)
LEMMA RestOwns ==
    ASSUME OwnerInv, SessionInv', Environment \/ StartPass
    PROVE  OwnerInv'
<1>1. /\ TypeOK /\ task \in [Tasks -> TaskRecords] /\ Reaper \in Tasks
      /\ Handlers \subseteq Tasks
  BY DEF OwnerInv, SessionInv, TypeOK, Tasks
<1>2. ASSUME NEW s \in Sessions, AgentDies(s) \/ CorpseExpires(s) \/ BundleExpires(s)
      PROVE  OwnerInv'
  <2>1. UNCHANGED <<phase, lease, task, page>>
    BY <1>2 DEF AgentDies, CorpseExpires, BundleExpires
  <2>2. \A r \in Sessions : registry[r] = "live" => registry'[r] = "live"
    BY <1>1, <1>2 DEF AgentDies, CorpseExpires, BundleExpires, TypeOK
  <2>3. \A r \in Sessions : container'[r] = "running" => container[r] = "running"
    BY <1>1, <1>2 DEF AgentDies, CorpseExpires, BundleExpires, TypeOK
  <2>4. LeaseHasOwner'
    BY <1>1, <2>1, <2>2 DEF OwnerInv, LeaseHasOwner, Target, TypeOK
  <2>5. PurgedIsFree'
    BY <2>1 DEF OwnerInv, PurgedIsFree, Target, Unleased
  <2>6. ListedOnRestart'
    BY <2>1, <2>2, <2>3 DEF OwnerInv, ListedOnRestart
  <2> QED
    BY <2>4, <2>5, <2>6 DEF OwnerInv
<1>3. CASE Crash \/ RebuildRegistry \/ RebuildLease
  <2>1. /\ page' = {}
        /\ \A t \in Tasks : task'[t].at \notin Purging
    BY <1>3 DEF Crash, RebuildRegistry, RebuildLease, OwnerInv, SessionInv, QuietWhenDown,
                Idle, Purging
  <2>2. PurgedIsFree'
    BY <2>1 DEF PurgedIsFree
  <2>3. ListedOnRestart'
    BY <1>1, <1>3 DEF Crash, RebuildRegistry, RebuildLease, ListedOnRestart, ListedAs, TypeOK
  <2>4. CASE Crash \/ RebuildRegistry
    <3>1. \A b \in Boards : lease'[b] = None
      BY <2>4 DEF Crash, RebuildRegistry, OwnerInv, SessionInv, QuietWhenDown
    <3> QED
      BY <2>2, <2>3, <3>1 DEF LeaseHasOwner, OwnerInv
  <2>5. CASE RebuildLease
    <3>1. \A b \in Boards : lease'[b] # None =>
             lease'[b] \in Sessions /\ container[lease'[b]] = "running"
      BY <2>5 DEF RebuildLease
    <3>2. \A b \in Boards : lease'[b] # None => registry'[lease'[b]] = "live"
      BY <2>5, <3>1 DEF RebuildLease, OwnerInv, ListedOnRestart
    <3> QED
      BY <2>2, <2>3, <3>2 DEF LeaseHasOwner, OwnerInv
  <2> QED
    BY <1>3, <2>4, <2>5
<1>4. CASE StartPass
  <2>1. /\ task'[Reaper].at = "reaping"
        /\ \A u \in Tasks : u # Reaper => task'[u] = task[u]
    BY <1>1, <1>4, BeginEffect DEF StartPass
  <2>2. UNCHANGED <<phase, lease, registry, container>>
    BY <1>4 DEF StartPass
  <2>3. "reaping" \notin Purging /\ \A u \in Handlers : u # Reaper
    BY TaskAssumption DEF Purging
  <2>4. \A s \in page' : s \in Sessions /\ Unleased(s)
    BY <1>4, CorpseUnleased DEF StartPass, Corpse
  <2>5. LeaseHasOwner'
    BY <1>1, <2>1, <2>2, <2>3 DEF OwnerInv, LeaseHasOwner, Target
  <2>6. PurgedIsFree'
    BY <2>1, <2>2, <2>3, <2>4 DEF OwnerInv, PurgedIsFree, Target, Unleased
  <2>7. ListedOnRestart'
    BY <2>2 DEF OwnerInv, ListedOnRestart
  <2> QED
    BY <2>5, <2>6, <2>7 DEF OwnerInv
<1> QED
  BY <1>2, <1>3, <1>4 DEF Environment

(* Leases have owners after every step, if no answer escapes its handler. *)
LEMMA OwnerStep ==
    ASSUME "reply" \notin Faults
    PROVE  OwnerInv /\ [Next]_vars => OwnerInv'
<1> SUFFICES ASSUME OwnerInv, [Next]_vars PROVE OwnerInv'
  OBVIOUS
<1>1. SessionInv /\ SessionInv' /\ TypeOK'
  BY SessionStep DEF OwnerInv, SessionInv
<1>2. Handlers \subseteq Tasks /\ Reaper \in Tasks
  BY DEF Tasks
<1>3. ASSUME NEW t \in Handlers, Requests(t) PROVE OwnerInv'
  <2>1. PICK s \in Sessions :
          \/ \E b \in Boards : CreateSession(t, s, b)
          \/ \E retain \in BOOLEAN : DeleteSession(t, s, retain)
          \/ Snapshot(t, s)
          \/ Diagnostics(t, s)
    BY <1>3 DEF Requests
  <2>2. CASE \E b \in Boards : CreateSession(t, s, b)
    BY <1>1, <2>2, CreateOwns
  <2>3. CASE ~ \E b \in Boards : CreateSession(t, s, b)
    BY <1>1, <1>2, <2>1, <2>3, VisitMoves, VisitLeases, LeaseMoveKeeps
  <2> QED
    BY <2>2, <2>3
<1>4. ASSUME NEW t \in Tasks, SnapshotTaken(t) \/ DiagnosticsServed(t) \/ (t = Reaper /\ SweepStore)
      PROVE  OwnerInv'
  <2>1. task \in [Tasks -> TaskRecords] /\ task[t].at \notin Creating
    BY <1>1, <1>4 DEF SessionInv, TypeOK, SnapshotTaken, DiagnosticsServed, SweepStore, At,
                      Creating
  <2>2. task'[t].at = "idle" /\ UNCHANGED <<lease, registry>>
    BY <1>4, <2>1, EndEffect DEF SnapshotTaken, DiagnosticsServed, SweepStore
  <2>3. LeaseMove(t)
    BY <2>1, <2>2 DEF LeaseMove, Purging
  <2> QED
    BY <1>1, <1>4, <2>3, EndMoves, LeaseMoveKeeps
<1>5. ASSUME NEW t \in Handlers, HandlerSteps(t) PROVE OwnerInv'
  BY <1>1, <1>2, <1>4, <1>5, CreateMoves, TeardownMoves, PurgeMoves,
     CreateLeases, TeardownLeases, PurgeLeases, LeaseMoveKeeps DEF HandlerSteps
<1>6. CASE ReaperSteps
  BY <1>1, <1>2, <1>4, <1>6, VisitMoves, VisitLeases, PurgeMoves, PurgeLeases, EndMoves,
     LeaseMoveKeeps DEF ReaperSteps
<1>7. CASE StartPass \/ Environment
  BY <1>1, <1>7, RestOwns
<1>8. CASE UNCHANGED vars
  BY <1>1, <1>8 DEF vars, OwnerInv, LeaseHasOwner, PurgedIsFree, ListedOnRestart, Target,
                    Unleased
<1> QED
  BY <1>3, <1>5, <1>6, <1>7, <1>8 DEF Next

(* Whoever holds a lease is being created or listed as live, where a       *)
(* DELETE reaches it, through crashes, restarts, overlapping teardowns and *)
(* a failing daemon or disk; a board is only stranded by an answer of an   *)
(* agent that create_session does not catch.                               *)
THEOREM LeasesHaveOwners == ASSUME "reply" \notin Faults PROVE Spec => []LeaseHasOwner
<1>1. Init => OwnerInv
  BY SessionStart DEF Init, OwnerInv, LeaseHasOwner, PurgedIsFree, ListedOnRestart, Idle,
                      Purging
<1>2. OwnerInv => LeaseHasOwner
  BY DEF OwnerInv
<1> QED
  BY <1>1, <1>2, OwnerStep, PTL DEF Spec
=============================================================================
