---------------------------- MODULE AgentProofs ----------------------------
(***************************************************************************)
(* Proofs about Agent, for any number of handlers, payloads and jobs: its  *)
(* inductive invariant, which rests on that of the queue, and from it that *)
(* the board is booted once, on devices, that READY tells the truth, and   *)
(* that the session only moves forward.                                    *)
(***************************************************************************)
EXTENDS Agent, ExecutionQueueProofs

-----------------------------------------------------------------------------
(* The queue under the agent *)

(* The agent does to the queue what the queue's specification allows. *)
LEMMA AgentUsesQueue == [Next]_vars => [QueueNext]_queueVars
<1>1. ASSUME NEW h \in Handlers, Requests(h) \/ HandlerSteps(h) PROVE [QueueNext]_queueVars
  BY <1>1 DEF Requests, HandlerSteps, Configure, BootRequested, Call, Release, Configured, BootBegins,
              BootPolled, Called, Released, SubmitAndAwait, QueueNext, queueVars
<1>2. ASSUME Worker PROVE [QueueNext]_queueVars
  BY <1>2 DEF Worker, JobStarts, ConfigureReturns, ConfigureRaises, BootReturns, ReleaseReturns,
              CallReturns, OperationRaises, OtherWorkerSteps, QueueNext, WorkerSteps
<1> QED
  BY <1>1, <1>2 DEF Next, vars

(* A job that is submitted is new to everybody.                            *)
LEMMA SubmitFacts ==
    ASSUME AgentInv, NEW j \in Jobs, Submit(j)
    PROVE  /\ j = submitted + 1 /\ submitted' = j /\ submitted \in Nat
           /\ kind[j] = "none" /\ state[j] = "none" /\ worker.job # j
           /\ \A i \in Jobs : state'[i] = IF i = j THEN "queued" ELSE state[i]
           /\ \A i \in Jobs : i \in Nat /\ (i <= submitted' <=> i <= submitted \/ i = j)
           /\ UNCHANGED <<error, worker, running, open>>
           /\ \A h \in Handlers : request[h].job # j
           /\ ~error[j]
<1>1. j = submitted + 1 /\ submitted' = j /\ submitted \in Nat /\ j \in Nat /\ Jobs \subseteq Nat
  BY JobsAreNumbers, NumJobsAssumption DEF Submit, AgentInv, QueueInv, QueueTypeOK
<1>2. ~(j <= submitted)
  BY <1>1
<1>3. kind[j] = "none" /\ state[j] = "none"
  BY <1>2 DEF AgentInv, Kinds, QueueInv, InOrder
<1>4. worker.job # j
  BY <1>2, JobsAreNumbers DEF AgentInv, QueueInv, InOrder
<1>5. \A i \in Jobs : state'[i] = IF i = j THEN "queued" ELSE state[i]
  BY DEF Submit, AgentInv, QueueInv, QueueTypeOK
<1>6. \A h \in Handlers : request[h].job # j
  BY <1>3, JobsAreNumbers DEF AgentInv, Waits, TypeOK, Waiting, RequestAt
<1>7. ~error[j]
  BY <1>3 DEF AgentInv, Kinds
<1>8. \A i \in Jobs : i \in Nat /\ (i <= submitted' <=> i <= submitted \/ i = j)
  BY <1>1
<1> QED
  BY <1>1, <1>3, <1>4, <1>5, <1>6, <1>7, <1>8 DEF Submit

(* A submission succeeds at nothing. *)
LEMMA SubmitSucceeds ==
    ASSUME AgentInv, NEW j \in Jobs, Submit(j)
    PROVE  /\ \A i \in Jobs : Succeeds(i)' <=> Succeeds(i)
           /\ ~Succeeds(j)
           /\ \A i \in Jobs : state'[i] = "done" <=> state[i] = "done"
           /\ \A i \in Jobs : state'[i] = "error" <=> state[i] = "error"
  BY SubmitFacts DEF Succeeds, WorkerAt

-----------------------------------------------------------------------------
(* The worker *)

(* A step of the worker that lets no configuration and no boot succeed     *)
(* keeps the invariant.                                                    *)
LEMMA QuietKeeps ==
    ASSUME AgentInv, TypeOK', QueueInv',
           UNCHANGED <<session, released, request, kind, posted, submitted, open, booted, devices>>,
           \A i \in Jobs : kind[i] \in {"configure", "boot"} => (Succeeds(i)' <=> Succeeds(i)),
           \A i \in Jobs : state[i] \in {"done", "error"} => state'[i] = state[i],
           \A i \in Jobs : state'[i] # "cancelled" /\ (error'[i] => state'[i] = "error"),
           manager => manager',
           config # None => config' # None,
           Executes("boot")' => bootMode' # "none",
           ~Preemptive => ~WorkerAt("raised")'
    PROVE  AgentInv'
<1> USE DEF AgentInv
<1>1. Kinds'
  BY DEF Kinds
<1>2. Waits'
  BY DEF Waits, RequestAt
<1>3. ConfiguredOnce'
  <2>1. \A h \in Handlers : RequestAt(h, "configuring") => request[h].job \in Jobs
    BY JobsAreNumbers DEF Waits, RequestAt, TypeOK
  <2> QED
    BY <2>1 DEF ConfiguredOnce, Waits, Registered, RequestAt
<1>4. BootAccounted'
  BY DEF BootAccounted, BootedOnce, RequestAt
<1>5. ReleaseAccounted'
  BY DEF ReleaseAccounted
<1> QED
  BY <1>1, <1>2, <1>3, <1>4, <1>5

(* What the worker's job and its record are while it works. *)
LEMMA WorkerFacts ==
    ASSUME AgentInv, worker.at # "idle"
    PROVE  /\ worker.job \in Jobs /\ worker.job # None
           /\ worker.at = "taken" => state[worker.job] = "queued"
           /\ worker.at \in {"calling", "returned"} => state[worker.job] = "running"
           /\ worker.at = "raised" => state[worker.job] = "error"
           /\ worker.at = "leaving" => state[worker.job] \in {"done", "error"}
  BY JobsAreNumbers DEF AgentInv, Kinds, QueueInv, QueueTypeOK, WorkerPlaces, WorkerAt

(* Steps of the worker other than the end of an operation. *)
LEMMA WorkerQuiet ==
    ASSUME AgentInv, Take \/ Start \/ SetDone \/ Raise \/ SetError \/ Leave
    PROVE  /\ UNCHANGED <<submitted, open>>
           /\ \A i \in Jobs : Succeeds(i)' <=> Succeeds(i)
           /\ \A i \in Jobs : state[i] \in {"done", "error"} => state'[i] = state[i]
           /\ \A i \in Jobs : state'[i] # "cancelled" /\ (error'[i] => state'[i] = "error")
           /\ ~Preemptive => ~WorkerAt("raised")'
<1>1. CASE Take
  BY <1>1 DEF Take, Succeeds, WorkerAt, AgentInv, Kinds
<1>2. CASE Start
  BY <1>2, WorkerFacts DEF Start, Succeeds, WorkerAt, WorkerGoto, WorkerIdle, AgentInv, Kinds,
                           QueueInv, QueueTypeOK
<1>3. CASE SetDone
  BY <1>3, WorkerFacts DEF SetDone, Succeeds, WorkerAt, WorkerGoto, AgentInv, Kinds, QueueInv, QueueTypeOK
<1>4. CASE Raise
  BY <1>4, WorkerFacts DEF Raise, Succeeds, WorkerAt, WorkerGoto, AgentInv, Kinds, QueueInv, QueueTypeOK
<1>5. CASE SetError
  BY <1>5, WorkerFacts DEF SetError, Succeeds, WorkerAt, WorkerGoto, AgentInv, Kinds, QueueInv, QueueTypeOK
<1>6. CASE Leave
  BY <1>6, WorkerFacts DEF Leave, Succeeds, WorkerAt, WorkerIdle, AgentInv, Kinds, QueueInv, QueueTypeOK
<1> QED
  BY <1>1, <1>2, <1>3, <1>4, <1>5, <1>6

(* The end of an operation makes its job a success, and no other. *)
LEMMA ReturnFacts ==
    ASSUME AgentInv, Return
    PROVE  /\ worker.job \in Jobs /\ worker.job # None /\ state[worker.job] = "running"
           /\ UNCHANGED <<submitted, state, error, open>>
           /\ worker'.job = worker.job /\ worker'.at = "returned"
           /\ \A i \in Jobs : Succeeds(i)' <=> Succeeds(i) \/ i = worker.job
           /\ ~Succeeds(worker.job)
  BY WorkerFacts DEF Return, Succeeds, WorkerAt, WorkerGoto, AgentInv, QueueInv, QueueTypeOK

(* Every step of the worker keeps what the worker owns in type. *)
LEMMA WorkerTypes ==
    ASSUME AgentInv, Worker, QueueTypeOK' PROVE TypeOK'
<1> USE DEF AgentInv, TypeOK, loopVars, jobVars, runtimeVars
<1>1. worker.at = "calling" => worker.job \in Jobs
  BY WorkerFacts
<1>2. Executes("configure") => Payload \in Payloads
  BY <1>1 DEF Executes, WorkerAt, Payload, Kinds
<1>3. CASE JobStarts
  BY <1>3 DEF JobStarts
<1>4. CASE ConfigureReturns
  BY <1>2, <1>4 DEF ConfigureReturns
<1>5. CASE ConfigureRaises
  BY <1>2, <1>5 DEF ConfigureRaises
<1>6. CASE BootReturns
  BY <1>6 DEF BootReturns
<1>7. CASE ReleaseReturns
  BY <1>7 DEF ReleaseReturns, Registered
<1>8. CASE CallReturns \/ OperationRaises \/ OtherWorkerSteps
  BY <1>8 DEF CallReturns, OperationRaises, OtherWorkerSteps
<1> QED
  BY <1>3, <1>4, <1>5, <1>6, <1>7, <1>8 DEF Worker

(* Every step of a handler keeps what the loop owns in type. *)
LEMMA HandlerTypes ==
    ASSUME AgentInv, NEW h \in Handlers, Requests(h) \/ HandlerSteps(h), QueueTypeOK' PROVE TypeOK'
<1> USE DEF AgentInv, TypeOK, loopVars, jobVars, runtimeVars
<1>1. Free \in [at : {"idle", "scheduled"} \cup Waiting, job : Jobs \cup {None}]
  BY DEF Free
<1>2. ASSUME NEW k \in {"configure", "boot", "call", "release"}, NEW place \in Waiting, SubmitAndAwait(h, k, place)
      PROVE  /\ request' \in [Handlers -> [at : {"idle", "scheduled"} \cup Waiting, job : Jobs \cup {None}]]
             /\ kind' \in [Jobs -> {"none", "configure", "boot", "call", "release"}]
  BY <1>1, <1>2 DEF SubmitAndAwait, Await, Finish, Waiting
<1>3. ASSUME NEW p \in Payloads, NEW skipBoot \in BOOLEAN, Configure(h, p, skipBoot) PROVE TypeOK'
  <2>1. posted' \in [Jobs -> Payloads \cup {None}]
    BY <1>3 DEF Configure
  <2> QED
    BY <1>2, <1>3, <2>1 DEF Configure, Waiting
<1>4. CASE BootRequested(h)
  BY <1>4 DEF BootRequested, Await
<1>5. ASSUME NEW wait \in BOOLEAN, Call(h, wait) PROVE TypeOK'
  BY <1>5 DEF Call, Await, Waiting
<1>6. CASE Release(h)
  <2>1. success' \in [Jobs -> BOOLEAN]
    BY <1>6 DEF Release
  <2> QED
    BY <1>2, <1>6, <2>1 DEF Release, Waiting
<1>7. CASE Configured(h) \/ BootPolled(h) \/ Called(h) \/ Released(h)
  <2>1. request' \in [Handlers -> [at : {"idle", "scheduled"} \cup Waiting, job : Jobs \cup {None}]]
    BY <1>1, <1>7 DEF Configured, BootPolled, Called, Released, Finish
  <2>2. CASE Configured(h) \/ Called(h) \/ Released(h)
    <3>1. session' \in {session, "configured"} /\ capture' \in BOOLEAN
      BY <2>2 DEF Configured, Called, Released
    <3>2. UNCHANGED <<skip, released, jobVars, runtimeVars>>
      BY <2>2 DEF Configured, Called, Released
    <3> QED
      BY <2>1, <3>1, <3>2
  <2>3. CASE BootPolled(h)
    <3>1. session' \in {"ready", "failed"} /\ UNCHANGED <<skip, released, capture, jobVars, runtimeVars>>
      BY <2>3 DEF BootPolled
    <3> QED
      BY <2>1, <3>1
  <2> QED
    BY <1>7, <2>2, <2>3
<1>8. CASE BootBegins(h)
  <2>1. CASE session = "configured"
    BY <1>2, <1>8, <2>1 DEF BootBegins, Waiting
  <2>2. CASE session # "configured"
    BY <1>1, <1>8, <2>2 DEF BootBegins, Finish
  <2> QED
    BY <2>1, <2>2
<1> QED
  BY <1>3, <1>4, <1>5, <1>6, <1>7, <1>8 DEF Requests, HandlerSteps

(* A configuration succeeds only in a process without a DeviceManager,     *)
(* hence only if none did before, and before the session knows of any.     *)
LEMMA ConfigureReturnsKeeps ==
    ASSUME AgentInv, ConfigureReturns, TypeOK', QueueInv' PROVE AgentInv'
<1> USE DEF AgentInv, ConfigureReturns, loopVars, jobVars
<1>1. kind[worker.job] = "configure" /\ ~manager /\ manager' /\ Return
  BY DEF Executes
<1>2. Registered'
  BY <1>1, ReturnFacts, PayloadAssumption DEF Payload, Kinds, Registered
<1>3. \A i \in Jobs : kind[i] = "configure" => ~Succeeds(i)
  BY <1>1 DEF ConfiguredOnce
<1>4. session = "created"
  BY <1>3 DEF ConfiguredOnce, Succeeds
<1>5. Kinds' /\ Waits'
  BY <1>1, ReturnFacts DEF Kinds, Waits, RequestAt
<1>6. ConfiguredOnce'
  BY <1>1, <1>2, <1>3, <1>4, ReturnFacts DEF ConfiguredOnce
<1>7. BootAccounted'
  BY <1>1, <1>4, ReturnFacts DEF BootAccounted, BootedOnce, RequestAt, Executes, WorkerAt
<1>8. ReleaseAccounted'
  BY <1>1, ReturnFacts DEF ReleaseAccounted
<1> QED
  BY <1>5, <1>6, <1>7, <1>8

(* The boot that ends is the one that booted the board. *)
LEMMA BootReturnsKeeps ==
    ASSUME AgentInv, BootReturns, TypeOK', QueueInv' PROVE AgentInv'
<1> USE DEF AgentInv, BootReturns, loopVars, jobVars
<1>1. kind[worker.job] = "boot" /\ bootMode # "none" /\ booted' # "none" /\ Return
  BY DEF Executes, BootAccounted
<1>2. Kinds' /\ Waits'
  BY <1>1, ReturnFacts DEF Kinds, Waits, RequestAt
<1>3. ConfiguredOnce'
  <2>1. \A h \in Handlers : RequestAt(h, "configuring") => request[h].job \in Jobs /\ kind[request[h].job] = "configure"
    BY JobsAreNumbers DEF Waits, RequestAt, TypeOK
  <2> QED
    BY <1>1, <2>1, ReturnFacts DEF ConfiguredOnce, Registered, RequestAt
<1>4. BootAccounted'
  <2>1. session # "failed"
    BY <1>1, ReturnFacts DEF BootAccounted, BootedOnce
  <2> QED
    BY <1>1, <2>1, ReturnFacts DEF BootAccounted, BootedOnce, RequestAt, Executes, WorkerAt
<1>5. ReleaseAccounted'
  BY <1>1, ReturnFacts DEF ReleaseAccounted
<1> QED
  BY <1>2, <1>3, <1>4, <1>5

(* Every step of the worker keeps the invariant. *)
LEMMA WorkerKeeps ==
    ASSUME AgentInv, Worker, TypeOK', QueueInv' PROVE AgentInv'
<1> USE DEF loopVars, jobVars, runtimeVars
<1>1. CASE JobStarts
  <2>1. Executes("boot")' => bootMode' # "none"
    BY <1>1, WorkerFacts DEF JobStarts, Start, Executes, WorkerAt, WorkerGoto, WorkerIdle, AgentInv,
                             QueueInv, QueueTypeOK
  <2> QED
    BY <1>1, <2>1, WorkerQuiet, QuietKeeps DEF JobStarts
<1>2. CASE ConfigureRaises \/ OperationRaises \/ OtherWorkerSteps
  <2>1. Take \/ SetDone \/ Raise \/ SetError \/ Leave
    BY <1>2 DEF ConfigureRaises, OperationRaises, OtherWorkerSteps
  <2>2. ~Executes("boot")'
    BY <2>1 DEF Take, SetDone, Raise, SetError, Leave, Executes, WorkerAt, WorkerGoto, WorkerIdle,
                AgentInv, QueueInv, QueueTypeOK
  <2>3. UNCHANGED <<session, released, request, kind, posted, booted, devices>>
    BY <1>2 DEF ConfigureRaises, OperationRaises, OtherWorkerSteps
  <2>4. (manager => manager') /\ (config # None => config' # None)
    <3>1. Executes("configure") => Payload # None
      BY WorkerFacts, PayloadAssumption DEF Executes, WorkerAt, Payload, AgentInv, Kinds
    <3> QED
      BY <1>2, <3>1 DEF ConfigureRaises, OperationRaises, OtherWorkerSteps
  <2> QED
    BY <2>1, <2>2, <2>3, <2>4, WorkerQuiet, QuietKeeps
<1>3. CASE CallReturns \/ ReleaseReturns
  <2>1. Return /\ kind[worker.job] \in {"call", "release"}
    BY <1>3 DEF CallReturns, ReleaseReturns, Executes
  <2>2. UNCHANGED <<session, released, request, kind, posted, booted, devices, manager, config>>
    BY <1>3 DEF CallReturns, ReleaseReturns
  <2>3. ~WorkerAt("raised")' /\ ~Executes("boot")'
    BY <2>1, ReturnFacts DEF WorkerAt, Executes
  <2>4. \A i \in Jobs : state'[i] # "cancelled" /\ (error'[i] => state'[i] = "error")
    BY <2>1, ReturnFacts DEF AgentInv, Kinds
  <2> QED
    BY <2>1, <2>2, <2>3, <2>4, ReturnFacts, QuietKeeps
<1> QED
  BY <1>1, <1>2, <1>3, ConfigureReturnsKeeps, BootReturnsKeeps DEF Worker

-----------------------------------------------------------------------------
(* The handlers *)

(* The job a handler waits for was submitted, and by it alone. *)
LEMMA AwaitedFacts ==
    ASSUME AgentInv, NEW h \in Handlers, request[h].at \in Waiting
    PROVE  /\ request[h].job \in Jobs /\ request[h].job # None
           /\ state[request[h].job] # "none"
           /\ \A g \in Handlers : request[g].job = request[h].job => g = h
<1>1. request[h].job \in Jobs /\ request[h].job # None
  BY JobsAreNumbers DEF AgentInv, Waits, Waiting, TypeOK
<1>2. kind[request[h].job] # "none"
  BY DEF AgentInv, Waits, Waiting, RequestAt
<1> QED
  BY <1>1, <1>2 DEF AgentInv, Waits, Kinds, QueueInv, InOrder

(* A handler that stops waiting and changes nothing else disturbs nothing. *)
LEMMA FinishKeeps ==
    ASSUME AgentInv, TypeOK', QueueInv', NEW h \in Handlers, NEW place \in {"idle", "scheduled"},
           request' = [request EXCEPT ![h] = [at |-> place, job |-> None]],
           UNCHANGED <<queueVars, session, released, kind, posted, manager, config, devices, bootMode, booted>>
    PROVE  AgentInv'
<1> USE DEF AgentInv, queueVars
<1>1. \A g \in Handlers : request'[g] = IF g = h THEN [at |-> place, job |-> None] ELSE request[g]
  BY DEF TypeOK
<1>2. \A i \in Jobs : Succeeds(i)' <=> Succeeds(i)
  BY DEF Succeeds, WorkerAt
<1>3. Kinds' /\ ReleaseAccounted'
  BY DEF Kinds, ReleaseAccounted
<1>4. Waits'
  BY <1>1 DEF Waits, RequestAt
<1>5. ConfiguredOnce'
  <2>1. \A g \in Handlers : RequestAt(g, "configuring") => request[g].job \in Jobs
    BY AwaitedFacts DEF RequestAt, Waiting
  <2> QED
    BY <1>1, <1>2, <2>1 DEF ConfiguredOnce, Registered, RequestAt
<1>6. BootAccounted'
  BY <1>1, <1>2 DEF BootAccounted, BootedOnce, RequestAt, Executes, WorkerAt
<1> QED
  BY <1>3, <1>4, <1>5, <1>6

(* The configuration that was applied is the only one: the session still   *)
(* was in its first state.                                                 *)
LEMMA ConfiguredKeeps ==
    ASSUME AgentInv, TypeOK', QueueInv', NEW h \in Handlers, Configured(h) PROVE AgentInv'
<1> USE DEF AgentInv, queueVars, jobVars, runtimeVars
<1> DEFINE job == request[h].job
<1>1. CASE state[job] # "done"
  BY <1>1, FinishKeeps DEF Configured, Finish, Free
<1>2. CASE state[job] = "done"
  <2>1. RequestAt(h, "configuring") /\ job \in Jobs /\ kind[job] = "configure" /\ session = "created"
        /\ Succeeds(job)
    BY <1>2, AwaitedFacts DEF Configured, Resumes, RequestAt, Waiting, Waits, ConfiguredOnce, Succeeds
  <2>2. session' = "configured" /\ request' = [request EXCEPT ![h] = Free]
        /\ UNCHANGED <<queueVars, released, kind, posted, manager, config, devices, bootMode, booted>>
    BY <1>2 DEF Configured, Finish
  <2>3. \A g \in Handlers : request'[g] = IF g = h THEN Free ELSE request[g]
    BY <2>2 DEF TypeOK
  <2>4. \A i \in Jobs : Succeeds(i)' <=> Succeeds(i)
    BY <2>2 DEF Succeeds, WorkerAt
  <2>5. Kinds' /\ ReleaseAccounted'
    BY <2>2 DEF Kinds, ReleaseAccounted
  <2>6. Waits'
    BY <2>2, <2>3 DEF Waits, RequestAt, Free
  <2>7. ConfiguredOnce'
    <3>1. \A g \in Handlers : RequestAt(g, "configuring") =>
             request[g].job \in Jobs /\ kind[request[g].job] = "configure" /\ (request[g].job = job => g = h)
      BY <2>1, AwaitedFacts DEF RequestAt, Waiting, Waits
    <3>2. \A g \in Handlers : ~(RequestAt(g, "configuring")' /\ Succeeds(request'[g].job))
      BY <2>1, <2>3, <3>1 DEF ConfiguredOnce, RequestAt, Free
    <3> QED
      BY <1>2, <2>1, <2>2, <2>4, <3>2 DEF ConfiguredOnce, Registered, Succeeds, WorkerAt
  <2>8. BootAccounted'
    BY <2>1, <2>2, <2>3, <2>4 DEF BootAccounted, BootedOnce, RequestAt, Executes, WorkerAt, Free
  <2> QED
    BY <2>5, <2>6, <2>7, <2>8
<1> QED
  BY <1>1, <1>2

(* The job a boot polls is over: it booted the board, or it failed and,    *)
(* unless threads switch between the two assignments, says so.             *)
LEMMA BootPolledKeeps ==
    ASSUME AgentInv, TypeOK', QueueInv', NEW h \in Handlers, BootPolled(h) PROVE AgentInv'
<1> USE DEF AgentInv, queueVars, jobVars, runtimeVars
<1> DEFINE job == request[h].job
<1>1. RequestAt(h, "polling") /\ job \in Jobs /\ kind[job] = "boot" /\ session = "booting"
      /\ state[job] \in {"done", "error"}
  <2>1. RequestAt(h, "polling") /\ job \in Jobs /\ kind[job] = "boot" /\ state[job] # "none"
    BY AwaitedFacts DEF BootPolled, RequestAt, Waiting, Waits
  <2>2. state[job] \in {"none", "queued", "running"} \cup Terminal
    BY <2>1 DEF QueueInv, QueueTypeOK
  <2> QED
    BY <2>1, <2>2 DEF BootPolled, BootAccounted, Kinds, Terminal
<1>2. session' = (IF error[job] THEN "failed" ELSE "ready") /\ request' = [request EXCEPT ![h] = Free]
      /\ UNCHANGED <<queueVars, released, kind, posted, manager, config, devices, bootMode, booted>>
  BY DEF BootPolled, Finish
<1>3. \A g \in Handlers : request'[g] = IF g = h THEN Free ELSE request[g]
  BY <1>2 DEF TypeOK
<1>4. \A i \in Jobs : Succeeds(i)' <=> Succeeds(i)
  BY <1>2 DEF Succeeds, WorkerAt
<1>5. Kinds' /\ ReleaseAccounted'
  BY <1>2 DEF Kinds, ReleaseAccounted
<1>6. Waits'
  BY <1>2, <1>3 DEF Waits, RequestAt, Free
<1>7. ConfiguredOnce'
  <2>1. \A g \in Handlers : RequestAt(g, "configuring") => request[g].job \in Jobs
    BY AwaitedFacts DEF RequestAt, Waiting
  <2> QED
    BY <1>1, <1>2, <1>3, <1>4, <2>1 DEF ConfiguredOnce, Registered, RequestAt, Free
<1>8. \A g \in Handlers : ~RequestAt(g, "polling")'
  <2>1. \A g \in Handlers : RequestAt(g, "polling") =>
           request[g].job \in Jobs /\ kind[request[g].job] = "boot" /\ (request[g].job = job => g = h)
    BY <1>1, AwaitedFacts DEF RequestAt, Waiting, Waits
  <2> QED
    BY <1>1, <1>3, <2>1 DEF BootAccounted, BootedOnce, RequestAt, Free
<1>9. error[job] => state[job] = "error"
  BY <1>1 DEF Kinds
<1>10. ~Preemptive /\ ~error[job] => booted # "none"
  BY <1>1 DEF BootAccounted, QueueInv, StatesAccounted, Succeeds
<1>11. BootAccounted'
  BY <1>1, <1>2, <1>4, <1>8, <1>9, <1>10 DEF BootAccounted, BootedOnce, Executes, WorkerAt
<1> QED
  BY <1>5, <1>6, <1>7, <1>11

(* The queue is shut down by the release whose job is done. *)
LEMMA ReleasedKeeps ==
    ASSUME AgentInv, TypeOK', QueueInv', NEW h \in Handlers, Released(h) PROVE AgentInv'
<1> USE DEF AgentInv, jobVars, runtimeVars
<1> DEFINE job == request[h].job
<1>1. CASE state[job] # "done"
  BY <1>1, FinishKeeps DEF Released, Finish, Free
<1>2. CASE state[job] = "done"
  <2>1. job \in Jobs /\ kind[job] = "release"
    BY AwaitedFacts DEF Released, Resumes, RequestAt, Waiting, Waits
  <2>2. request' = [request EXCEPT ![h] = Free] /\ Shutdown
        /\ UNCHANGED <<session, released, kind, posted, manager, config, devices, bootMode, booted>>
    BY <1>2 DEF Released, Finish
  <2>3. UNCHANGED <<submitted, state, error, worker>>
    BY <2>2 DEF Shutdown
  <2>4. \A g \in Handlers : request'[g] = IF g = h THEN Free ELSE request[g]
    BY <2>2 DEF TypeOK
  <2>5. \A i \in Jobs : Succeeds(i)' <=> Succeeds(i)
    BY <2>3 DEF Succeeds, WorkerAt
  <2>6. Kinds' /\ ReleaseAccounted'
    BY <1>2, <2>1, <2>2, <2>3 DEF Kinds, ReleaseAccounted
  <2>7. Waits'
    BY <2>2, <2>4 DEF Waits, RequestAt, Free
  <2>8. ConfiguredOnce'
    <3>1. \A g \in Handlers : RequestAt(g, "configuring") => request[g].job \in Jobs
      BY AwaitedFacts DEF RequestAt, Waiting
    <3> QED
      BY <2>2, <2>3, <2>4, <2>5, <3>1 DEF ConfiguredOnce, Registered, RequestAt, Free
  <2>9. BootAccounted'
    BY <2>2, <2>3, <2>4, <2>5 DEF BootAccounted, BootedOnce, RequestAt, Executes, WorkerAt, Free
  <2> QED
    BY <2>6, <2>7, <2>8, <2>9
<1> QED
  BY <1>1, <1>2

-----------------------------------------------------------------------------
(* The requests *)

(* A handler that was free and submits a job waits for it, or for nothing  *)
(* when the queue was shut down.                                           *)
LEMMA SubmissionKeeps ==
    ASSUME AgentInv, TypeOK', NEW h \in Handlers, request[h].job = None,
           NEW j \in Jobs, Submit(j), NEW k \in {"configure", "boot", "call", "release"},
           kind' = [kind EXCEPT ![j] = k],
           k = "configure" => posted'[j] \in Payloads,
           \A i \in Jobs : i # j => posted'[i] = posted[i],
           NEW place \in Waiting, <<k, place>> \in {<<"configure", "configuring">>, <<"boot", "polling">>,
                                                    <<"call", "calling">>, <<"release", "releasing">>},
           \/ request' = [request EXCEPT ![h] = [at |-> place, job |-> j]]
           \/ request' = [request EXCEPT ![h] = Free]
           \/ request' = request
    PROVE  Kinds' /\ Waits'
<1> USE DEF AgentInv
<1>1. \A i \in Jobs : kind'[i] = IF i = j THEN k ELSE kind[i]
  BY DEF TypeOK
<1>2. Kinds'
  BY <1>1, SubmitFacts DEF Kinds
<1>3. \A g \in Handlers : g # h => request'[g] = request[g]
  BY DEF TypeOK
<1>4. request'[h] \in {[at |-> place, job |-> j], Free, request[h]}
  BY DEF TypeOK
<1>5. j # None /\ \A g \in Handlers : request[g].job # j
  BY SubmitFacts, JobsAreNumbers
<1>6. \A g \in Handlers : request[g].job # None => request[g].job \in Jobs
  BY DEF TypeOK
<1>7. Waits'
  <2>1. ASSUME NEW g \in Handlers
        PROVE  /\ request'[g].job = None <=> request'[g].at \in {"idle", "scheduled"}
               /\ RequestAt(g, "configuring")' => kind'[request'[g].job] = "configure"
               /\ RequestAt(g, "polling")' => kind'[request'[g].job] = "boot"
               /\ RequestAt(g, "calling")' => kind'[request'[g].job] = "call"
               /\ RequestAt(g, "releasing")' => kind'[request'[g].job] = "release"
    <3>1. CASE request'[g] = request[g]
      BY <3>1, <1>1, <1>5, <1>6, JobsAreNumbers DEF Waits, RequestAt
    <3>2. CASE g = h /\ request'[g] = [at |-> place, job |-> j]
      BY <3>2, <1>1, <1>5 DEF RequestAt, Waiting
    <3>3. CASE g = h /\ request'[g] = Free
      BY <3>3 DEF RequestAt, Free
    <3> QED
      BY <3>1, <3>2, <3>3, <1>3, <1>4
  <2>2. ASSUME NEW f \in Handlers, NEW g \in Handlers,
               request'[f].job # None, request'[f].job = request'[g].job
        PROVE  f = g
    BY <2>2, <1>3, <1>4, <1>5 DEF Waits, Free
  <2> QED
    BY <2>1, <2>2 DEF Waits
<1> QED
  BY <1>2, <1>7

(* A job that was just submitted has not succeeded: it changes nothing of  *)
(* what is known of the configuration.                                     *)
LEMMA SubmissionConfigures ==
    ASSUME AgentInv, NEW j \in Jobs, Submit(j), NEW h \in Handlers, NEW k, NEW place,
           kind' = [kind EXCEPT ![j] = k],
           \/ request' = [request EXCEPT ![h] = [at |-> place, job |-> j]]
           \/ request' = [request EXCEPT ![h] = Free]
           \/ request' = request,
           UNCHANGED <<manager, config, devices>>,
           session' = session \/ (session = "configured" /\ session' = "booting")
    PROVE  ConfiguredOnce'
<1> USE DEF AgentInv
<1>1. \A i \in Jobs : kind'[i] = IF i = j THEN k ELSE kind[i]
  BY DEF TypeOK
<1>2. \A g \in Handlers : request'[g] = request[g] \/ request'[g].job = j \/ request'[g].at = "idle"
  BY DEF TypeOK, Free
<1>3. \A g \in Handlers : RequestAt(g, "configuring") => request[g].job \in Jobs
  BY AwaitedFacts DEF RequestAt, Waiting
<1>4. \A i \in Jobs : kind'[i] = "configure" /\ Succeeds(i)' => kind[i] = "configure" /\ Succeeds(i)
  BY <1>1, SubmitSucceeds
<1>5. session' # "created" => \E i \in Jobs : kind'[i] = "configure" /\ state'[i] = "done"
  <2>1. ASSUME NEW i \in Jobs, kind[i] = "configure", state[i] = "done"
        PROVE  kind'[i] = "configure" /\ state'[i] = "done"
    BY <2>1, <1>1, SubmitFacts
  <2> QED
    BY <2>1 DEF ConfiguredOnce
<1>6. ASSUME NEW g \in Handlers, RequestAt(g, "configuring")', Succeeds(request[g].job)'
      PROVE  session' = "created"
  <2>1. request'[g].job # j
    BY <1>6, SubmitFacts DEF Succeeds, WorkerAt
  <2>2. request'[g] = request[g]
    BY <1>2, <1>6, <2>1 DEF RequestAt
  <2>3. request[g].job \in Jobs /\ RequestAt(g, "configuring")
    BY <1>3, <1>6, <2>2 DEF RequestAt
  <2>4. Succeeds(request[g].job)
    BY <1>6, <2>1, <2>2, <2>3, SubmitFacts DEF Succeeds, WorkerAt
  <2> QED
    BY <2>3, <2>4 DEF ConfiguredOnce
<1>7. Registered' <=> Registered
  BY DEF Registered
<1> QED
  BY <1>4, <1>5, <1>6, <1>7 DEF ConfiguredOnce

(* Nor does it change what is known of the boot, if it is not one.         *)
LEMMA SubmissionBoots ==
    ASSUME AgentInv, NEW j \in Jobs, Submit(j), NEW h \in Handlers, NEW k, k # "boot",
           kind' = [kind EXCEPT ![j] = k],
           \A g \in Handlers : RequestAt(g, "polling")' => RequestAt(g, "polling"),
           UNCHANGED <<session, bootMode, booted>>
    PROVE  BootAccounted'
<1> USE DEF AgentInv
<1>1. \A i \in Jobs : kind'[i] = IF i = j THEN k ELSE kind[i]
  BY DEF TypeOK
<1>2. \A i \in Jobs : kind'[i] = "boot" <=> kind[i] = "boot"
  BY <1>1, SubmitFacts
<1>3. Executes("boot")' => Executes("boot")
  BY <1>2, SubmitFacts, WorkerFacts DEF Executes, WorkerAt
<1> QED
  BY <1>2, <1>3, SubmitFacts, SubmitSucceeds DEF BootAccounted, BootedOnce, WorkerAt

(* Nor what is known of the release. *)
LEMMA SubmissionReleases ==
    ASSUME AgentInv, NEW j \in Jobs, Submit(j), NEW k, kind' = [kind EXCEPT ![j] = k],
           k = "release" => ~released /\ released',
           released => released'
    PROVE  ReleaseAccounted'
<1> USE DEF AgentInv
<1>1. \A i \in Jobs : kind'[i] = IF i = j THEN k ELSE kind[i]
  BY DEF TypeOK
<1> QED
  BY <1>1, SubmitFacts DEF ReleaseAccounted

(* What submitting a job does to the handler that waits for it. *)
LEMMA SubmitAndAwaitFacts ==
    ASSUME NEW h \in Handlers, NEW k, NEW place, SubmitAndAwait(h, k, place)
    PROVE  \E j \in Jobs :
              /\ Submit(j) /\ submitted' = j
              /\ kind' = [kind EXCEPT ![j] = k]
              /\ \/ request' = [request EXCEPT ![h] = [at |-> place, job |-> j]]
                 \/ request' = [request EXCEPT ![h] = Free]
  BY DEF SubmitAndAwait, Submit, Await, Finish

(* A configuration can be asked for at any time.                           *)
LEMMA ConfigureKeeps ==
    ASSUME AgentInv, TypeOK', QueueInv', NEW h \in Handlers, NEW p \in Payloads, NEW skipBoot \in BOOLEAN,
           Configure(h, p, skipBoot)
    PROVE  AgentInv'
<1> USE DEF runtimeVars
<1>1. request[h].job = None
  BY DEF Configure, RequestAt, AgentInv, Waits
<1>2. PICK j \in Jobs : /\ Submit(j) /\ submitted' = j
                        /\ kind' = [kind EXCEPT ![j] = "configure"]
                        /\ \/ request' = [request EXCEPT ![h] = [at |-> "configuring", job |-> j]]
                           \/ request' = [request EXCEPT ![h] = Free]
  BY SubmitAndAwaitFacts DEF Configure
<1>3. posted'[j] \in Payloads /\ \A i \in Jobs : i # j => posted'[i] = posted[i]
  BY <1>2 DEF Configure, AgentInv, TypeOK
<1>4. UNCHANGED <<session, released, manager, config, devices, bootMode, booted>>
  BY DEF Configure
<1>5. Kinds' /\ Waits'
  BY <1>1, <1>2, <1>3, SubmissionKeeps DEF Waiting
<1>6. ConfiguredOnce'
  BY <1>2, <1>4, SubmissionConfigures
<1>7. BootAccounted'
  <2>1. \A g \in Handlers : RequestAt(g, "polling")' => RequestAt(g, "polling")
    BY <1>2 DEF RequestAt, Free, AgentInv, TypeOK
  <2> QED
    BY <1>2, <1>4, <2>1, SubmissionBoots
<1>8. ReleaseAccounted'
  BY <1>2, <1>4, SubmissionReleases
<1> QED
  BY <1>5, <1>6, <1>7, <1>8 DEF AgentInv

(* A call does not touch the session. *)
LEMMA CallKeeps ==
    ASSUME AgentInv, TypeOK', QueueInv', NEW h \in Handlers, NEW wait \in BOOLEAN, Call(h, wait)
    PROVE  AgentInv'
<1> USE DEF runtimeVars
<1>1. request[h].job = None
  BY DEF Call, RequestAt, AgentInv, Waits
<1>2. PICK j \in Jobs : /\ Submit(j) /\ submitted' = j
                        /\ kind' = [kind EXCEPT ![j] = "call"]
                        /\ \/ request' = [request EXCEPT ![h] = [at |-> "calling", job |-> j]]
                           \/ request' = request
  BY DEF Call, Submit, Await
<1>3. UNCHANGED <<session, released, posted, manager, config, devices, bootMode, booted>>
  BY DEF Call
<1>4. Kinds' /\ Waits'
  BY <1>1, <1>2, <1>3, SubmissionKeeps DEF Waiting
<1>5. ConfiguredOnce'
  BY <1>2, <1>3, SubmissionConfigures
<1>6. BootAccounted'
  <2>1. \A g \in Handlers : RequestAt(g, "polling")' => RequestAt(g, "polling")
    BY <1>2 DEF RequestAt, AgentInv, TypeOK
  <2> QED
    BY <1>2, <1>3, <2>1, SubmissionBoots
<1>7. ReleaseAccounted'
  BY <1>2, <1>3, SubmissionReleases
<1> QED
  BY <1>4, <1>5, <1>6, <1>7 DEF AgentInv

(* The first release submits the one release job. *)
LEMMA ReleaseKeeps ==
    ASSUME AgentInv, TypeOK', QueueInv', NEW h \in Handlers, Release(h) PROVE AgentInv'
<1> USE DEF runtimeVars
<1>1. request[h].job = None
  BY DEF Release, RequestAt, AgentInv, Waits
<1>2. PICK j \in Jobs : /\ Submit(j) /\ submitted' = j
                        /\ kind' = [kind EXCEPT ![j] = "release"]
                        /\ \/ request' = [request EXCEPT ![h] = [at |-> "releasing", job |-> j]]
                           \/ request' = [request EXCEPT ![h] = Free]
  BY SubmitAndAwaitFacts DEF Release
<1>3. UNCHANGED <<session, posted, manager, config, devices, bootMode, booted>> /\ ~released /\ released'
  BY DEF Release
<1>4. Kinds' /\ Waits'
  BY <1>1, <1>2, <1>3, SubmissionKeeps DEF Waiting
<1>5. ConfiguredOnce'
  BY <1>2, <1>3, SubmissionConfigures
<1>6. BootAccounted'
  <2>1. \A g \in Handlers : RequestAt(g, "polling")' => RequestAt(g, "polling")
    BY <1>2 DEF RequestAt, Free, AgentInv, TypeOK
  <2> QED
    BY <1>2, <1>3, <2>1, SubmissionBoots
<1>7. ReleaseAccounted'
  BY <1>2, <1>3, SubmissionReleases
<1> QED
  BY <1>4, <1>5, <1>6, <1>7 DEF AgentInv

(* A boot begins in a configured session, hence only if none did before.   *)
LEMMA BootBeginsKeeps ==
    ASSUME AgentInv, TypeOK', QueueInv', NEW h \in Handlers, BootBegins(h) PROVE AgentInv'
<1> USE DEF runtimeVars
<1>1. CASE session # "configured"
  BY <1>1, FinishKeeps DEF BootBegins, Finish, Free
<1>2. CASE session = "configured"
  <2>1. request[h].job = None
    BY DEF BootBegins, RequestAt, AgentInv, Waits
  <2>2. PICK j \in Jobs : /\ Submit(j) /\ submitted' = j
                          /\ kind' = [kind EXCEPT ![j] = "boot"]
                          /\ \/ request' = [request EXCEPT ![h] = [at |-> "polling", job |-> j]]
                             \/ request' = [request EXCEPT ![h] = Free]
    BY <1>2, SubmitAndAwaitFacts DEF BootBegins
  <2>3. UNCHANGED <<released, posted, manager, config, devices, bootMode, booted>> /\ session' = "booting"
    BY <1>2 DEF BootBegins
  <2>4. Kinds' /\ Waits'
    BY <2>1, <2>2, <2>3, SubmissionKeeps DEF Waiting
  <2>5. ConfiguredOnce'
    BY <1>2, <2>2, <2>3, SubmissionConfigures
  <2>6. ReleaseAccounted'
    BY <2>2, <2>3, SubmissionReleases
  <2>7. BootAccounted'
    <3>1. \A i \in Jobs : kind[i] # "boot"
      BY <1>2 DEF AgentInv, BootAccounted
    <3>2. \A i \in Jobs : kind'[i] = "boot" <=> i = j
      BY <2>2, <3>1 DEF AgentInv, TypeOK
    <3>3. booted = "none"
      BY <3>1 DEF AgentInv, BootAccounted
    <3>4. ~Executes("boot")' /\ ~Succeeds(j)'
      BY <2>2, <3>2, SubmitFacts, WorkerFacts DEF Executes, Succeeds, WorkerAt
    <3>5. ~Preemptive => ~WorkerAt("raised")'
      BY <2>2, SubmitFacts DEF AgentInv, BootAccounted, WorkerAt
    <3> QED
      BY <2>3, <3>2, <3>3, <3>4, <3>5 DEF BootAccounted, BootedOnce
  <2> QED
    BY <2>4, <2>5, <2>6, <2>7 DEF AgentInv
<1> QED
  BY <1>1, <1>2

-----------------------------------------------------------------------------
(* The inductive invariant *)

(* Initially nothing was asked for. *)
LEMMA AgentStarts == Init => AgentInv
<1> SUFFICES ASSUME Init PROVE AgentInv
  OBVIOUS
<1>1. QueueInv /\ submitted = 0 /\ worker = WorkerIdle /\ open
  BY InvInit DEF Init, QueueInit
<1>2. \A j \in Jobs : state[j] = "none" /\ ~error[j] /\ ~Succeeds(j) /\ ~(j <= submitted)
  BY <1>1, NumJobsAssumption DEF Init, QueueInit, Succeeds, WorkerAt, WorkerIdle, Jobs
<1>3. TypeOK
  BY <1>1 DEF Init, TypeOK, QueueInv, Free
<1>4. Kinds /\ Waits
  BY <1>2 DEF Init, Kinds, Waits, RequestAt, Free
<1>5. ConfiguredOnce /\ BootAccounted /\ ReleaseAccounted
  BY <1>1 DEF Init, ConfiguredOnce, BootAccounted, BootedOnce, ReleaseAccounted, RequestAt, Free, Executes,
              WorkerAt, WorkerIdle
<1> QED
  BY <1>1, <1>3, <1>4, <1>5 DEF AgentInv

(* Every step keeps the invariant. *)
LEMMA AgentKeeps == AgentInv /\ [Next]_vars => AgentInv'
<1> SUFFICES ASSUME AgentInv, [Next]_vars PROVE AgentInv'
  OBVIOUS
<1>1. QueueInv' /\ QueueTypeOK'
  BY AgentUsesQueue, InvKept DEF AgentInv, QueueInv
<1>2. ASSUME NEW h \in Handlers, Requests(h) PROVE AgentInv'
  <2>1. TypeOK'
    BY <1>1, <1>2, HandlerTypes
  <2>2. CASE BootRequested(h)
    BY <1>1, <2>1, <2>2, FinishKeeps DEF BootRequested, Await, jobVars, runtimeVars
  <2> QED
    BY <1>1, <1>2, <2>1, <2>2, ConfigureKeeps, CallKeeps, ReleaseKeeps DEF Requests
<1>3. ASSUME NEW h \in Handlers, HandlerSteps(h) PROVE AgentInv'
  <2>1. TypeOK'
    BY <1>1, <1>3, HandlerTypes
  <2>2. CASE Called(h)
    BY <1>1, <2>1, <2>2, FinishKeeps DEF Called, Finish, Free, jobVars, runtimeVars
  <2> QED
    BY <1>1, <1>3, <2>1, <2>2, ConfiguredKeeps, BootBeginsKeeps, BootPolledKeeps, ReleasedKeeps
       DEF HandlerSteps
<1>4. CASE Worker
  BY <1>1, <1>4, WorkerTypes, WorkerKeeps
<1>5. CASE UNCHANGED vars
  BY <1>5 DEF vars, loopVars, jobVars, runtimeVars, queueVars, AgentInv, TypeOK, QueueInv, QueueTypeOK,
              InOrder, WorkerPlaces, StatesAccounted, EarlierAreOver, InFlight, Kinds, Waits, ConfiguredOnce,
              BootAccounted, BootedOnce, ReleaseAccounted, Succeeds, Registered, RequestAt, Executes, WorkerAt
<1> QED
  BY <1>2, <1>3, <1>4, <1>5 DEF Next

(* The inductive invariant of the agent.                                   *)
THEOREM AgentInvariant == Spec => []AgentInv
  BY AgentStarts, AgentKeeps, PTL DEF Spec

-----------------------------------------------------------------------------
(* What follows *)

(* Every variable of the agent keeps its type. *)
THEOREM AgentTypeCorrect == Spec => []TypeOK
<1>1. AgentInv => TypeOK
  BY DEF AgentInv
<1> QED
  BY <1>1, AgentInvariant, PTL

(* The board is booted at most once: the check of the session and the      *)
(* submission of the boot are one segment of the loop.                     *)
THEOREM OneBoot == Spec => []BootedOnce
<1>1. AgentInv => BootedOnce
  BY DEF AgentInv, BootAccounted
<1> QED
  BY <1>1, AgentInvariant, PTL

(* A boot runs on registered devices, although the loop can accept another *)
(* configuration at any time.                                              *)
THEOREM BootFindsDevices == Spec => []BootHasDevices
<1>1. AgentInv => BootHasDevices
  <2> SUFFICES ASSUME AgentInv, Executes("boot") PROVE Registered
    BY DEF BootHasDevices
  <2>1. worker.job \in Jobs /\ kind[worker.job] = "boot"
    BY WorkerFacts DEF Executes, WorkerAt
  <2>2. session # "created"
    BY <2>1 DEF AgentInv, BootAccounted
  <2> QED
    BY <2>2 DEF AgentInv, ConfiguredOnce, Succeeds
<1> QED
  BY <1>1, AgentInvariant, PTL

(* The session is READY only of a board that booted and FAILED only of one *)
(* that did not, as long as threads do not switch between the worker's two *)
(* assignments of a failed job's state and error.                          *)
THEOREM ReadyIsTrue == ASSUME ~Preemptive PROVE Spec => []ReadyIsBooted
<1>1. AgentInv => ReadyIsBooted
  <2> SUFFICES ASSUME AgentInv, session = "failed" PROVE booted = "none"
    BY DEF AgentInv, BootAccounted, ReadyIsBooted
  <2>1. PICK j \in Jobs : kind[j] = "boot" /\ state[j] = "error"
    BY DEF AgentInv, BootAccounted
  <2>2. ~Succeeds(j)
    BY <2>1, WorkerFacts DEF Succeeds, WorkerAt
  <2> QED
    BY <2>1, <2>2 DEF AgentInv, BootAccounted, BootedOnce
<1> QED
  BY <1>1, AgentInvariant, PTL

(* There is one release job, and it is not dropped by a shutdown, as only  *)
(* its own end shuts the queue down.                                       *)
THEOREM OneRelease == Spec => []ReleasedOnce
<1>1. AgentInv => ReleasedOnce
  <2> SUFFICES ASSUME AgentInv, NEW j \in Jobs, kind[j] = "release", state[j] = "queued" PROVE InFlight(j)
    BY DEF AgentInv, ReleaseAccounted, ReleasedOnce
  <2>1. open
    BY DEF AgentInv, ReleaseAccounted
  <2> QED
    BY <2>1 DEF AgentInv, QueueInv, StatesAccounted
<1> QED
  BY <1>1, AgentInvariant, PTL

(* The session only moves forward: the one configuration that succeeds     *)
(* finds it CREATED, the one boot CONFIGURED, and the poll of that boot    *)
(* BOOTING.                                                                *)
THEOREM SessionIsMonotonic == Spec => SessionMovesForward
<1>1. AgentInv /\ [Next]_vars =>
        [session' # session =>
            <<session, session'>> \in {<<"created", "configured">>,
                <<"configured", "booting">>, <<"booting", "ready">>,
                <<"booting", "failed">>}]_vars
  <2> SUFFICES ASSUME AgentInv, Next, session' # session
               PROVE  <<session, session'>> \in {<<"created", "configured">>,
                          <<"configured", "booting">>, <<"booting", "ready">>, <<"booting", "failed">>}
    OBVIOUS
  <2>1. ~Worker
    BY DEF Worker, JobStarts, ConfigureReturns, ConfigureRaises, BootReturns, ReleaseReturns, CallReturns,
           OperationRaises, OtherWorkerSteps, loopVars
  <2>2. ASSUME NEW h \in Handlers, Requests(h) PROVE FALSE
    BY <2>2 DEF Requests, Configure, BootRequested, Call, Release
  <2>3. PICK h \in Handlers : HandlerSteps(h)
    BY <2>1, <2>2 DEF Next
  <2>4. CASE Configured(h)
    <3>1. request[h].job \in Jobs /\ RequestAt(h, "configuring") /\ state[request[h].job] = "done"
          /\ session' = "configured"
      BY <2>4, AwaitedFacts DEF Configured, Resumes, RequestAt, Waiting
    <3> QED
      BY <3>1 DEF AgentInv, ConfiguredOnce, Succeeds
  <2>5. CASE BootBegins(h)
    BY <2>5 DEF BootBegins
  <2>6. CASE BootPolled(h)
    <3>1. session = "booting"
      BY <2>6 DEF BootPolled, AgentInv, BootAccounted
    <3> QED
      BY <2>6, <3>1 DEF BootPolled
  <2>7. CASE Called(h) \/ Released(h)
    BY <2>7 DEF Called, Released
  <2> QED
    BY <2>3, <2>4, <2>5, <2>6, <2>7 DEF HandlerSteps
<1> QED
  BY <1>1, AgentInvariant, PTL DEF Spec, SessionMovesForward
=============================================================================
