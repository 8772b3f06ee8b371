-------------------------------- MODULE Agent --------------------------------
(***************************************************************************)
(* The runtime agent of one session (src/boardfarm3/api): the HTTP         *)
(* handlers and the session they drive, on the event loop, and what the    *)
(* jobs they submit do to the runtime, on the worker thread.  A handler is *)
(* a task whose actions are the segments of code between two awaits.  No   *)
(* route reaches ExecutionQueue.cancel, so jobs are not cancelled here.  A *)
(* definition named Defect_X is what X could have been by mistake.         *)
(***************************************************************************)
EXTENDS ExecutionQueue

CONSTANTS
    Handlers,   \* HTTP requests in flight at the same time
    Payloads,   \* session payloads clients post
    Routes      \* the requests clients send

ASSUME PayloadAssumption == None \notin Payloads
ASSUME RouteAssumption ==
    Routes \subseteq {"reconfigure", "call", "release"}

VARIABLES
    session,    \* Session.state
    skip,       \* options.skip_boot, and with it cmdline_args.skip_boot
    released,   \* state["released"] of the application
    capture,    \* whether ConsoleCapture is installed
    request,    \* where each handler stands, and the job it waits for
    kind,       \* what each job does
    posted,     \* the payload of each configuring job
    success,    \* whether each releasing job reports a successful deployment
    manager,    \* whether the process has its DeviceManager
    config,     \* runtime.config: the payload it was resolved from
    devices,    \* runtime.device_manager: the payload its devices come from
    bootMode,   \* the boot that runs: "skip" or "full"
    booted,     \* the boot that completed
    freed       \* whether the devices were shut down and released

loopVars == <<session, skip, released, capture, request>>
jobVars == <<kind, posted, success>>
runtimeVars == <<manager, config, devices, bootMode, booted, freed>>
vars == <<queueVars, loopVars, jobVars, runtimeVars>>

Waiting == {"configuring", "polling", "calling", "releasing"}
Free == [at |-> "idle", job |-> None]

TypeOK ==
    /\ QueueTypeOK
    /\ session \in {"created", "configured", "booting", "ready", "failed"}
    /\ skip \in BOOLEAN /\ released \in BOOLEAN /\ capture \in BOOLEAN
    /\ request \in [Handlers -> [at : {"idle", "scheduled"} \cup Waiting,
                                 job : Jobs \cup {None}]]
    /\ kind \in [Jobs -> {"none", "configure", "boot", "call", "release"}]
    /\ posted \in [Jobs -> Payloads \cup {None}]
    /\ success \in [Jobs -> BOOLEAN]
    /\ manager \in BOOLEAN
    /\ config \in Payloads \cup {None} /\ devices \in Payloads \cup {None}
    /\ bootMode \in {"none", "skip", "full"} /\ booted \in {"none", "skip", "full"}
    /\ freed \in BOOLEAN

Init ==
    /\ QueueInit
    /\ session = "created" /\ skip = FALSE
    /\ released = FALSE /\ capture = TRUE
    /\ request = [h \in Handlers |-> Free]
    /\ kind = [j \in Jobs |-> "none"]
    /\ posted = [j \in Jobs |-> None]
    /\ success = [j \in Jobs |-> FALSE]
    /\ manager = FALSE /\ config = None /\ devices = None
    /\ bootMode = "none" /\ booted = "none" /\ freed = FALSE

-----------------------------------------------------------------------------
(* Handlers *)

RequestAt(h, place) == request[h].at = place
Await(h, place, j) == request' = [request EXCEPT ![h] = [at |-> place, job |-> j]]
Finish(h) == request' = [request EXCEPT ![h] = Free]

(* Submit a job of a kind and wait for it; a queue that was shut down      *)
(* raises, and the request ends.                                           *)
SubmitAndAwait(h, k, place) ==
    \E j \in Jobs :
        /\ Submit(j)
        /\ kind' = [kind EXCEPT ![j] = k]
        /\ IF open THEN Await(h, place, j) ELSE Finish(h)

(* The future the handler awaits was resolved or cancelled. *)
Resumes(h, place) == RequestAt(h, place) /\ ~InFlight(request[h].job)

(* POST /session/config: the options are applied at once, in any state of  *)
(* the session; the payload is resolved by the job.                        *)
Configure(h, p, skipBoot) ==
    /\ RequestAt(h, "idle")
    /\ session = "created" \/ "reconfigure" \in Routes
    /\ skip' = skipBoot
    /\ SubmitAndAwait(h, "configure", "configuring")
    /\ posted' = [posted EXCEPT ![submitted'] = p]
    /\ UNCHANGED <<session, released, capture, success, runtimeVars>>

Defect_Configured(h) ==
    /\ Resumes(h, "configuring")
    /\ session' = "configured"
    /\ Finish(h)
    /\ UNCHANGED <<queueVars, skip, released, capture, jobVars, runtimeVars>>

(* Only a configuration that was applied moves the session, from any state. *)
Configured(h) ==
    /\ Resumes(h, "configuring")
    /\ session' = IF state[request[h].job] = "done" THEN "configured" ELSE session
    /\ Finish(h)
    /\ UNCHANGED <<queueVars, skip, released, capture, jobVars, runtimeVars>>

(* POST /session/boot answers 409 unless the session is configured; a new  *)
(* task then checks again and starts the boot.                             *)
BootRequested(h) ==
    /\ RequestAt(h, "idle") /\ session = "configured"
    /\ Await(h, "scheduled", None)
    /\ UNCHANGED <<queueVars, session, skip, released, capture, jobVars, runtimeVars>>

BootBegins(h) ==
    /\ RequestAt(h, "scheduled")
    /\ IF session = "configured"
       THEN /\ session' = "booting"
            /\ SubmitAndAwait(h, "boot", "polling")
       ELSE Finish(h) /\ UNCHANGED <<queueVars, session, kind>>
    /\ UNCHANGED <<skip, released, capture, posted, success, runtimeVars>>

Defect_BootPolled(h) ==
    /\ RequestAt(h, "polling")
    /\ LET j == request[h].job
       IN  /\ state[j] # "queued"
           /\ session' = IF error[j] THEN "failed" ELSE "ready"
    /\ Finish(h)
    /\ UNCHANGED <<queueVars, skip, released, capture, jobVars, runtimeVars>>

(* The poll of the job's state, then of its error: no lock is held.        *)
BootPolled(h) ==
    /\ RequestAt(h, "polling")
    /\ LET j == request[h].job
       IN  /\ state[j] \notin {"queued", "running"}
           /\ session' = IF error[j] THEN "failed" ELSE "ready"
    /\ Finish(h)
    /\ UNCHANGED <<queueVars, skip, released, capture, jobVars, runtimeVars>>

(* A template or use-case route: 409 while runtime.device_manager is None. *)
(* With mode=async the answer is a ticket, and nobody waits for the job.   *)
Call(h, wait) ==
    /\ "call" \in Routes
    /\ RequestAt(h, "idle") /\ devices # None
    /\ \E j \in Jobs :
          /\ Submit(j)
          /\ kind' = [kind EXCEPT ![j] = "call"]
          /\ IF open /\ wait THEN Await(h, "calling", j) ELSE UNCHANGED request
    /\ UNCHANGED <<session, skip, released, capture, posted, success, runtimeVars>>

Called(h) ==
    /\ Resumes(h, "calling")
    /\ Finish(h)
    /\ UNCHANGED <<queueVars, session, skip, released, capture, jobVars, runtimeVars>>

Defect_Release(h) ==
    /\ "release" \in Routes
    /\ RequestAt(h, "idle")
    /\ released' = TRUE
    /\ SubmitAndAwait(h, "release", "releasing")
    /\ success' = [success EXCEPT ![submitted'] = session = "ready"]
    /\ UNCHANGED <<session, skip, capture, posted, runtimeVars>>

(* DELETE /session, and the end of the application's lifespan: the first   *)
(* one releases, whatever the session does, the others return at once.     *)
Release(h) ==
    /\ "release" \in Routes
    /\ RequestAt(h, "idle")
    /\ ~released
    /\ released' = TRUE
    /\ SubmitAndAwait(h, "release", "releasing")
    /\ success' = [success EXCEPT ![submitted'] = session = "ready"]
    /\ UNCHANGED <<session, skip, capture, posted, runtimeVars>>

Defect_Released(h) ==
    /\ Resumes(h, "releasing")
    /\ capture' = FALSE /\ Shutdown
    /\ Finish(h)
    /\ UNCHANGED <<session, skip, released, jobVars, runtimeVars>>

(* The release job is over: if it raised, the handler raises too.          *)
Released(h) ==
    /\ Resumes(h, "releasing")
    /\ IF state[request[h].job] = "done"
       THEN capture' = FALSE /\ Shutdown
       ELSE UNCHANGED <<capture, queueVars>>
    /\ Finish(h)
    /\ UNCHANGED <<session, skip, released, jobVars, runtimeVars>>

-----------------------------------------------------------------------------
(* The worker: what the operation of each kind of job does. *)

Executes(k) == WorkerAt("calling") /\ kind[worker.job] = k
Payload == posted[worker.job]
Registered == config # None /\ devices # None

(* boot() reads skip_boot of the command line arguments as it starts.      *)
JobStarts ==
    /\ Start
    /\ bootMode' = IF kind[worker.job] = "boot" /\ state'[worker.job] = "running"
                   THEN IF skip THEN "skip" ELSE "full"
                   ELSE bootMode
    /\ UNCHANGED <<loopVars, jobVars, manager, config, devices, booted, freed>>

Defect_ConfigureReturns ==
    /\ Executes("configure") /\ Return
    /\ manager' = TRUE
    /\ config' = Payload /\ devices' = Payload
    /\ UNCHANGED <<loopVars, jobVars, bootMode, booted, freed>>

(* resolve() and register_devices(): a process has one DeviceManager.      *)
ConfigureReturns ==
    /\ Executes("configure") /\ Return
    /\ ~manager
    /\ manager' = TRUE
    /\ config' = Payload /\ devices' = Payload
    /\ UNCHANGED <<loopVars, jobVars, bootMode, booted, freed>>

(* resolve() raises; or register_devices() does, as it creates the         *)
(* DeviceManager a second time, or for one of the devices.                 *)
ConfigureRaises ==
    /\ Executes("configure") /\ Raise
    /\ \/ UNCHANGED <<manager, config>>
       \/ config' = Payload /\ manager' = TRUE
    /\ UNCHANGED <<loopVars, jobVars, devices, bootMode, booted, freed>>

BootReturns ==
    /\ Executes("boot") /\ Return
    /\ Registered
    /\ booted' = bootMode
    /\ UNCHANGED <<loopVars, jobVars, manager, config, devices, bootMode, freed>>

(* The devices are released only if there are any. *)
ReleaseReturns ==
    /\ Executes("release") /\ Return
    /\ freed' = Registered
    /\ UNCHANGED <<loopVars, jobVars, manager, config, devices, bootMode, booted>>

CallReturns ==
    /\ Executes("call") /\ Return
    /\ UNCHANGED <<loopVars, jobVars, runtimeVars>>

(* Any operation on devices can raise. *)
OperationRaises ==
    /\ \/ Executes("boot") \/ Executes("call")
       \/ Executes("release") /\ Registered
    /\ Raise
    /\ UNCHANGED <<loopVars, jobVars, runtimeVars>>

OtherWorkerSteps ==
    /\ Take \/ SetDone \/ SetError \/ Leave
    /\ UNCHANGED <<loopVars, jobVars, runtimeVars>>

-----------------------------------------------------------------------------
Requests(h) ==
    \/ \E p \in Payloads, skipBoot \in BOOLEAN : Configure(h, p, skipBoot)
    \/ BootRequested(h)
    \/ \E wait \in BOOLEAN : Call(h, wait)
    \/ Release(h)

HandlerSteps(h) ==
    Configured(h) \/ BootBegins(h) \/ BootPolled(h) \/ Called(h) \/ Released(h)

Worker ==
    \/ JobStarts \/ ConfigureReturns \/ ConfigureRaises \/ BootReturns
    \/ ReleaseReturns \/ CallReturns \/ OperationRaises \/ OtherWorkerSteps

Next ==
    \/ \E h \in Handlers : Requests(h) \/ HandlerSteps(h)
    \/ Worker

Spec == Init /\ [][Next]_vars

(* The loop resumes every handler whose await is over, the worker thread   *)
(* is scheduled, and every operation on devices ends, as pexpect waits     *)
(* with a timeout.                                                         *)
FairSpec ==
    Spec /\ WF_vars(Worker) /\ \A h \in Handlers : WF_vars(HandlerSteps(h))

-----------------------------------------------------------------------------
(* Properties *)

(* The session only moves forward, CREATED, CONFIGURED, BOOTING, then      *)
(* READY or FAILED, although configure() can be called at any time: the    *)
(* process's one DeviceManager lets only one configuration succeed.        *)
SessionMovesForward ==
    [][session' # session =>
          <<session, session'>> \in {<<"created", "configured">>,
              <<"configured", "booting">>, <<"booting", "ready">>,
              <<"booting", "failed">>}]_vars

(* The board is booted at most once, whatever boot requests race.          *)
BootedOnce ==
    \A i, j \in Jobs : kind[i] = "boot" /\ kind[j] = "boot" => i = j

(* When the boot chain runs, devices are registered and do not change any  *)
(* more, even if a later configuration fails: boot() never finds them      *)
(* missing.                                                                *)
BootHasDevices == Executes("boot") => Registered

(* READY is said of a board whose boot chain completed, FAILED of one      *)
(* whose boot chain did not: the poll never takes a failed boot, or one    *)
(* that has not ended, for a successful one.                               *)
ReadyIsBooted ==
    /\ session = "ready" => booted # "none"
    /\ session = "failed" => booted = "none"

(* The runtime is released once: by the first DELETE or at the end of the  *)
(* process.  A second release would find the queue shut down and raise.    *)
ReleasedOnce ==
    /\ \A i, j \in Jobs : kind[i] = "release" /\ kind[j] = "release" => i = j
    /\ \A j \in Jobs : kind[j] = "release" /\ state[j] = "queued" => InFlight(j)

(* Every request that waits for a job is answered, also when the queue is  *)
(* shut down under it.                                                     *)
RequestsAreAnswered ==
    \A h \in Handlers :
        request[h].at \in {"configuring", "calling", "releasing"}
            ~> RequestAt(h, "idle")

(* A boot ends in READY or FAILED. *)
BootEnds == session = "booting" ~> session \in {"ready", "failed"}

-----------------------------------------------------------------------------
(* Why they hold: the inductive invariant. *)

(* The operation of a job returned. *)
Succeeds(j) == state[j] = "done" \/ (WorkerAt("returned") /\ worker.job = j)

(* A job was submitted with its kind, and nobody cancels it. *)
Kinds ==
    \A j \in Jobs :
        /\ kind[j] # "none" <=> j <= submitted
        /\ kind[j] = "configure" => posted[j] \in Payloads
        /\ state[j] # "cancelled"
        /\ error[j] => state[j] = "error"

(* A handler that waits has a job of its own, of the kind it waits for. *)
Waits ==
    /\ \A h \in Handlers :
          /\ request[h].job = None <=> request[h].at \in {"idle", "scheduled"}
          /\ RequestAt(h, "configuring") => kind[request[h].job] = "configure"
          /\ RequestAt(h, "polling") => kind[request[h].job] = "boot"
          /\ RequestAt(h, "calling") => kind[request[h].job] = "call"
          /\ RequestAt(h, "releasing") => kind[request[h].job] = "release"
    /\ \A g, h \in Handlers : request[g].job # None /\ request[g].job = request[h].job => g = h

(* One configuration succeeds; the session learns of it once.              *)
ConfiguredOnce ==
    /\ \A j \in Jobs : kind[j] = "configure" /\ Succeeds(j) => manager /\ Registered
    /\ \A i, j \in Jobs :
          kind[i] = "configure" /\ Succeeds(i) /\ kind[j] = "configure" /\ Succeeds(j) => i = j
    /\ session # "created" => \E j \in Jobs : kind[j] = "configure" /\ state[j] = "done"
    /\ \A h \in Handlers :
          RequestAt(h, "configuring") /\ Succeeds(request[h].job) => session = "created"

(* The one boot job tells what became of the boot. *)
BootAccounted ==
    /\ BootedOnce
    /\ \A j \in Jobs : kind[j] = "boot" =>
          /\ session \in {"booting", "ready", "failed"}
          /\ Succeeds(j) => booted # "none"
    /\ \A h \in Handlers : RequestAt(h, "polling") => session = "booting"
    /\ booted # "none" => \E j \in Jobs : kind[j] = "boot" /\ Succeeds(j)
    /\ Executes("boot") => bootMode # "none"
    /\ session = "failed" => \E j \in Jobs : kind[j] = "boot" /\ state[j] = "error"
    /\ ~Preemptive => ~WorkerAt("raised") /\ (session = "ready" => booted # "none")

(* The queue is open until the one release job is done. *)
ReleaseAccounted ==
    /\ \A j \in Jobs : kind[j] = "release" => released
    /\ \A i, j \in Jobs : kind[i] = "release" /\ kind[j] = "release" => i = j
    /\ ~open => \E j \in Jobs : kind[j] = "release" /\ state[j] = "done"

(* The properties of the agent, for any number of handlers and jobs,       *)
(* follow from this, which every step keeps.                               *)
AgentInv ==
    /\ TypeOK /\ QueueInv
    /\ Kinds /\ Waits /\ ConfiguredOnce /\ BootAccounted /\ ReleaseAccounted
=============================================================================
