--------------------------- MODULE ExecutionQueue ---------------------------
(***************************************************************************)
(* ExecutionQueue (src/boardfarm3/api/execution.py): a ThreadPoolExecutor  *)
(* of one worker runs every operation on the devices.  The event loop      *)
(* submits jobs and reads their records while the worker writes them; only *)
(* the start, the cancellation and _running are under the lock.            *)
(***************************************************************************)
EXTENDS Naturals, SequencesExt

CONSTANTS
    NumJobs,    \* how many jobs are submitted: a bound of the model
    MaxJobs,    \* the records kept (max_jobs)
    Preemptive, \* whether threads can switch between any two assignments
    None

ASSUME NumJobsAssumption == NumJobs \in Nat
ASSUME MaxJobsAssumption == MaxJobs \in Nat \ {0}
(* CPython with its GIL switches at calls and loops only, so the loop does  *)
(* not see one of two adjacent assignments of the worker without the other *)
ASSUME PreemptiveAssumption == Preemptive \in BOOLEAN
ASSUME NoJobAssumption == None \notin Nat

Jobs == 1 .. NumJobs    \* in the order of submission

VARIABLES
    submitted,  \* how many jobs were submitted
    state,      \* Job.state
    error,      \* whether Job.error is set
    records,    \* _jobs, oldest first
    pending,    \* the executor's work items, oldest first
    worker,     \* where the worker thread stands, and with which job
    running,    \* _running
    open        \* whether the executor accepts work

queueVars == <<submitted, state, error, records, pending, worker, running, open>>

Terminal == {"done", "error", "cancelled"}
WorkerIdle == [at |-> "idle", job |-> None]

QueueTypeOK ==
    /\ submitted \in 0 .. NumJobs
    /\ state \in [Jobs -> {"none", "queued", "running"} \cup Terminal]
    /\ error \in [Jobs -> BOOLEAN]
    /\ records \in Seq(Jobs) /\ Len(records) <= MaxJobs
    /\ pending \in Seq(Jobs)
    /\ worker \in [at : {"idle", "taken", "calling", "returned", "raised", "leaving"},
                   job : Jobs \cup {None}]
    /\ running \in Jobs \cup {None}
    /\ open \in BOOLEAN

QueueInit ==
    /\ submitted = 0
    /\ state = [j \in Jobs |-> "none"]
    /\ error = [j \in Jobs |-> FALSE]
    /\ records = <<>>
    /\ pending = <<>>
    /\ worker = WorkerIdle
    /\ running = None
    /\ open = TRUE

(* The future of a job that is in flight is not resolved. *)
InFlight(j) == j \in Range(pending) \/ worker.job = j

-----------------------------------------------------------------------------
(* The event loop.  A definition named Defect_X, here and below, is what X *)
(* could have been by mistake; no action uses it.                          *)

(* _record: store a record, drop the oldest beyond the limit. *)
Record(j) ==
    LET kept == Append(records, j)
    IN  IF Len(kept) > MaxJobs THEN Tail(kept) ELSE kept

Defect_Submit(j) ==
    /\ submitted < NumJobs /\ j = submitted + 1
    /\ submitted' = j
    /\ state' = [state EXCEPT ![j] = "queued"]
    /\ records' = Record(j)
    /\ pending' = IF open THEN <<j>> \o pending ELSE pending
    /\ UNCHANGED <<error, worker, running, open>>

(* submit up to its first await.  An executor that was shut down raises,   *)
(* after the job was recorded.                                             *)
Submit(j) ==
    /\ submitted < NumJobs /\ j = submitted + 1
    /\ submitted' = j
    /\ state' = [state EXCEPT ![j] = "queued"]
    /\ records' = Record(j)
    /\ pending' = IF open THEN Append(pending, j) ELSE pending
    /\ UNCHANGED <<error, worker, running, open>>

Defect_Cancel(j) ==
    /\ j \in Range(records)
    /\ state[j] \in {"queued", "running"}
    /\ state' = [state EXCEPT ![j] = "cancelled"]
    /\ UNCHANGED <<submitted, error, records, pending, worker, running, open>>

(* cancel: only a job that has not started. *)
Cancel(j) ==
    /\ j \in Range(records)
    /\ state[j] = "queued"
    /\ state' = [state EXCEPT ![j] = "cancelled"]
    /\ UNCHANGED <<submitted, error, records, pending, worker, running, open>>

Defect_Shutdown ==
    /\ open
    /\ open' = FALSE
    /\ UNCHANGED <<submitted, state, error, records, pending, worker, running>>

(* shutdown(wait=False, cancel_futures=True): what waits is dropped, its   *)
(* futures are cancelled, its records stay as they are.                    *)
Shutdown ==
    /\ open
    /\ open' = FALSE
    /\ pending' = <<>>
    /\ UNCHANGED <<submitted, state, error, records, worker, running>>

-----------------------------------------------------------------------------
(* The worker thread: _run *)

WorkerAt(place) == worker.at = place
WorkerGoto(place) == worker' = [worker EXCEPT !.at = place]

Take ==
    /\ WorkerAt("idle") /\ pending # <<>>
    /\ worker' = [at |-> "taken", job |-> Head(pending)]
    /\ pending' = Tail(pending)
    /\ UNCHANGED <<submitted, state, error, records, running, open>>

Defect_Start ==
    /\ WorkerAt("taken")
    /\ state' = [state EXCEPT ![worker.job] = "running"]
    /\ running' = worker.job
    /\ WorkerGoto("calling")
    /\ UNCHANGED <<submitted, error, records, pending, open>>

(* Under the lock: a cancelled job is not run. *)
Start ==
    /\ WorkerAt("taken")
    /\ IF state[worker.job] = "cancelled"
       THEN worker' = WorkerIdle /\ UNCHANGED <<state, running>>
       ELSE /\ state' = [state EXCEPT ![worker.job] = "running"]
            /\ running' = worker.job
            /\ WorkerGoto("calling")
    /\ UNCHANGED <<submitted, error, records, pending, open>>

(* func() returns, and the state is set; or it raises, and the state and   *)
(* the error are set, in this order.                                       *)
Return ==
    /\ WorkerAt("calling")
    /\ WorkerGoto("returned")
    /\ UNCHANGED <<submitted, state, error, records, pending, running, open>>

SetDone ==
    /\ WorkerAt("returned")
    /\ state' = [state EXCEPT ![worker.job] = "done"]
    /\ WorkerGoto("leaving")
    /\ UNCHANGED <<submitted, error, records, pending, running, open>>

Raise ==
    /\ WorkerAt("calling")
    /\ state' = [state EXCEPT ![worker.job] = "error"]
    /\ IF Preemptive
       THEN WorkerGoto("raised") /\ UNCHANGED error
       ELSE WorkerGoto("leaving") /\ error' = [error EXCEPT ![worker.job] = TRUE]
    /\ UNCHANGED <<submitted, records, pending, running, open>>

Defect_SetError ==
    /\ WorkerAt("raised")
    /\ WorkerGoto("leaving")
    /\ UNCHANGED <<submitted, state, error, records, pending, running, open>>

SetError ==
    /\ WorkerAt("raised")
    /\ error' = [error EXCEPT ![worker.job] = TRUE]
    /\ WorkerGoto("leaving")
    /\ UNCHANGED <<submitted, state, records, pending, running, open>>

Defect_Leave ==
    /\ WorkerAt("leaving")
    /\ error[worker.job] = FALSE
    /\ running' = None
    /\ worker' = WorkerIdle
    /\ UNCHANGED <<submitted, state, error, records, pending, open>>

(* The finally block, and the executor resolves the future. *)
Leave ==
    /\ WorkerAt("leaving")
    /\ running' = None
    /\ worker' = WorkerIdle
    /\ UNCHANGED <<submitted, state, error, records, pending, open>>

WorkerSteps == Take \/ Start \/ Return \/ SetDone \/ Raise \/ SetError \/ Leave

-----------------------------------------------------------------------------
QueueNext == (\E j \in Jobs : Submit(j) \/ Cancel(j)) \/ Shutdown \/ WorkerSteps

QueueSpec == QueueInit /\ [][QueueNext]_queueVars

(* The worker thread is scheduled, and every operation ends: pexpect waits *)
(* with a timeout.                                                         *)
FairQueue == QueueSpec /\ WF_queueVars(WorkerSteps)

-----------------------------------------------------------------------------
(* Properties *)

(* What is over stays over: a job cancelled before it started never runs,  *)
(* and no late cancellation or result overwrites the outcome of a job.     *)
OutcomeIsFinal ==
    [][\A j \in Jobs : state[j] \in Terminal => state'[j] = state[j]]_queueVars

(* Jobs run one at a time and in the order of their submission: when one   *)
(* starts, all that were submitted before it are over.                     *)
SerialInOrder ==
    [][\A j \in Jobs : state[j] # "running" /\ state'[j] = "running" =>
          \A i \in 1 .. (j - 1) : state[i] \in Terminal]_queueVars

(* running_job() is the job whose operation executes, and none when the    *)
(* worker waits: liveness() and the diagnostics are read from it.          *)
RunningIsExecuting ==
    /\ WorkerAt("calling") => running = worker.job
    /\ running # None => worker.job = running /\ state[running] # "queued"

(* A caller whose future resolved finds the outcome in the job's record,   *)
(* with the error if there was one, unless the queue was shut down.        *)
OutcomeIsRecorded ==
    \A j \in Jobs : state[j] # "none" /\ ~InFlight(j) =>
        /\ state[j] = "error" => error[j]
        /\ state[j] \in {"queued", "running"} => ~open

(* Every job that is waited for ends, is cancelled, or is dropped by       *)
(* shutdown: no caller of submit waits for ever.                           *)
EveryWaitEnds == \A j \in Jobs : InFlight(j) ~> ~InFlight(j)

-----------------------------------------------------------------------------
(* Why they hold: the inductive invariant. *)

(* Who was submitted has a record of its state; the worker's job came      *)
(* before those that wait, which wait in their order.                      *)
InOrder ==
    /\ \A j \in Jobs : state[j] # "none" <=> j <= submitted
    /\ \A i \in DOMAIN pending : pending[i] <= submitted
    /\ \A i, k \in DOMAIN pending : i < k => pending[i] < pending[k]
    /\ worker.job # None =>
          /\ worker.job <= submitted
          /\ \A i \in DOMAIN pending : worker.job < pending[i]

(* What the worker's place says of its job and of _running. *)
WorkerPlaces ==
    /\ WorkerAt("idle") <=> worker.job = None
    /\ running = IF worker.at \in {"idle", "taken"} THEN None ELSE worker.job
    /\ WorkerAt("taken") => state[worker.job] \in {"queued", "cancelled"}
    /\ worker.at \in {"calling", "returned"} => state[worker.job] = "running"
    /\ WorkerAt("raised") => state[worker.job] = "error"
    /\ WorkerAt("leaving") => state[worker.job] \in {"done", "error"}

(* What a job's state says of where the job is, and of its error. *)
StatesAccounted ==
    \A j \in Jobs :
        /\ state[j] = "running" => worker.job = j
        /\ state[j] = "queued" => InFlight(j) \/ ~open
        /\ state[j] = "error" => error[j] \/ (WorkerAt("raised") /\ worker.job = j)
        /\ j \in Range(pending) => state[j] \in {"queued", "cancelled"}

(* The worker never takes a job before the earlier ones are over, nor any  *)
(* after the shutdown.                                                     *)
EarlierAreOver ==
    /\ ~open => pending = <<>>
    /\ worker.job # None => \A i \in Jobs : i < worker.job => state[i] \in Terminal

(* The queue's properties, for any number of jobs and records, follow from *)
(* this, which every step keeps.                                           *)
QueueInv == QueueTypeOK /\ InOrder /\ WorkerPlaces /\ StatesAccounted /\ EarlierAreOver
=============================================================================
