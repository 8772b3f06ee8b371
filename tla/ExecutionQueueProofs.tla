------------------------ MODULE ExecutionQueueProofs ------------------------
(***************************************************************************)
(* Proofs about ExecutionQueue, for any number of jobs and of records and  *)
(* whether threads switch between two assignments or not: its inductive    *)
(* invariant, and from it what the records and _running say and in which   *)
(* order jobs run.                                                         *)
(***************************************************************************)
EXTENDS ExecutionQueue, TLAPS

-----------------------------------------------------------------------------
(* Types *)

(* Jobs are numbers, and None is none of them. *)
LEMMA JobsAreNumbers == Jobs \subseteq Nat /\ None \notin Jobs
BY NumJobsAssumption, NoJobAssumption DEF Jobs

(* Storing a record keeps the records a sequence within its limit. *)
LEMMA RecordTyped ==
    ASSUME records \in Seq(Jobs), Len(records) <= MaxJobs, NEW j \in Jobs
    PROVE  Record(j) \in Seq(Jobs) /\ Len(Record(j)) <= MaxJobs
<1> DEFINE kept == Append(records, j)
<1>1. kept \in Seq(Jobs) /\ Len(kept) = Len(records) + 1 /\ Len(records) \in Nat
  OBVIOUS
<1>2. Len(kept) > MaxJobs => Tail(kept) \in Seq(Jobs) /\ Len(Tail(kept)) = Len(records)
  BY <1>1, MaxJobsAssumption
<1> HIDE DEF kept
<1>3. Record(j) = IF Len(kept) > MaxJobs THEN Tail(kept) ELSE kept
  BY DEF Record, kept
<1> QED
  BY <1>1, <1>2, <1>3, MaxJobsAssumption

(* Whoever the worker takes was waiting. *)
LEMMA HeadTyped ==
    ASSUME pending \in Seq(Jobs), pending # <<>>
    PROVE  /\ Head(pending) \in Jobs /\ Tail(pending) \in Seq(Jobs)
           /\ Head(pending) = pending[1] /\ 1 \in DOMAIN pending
           /\ DOMAIN Tail(pending) = 1 .. Len(pending) - 1
           /\ DOMAIN pending = 1 .. Len(pending) /\ Len(pending) \in Nat
           /\ \A i \in DOMAIN Tail(pending) : i + 1 \in DOMAIN pending /\ Tail(pending)[i] = pending[i + 1]
  OBVIOUS

(* Those that wait are jobs. *)
LEMMA WaitingTyped ==
    ASSUME pending \in Seq(Jobs) PROVE \A i \in DOMAIN pending : pending[i] \in Jobs
  OBVIOUS

(* Every step keeps the types. *)
LEMMA TypesKept ==
    ASSUME QueueTypeOK, WorkerPlaces, [QueueNext]_queueVars
    PROVE  QueueTypeOK'
<1>1. ASSUME NEW j \in Jobs, Submit(j) PROVE QueueTypeOK'
  <2>1. submitted' \in 0 .. NumJobs
    BY <1>1, NumJobsAssumption DEF Submit, Jobs
  <2>2. records' \in Seq(Jobs) /\ Len(records') <= MaxJobs
    BY <1>1, RecordTyped DEF Submit, QueueTypeOK
  <2>3. pending' \in Seq(Jobs)
    BY <1>1 DEF Submit, QueueTypeOK
  <2> QED
    BY <1>1, <2>1, <2>2, <2>3 DEF Submit, QueueTypeOK
<1>2. ASSUME NEW j \in Jobs, Cancel(j) PROVE QueueTypeOK'
  BY <1>2 DEF Cancel, QueueTypeOK, Terminal
<1>3. CASE Shutdown
  <2>1. <<>> \in Seq(Jobs)
    OBVIOUS
  <2> QED
    BY <1>3, <2>1 DEF Shutdown, QueueTypeOK
<1>4. CASE Take
  <2>1. worker' \in [at : {"idle", "taken", "calling", "returned", "raised", "leaving"},
                     job : Jobs \cup {None}]
    BY <1>4, HeadTyped DEF Take, QueueTypeOK
  <2> QED
    BY <1>4, <2>1, HeadTyped DEF Take, QueueTypeOK
<1>5. CASE WorkerSteps /\ ~Take
  <2>1. worker.job \in Jobs
    BY <1>5 DEF WorkerSteps, Start, Return, SetDone, Raise, SetError, Leave, WorkerAt,
                WorkerPlaces, QueueTypeOK
  <2>2. worker' \in [at : {"idle", "taken", "calling", "returned", "raised", "leaving"},
                     job : Jobs \cup {None}]
    BY <1>5 DEF WorkerSteps, Start, Return, SetDone, Raise, SetError, Leave, WorkerAt, WorkerGoto,
                WorkerIdle, QueueTypeOK
  <2>3. state' \in [Jobs -> {"none", "queued", "running"} \cup Terminal]
    BY <1>5, <2>1 DEF WorkerSteps, Start, Return, SetDone, Raise, SetError, Leave, Terminal, QueueTypeOK
  <2>4. error' \in [Jobs -> BOOLEAN] /\ running' \in Jobs \cup {None}
    BY <1>5, <2>1 DEF WorkerSteps, Start, Return, SetDone, Raise, SetError, Leave, QueueTypeOK
  <2> QED
    BY <1>5, <2>2, <2>3, <2>4
       DEF WorkerSteps, Start, Return, SetDone, Raise, SetError, Leave, QueueTypeOK
<1>6. CASE UNCHANGED queueVars
  BY <1>6 DEF queueVars, QueueTypeOK
<1> QED
  BY <1>1, <1>2, <1>3, <1>4, <1>5, <1>6 DEF QueueNext

-----------------------------------------------------------------------------
(* The inductive invariant *)

(* What appending a job does to the positions of those that wait. *)
LEMMA AppendTyped ==
    ASSUME pending \in Seq(Jobs), NEW j \in Jobs
    PROVE  /\ DOMAIN Append(pending, j) = 1 .. Len(pending) + 1
           /\ \A i \in DOMAIN pending :
                 i \in DOMAIN Append(pending, j) /\ Append(pending, j)[i] = pending[i]
           /\ Append(pending, j)[Len(pending) + 1] = j
           /\ DOMAIN pending = 1 .. Len(pending) /\ Len(pending) \in Nat
  OBVIOUS

(* Initially nothing was submitted, nothing waits, and the worker is idle. *)
LEMMA InvInit == QueueInit => QueueInv
<1> SUFFICES ASSUME QueueInit PROVE QueueInv
  OBVIOUS
<1>1. QueueTypeOK
  <2>1. records \in Seq(Jobs) /\ Len(records) = 0 /\ pending \in Seq(Jobs)
    BY DEF QueueInit
  <2> QED
    BY <2>1, NumJobsAssumption, MaxJobsAssumption DEF QueueInit, QueueTypeOK, WorkerIdle
<1>2. InOrder
  BY NumJobsAssumption DEF QueueInit, InOrder, WorkerIdle, Jobs
<1>3. WorkerPlaces
  BY DEF QueueInit, WorkerPlaces, WorkerAt, WorkerIdle
<1>4. StatesAccounted
  <2>1. Range(pending) = {}
    BY DEF QueueInit, Range
  <2> QED
    BY <2>1 DEF QueueInit, StatesAccounted
<1>5. EarlierAreOver
  BY DEF QueueInit, EarlierAreOver, WorkerIdle
<1> QED
  BY <1>1, <1>2, <1>3, <1>4, <1>5 DEF QueueInv

(* A submitted job is the youngest: it waits behind all others. *)
LEMMA SubmitKeeps ==
    ASSUME QueueInv, NEW j \in Jobs, Submit(j)
    PROVE  InOrder' /\ WorkerPlaces' /\ StatesAccounted' /\ EarlierAreOver'
<1> USE DEF QueueInv
<1>1. j \in Nat /\ j = submitted + 1 /\ submitted' = j /\ submitted \in Nat /\ Jobs \subseteq Nat
  BY JobsAreNumbers, NumJobsAssumption DEF Submit, QueueTypeOK
<1>2. state[j] = "none" /\ state' = [state EXCEPT ![j] = "queued"] /\ state'[j] = "queued"
  BY <1>1 DEF Submit, InOrder, QueueTypeOK
<1>3. worker.job # j /\ worker' = worker
  BY <1>1, JobsAreNumbers DEF Submit, InOrder
<1>4. worker.job \in Nat \cup {None}
  BY <1>1 DEF QueueTypeOK
<1>5. pending \in Seq(Jobs)
  BY DEF QueueTypeOK
<1>6. \A i \in DOMAIN pending : pending[i] \in Nat /\ pending[i] < j
  <2>1. \A i \in DOMAIN pending : pending[i] \in Nat /\ pending[i] <= submitted
    BY <1>1, <1>5, WaitingTyped DEF InOrder
  <2> QED
    BY <2>1, <1>1
<1>7. InOrder'
  <2>1. \A i \in Jobs : state'[i] # "none" <=> i <= submitted'
    BY <1>1, <1>2 DEF InOrder, QueueTypeOK
  <2>2. CASE open
    <3>1. pending' = Append(pending, j)
      BY <2>2 DEF Submit
    <3> QED
      BY <2>1, <3>1, <1>1, <1>3, <1>4, <1>5, <1>6, AppendTyped DEF InOrder
  <2>3. CASE ~open
    BY <2>1, <2>3, <1>1, <1>3, <1>4, <1>6 DEF Submit, InOrder
  <2> QED
    BY <2>2, <2>3
<1>8. WorkerPlaces'
  BY <1>2, <1>3 DEF Submit, WorkerPlaces, WorkerAt, QueueTypeOK
<1>9. Range(pending') = IF open THEN Range(pending) \cup {j} ELSE Range(pending)
  BY <1>5, AppendTyped DEF Submit, Range
<1>10. StatesAccounted'
  BY <1>2, <1>3, <1>9 DEF Submit, StatesAccounted, InFlight, WorkerAt, QueueTypeOK
<1>11. EarlierAreOver'
  BY <1>2, <1>3, <1>1, <1>4 DEF Submit, EarlierAreOver, InOrder, QueueTypeOK
<1> QED
  BY <1>7, <1>8, <1>10, <1>11

(* A cancelled job stays where it is; the worker will pass over it.        *)
LEMMA CancelKeeps ==
    ASSUME QueueInv, NEW j \in Jobs, Cancel(j)
    PROVE  InOrder' /\ WorkerPlaces' /\ StatesAccounted' /\ EarlierAreOver'
<1> USE DEF QueueInv
<1>1. state[j] = "queued" /\ state' = [state EXCEPT ![j] = "cancelled"]
      /\ \A i \in Jobs : state'[i] = IF i = j THEN "cancelled" ELSE state[i]
  BY DEF Cancel, QueueTypeOK
<1>2. UNCHANGED <<submitted, error, records, pending, worker, running, open>>
  BY DEF Cancel
<1>3. InOrder'
  BY <1>1, <1>2 DEF InOrder
<1>4. WorkerPlaces'
  BY <1>1, <1>2 DEF WorkerPlaces, WorkerAt, QueueTypeOK
<1>5. StatesAccounted'
  BY <1>1, <1>2 DEF StatesAccounted, InFlight, WorkerAt
<1>6. EarlierAreOver'
  BY <1>1, <1>2 DEF EarlierAreOver, Terminal
<1> QED
  BY <1>3, <1>4, <1>5, <1>6

(* The shutdown empties the executor's queue, and the executor is closed.  *)
LEMMA ShutdownKeeps ==
    ASSUME QueueInv, Shutdown
    PROVE  InOrder' /\ WorkerPlaces' /\ StatesAccounted' /\ EarlierAreOver'
<1> USE DEF QueueInv
<1>1. Range(pending') = {} /\ DOMAIN pending' = {} /\ pending' = <<>>
  BY DEF Shutdown, Range
<1>2. UNCHANGED <<submitted, state, error, records, worker, running>> /\ ~open'
  BY DEF Shutdown
<1>3. InOrder'
  BY <1>1, <1>2 DEF InOrder
<1>4. WorkerPlaces'
  BY <1>2 DEF WorkerPlaces, WorkerAt
<1>5. StatesAccounted'
  BY <1>1, <1>2 DEF StatesAccounted, InFlight, WorkerAt
<1>6. EarlierAreOver'
  BY <1>1, <1>2 DEF EarlierAreOver
<1> QED
  BY <1>3, <1>4, <1>5, <1>6

(* The worker takes the oldest job that waits; all that came before it     *)
(* have been taken, and are over.                                          *)
LEMMA TakeKeeps ==
    ASSUME QueueInv, Take
    PROVE  InOrder' /\ WorkerPlaces' /\ StatesAccounted' /\ EarlierAreOver'
<1> USE DEF QueueInv
<1> DEFINE head == Head(pending)
<1>1. pending \in Seq(Jobs) /\ pending # <<>> /\ worker.job = None /\ worker.at = "idle"
  BY DEF Take, QueueTypeOK, WorkerPlaces, WorkerAt
<1>2. worker' = [at |-> "taken", job |-> head] /\ pending' = Tail(pending)
      /\ UNCHANGED <<submitted, state, error, records, running, open>>
  BY DEF Take
<1>3. /\ head \in Jobs /\ head = pending[1] /\ 1 \in DOMAIN pending /\ head # None /\ head \in Nat
      /\ DOMAIN Tail(pending) = 1 .. Len(pending) - 1 /\ DOMAIN pending = 1 .. Len(pending)
      /\ Len(pending) \in Nat
      /\ \A i \in DOMAIN Tail(pending) : i + 1 \in DOMAIN pending /\ Tail(pending)[i] = pending[i + 1]
  BY <1>1, HeadTyped, JobsAreNumbers
<1> HIDE DEF head
<1>4. Range(pending) = {head} \cup Range(pending')
  <2>1. \A i \in DOMAIN pending : i = 1 \/ (i - 1 \in DOMAIN Tail(pending) /\ pending[i] = Tail(pending)[i - 1])
    BY <1>3
  <2>2. pending[1] = head
    BY <1>3
  <2>3. Range(pending) \subseteq {head} \cup Range(pending')
    BY <1>2, <2>1, <2>2 DEF Range
  <2>4. \A i \in DOMAIN pending' : pending'[i] \in Range(pending)
    BY <1>2, <1>3 DEF Range
  <2>5. Range(pending') \subseteq Range(pending)
    BY <2>4 DEF Range
  <2>6. head \in Range(pending)
    BY <1>3, <2>2 DEF Range
  <2> QED
    BY <2>3, <2>5, <2>6
<1>5. state[head] \in {"queued", "cancelled"}
  BY <1>3, <1>4 DEF StatesAccounted
<1>6. InOrder'
  <2>1. \A i, k \in DOMAIN pending' : i < k => pending'[i] < pending'[k]
    BY <1>2, <1>3 DEF InOrder
  <2>2. \A i \in DOMAIN pending' : head < pending'[i] /\ pending'[i] <= submitted
    BY <1>2, <1>3 DEF InOrder
  <2> QED
    BY <1>2, <1>3, <2>1, <2>2 DEF InOrder
<1>7. WorkerPlaces'
  BY <1>1, <1>2, <1>3, <1>5 DEF WorkerPlaces, WorkerAt
<1>8. StatesAccounted'
  <2>1. \A j \in Jobs : InFlight(j)' <=> InFlight(j)
    BY <1>1, <1>2, <1>4, JobsAreNumbers DEF InFlight
  <2> QED
    BY <1>1, <1>2, <1>4, <2>1, JobsAreNumbers DEF StatesAccounted, WorkerAt
<1>9. EarlierAreOver'
  <2>1. open
    BY <1>1 DEF EarlierAreOver
  <2>2. ASSUME NEW i \in Jobs, i < head PROVE state[i] \in Terminal
    <3>1. i \in Nat /\ submitted \in Nat /\ head <= submitted
      BY <1>3, JobsAreNumbers, NumJobsAssumption DEF InOrder, QueueTypeOK
    <3>2. state[i] # "none"
      BY <2>2, <3>1, <1>3 DEF InOrder
    <3>3. i \notin Range(pending)
      <4>1. \A k \in DOMAIN pending : head <= pending[k] /\ pending[k] \in Nat
        <5>1. \A k \in DOMAIN pending : pending[k] \in Nat
          BY <1>1, WaitingTyped, JobsAreNumbers
        <5> QED
          BY <1>3, <5>1 DEF InOrder
      <4> QED
        BY <2>2, <3>1, <1>3, <4>1 DEF Range
    <3>4. state[i] \notin {"running", "queued"}
      BY <2>1, <3>3, <1>1, JobsAreNumbers DEF StatesAccounted, InFlight
    <3> QED
      BY <3>2, <3>4 DEF QueueTypeOK
  <2> QED
    BY <1>2, <2>1, <2>2 DEF EarlierAreOver
<1> QED
  BY <1>6, <1>7, <1>8, <1>9

(* The worker passes over a cancelled job, or calls its operation.         *)
LEMMA StartKeeps ==
    ASSUME QueueInv, Start
    PROVE  InOrder' /\ WorkerPlaces' /\ StatesAccounted' /\ EarlierAreOver'
<1> USE DEF QueueInv
<1> DEFINE j == worker.job
<1>1. /\ j \in Jobs /\ j # None /\ worker.at = "taken" /\ running = None
      /\ state[j] \in {"queued", "cancelled"}
      /\ UNCHANGED <<submitted, error, records, pending, open>>
  BY JobsAreNumbers DEF Start, WorkerPlaces, WorkerAt, QueueTypeOK
<1>2. j \in Nat /\ \A i \in DOMAIN pending : pending[i] \in Nat /\ j < pending[i]
  BY <1>1, JobsAreNumbers, WaitingTyped DEF InOrder, QueueTypeOK
<1>3. j \notin Range(pending)
  BY <1>2 DEF Range
<1>4. CASE state[j] = "cancelled"
  <2>1. worker' = WorkerIdle /\ UNCHANGED <<state, running>>
    BY <1>4 DEF Start
  <2>2. worker'.at = "idle" /\ worker'.job = None
    BY <2>1 DEF WorkerIdle
  <2>3. InOrder'
    BY <1>1, <2>1, <2>2 DEF InOrder
  <2>4. WorkerPlaces'
    BY <1>1, <2>1, <2>2 DEF WorkerPlaces, WorkerAt
  <2>5. StatesAccounted'
    BY <1>1, <1>4, <2>1, <2>2 DEF StatesAccounted, InFlight, WorkerAt
  <2>6. EarlierAreOver'
    BY <1>1, <2>1, <2>2 DEF EarlierAreOver
  <2> QED
    BY <2>3, <2>4, <2>5, <2>6
<1>5. CASE state[j] # "cancelled"
  <2>1. /\ \A i \in Jobs : state'[i] = IF i = j THEN "running" ELSE state[i]
        /\ running' = j /\ worker'.at = "calling" /\ worker'.job = j
    BY <1>1, <1>5 DEF Start, WorkerGoto, QueueTypeOK
  <2>2. InOrder'
    BY <1>1, <2>1 DEF InOrder
  <2>3. WorkerPlaces'
    BY <1>1, <2>1 DEF WorkerPlaces, WorkerAt
  <2>4. StatesAccounted'
    BY <1>1, <1>3, <2>1 DEF StatesAccounted, InFlight, WorkerAt
  <2>5. EarlierAreOver'
    <3>1. \A i \in Jobs : i < j => state'[i] \in Terminal
      BY <1>1, <1>2, <2>1 DEF EarlierAreOver, Terminal
    <3> QED
      BY <1>1, <2>1, <3>1 DEF EarlierAreOver
  <2> QED
    BY <2>2, <2>3, <2>4, <2>5
<1> QED
  BY <1>4, <1>5

(* The steps between the call and the finally block give the job its       *)
(* outcome.                                                                *)
LEMMA OutcomeKeeps ==
    ASSUME QueueInv, Return \/ SetDone \/ Raise \/ SetError
    PROVE  InOrder' /\ WorkerPlaces' /\ StatesAccounted' /\ EarlierAreOver'
<1> USE DEF QueueInv
<1> DEFINE j == worker.job
<1>1. /\ j \in Jobs /\ j # None /\ running = j /\ worker'.job = j
      /\ worker.at \in {"calling", "returned", "raised"}
      /\ worker'.at \in {"returned", "raised", "leaving"}
      /\ UNCHANGED <<submitted, records, pending, running, open>>
  BY JobsAreNumbers
     DEF Return, SetDone, Raise, SetError, WorkerPlaces, WorkerAt, WorkerGoto, QueueTypeOK
<1>2. /\ state[j] \in {"running", "error"} /\ state'[j] \in {"running", "done", "error"}
      /\ \A i \in Jobs \ {j} : state'[i] = state[i] /\ error'[i] = error[i]
  BY <1>1 DEF Return, SetDone, Raise, SetError, WorkerPlaces, WorkerAt, QueueTypeOK
<1>3. /\ worker'.at = "returned" => state'[j] = "running"
      /\ worker'.at = "raised" => state'[j] = "error"
      /\ worker'.at = "leaving" => state'[j] = "done" \/ (state'[j] = "error" /\ error'[j])
  BY <1>1 DEF Return, SetDone, Raise, SetError, WorkerPlaces, WorkerAt, WorkerGoto, QueueTypeOK
<1>4. j \notin Range(pending)
  BY <1>1, <1>2 DEF StatesAccounted
<1>5. InOrder'
  BY <1>1, <1>2 DEF InOrder
<1>6. WorkerPlaces'
  BY <1>1, <1>2, <1>3 DEF WorkerPlaces, WorkerAt
<1>7. StatesAccounted'
  <2>1. ASSUME NEW i \in Jobs \ {j}
        PROVE  /\ state'[i] = "running" => worker'.job = i
               /\ state'[i] = "queued" => InFlight(i)' \/ ~open'
               /\ state'[i] = "error" => error'[i]
               /\ i \in Range(pending)' => state'[i] \in {"queued", "cancelled"}
    BY <1>1, <1>2 DEF StatesAccounted, InFlight
  <2>2. /\ state'[j] = "error" => error'[j] \/ WorkerAt("raised")'
        /\ state'[j] # "queued" /\ j \notin Range(pending)'
    BY <1>1, <1>2, <1>3, <1>4 DEF WorkerAt
  <2> QED
    BY <1>1, <2>1, <2>2 DEF StatesAccounted
<1>8. EarlierAreOver'
  <2>1. \A i \in Jobs : i < j => i # j
    BY <1>1, JobsAreNumbers
  <2> QED
    BY <1>1, <1>2, <2>1 DEF EarlierAreOver
<1> QED
  BY <1>5, <1>6, <1>7, <1>8

(* The job the worker leaves has its outcome, so the next may begin.       *)
LEMMA LeaveKeeps ==
    ASSUME QueueInv, Leave
    PROVE  InOrder' /\ WorkerPlaces' /\ StatesAccounted' /\ EarlierAreOver'
<1> USE DEF QueueInv
<1>1. /\ worker.job \in Jobs /\ worker.at = "leaving" /\ state[worker.job] \in {"done", "error"}
      /\ worker'.at = "idle" /\ worker'.job = None /\ running' = None
      /\ UNCHANGED <<submitted, state, error, records, pending, open>>
  BY DEF Leave, WorkerPlaces, WorkerAt, WorkerIdle, QueueTypeOK
<1>2. InOrder'
  BY <1>1 DEF InOrder
<1>3. WorkerPlaces'
  BY <1>1 DEF WorkerPlaces, WorkerAt
<1>4. StatesAccounted'
  BY <1>1 DEF StatesAccounted, InFlight, WorkerAt
<1>5. EarlierAreOver'
  BY <1>1 DEF EarlierAreOver
<1> QED
  BY <1>2, <1>3, <1>4, <1>5

(* Every step keeps the inductive invariant. *)
LEMMA InvKept == QueueInv /\ [QueueNext]_queueVars => QueueInv'
<1> SUFFICES ASSUME QueueInv, [QueueNext]_queueVars PROVE QueueInv'
  OBVIOUS
<1>1. QueueTypeOK'
  BY TypesKept DEF QueueInv
<1>2. CASE UNCHANGED queueVars
  BY <1>2 DEF queueVars, QueueInv, QueueTypeOK, InOrder, WorkerPlaces, WorkerAt, StatesAccounted,
              InFlight, EarlierAreOver
<1>3. ASSUME NEW j \in Jobs, Submit(j) \/ Cancel(j) PROVE QueueInv'
  BY <1>1, <1>3, SubmitKeeps, CancelKeeps DEF QueueInv
<1>4. CASE Shutdown
  BY <1>1, <1>4, ShutdownKeeps DEF QueueInv
<1>5. CASE WorkerSteps
  BY <1>1, <1>5, TakeKeeps, StartKeeps, OutcomeKeeps, LeaveKeeps DEF WorkerSteps, QueueInv
<1> QED
  BY <1>2, <1>3, <1>4, <1>5 DEF QueueNext

(* The inductive invariant holds in every behaviour of the queue: for any  *)
(* number of jobs, whatever max_jobs is, and whenever threads switch.      *)
THEOREM QueueInvariant == QueueSpec => []QueueInv
  BY InvInit, InvKept, PTL DEF QueueSpec

-----------------------------------------------------------------------------
(* What the callers of the queue rely on *)

(* Every variable of the queue keeps its type. *)
THEOREM QueueTypeCorrect == QueueSpec => []QueueTypeOK
<1>1. QueueInv => QueueTypeOK
  BY DEF QueueInv
<1> QED
  BY <1>1, QueueInvariant, PTL

(* _running names the job whose operation executes: what running_job() and *)
(* the liveness of the agent report.                                       *)
THEOREM RunningIsKnown == QueueSpec => []RunningIsExecuting
<1>1. QueueInv => RunningIsExecuting
  <2> SUFFICES ASSUME QueueInv PROVE RunningIsExecuting
    OBVIOUS
  <2>1. running # None => worker.job = running /\ state[running] # "queued"
    BY JobsAreNumbers DEF QueueInv, QueueTypeOK, WorkerPlaces, WorkerAt
  <2> QED
    BY <2>1 DEF QueueInv, WorkerPlaces, WorkerAt, RunningIsExecuting
<1> QED
  BY <1>1, QueueInvariant, PTL

(* A caller whose future resolved finds the outcome in the record, and the *)
(* error of a job that failed: the executor resolves it after _run has     *)
(* assigned both, whenever the threads switch.                             *)
THEOREM OutcomeIsKnown == QueueSpec => []OutcomeIsRecorded
<1>1. QueueInv => OutcomeIsRecorded
  BY DEF QueueInv, StatesAccounted, InFlight, OutcomeIsRecorded
<1> QED
  BY <1>1, QueueInvariant, PTL

(* No step changes a state that is final, though cancel and the worker     *)
(* both write states: only a job that waits is cancelled, and one that is  *)
(* cancelled is not started.                                               *)
THEOREM OutcomesAreFinal == QueueSpec => OutcomeIsFinal
<1>1. QueueInv /\ [QueueNext]_queueVars =>
        [\A j \in Jobs : state[j] \in Terminal => state'[j] = state[j]]_queueVars
  <2> SUFFICES ASSUME QueueInv, QueueNext, NEW j \in Jobs, state[j] \in Terminal
               PROVE  state'[j] = state[j]
    OBVIOUS
  <2>1. ASSUME NEW i \in Jobs, Submit(i) PROVE state'[j] = state[j]
    <3>1. i \in Nat /\ submitted \in Nat /\ i = submitted + 1
      BY <2>1, JobsAreNumbers, NumJobsAssumption DEF Submit, QueueInv, QueueTypeOK
    <3>2. state[i] = "none"
      BY <3>1 DEF QueueInv, InOrder
    <3> QED
      BY <2>1, <3>2 DEF Submit, Terminal, QueueInv, QueueTypeOK
  <2>2. ASSUME NEW i \in Jobs, Cancel(i) PROVE state'[j] = state[j]
    BY <2>2 DEF Cancel, Terminal, QueueInv, QueueTypeOK
  <2>3. CASE Shutdown \/ Take \/ Return \/ SetError \/ Leave
    BY <2>3 DEF Shutdown, Take, Return, SetError, Leave
  <2>4. CASE Start \/ SetDone \/ Raise
    BY <2>4 DEF Start, SetDone, Raise, Terminal, QueueInv, QueueTypeOK, WorkerPlaces, WorkerAt
  <2> QED
    BY <2>1, <2>2, <2>3, <2>4 DEF QueueNext, WorkerSteps
<1> QED
  BY <1>1, QueueInvariant, PTL DEF QueueSpec, OutcomeIsFinal

(* A job starts when all that were submitted before it are over: there is  *)
(* one worker, it takes the oldest, and the shutdown drops them all.       *)
THEOREM JobsAreSerial == QueueSpec => SerialInOrder
<1>1. QueueInv /\ [QueueNext]_queueVars =>
        [\A j \in Jobs : state[j] # "running" /\ state'[j] = "running" =>
            \A i \in 1 .. (j - 1) : state[i] \in Terminal]_queueVars
  <2> SUFFICES ASSUME QueueInv, QueueNext, NEW j \in Jobs,
                      state[j] # "running", state'[j] = "running",
                      NEW i \in 1 .. (j - 1)
               PROVE  state[i] \in Terminal
    OBVIOUS
  <2>1. i \in Jobs /\ i < j
    BY NumJobsAssumption DEF Jobs
  <2>2. Start /\ worker.job = j
    <3>1. ASSUME NEW k \in Jobs, Submit(k) \/ Cancel(k) PROVE FALSE
      BY <3>1 DEF Submit, Cancel, QueueInv, QueueTypeOK
    <3>2. ~(Shutdown \/ Take \/ Return \/ SetDone \/ Raise \/ SetError \/ Leave)
      BY DEF Shutdown, Take, Return, SetDone, Raise, SetError, Leave, QueueInv, QueueTypeOK
    <3>3. Start
      BY <3>1, <3>2 DEF QueueNext, WorkerSteps
    <3> QED
      BY <3>3 DEF Start, QueueInv, QueueTypeOK
  <2> QED
    BY <2>1, <2>2, JobsAreNumbers DEF QueueInv, EarlierAreOver
<1> QED
  BY <1>1, QueueInvariant, PTL DEF QueueSpec, SerialInOrder
=============================================================================
