------------------------------ MODULE DeviceProofs ------------------------------
(***************************************************************************)
(* Theorems about Acs, for every list of calls, every number of attempts   *)
(* and both servers, and about Phone, for every set of operations and any  *)
(* number of them and of events of the far end.                            *)
(***************************************************************************)
EXTENDS Acs, Phone, SequenceTheorems, FiniteSetTheorems, WellFoundedInduction, TLAPS

(***************************************************************************)
(* Acs                                                                     *)
(***************************************************************************)

Queued == [call : 1 .. Len(program), attempt : Nat, waits : BOOLEAN]

(* Types, without the bounds on the queue and on the objects. *)
AcsTyped ==
    /\ keeps \in BOOLEAN
    /\ program \in Seq(Call)
    /\ client \in [at : {"calls", "waits", "sleeps", "done", "raised"},
                   call : 1 .. Len(program), attempt : Nat]
    /\ queue \in Seq(Queued)
    /\ cpe \in [inReach : BOOLEAN, value : Values \cup {NoValue}, objects : Nat, executed : Nat]

(* The client waits for the request it sent last. *)
LastIsWaitedFor ==
    \A i \in DOMAIN queue : queue[i].waits =>
        i = Len(queue) /\ client.at = "waits" /\ queue[i].call = client.call

(* What was executed and what is queued behind it leaves out no call, up   *)
(* to the one before the client's: Genie forgets no request.               *)
GenieQueuesInOrder ==
    keeps =>
        /\ \A i \in DOMAIN queue :
              queue[i].call <= (IF i = 1 THEN cpe.executed ELSE queue[i - 1].call) + 1
        /\ client.call <= (IF queue = <<>> THEN cpe.executed ELSE queue[Len(queue)].call) + 1

(* Axiros answers when a call was executed: what it still has is of the    *)
(* client's call, and all calls before it were executed.                   *)
AxirosQueuesOneCall ==
    ~keeps =>
        /\ \A i \in DOMAIN queue : queue[i].call = client.call
        /\ cpe.executed \in {client.call - 1, client.call}
        /\ client.at = "done" => cpe.executed = Len(program)

IsWrite(i) == program[i].rpc = "SPV"

(* The value is that of the last write that was executed, if there was one *)
ValueIsWritten ==
    ~keeps =>
        \/ cpe.value = NoValue /\ \A i \in 1 .. cpe.executed : ~IsWrite(i)
        \/ \E i \in 1 .. cpe.executed :
              /\ IsWrite(i) /\ cpe.value = program[i].value
              /\ \A j \in i + 1 .. cpe.executed : ~IsWrite(j)

AcsInv == AcsTyped /\ LastIsWaitedFor /\ GenieQueuesInOrder /\ AxirosQueuesOneCall /\ ValueIsWritten

(***************************************************************************)
(* Lemmas                                                                  *)
(***************************************************************************)

(* What is left of a queue without its head.                               *)
LEMMA WithoutHead ==
    ASSUME NEW S, NEW s \in Seq(S), s # <<>>
    PROVE  /\ Head(s) = s[1] /\ s[1] \in S /\ 1 \in DOMAIN s
           /\ Len(s) \in Nat /\ Len(s) > 0
           /\ Tail(s) \in Seq(S) /\ Len(Tail(s)) = Len(s) - 1
           /\ DOMAIN s = 1 .. Len(s) /\ DOMAIN Tail(s) = 1 .. Len(s) - 1
           /\ \A i \in 1 .. Len(s) - 1 : Tail(s)[i] = s[i + 1]
           /\ Tail(s) = <<>> <=> Len(s) = 1
<1>1. /\ Head(s) = s[1] /\ Len(s) \in Nat /\ Len(s) > 0 /\ s[1] \in S /\ DOMAIN s = 1 .. Len(s)
  BY LenProperties, EmptySeq, ElementOfSeq
<1>2. /\ Tail(s) \in Seq(S) /\ Len(Tail(s)) = Len(s) - 1
      /\ \A i \in 1 .. Len(Tail(s)) : Tail(s)[i] = s[i + 1]
  BY HeadTailProperties
<1>3. DOMAIN Tail(s) = 1 .. Len(s) - 1
  BY <1>2, LenProperties
<1>4. Tail(s) = <<>> <=> Len(s) = 1
  <2>1. Tail(s) = <<>> => Len(Tail(s)) = 0
    BY EmptySeq
  <2>2. Len(Tail(s)) = 0 => Tail(s) = <<>>
    BY <1>2, EmptySeq
  <2> QED
    BY <1>1, <1>2, <2>1, <2>2
<1> QED
  BY <1>1, <1>2, <1>3, <1>4

(* A queue with one more request.                                          *)
LEMMA WithOneMore ==
    ASSUME NEW S, NEW s \in Seq(S), NEW e \in S
    PROVE  /\ Append(s, e) \in Seq(S) /\ Append(s, e) # <<>>
           /\ Len(s) \in Nat /\ Len(Append(s, e)) = Len(s) + 1
           /\ DOMAIN s = 1 .. Len(s) /\ DOMAIN Append(s, e) = 1 .. Len(s) + 1
           /\ \A i \in 1 .. Len(s) : Append(s, e)[i] = s[i]
           /\ Append(s, e)[Len(s) + 1] = e
           /\ s = <<>> <=> Len(s) = 0
<1>1. Len(s) \in Nat /\ DOMAIN s = 1 .. Len(s) /\ (s = <<>> <=> Len(s) = 0)
  BY LenProperties, EmptySeq
<1>2. /\ Append(s, e) \in Seq(S) /\ Append(s, e) # <<>> /\ Len(Append(s, e)) = Len(s) + 1
      /\ \A i \in 1 .. Len(s) : Append(s, e)[i] = s[i]
      /\ Append(s, e)[Len(s) + 1] = e
  BY AppendProperties
<1>3. DOMAIN Append(s, e) = 1 .. Len(s) + 1
  BY <1>2, LenProperties
<1> QED
  BY <1>1, <1>2, <1>3

(* Fails moves the client within its call.                                 *)
LEMMA FailsInCall ==
    ASSUME AcsTyped, Fails
    PROVE  /\ client' \in [at : {"sleeps", "raised"}, call : 1 .. Len(program), attempt : Nat]
           /\ client'.call = client.call
  BY DEF AcsTyped, Fails

(* Nobody waits any more, and the queue is otherwise the same.             *)
LEMMA QueueStays ==
    ASSUME AcsTyped, NobodyWaits
    PROVE  /\ queue' \in Seq(Queued) /\ Len(queue') = Len(queue) /\ DOMAIN queue' = DOMAIN queue
           /\ \A i \in DOMAIN queue : ~queue'[i].waits /\ queue'[i].call = queue[i].call
           /\ queue' = <<>> <=> queue = <<>>
<1>1. Len(queue) \in Nat /\ DOMAIN queue = 1 .. Len(queue)
      /\ \A i \in 1 .. Len(queue) : queue[i] \in Queued
  BY LenProperties, ElementOfSeq DEF AcsTyped
<1>2. queue' = [i \in 1 .. Len(queue) |-> [call |-> queue[i].call, attempt |-> queue[i].attempt, waits |-> FALSE]]
  BY <1>1 DEF NobodyWaits
<1>3. \A i \in 1 .. Len(queue) :
        /\ [call |-> queue[i].call, attempt |-> queue[i].attempt, waits |-> FALSE] \in Queued
        /\ queue'[i].call = queue[i].call
        /\ queue'[i].waits = FALSE
  BY <1>1, <1>2 DEF Queued
<1>4. queue' \in Seq(Queued)
  <2> DEFINE Kept(i) == [call |-> queue[i].call, attempt |-> queue[i].attempt, waits |-> FALSE]
  <2>1. \A i \in 1 .. Len(queue) : Kept(i) \in Queued
    BY <1>3
  <2>2. [i \in 1 .. Len(queue) |-> Kept(i)] \in Seq(Queued)
    <3> HIDE DEF Kept
    <3> QED
      BY ONLY <1>1, <2>1, IsASeq
  <2> QED
    BY <1>2, <2>2
<1>5. Len(queue') = Len(queue) /\ DOMAIN queue' = 1 .. Len(queue)
  BY <1>1, <1>2, <1>4, LenProperties
<1> QED
  BY <1>1, <1>3, <1>4, <1>5, EmptySeq, LenProperties DEF AcsTyped

(* What fails leaves the queue, and the client that waits for it fails.    *)
LEMMA DroppedKeeps ==
    ASSUME AcsInv, ~keeps, queue # <<>>, queue' = Tail(queue),
           IF Head(queue).waits THEN Fails ELSE UNCHANGED client,
           UNCHANGED <<keeps, program, cpe>>
    PROVE  AcsInv'
<1>1. /\ Head(queue) = queue[1] /\ queue[1] \in Queued /\ 1 \in DOMAIN queue
      /\ Len(queue) \in Nat /\ Len(queue) > 0
      /\ Tail(queue) \in Seq(Queued) /\ Len(Tail(queue)) = Len(queue) - 1
      /\ DOMAIN queue = 1 .. Len(queue) /\ DOMAIN Tail(queue) = 1 .. Len(queue) - 1
      /\ \A i \in 1 .. Len(queue) - 1 : Tail(queue)[i] = queue[i + 1]
  BY WithoutHead DEF AcsInv, AcsTyped
<1>2. client' \in [at : {"calls", "waits", "sleeps", "done", "raised"},
                  call : 1 .. Len(program), attempt : Nat]
      /\ client'.call = client.call /\ (client' # client => queue[1].waits /\ client'.at # "done")
  BY <1>1, FailsInCall DEF AcsInv, AcsTyped
<1>3. AcsTyped'
  BY <1>1, <1>2 DEF AcsInv, AcsTyped, Queued
<1>4. LastIsWaitedFor'
  BY <1>1, <1>2 DEF AcsInv, LastIsWaitedFor
<1>5. AxirosQueuesOneCall'
  BY <1>1, <1>2 DEF AcsInv, AxirosQueuesOneCall
<1> QED
  BY <1>3, <1>4, <1>5 DEF AcsInv, GenieQueuesInOrder, ValueIsWritten, IsWrite

LEMMA PostKeeps ==
    ASSUME AcsInv, Post
    PROVE  AcsInv' /\ UNCHANGED cpe
<1> DEFINE request == [call |-> client.call, attempt |-> client.attempt, waits |-> TRUE]
<1>1. /\ request \in Queued /\ request.call = client.call
      /\ queue' = Append(queue, request)
      /\ client' \in [at : {"waits"}, call : 1 .. Len(program), attempt : Nat]
      /\ client'.call = client.call /\ client.at = "calls"
      /\ UNCHANGED <<keeps, program, cpe>>
  BY DEF AcsInv, AcsTyped, Post, Queued
<1>2. /\ queue' \in Seq(Queued) /\ queue' # <<>>
      /\ Len(queue) \in Nat /\ Len(queue') = Len(queue) + 1
      /\ DOMAIN queue = 1 .. Len(queue) /\ DOMAIN queue' = 1 .. Len(queue) + 1
      /\ \A i \in 1 .. Len(queue) : queue'[i] = queue[i] /\ ~queue[i].waits
      /\ queue'[Len(queue) + 1].call = client.call
      /\ queue = <<>> <=> Len(queue) = 0
  <2> HIDE DEF request
  <2> QED
    BY <1>1, WithOneMore DEF AcsInv, AcsTyped, LastIsWaitedFor
<1> HIDE DEF request
<1>3. AcsTyped'
  BY <1>1, <1>2 DEF AcsInv, AcsTyped, Queued
<1>4. LastIsWaitedFor'
  BY <1>1, <1>2 DEF LastIsWaitedFor
<1>5. GenieQueuesInOrder'
  <2> SUFFICES ASSUME keeps
               PROVE  GenieQueuesInOrder'
    BY <1>1 DEF GenieQueuesInOrder
  <2>1. client.call \in Nat
    BY DEF AcsInv, AcsTyped
  <2>2. client'.call <= queue'[Len(queue')].call + 1
    BY <1>1, <1>2, <2>1
  <2>3. ASSUME NEW i \in 1 .. Len(queue) + 1
        PROVE  queue'[i].call <= (IF i = 1 THEN cpe.executed ELSE queue'[i - 1].call) + 1
    <3>1. CASE i \in 1 .. Len(queue)
      <4>1. queue'[i] = queue[i] /\ (i # 1 => i - 1 \in 1 .. Len(queue) /\ queue'[i - 1] = queue[i - 1])
        BY <3>1, <1>2
      <4>2. queue[i].call <= (IF i = 1 THEN cpe.executed ELSE queue[i - 1].call) + 1
        BY <3>1, <1>2 DEF AcsInv, GenieQueuesInOrder
      <4> QED
        BY <4>1, <4>2
    <3>2. CASE i = Len(queue) + 1
      BY <3>2, <1>2 DEF AcsInv, GenieQueuesInOrder
    <3> QED
      BY <3>1, <3>2, <1>2
  <2> QED
    BY <1>1, <1>2, <2>2, <2>3 DEF GenieQueuesInOrder
<1>6. AxirosQueuesOneCall'
  <2> SUFFICES ASSUME ~keeps, NEW i \in 1 .. Len(queue) + 1
               PROVE  queue'[i].call = client.call
    BY <1>1, <1>2 DEF AcsInv, AxirosQueuesOneCall
  <2>1. CASE i \in 1 .. Len(queue)
    BY <2>1, <1>2 DEF AcsInv, AxirosQueuesOneCall
  <2>2. CASE i = Len(queue) + 1
    BY <2>2, <1>2
  <2> QED
    BY <2>1, <2>2, <1>2
<1> QED
  BY <1>1, <1>3, <1>4, <1>5, <1>6 DEF AcsInv, ValueIsWritten, IsWrite

(* The client acts on its own: it raises, and it calls again.              *)
LEMMA ClientKeeps ==
    ASSUME AcsInv, CallRaises \/ Sleep
    PROVE  AcsInv' /\ UNCHANGED cpe
<1>1. /\ client' \in [at : {"calls", "sleeps", "raised"}, call : 1 .. Len(program), attempt : Nat]
      /\ client'.call = client.call /\ client.at # "waits"
      /\ UNCHANGED <<keeps, program, cpe, queue>>
  <2>1. CASE CallRaises
    BY <2>1, FailsInCall DEF AcsInv, CallRaises
  <2>2. CASE Sleep
    <3>1. client' = [at |-> "calls", call |-> client.call, attempt |-> client.attempt + 1]
      BY <2>2 DEF AcsInv, AcsTyped, Sleep
    <3> QED
      BY <2>2, <3>1 DEF AcsInv, AcsTyped, Sleep
  <2> QED
    BY <2>1, <2>2
<1> QED
  BY <1>1 DEF AcsInv, AcsTyped, Queued, LastIsWaitedFor, GenieQueuesInOrder, AxirosQueuesOneCall, ValueIsWritten,
     IsWrite

LEMMA AnswerLostKeeps ==
    ASSUME AcsInv, AnswerLost
    PROVE  AcsInv' /\ UNCHANGED cpe
<1>1. /\ client' \in [at : {"sleeps", "raised"}, call : 1 .. Len(program), attempt : Nat]
      /\ client'.call = client.call
      /\ UNCHANGED <<keeps, program, cpe>> /\ NobodyWaits
  BY FailsInCall DEF AcsInv, AnswerLost
<1>2. /\ queue' \in Seq(Queued) /\ Len(queue') = Len(queue) /\ DOMAIN queue' = DOMAIN queue
      /\ \A i \in DOMAIN queue : ~queue'[i].waits /\ queue'[i].call = queue[i].call
      /\ (queue' = <<>> <=> queue = <<>>)
      /\ DOMAIN queue = 1 .. Len(queue) /\ Len(queue) \in Nat /\ (queue = <<>> <=> Len(queue) = 0)
  BY <1>1, QueueStays, LenProperties, EmptySeq DEF AcsInv, AcsTyped
<1>3. AcsTyped'
  BY <1>1, <1>2 DEF AcsInv, AcsTyped, Queued
<1>4. LastIsWaitedFor' /\ AxirosQueuesOneCall'
  BY <1>1, <1>2 DEF AcsInv, LastIsWaitedFor, AxirosQueuesOneCall
<1>5. GenieQueuesInOrder'
  BY <1>1, <1>2 DEF AcsInv, GenieQueuesInOrder
<1> QED
  BY <1>1, <1>3, <1>4, <1>5 DEF AcsInv, ValueIsWritten, IsWrite

LEMMA AcceptedKeeps ==
    ASSUME AcsInv, Accepted
    PROVE  AcsInv' /\ UNCHANGED cpe
<1>1. /\ client' \in [at : {"calls", "done"}, call : 1 .. Len(program), attempt : Nat]
      /\ client'.call \in {client.call, client.call + 1}
      /\ UNCHANGED <<keeps, program, cpe>> /\ NobodyWaits /\ keeps
  BY DEF AcsInv, AcsTyped, Accepted, CallReturns
<1>2. /\ queue' \in Seq(Queued) /\ Len(queue') = Len(queue) /\ DOMAIN queue' = DOMAIN queue
      /\ \A i \in DOMAIN queue : ~queue'[i].waits /\ queue'[i].call = queue[i].call
      /\ (queue' = <<>> <=> queue = <<>>)
      /\ DOMAIN queue = 1 .. Len(queue) /\ Len(queue) \in Nat /\ (queue = <<>> <=> Len(queue) = 0)
  BY <1>1, QueueStays, LenProperties, EmptySeq DEF AcsInv, AcsTyped
<1>3. Len(queue) > 0 /\ queue[Len(queue)].call = client.call
  BY <1>2 DEF AcsInv, LastIsWaitedFor, Accepted
<1>4. AcsTyped'
  BY <1>1, <1>2 DEF AcsInv, AcsTyped, Queued
<1>5. GenieQueuesInOrder'
  <2>1. client.call \in Nat
    BY DEF AcsInv, AcsTyped
  <2> QED
    BY <1>1, <1>2, <1>3, <2>1 DEF AcsInv, GenieQueuesInOrder
<1> QED
  BY <1>1, <1>2, <1>4, <1>5
  DEF AcsInv, LastIsWaitedFor, AxirosQueuesOneCall, ValueIsWritten, IsWrite

(* What the CPE has when it has executed a call.                           *)
LEMMA CallExecuted ==
    ASSUME AcsTyped, NEW call \in 1 .. Len(program), Executes(call)
    PROVE  /\ cpe' \in [inReach : BOOLEAN, value : Values \cup {NoValue}, objects : Nat, executed : Nat]
           /\ cpe'.value = IF IsWrite(call) THEN program[call].value ELSE cpe.value
           /\ cpe'.executed = IF call > cpe.executed THEN call ELSE cpe.executed
<1>1. program[call] \in Call /\ program[call].value \in Values \cup {NoValue}
  BY ElementOfSeq DEF AcsTyped, Call
<1> DEFINE v == IF IsWrite(call) THEN program[call].value ELSE cpe.value
           o == IF program[call].rpc = "AddObject" THEN cpe.objects + 1 ELSE cpe.objects
           n == IF call > cpe.executed THEN call ELSE cpe.executed
           r == program[call].rpc # "Reboot"
<1>2. v \in Values \cup {NoValue} /\ o \in Nat /\ n \in Nat /\ r \in BOOLEAN
  BY <1>1 DEF AcsTyped
<1>3. cpe' = [cpe EXCEPT !.value = v, !.objects = o, !.executed = n, !.inReach = r]
  BY DEF Executes, IsWrite
<1> HIDE DEF v, o, n, r
<1>4. cpe' \in [inReach : BOOLEAN, value : Values \cup {NoValue}, objects : Nat, executed : Nat]
  BY <1>2, <1>3 DEF AcsTyped
<1>5. cpe'.value = v /\ cpe'.executed = n
  BY <1>3 DEF AcsTyped
<1> QED
  BY <1>4, <1>5 DEF v, n

LEMMA ExecutedKeeps ==
    ASSUME AcsInv, Executed
    PROVE  AcsInv' /\ cpe'.executed <= cpe.executed + 1
<1> PICK call : call = queue[1].call
  OBVIOUS
<1>1. /\ Head(queue) = queue[1] /\ queue[1] \in Queued /\ 1 \in DOMAIN queue
      /\ Len(queue) \in Nat /\ Len(queue) > 0
      /\ Tail(queue) \in Seq(Queued) /\ Len(Tail(queue)) = Len(queue) - 1
      /\ DOMAIN queue = 1 .. Len(queue) /\ DOMAIN Tail(queue) = 1 .. Len(queue) - 1
      /\ \A i \in 1 .. Len(queue) - 1 : Tail(queue)[i] = queue[i + 1]
      /\ Tail(queue) = <<>> <=> Len(queue) = 1
      /\ call \in 1 .. Len(program) /\ queue' = Tail(queue)
      /\ UNCHANGED <<keeps, program>>
  <2>1. queue \in Seq(Queued) /\ queue # <<>>
    BY DEF AcsInv, AcsTyped, Executed
  <2>2. queue[1] \in Queued
    BY <2>1, WithoutHead
  <2>3. call \in 1 .. Len(program)
    BY <2>2 DEF Queued
  <2> QED
    BY <2>1, <2>3, WithoutHead DEF Executed
<1>2. /\ cpe' \in [inReach : BOOLEAN, value : Values \cup {NoValue}, objects : Nat, executed : Nat]
      /\ cpe'.value = IF IsWrite(call) THEN program[call].value ELSE cpe.value
      /\ cpe'.executed = IF call > cpe.executed THEN call ELSE cpe.executed
  BY <1>1, CallExecuted DEF AcsInv, Executed
<1>3. /\ client \in [at : {"calls", "waits", "sleeps", "done", "raised"},
                      call : 1 .. Len(program), attempt : Nat]
      /\ client' \in [at : {"calls", "waits", "sleeps", "done", "raised"},
                       call : 1 .. Len(program), attempt : Nat]
      /\ cpe.executed \in Nat /\ Len(program) \in Nat
      /\ \/ client' = client
         \/ queue[1].waits /\ client'.call = client.call /\ client'.at \in {"sleeps", "raised"}
         \/ queue[1].waits /\ client.call = Len(program) /\ client'.call = client.call /\ client'.at = "done"
         \/ queue[1].waits /\ client'.call = client.call + 1 /\ client'.at = "calls"
  <2>1. /\ client \in [at : {"calls", "waits", "sleeps", "done", "raised"},
                        call : 1 .. Len(program), attempt : Nat]
        /\ cpe.executed \in Nat /\ Len(program) \in Nat
    BY LenProperties DEF AcsInv, AcsTyped
  <2>2. CASE UNCHANGED client
    BY <2>1, <2>2
  <2>3. CASE queue[1].waits /\ CallReturns
    BY <2>1, <2>3 DEF CallReturns
  <2>4. CASE queue[1].waits /\ Fails
    BY <2>1, <2>4, FailsInCall DEF AcsInv
  <2> QED
    BY <1>1, <2>2, <2>3, <2>4 DEF Executed
<1>4. queue[1].waits => Len(queue) = 1 /\ client.at = "waits" /\ call = client.call
  BY <1>1 DEF AcsInv, LastIsWaitedFor
<1>5. AcsTyped'
  BY <1>1, <1>2, <1>3 DEF AcsInv, AcsTyped, Queued
<1>6. LastIsWaitedFor'
  BY <1>1, <1>3, <1>4 DEF AcsInv, LastIsWaitedFor
<1>7. CASE keeps
  <2>1. call <= cpe.executed + 1
    BY <1>7, <1>1 DEF AcsInv, GenieQueuesInOrder
  <2>2. cpe'.executed <= cpe.executed + 1 /\ call <= cpe'.executed
    BY <1>1, <1>2, <1>3, <2>1
  <2>3. ASSUME NEW i \in 1 .. Len(queue) - 1
        PROVE  queue'[i].call <= (IF i = 1 THEN cpe'.executed ELSE queue'[i - 1].call) + 1
    <3>1. i + 1 \in 1 .. Len(queue) /\ i + 1 # 1 /\ i + 1 - 1 = i /\ queue'[i] = queue[i + 1]
          /\ (i # 1 => i - 1 \in 1 .. Len(queue) - 1 /\ queue'[i - 1] = queue[i])
      BY <1>1
    <3>2. queue[i + 1].call <= queue[i].call + 1
      <4>1. \A k \in 1 .. Len(queue) : k # 1 => queue[k].call <= queue[k - 1].call + 1
        BY <1>7, <1>1 DEF AcsInv, GenieQueuesInOrder
      <4> QED
        BY <3>1, <4>1
    <3>3. queue[i + 1].call \in Nat
      <4>1. \A k \in 1 .. Len(queue) : queue[k] \in Queued
        BY ElementOfSeq DEF AcsInv, AcsTyped
      <4> QED
        BY <3>1, <4>1, <1>3 DEF Queued
    <3>4. CASE i = 1
      BY <3>1, <3>2, <3>3, <3>4, <2>2, <1>1, <1>2
    <3> QED
      BY <3>1, <3>2, <3>4
  <2>4. client'.call <= (IF queue' = <<>> THEN cpe'.executed ELSE queue'[Len(queue')].call) + 1
    <3>1. client.call <= queue[Len(queue)].call + 1
      BY <1>7, <1>1, EmptySeq DEF AcsInv, GenieQueuesInOrder
    <3>2. CASE Len(queue) = 1
      BY <3>1, <3>2, <1>1, <1>2, <1>3, <1>4, <2>2
    <3>3. CASE Len(queue) # 1
      BY <3>1, <3>3, <1>1, <1>3, <1>4
    <3> QED
      BY <3>2, <3>3
  <2>5. GenieQueuesInOrder'
    BY <1>1, <1>7, <2>3, <2>4 DEF GenieQueuesInOrder
  <2> QED
    BY <1>1, <1>5, <1>6, <1>7, <2>2, <2>5 DEF AcsInv, AxirosQueuesOneCall, ValueIsWritten
<1>8. CASE ~keeps
  <2>1. /\ \A i \in 1 .. Len(queue) : queue[i].call = client.call
        /\ cpe.executed \in {client.call - 1, client.call} /\ call = client.call
        /\ (client.at = "done" => cpe.executed = Len(program))
    BY <1>8, <1>1 DEF AcsInv, AxirosQueuesOneCall
  <2>2. cpe'.executed = call /\ cpe'.executed <= cpe.executed + 1
    BY <1>1, <1>2, <1>3, <2>1
  <2>3. AxirosQueuesOneCall'
    <3>1. client' # client => Len(queue) = 1
      BY <1>3, <1>4
    <3>2. \A i \in DOMAIN queue' : queue'[i].call = client'.call
      BY <1>1, <2>1, <3>1
    <3>3. cpe'.executed \in {client'.call - 1, client'.call}
      BY <1>3, <2>1, <2>2
    <3>4. client'.at = "done" => cpe'.executed = Len(program)
      BY <1>1, <1>3, <2>1, <2>2
    <3> QED
      BY <1>1, <3>2, <3>3, <3>4 DEF AxirosQueuesOneCall
  <2>4. ValueIsWritten'
    <3>1. CASE IsWrite(call)
      <4>1. program'[call].rpc = "SPV" /\ cpe'.value = program'[call].value
            /\ call \in 1 .. call /\ call + 1 .. call = {}
        BY <3>1, <1>1, <1>2 DEF IsWrite
      <4> QED
        BY <4>1, <2>2, <1>1 DEF ValueIsWritten, IsWrite
    <3>2. CASE ~IsWrite(call)
      <4>1. cpe'.value = cpe.value /\ \A i \in 1 .. call : i \in 1 .. cpe.executed \/ i = call
        BY <3>2, <1>1, <1>2, <1>3, <2>1
      <4>2. CASE cpe.value = NoValue /\ \A i \in 1 .. cpe.executed : ~IsWrite(i)
        BY <4>1, <4>2, <3>2, <2>2, <1>1 DEF ValueIsWritten, IsWrite
      <4>3. ASSUME NEW i \in 1 .. cpe.executed, IsWrite(i), cpe.value = program[i].value,
                   \A j \in i + 1 .. cpe.executed : ~IsWrite(j)
            PROVE  ValueIsWritten'
        <5>1. i \in 1 .. cpe'.executed /\ \A j \in i + 1 .. cpe'.executed : ~IsWrite(j)
          BY <4>1, <4>3, <3>2, <2>1, <2>2, <1>1, <1>3
        <5> QED
          BY <5>1, <4>1, <4>3, <1>1 DEF ValueIsWritten, IsWrite
      <4> QED
        BY <4>2, <4>3, <1>8 DEF AcsInv, ValueIsWritten
    <3> QED
      BY <3>1, <3>2
  <2> QED
    BY <1>1, <1>5, <1>6, <1>8, <2>2, <2>3, <2>4 DEF AcsInv, GenieQueuesInOrder
<1> QED
  BY <1>7, <1>8

(* The CPE goes out of reach, or comes back.                               *)
LEMMA ReachKeeps ==
    ASSUME AcsInv, GoesOutOfReach \/ InReachAgain
    PROVE  AcsInv' /\ cpe'.executed = cpe.executed
<1>1. /\ cpe' \in [inReach : BOOLEAN, value : Values \cup {NoValue}, objects : Nat, executed : Nat]
      /\ cpe'.executed = cpe.executed /\ cpe'.value = cpe.value
      /\ UNCHANGED <<keeps, program, client, queue>>
  BY DEF AcsInv, AcsTyped, GoesOutOfReach, InReachAgain
<1> QED
  BY <1>1 DEF AcsInv, AcsTyped, Queued, LastIsWaitedFor, GenieQueuesInOrder, AxirosQueuesOneCall,
     ValueIsWritten, IsWrite

(* Every step keeps the invariant, and the CPE executes one call after the *)
(* other.                                                                  *)
LEMMA AcsStepKeeps ==
    ASSUME AcsInv, [AcsNext]_acsVars
    PROVE  AcsInv' /\ cpe'.executed <= cpe.executed + 1
<1>1. cpe.executed \in Nat
  BY DEF AcsInv, AcsTyped
<1>2. CASE UNCHANGED acsVars
  BY <1>1, <1>2 DEF acsVars, AcsInv, AcsTyped, Queued, LastIsWaitedFor, GenieQueuesInOrder,
     AxirosQueuesOneCall, ValueIsWritten, IsWrite
<1>3. CASE ClientSteps
  BY <1>1, <1>3, PostKeeps, ClientKeeps, AnswerLostKeeps, AcceptedKeeps DEF ClientSteps
<1>4. CASE Refused \/ LifetimeEnds
  BY <1>1, <1>4, DroppedKeeps DEF Refused, LifetimeEnds
<1>5. CASE Executed \/ GoesOutOfReach \/ InReachAgain
  BY <1>1, <1>5, ExecutedKeeps, ReachKeeps
<1> QED
  BY <1>2, <1>3, <1>4, <1>5 DEF AcsNext, CpeSteps

(* Where the whole list was executed, the value is the last one in it.     *)
LEMMA LastWriteCounts ==
    ASSUME AcsInv
    PROVE  ProvisionedWhenDone
<1> SUFFICES ASSUME ~keeps, client.at = "done"
             PROVE  cpe.value = Provisioned
  BY DEF ProvisionedWhenDone
<1> DEFINE writes == {i \in DOMAIN program : program[i].rpc = "SPV"}
<1>1. cpe.executed = Len(program) /\ DOMAIN program = 1 .. Len(program) /\ Len(program) \in Nat
      /\ writes = {i \in 1 .. Len(program) : IsWrite(i)}
  BY LenProperties DEF AcsInv, AcsTyped, AxirosQueuesOneCall, IsWrite
<1>2. CASE cpe.value = NoValue /\ \A i \in 1 .. cpe.executed : ~IsWrite(i)
  <2>1. writes = {}
    BY <1>1, <1>2
  <2> QED
    BY <2>1, <1>2 DEF Provisioned
<1>3. ASSUME NEW i \in 1 .. cpe.executed, IsWrite(i), cpe.value = program[i].value,
             \A j \in i + 1 .. cpe.executed : ~IsWrite(j)
      PROVE  cpe.value = Provisioned
  <2>1. i \in writes /\ \A j \in writes : j <= i
    BY <1>1, <1>3
  <2>2. (CHOOSE k \in writes : \A j \in writes : j <= k) = i
    <3>1. \A k \in writes : (\A j \in writes : j <= k) => k = i
      BY <2>1, <1>1
    <3> HIDE DEF writes
    <3> QED
      BY <2>1, <3>1
  <2>3. writes # {}
    BY <2>1
  <2> QED
    BY <2>2, <2>3, <1>3 DEF Provisioned
<1> QED
  BY <1>2, <1>3 DEF AcsInv, ValueIsWritten

LEMMA AcsInvInit == AcsInit => AcsInv
<1> SUFFICES ASSUME AcsInit
             PROVE  AcsInv
  OBVIOUS
<1>1. PICK n \in 1 .. Length : program \in [1 .. n -> Call]
  BY DEF AcsInit, Programs
<1>2. n \in Nat /\ n >= 1 /\ program \in Seq(Call) /\ Len(program) = n
  BY <1>1, AcsAssumption, LenProperties, SeqDef
<1>3. queue \in Seq(Queued) /\ DOMAIN queue = {} /\ queue = <<>>
  BY EmptySeq, LenProperties DEF AcsInit
<1> QED
  BY <1>2, <1>3 DEF AcsInit, AcsInv, AcsTyped, LastIsWaitedFor, GenieQueuesInOrder,
     AxirosQueuesOneCall, ValueIsWritten

(* The CPE executes the calls of the list one after the other, and when    *)
(* Axiros' provisioning returns it has the last value: for every list,     *)
(* number of attempts, and sequence of lost, refused, late and repeated    *)
(* requests.                                                               *)
THEOREM CallsExecutedInOrder == AcsSpec => ProvisionedInOrder
<1>1. AcsInit => AcsInv
  BY AcsInvInit
<1>2. AcsInv /\ [AcsNext]_acsVars => AcsInv' /\ cpe'.executed <= cpe.executed + 1
  BY AcsStepKeeps
<1>3. AcsInv => ProvisionedWhenDone
  BY LastWriteCounts
<1>4. AcsInv /\ AcsInv' /\ [AcsNext]_acsVars
        => [cpe'.executed <= cpe.executed + 1 /\ ProvisionedWhenDone']_acsVars
  <2>1. AcsInv' => ProvisionedWhenDone'
    BY <1>3, PTL
  <2> QED
    BY <1>2, <2>1
<1> QED
  BY <1>1, <1>2, <1>4, PTL DEF AcsSpec, ProvisionedInOrder

(***************************************************************************)
(* Phone: the menus in the buffer, and what its texts are about            *)
(***************************************************************************)

(* A set of numbers has a least one. *)
LEMMA LeastNumber ==
    ASSUME NEW T, T \subseteq Nat, T # {}
    PROVE  \E m \in T : \A k \in T : m <= k
<1>1. PICK m \in T : \A k \in T : ~ (<<k, m>> \in OpToRel(<, Nat))
  BY NatLessThanWellFounded, WFMin
<1>2. \A k \in T : ~ (k < m)
  BY <1>1 DEF OpToRel
<1>3. \A k \in T : m \in Nat /\ k \in Nat
  OBVIOUS
<1>4. \A k \in T : m <= k
  BY <1>2, <1>3
<1> QED
  BY <1>4

(* How many menus there are among the first n texts of s, and in all of s. *)
MenusAt(s, n) == {j \in 1 .. n : s[j] = Menu}
Upto(s, n) == Cardinality(MenusAt(s, n))
Menus(s) == Upto(s, Len(s))

(* The menus of a buffer can be counted. *)
LEMMA MenusFinite ==
    ASSUME NEW s, NEW n \in Nat
    PROVE  IsFiniteSet(MenusAt(s, n)) /\ Upto(s, n) \in Nat
<1>1. 1 \in Int /\ n \in Int
  OBVIOUS
<1>2. IsFiniteSet(1 .. n)
  BY <1>1, FS_Interval, Zenon
<1>3. MenusAt(s, n) \subseteq 1 .. n
  BY DEF MenusAt
<1>4. IsFiniteSet(MenusAt(s, n))
  BY <1>2, <1>3, FS_Subset, Zenon
<1> QED
  BY <1>4, FS_CardinalityType, Zenon DEF Upto

(* There are no fewer of them in more of it. *)
LEMMA UptoGrows ==
    ASSUME NEW s, NEW n \in Nat, NEW m \in 0 .. n
    PROVE  Upto(s, m) <= Upto(s, n)
<1>1. m \in Nat /\ MenusAt(s, m) \subseteq MenusAt(s, n)
  BY DEF MenusAt
<1> QED
  BY <1>1, MenusFinite, FS_Subset, Zenon DEF Upto

(* The menus of what stands behind the first p texts. *)
Continues(s, t, p, n) == \A j \in 1 .. n : t[j] = s[p + j]

(* Counting goes on behind the first p texts. *)
LEMMA Shifted ==
    ASSUME NEW s, NEW t, NEW p \in Nat, NEW n \in Nat, Continues(s, t, p, n)
    PROVE  Upto(s, p + n) = Upto(s, p) + Upto(t, n)
<1> DEFINE Rest == {j \in p + 1 .. p + n : s[j] = Menu}
           f == [j \in MenusAt(t, n) |-> p + j]
<1>1. /\ IsFiniteSet(MenusAt(s, p)) /\ Upto(s, p) \in Nat
      /\ IsFiniteSet(MenusAt(t, n)) /\ Upto(t, n) \in Nat
  BY MenusFinite
<1>2. f \in Bijection(MenusAt(t, n), Rest)
  <2>1. \A j \in MenusAt(t, n) : f[j] \in Rest
    BY DEF MenusAt, Continues
  <2>2. \A i, j \in MenusAt(t, n) : f[i] = f[j] => i = j
    BY DEF MenusAt
  <2>3. ASSUME NEW i \in Rest
        PROVE  \E j \in MenusAt(t, n) : f[j] = i
    <3>1. i - p \in 1 .. n /\ p + (i - p) = i
      OBVIOUS
    <3>2. t[i - p] = s[i]
      BY <3>1 DEF Continues
    <3>3. i - p \in MenusAt(t, n) /\ f[i - p] = i
      BY <3>1, <3>2 DEF MenusAt
    <3> QED
      BY <3>3, Zenon
  <2> QED
    BY <2>1, <2>2, <2>3 DEF Bijection, Injection, Surjection, IsInjective
<1>3. IsFiniteSet(Rest) /\ Cardinality(Rest) = Upto(t, n)
  BY <1>1, <1>2, FS_Bijection DEF Upto, ExistsBijection
<1>4. MenusAt(s, p + n) = MenusAt(s, p) \cup Rest /\ MenusAt(s, p) \cap Rest = {}
  BY DEF MenusAt
<1>5. Cardinality(MenusAt(s, p) \cup Rest) =
        Cardinality(MenusAt(s, p)) + Cardinality(Rest) - Cardinality(MenusAt(s, p) \cap Rest)
  BY <1>1, <1>3, FS_Union, Zenon
<1>6. Cardinality(MenusAt(s, p) \cap Rest) = 0
  BY <1>4, FS_EmptySet, Zenon
<1>7. /\ Upto(s, p + n) = Cardinality(MenusAt(s, p) \cup Rest)
      /\ Upto(s, p) = Cardinality(MenusAt(s, p))
  BY <1>4, Zenon DEF Upto
<1> HIDE DEF Rest, f
<1> QED
  BY <1>1, <1>3, <1>5, <1>6, <1>7

(***************************************************************************)
(* The buffer                                                              *)
(***************************************************************************)

(* A text speaks of the call's state in one of the states of S. *)
Said(text, S) ==
    /\ text = "no_calls" => "none" \in S
    /\ text \in {"EARLY", "Ringing"} => S \cap {"early", "ringing"} # {}
    /\ text = "CONFIRMED" => S \cap {"confirmed", "on_hold"} # {}
    /\ text = "Incoming_call" => "ringing" \in S

AllSaid(s, S) == \A i \in DOMAIN s : Said(s[i], S)

(* Behind the first k menus everything is about a state of S.              *)
Recent(s, k, S) == \A i \in DOMAIN s : Upto(s, i - 1) >= k => Said(s[i], S)

Beyond(s, p) == SubSeq(s, p + 1, Len(s))

(* Numbers of texts before and behind a place. *)
LEMMA Split ==
    ASSUME NEW l \in Nat, NEW p \in 1 .. l
    PROVE  l - p \in Nat /\ p + (l - p) = l /\ p \in Nat /\ l - p \in 0 .. (l - p)
OBVIOUS

(* What is said of a state of S is said of one of a larger set. *)
LEMMA SaidOfMore ==
    ASSUME NEW text, NEW S, NEW R, S \subseteq R, Said(text, S)
    PROVE  Said(text, R)
BY DEF Said

(* What is left when the text at p was read. *)
LEMMA BehindIs ==
    ASSUME NEW s \in Seq(Texts), NEW p \in DOMAIN s
    PROVE  /\ Beyond(s, p) \in Seq(Texts)
           /\ p \in 1 .. Len(s) /\ Len(s) \in Nat
           /\ Len(Beyond(s, p)) = Len(s) - p
           /\ DOMAIN Beyond(s, p) = 1 .. (Len(s) - p)
           /\ \A i \in 1 .. (Len(s) - p) : Beyond(s, p)[i] = s[p + i] /\ p + i \in DOMAIN s
<1>1. p \in 1 .. Len(s) /\ Len(s) \in Nat /\ DOMAIN s = 1 .. Len(s)
  OBVIOUS
<1> QED
  BY <1>1, SubSeqProperties DEF Beyond

(* The menus that are left. *)
LEMMA MenusBehind ==
    ASSUME NEW s \in Seq(Texts), NEW p \in DOMAIN s, NEW i \in Nat, i <= Len(s) - p
    PROVE  /\ Upto(s, p + i) = Upto(s, p) + Upto(Beyond(s, p), i)
           /\ Upto(Beyond(s, p), i) \in Nat /\ Upto(s, p) \in Nat
<1>1. /\ p \in 1 .. Len(s) /\ Len(s) \in Nat
      /\ \A j \in 1 .. (Len(s) - p) : Beyond(s, p)[j] = s[p + j]
  BY BehindIs, Zenon
<1>2. p \in Nat /\ \A j \in 1 .. i : j \in 1 .. (Len(s) - p)
  BY <1>1
<1>3. Upto(Beyond(s, p), i) \in Nat /\ Upto(s, p) \in Nat
  BY <1>2, MenusFinite, Zenon
<1>4. PICK t : t = Beyond(s, p)
  OBVIOUS
<1>5. Continues(s, t, p, i)
  BY <1>1, <1>2, <1>4, Zenon DEF Continues
<1>6. Upto(s, p + i) = Upto(s, p) + Upto(t, i)
  BY <1>2, <1>5, Shifted
<1> QED
  BY <1>3, <1>4, <1>6, Zenon

(* What is behind the p-th text. *)
LEMMA ReadOn ==
    ASSUME NEW s \in Seq(Texts), NEW p \in DOMAIN s
    PROVE  /\ Menus(Beyond(s, p)) \in Nat /\ Menus(s) \in Nat
           /\ Menus(Beyond(s, p)) <= Menus(s)
           /\ s[p] = Menu => Menus(Beyond(s, p)) <= Menus(s) - 1
           /\ \A k \in Nat : \A S : Recent(s, k, S) => Recent(Beyond(s, p), k, S)
           /\ s[p] = Menu => \A k \in Nat : \A S : Recent(s, k + 1, S) => Recent(Beyond(s, p), k, S)
<1> DEFINE t == Beyond(s, p)
           n == Len(s) - p
<1>1. /\ n \in Nat /\ Len(t) = n /\ p + n = Len(s) /\ p \in Nat /\ n \in 0 .. n
  <2>1. /\ p \in 1 .. Len(s) /\ Len(s) \in Nat
        /\ Len(Beyond(s, p)) = Len(s) - p
    BY BehindIs, Zenon
  <2>2. n \in Nat /\ p + n = Len(s) /\ p \in Nat /\ n \in 0 .. n
    BY <2>1, Split, Zenon
  <2>3. Len(t) = n
    BY <2>1, Zenon
  <2> QED
    BY <2>2, <2>3, Zenon
<1>2. Menus(s) = Upto(s, p) + Menus(t) /\ Menus(t) \in Nat /\ Upto(s, p) \in Nat
  BY <1>1, MenusBehind DEF Menus
<1>3. s[p] = Menu => Upto(s, p) >= 1
  <2> SUFFICES ASSUME s[p] = Menu
               PROVE  Upto(s, p) # 0
    BY <1>2
  <2>1. IsFiniteSet(MenusAt(s, p))
    BY <1>1, MenusFinite, Zenon
  <2>2. p \in 1 .. Len(s)
    BY BehindIs, Zenon
  <2>3. p \in MenusAt(s, p)
    BY <2>2 DEF MenusAt
  <2> QED
    BY <2>1, <2>3, FS_EmptySet, Zenon DEF Upto
<1>4. ASSUME NEW i \in DOMAIN t
      PROVE  /\ p + i \in DOMAIN s /\ t[i] = s[p + i]
             /\ Upto(s, p + i - 1) = Upto(s, p) + Upto(t, i - 1)
             /\ Upto(t, i - 1) \in Nat
  <2>1. i \in 1 .. n
    BY BehindIs, Zenon
  <2>2. i - 1 \in Nat /\ i - 1 <= n /\ p + (i - 1) = p + i - 1
    BY <1>1, <2>1
  <2> QED
    BY <2>1, <2>2, MenusBehind, BehindIs
<1> HIDE DEF n, t
<1>5. ASSUME NEW k \in Nat, NEW S, Recent(s, k, S)
      PROVE  Recent(t, k, S)
  <2> SUFFICES ASSUME NEW i \in DOMAIN t, Upto(t, i - 1) >= k
               PROVE  Said(t[i], S)
    BY DEF Recent
  <2>1. Upto(s, p + i - 1) >= k
    BY <1>2, <1>4
  <2>2. p + i \in DOMAIN s /\ t[i] = s[p + i]
    BY <1>4
  <2> QED
    BY <1>5, <2>1, <2>2 DEF Recent
<1>6. ASSUME NEW k \in Nat, NEW S, Recent(s, k + 1, S), s[p] = Menu
      PROVE  Recent(t, k, S)
  <2> SUFFICES ASSUME NEW i \in DOMAIN t, Upto(t, i - 1) >= k
               PROVE  Said(t[i], S)
    BY DEF Recent
  <2>1. Upto(s, p + i - 1) >= k + 1
    BY <1>2, <1>3, <1>4, <1>6
  <2>2. p + i \in DOMAIN s /\ t[i] = s[p + i]
    BY <1>4
  <2>3. PICK m : m = k + 1
    OBVIOUS
  <2>4. Recent(s, m, S) /\ Upto(s, p + i - 1) >= m
    BY <1>6, <2>1, <2>3
  <2> QED
    BY <2>2, <2>4 DEF Recent
<1> QED
  BY <1>2, <1>3, <1>5, <1>6 DEF t

(* What is appended comes behind all menus. *)
LEMMA HeardMore ==
    ASSUME NEW s \in Seq(Texts), NEW t \in Seq(Texts)
    PROVE  /\ s \o t \in Seq(Texts)
           /\ Menus(s) \in Nat /\ Menus(t) \in Nat
           /\ Menus(s \o t) = Menus(s) + Menus(t)
           /\ \A k \in Nat : \A S, R :
                 Recent(s, k, S) /\ S \subseteq R /\ AllSaid(t, R) => Recent(s \o t, k, R)
<1>1. /\ Len(s) \in Nat /\ Len(t) \in Nat
      /\ Len(s \o t) = Len(s) + Len(t)
      /\ DOMAIN (s \o t) = 1 .. (Len(s) + Len(t))
      /\ DOMAIN s = 1 .. Len(s) /\ DOMAIN t = 1 .. Len(t)
      /\ s \o t \in Seq(Texts)
  BY ConcatProperties, LenProperties
<1>2. \A j \in 1 .. Len(t) : t[j] = (s \o t)[Len(s) + j]
  BY <1>1, ConcatProperties
<1>3. \A j \in 1 .. Len(s) : (s \o t)[j] = s[j]
  BY <1>1, ConcatProperties
<1>4. \A n \in 0 .. Len(s) : Upto(s \o t, n) = Upto(s, n)
  <2> SUFFICES ASSUME NEW n \in 0 .. Len(s)
               PROVE  MenusAt(s \o t, n) = MenusAt(s, n)
    BY DEF Upto
  <2> QED
    BY <1>1, <1>3 DEF MenusAt
<1>5. Menus(s \o t) = Menus(s) + Menus(t)
  <2>1. PICK joined : joined = s \o t
    OBVIOUS
  <2>2. Continues(joined, t, Len(s), Len(t))
    BY <1>2, <2>1, Zenon DEF Continues
  <2>3. Upto(joined, Len(s) + Len(t)) = Upto(joined, Len(s)) + Upto(t, Len(t))
    BY <1>1, <2>2, Shifted
  <2> QED
    BY <1>1, <1>4, <2>1, <2>3 DEF Menus
<1>6. ASSUME NEW k \in Nat, NEW S, NEW R, Recent(s, k, S), S \subseteq R, AllSaid(t, R)
      PROVE  Recent(s \o t, k, R)
  <2> SUFFICES ASSUME NEW i \in 1 .. (Len(s) + Len(t)), Upto(s \o t, i - 1) >= k
               PROVE  Said((s \o t)[i], R)
    BY <1>1 DEF Recent
  <2>1. CASE i <= Len(s)
    <3>1. i \in 1 .. Len(s) /\ i - 1 \in 0 .. Len(s)
      BY <2>1
    <3>2. Said(s[i], S)
      BY <1>1, <1>4, <1>6, <3>1 DEF Recent
    <3> QED
      BY <1>3, <1>6, <3>1, <3>2, SaidOfMore
  <2>2. CASE i > Len(s)
    <3>1. i - Len(s) \in 1 .. Len(t) /\ Len(s) + (i - Len(s)) = i
      BY <1>1, <2>2
    <3>2. Said(t[i - Len(s)], R)
      BY <1>1, <1>6, <3>1 DEF AllSaid
    <3> QED
      BY <1>2, <3>1, <3>2
  <2> QED
    BY <1>1, <2>1, <2>2
<1>7. Menus(s) \in Nat /\ Menus(t) \in Nat
  BY <1>1, MenusFinite DEF Menus
<1> QED
  BY <1>1, <1>5, <1>6, <1>7

(***************************************************************************)
(* The scripts                                                             *)
(***************************************************************************)

Lines == {"", "m", "number", "a", "200", "code", "h", "v", "H", "U", "q"}

(* The operations by what they do with the line that asks for something.   *)
Dialling == {"dial", "dial_feature_code"}
Answering == {"answer", "reply_with_code"}
Acting == {"dial", "answer", "reply_with_code", "hold", "reinvite", "is_onhold"}
Checks == DOMAIN Means

(* Those that read fewer menus than they cause.                            *)
Laggards ==
    {"hangup", "phone_start", "is_call_ended", "is_code_ended", "is_playing_dialtone",
     "is_dialtone_detected", "dial_feature_code"}

(* Texts that only the answer to an operation's own line can bring.        *)
OwnTexts ==
    {"Make_call", "Answer_with_code", "No_pending", "re_INVITE", "on_hold", "Local_hold", "shell_prompt"}

Waits(step) ==
    /\ step.do = "expect" /\ step.text \in Texts /\ step.other \in Texts \cup {"nothing"}
    /\ step.hit = "next" /\ step.otherwise \in {"next", "FALSE", "raised"}
    /\ step.miss \in {"TRUE", "FALSE", "raised"}
ReadsMenu(step) == Waits(step) /\ step.text = Menu /\ step.other = "nothing"

(* What the code of an operation of len steps says at its step s.          *)
Scripted(use, s, len, step) ==
    /\ step.do = "line" => step.text \in Lines
    /\ step.do # "line" => Waits(step)
    /\ step.do = "line" =>
          /\ step.text = "m" <=> use \in Dialling /\ s = 3
          /\ step.text = "a" <=> use \in Answering /\ s = 3
          /\ step.text = "number" => use \in Dialling /\ s = 5
          /\ step.text \in {"200", "code"} => use \in Answering /\ s = 5
          /\ step.text = "q" <=> use = "phone_kill" /\ s = 1
    /\ s = 1 => step.do = "line" /\ step.text \in {"", "q"}
    /\ s = 2 => step.do = "expect"
    /\ s = 3 /\ use \in Dialling \cup Answering => step.do = "line"
    /\ s = 4 /\ use \in Dialling \cup Answering => step.do = "expect"
    /\ s = 4 /\ use \in Answering =>
          step.text = "Answer_with_code" /\ step.other = "No_pending" /\ step.otherwise # "next"
    /\ s = 5 /\ use \in Dialling \cup Answering => step.do = "line"

CheckStep(use, s, len, step) ==
    /\ len = 4
    /\ s = 2 => ReadsMenu(step)
    /\ s = 3 => /\ Waits(step) /\ step.miss = "FALSE" /\ step.other = "nothing"
                /\ \A S : Said(step.text, S) => Means[use] \cap S # {}
    /\ s = 4 => ReadsMenu(step)

ActStep(use, s, len, step) ==
    /\ len >= 4
    /\ s = 2 => ReadsMenu(step)
    /\ s = 3 => step.do = "line" /\ step.text \in {"m", "a", "v", "H", "U"}
    /\ s = 4 => Waits(step) /\ {step.text, step.other} \subseteq OwnTexts \cup {"nothing"}
    /\ s = 4 /\ use \in Dialling => step.text = "Make_call" /\ step.other = "nothing"
    /\ s = 5 /\ use \in Dialling \cup Answering =>
          step.do = "line" /\ step.text \in {"number", "200", "code"} /\ len > 6
    /\ s >= 5 /\ s = len => ReadsMenu(step)
    /\ s >= 5 /\ s = len - 1 => step.do = "line" /\ step.text = ""
    /\ s >= 5 /\ s < len - 1 /\ ~(s = 5 /\ use \in Dialling \cup Answering) =>
          Waits(step) /\ step.other = "nothing"

StepIsRight(use, s, len, step) ==
    /\ Scripted(use, s, len, step)
    /\ use \in Checks => CheckStep(use, s, len, step)
    /\ use \in Acting => ActStep(use, s, len, step)
    /\ use = "phone_kill" => len = 2 /\ (s = 2 => Waits(step) /\ step.text = "shell_prompt" /\ step.other = "nothing")

(* Every script has a shape that the properties of its class describe. *)
LEMMA StepsAreRight ==
    ASSUME NEW use \in DOMAIN PhoneOps
    PROVE  /\ Len(PhoneOps[use]) \in 2 .. 10
           /\ \A s \in 1 .. Len(PhoneOps[use]) : StepIsRight(use, s, Len(PhoneOps[use]), PhoneOps[use][s])
<1>1. CASE use = "dial"
  <2> DEFINE a == Type("")
             b == AwaitText(Menu)
             c == Type("m")
             d == AwaitText("Make_call")
             e == Type("number")
             f == AwaitText("CALLING")
  <2>1. PhoneOps[use] = <<a, b>> \o <<c, d>> \o <<e, f>> \o <<a, b>>
    BY <1>1 DEF PhoneOps, dial, select_option_make_call, Ready
  <2>2. /\ StepIsRight(use, 1, 8, a) /\ StepIsRight(use, 2, 8, b)
        /\ StepIsRight(use, 3, 8, c) /\ StepIsRight(use, 4, 8, d)
        /\ StepIsRight(use, 5, 8, e) /\ StepIsRight(use, 6, 8, f)
        /\ StepIsRight(use, 7, 8, a) /\ StepIsRight(use, 8, 8, b)
    BY <1>1
       DEF StepIsRight, Scripted, CheckStep, ActStep, Waits, ReadsMenu, Type, AwaitText, Suppressed,
           Await, Menu, Lines, Texts, OwnTexts, Dialling, Answering, Acting, Checks, Means, Said
  <2> HIDE DEF a, b, c, d, e, f
  <2> QED
    BY <2>1, <2>2
<1>2. CASE use = "answer"
  <2> DEFINE a == Type("")
             b == AwaitText(Menu)
             c == Type("a")
             d == Await("Answer_with_code", "next", "No_pending", "FALSE", "raised")
             e == Type("200")
             f == AwaitText("CONFIRMED")
  <2>1. PhoneOps[use] = <<a, b>> \o <<c, d, e, f>> \o <<a, b>>
    BY <1>2 DEF PhoneOps, answer_call, Ready
  <2>2. /\ StepIsRight(use, 1, 8, a) /\ StepIsRight(use, 2, 8, b)
        /\ StepIsRight(use, 3, 8, c) /\ StepIsRight(use, 4, 8, d)
        /\ StepIsRight(use, 5, 8, e) /\ StepIsRight(use, 6, 8, f)
        /\ StepIsRight(use, 7, 8, a) /\ StepIsRight(use, 8, 8, b)
    BY <1>2
       DEF StepIsRight, Scripted, CheckStep, ActStep, Waits, ReadsMenu, Type, AwaitText, Suppressed,
           Await, Menu, Lines, Texts, OwnTexts, Dialling, Answering, Acting, Checks, Means, Said
  <2> HIDE DEF a, b, c, d, e, f
  <2> QED
    BY <2>1, <2>2
<1>3. CASE use = "hangup"
  <2> DEFINE a == Type("")
             b == AwaitText(Menu)
             c == Type("h")
             d == Await("DISCON", "next", "No_current_call", "next", "raised")
  <2>1. PhoneOps[use] = <<a, b>> \o <<c, d>> \o <<a, b>>
    BY <1>3 DEF PhoneOps, hangup, Ready
  <2>2. /\ StepIsRight(use, 1, 6, a) /\ StepIsRight(use, 2, 6, b)
        /\ StepIsRight(use, 3, 6, c) /\ StepIsRight(use, 4, 6, d)
        /\ StepIsRight(use, 5, 6, a) /\ StepIsRight(use, 6, 6, b)
    BY <1>3
       DEF StepIsRight, Scripted, CheckStep, ActStep, Waits, ReadsMenu, Type, AwaitText, Suppressed,
           Await, Menu, Lines, Texts, OwnTexts, Dialling, Answering, Acting, Checks, Means, Said
  <2> HIDE DEF a, b, c, d
  <2> QED
    BY <2>1, <2>2
<1>4. CASE use = "reinvite"
  <2> DEFINE a == Type("")
             b == AwaitText(Menu)
             c == Type("v")
             d == AwaitText("re_INVITE")
             e == AwaitText("SDP_done")
  <2>1. PhoneOps[use] = <<a, b>> \o <<c, d, e>> \o <<a, b>>
    BY <1>4 DEF PhoneOps, reinvite, Ready
  <2>2. /\ StepIsRight(use, 1, 7, a) /\ StepIsRight(use, 2, 7, b)
        /\ StepIsRight(use, 3, 7, c) /\ StepIsRight(use, 4, 7, d)
        /\ StepIsRight(use, 5, 7, e) /\ StepIsRight(use, 6, 7, a)
        /\ StepIsRight(use, 7, 7, b)
    BY <1>4
       DEF StepIsRight, Scripted, CheckStep, ActStep, Waits, ReadsMenu, Type, AwaitText, Suppressed,
           Await, Menu, Lines, Texts, OwnTexts, Dialling, Answering, Acting, Checks, Means, Said
  <2> HIDE DEF a, b, c, d, e
  <2> QED
    BY <2>1, <2>2
<1>5. CASE use = "hold"
  <2> DEFINE a == Type("")
             b == AwaitText(Menu)
             c == Type("H")
             d == AwaitText("on_hold")
  <2>1. PhoneOps[use] = <<a, b>> \o <<c, d>> \o <<a, b>>
    BY <1>5 DEF PhoneOps, hold, Ready
  <2>2. /\ StepIsRight(use, 1, 6, a) /\ StepIsRight(use, 2, 6, b)
        /\ StepIsRight(use, 3, 6, c) /\ StepIsRight(use, 4, 6, d)
        /\ StepIsRight(use, 5, 6, a) /\ StepIsRight(use, 6, 6, b)
    BY <1>5
       DEF StepIsRight, Scripted, CheckStep, ActStep, Waits, ReadsMenu, Type, AwaitText, Suppressed,
           Await, Menu, Lines, Texts, OwnTexts, Dialling, Answering, Acting, Checks, Means, Said
  <2> HIDE DEF a, b, c, d
  <2> QED
    BY <2>1, <2>2
<1>6. CASE use = "reply_with_code"
  <2> DEFINE a == Type("")
             b == AwaitText(Menu)
             c == Type("a")
             d == Await("Answer_with_code", "next", "No_pending", "raised", "raised")
             e == Type("code")
  <2>1. PhoneOps[use] = <<a, b>> \o <<c, d, e, a, b>>
    BY <1>6 DEF PhoneOps, reply_with_code, Ready
  <2>2. /\ StepIsRight(use, 1, 7, a) /\ StepIsRight(use, 2, 7, b)
        /\ StepIsRight(use, 3, 7, c) /\ StepIsRight(use, 4, 7, d)
        /\ StepIsRight(use, 5, 7, e) /\ StepIsRight(use, 6, 7, a)
        /\ StepIsRight(use, 7, 7, b)
    BY <1>6
       DEF StepIsRight, Scripted, CheckStep, ActStep, Waits, ReadsMenu, Type, AwaitText, Suppressed,
           Await, Menu, Lines, Texts, OwnTexts, Dialling, Answering, Acting, Checks, Means, Said
  <2> HIDE DEF a, b, c, d, e
  <2> QED
    BY <2>1, <2>2
<1>7. CASE use = "dial_feature_code"
  <2> DEFINE a == Type("")
             b == AwaitText(Menu)
             c == Type("m")
             d == AwaitText("Make_call")
             e == Type("number")
             f == AwaitText("CALLING")
             g == Suppressed(Menu, "TRUE")
             h == Suppressed("Closing_sound", "TRUE")
  <2>1. PhoneOps[use] = <<a, b>> \o <<c, d>> \o <<e, f>> \o <<a, g, h, a>>
    BY <1>7 DEF PhoneOps, dial_feature_code, select_option_make_call, is_code_ended, Ready
  <2>2. /\ StepIsRight(use, 1, 10, a) /\ StepIsRight(use, 2, 10, b)
        /\ StepIsRight(use, 3, 10, c) /\ StepIsRight(use, 4, 10, d)
    BY <1>7
       DEF StepIsRight, Scripted, CheckStep, ActStep, Waits, ReadsMenu, Type, AwaitText, Suppressed,
           Await, Menu, Lines, Texts, OwnTexts, Dialling, Answering, Acting, Checks, Means, Said
  <2>3. /\ StepIsRight(use, 5, 10, e) /\ StepIsRight(use, 6, 10, f)
        /\ StepIsRight(use, 7, 10, a) /\ StepIsRight(use, 8, 10, g)
    BY <1>7
       DEF StepIsRight, Scripted, CheckStep, ActStep, Waits, ReadsMenu, Type, AwaitText, Suppressed,
           Await, Menu, Lines, Texts, OwnTexts, Dialling, Answering, Acting, Checks, Means, Said
  <2>4. /\ StepIsRight(use, 9, 10, h) /\ StepIsRight(use, 10, 10, a)
    BY <1>7
       DEF StepIsRight, Scripted, CheckStep, ActStep, Waits, ReadsMenu, Type, AwaitText, Suppressed,
           Await, Menu, Lines, Texts, OwnTexts, Dialling, Answering, Acting, Checks, Means, Said
  <2> HIDE DEF a, b, c, d, e, f, g, h
  <2> QED
    BY <2>1, <2>2, <2>3, <2>4
<1>8. CASE use = "is_dialtone_detected"
  <2> DEFINE a == Type("")
             b == AwaitText(Menu)
             c == Type("h")
             d == Await("DISCON", "next", "No_current_call", "next", "raised")
             e == Suppressed(Menu, "TRUE")
             f == Type("U")
             g == Suppressed("No_current_call", "TRUE")
  <2>1. PhoneOps[use] = <<a, b>> \o <<c, d>> \o <<a, b>> \o <<a, e, f, g>>
    BY <1>8
       DEF PhoneOps, is_dialtone_detected, hangup, is_playing_dialtone, send_update_and_validate,
           Ready
  <2>2. /\ StepIsRight(use, 1, 10, a) /\ StepIsRight(use, 2, 10, b)
        /\ StepIsRight(use, 3, 10, c) /\ StepIsRight(use, 4, 10, d)
    BY <1>8
       DEF StepIsRight, Scripted, CheckStep, ActStep, Waits, ReadsMenu, Type, AwaitText, Suppressed,
           Await, Menu, Lines, Texts, OwnTexts, Dialling, Answering, Acting, Checks, Means, Said
  <2>3. /\ StepIsRight(use, 5, 10, a) /\ StepIsRight(use, 6, 10, b)
        /\ StepIsRight(use, 7, 10, a) /\ StepIsRight(use, 8, 10, e)
    BY <1>8
       DEF StepIsRight, Scripted, CheckStep, ActStep, Waits, ReadsMenu, Type, AwaitText, Suppressed,
           Await, Menu, Lines, Texts, OwnTexts, Dialling, Answering, Acting, Checks, Means, Said
  <2>4. /\ StepIsRight(use, 9, 10, f) /\ StepIsRight(use, 10, 10, g)
    BY <1>8
       DEF StepIsRight, Scripted, CheckStep, ActStep, Waits, ReadsMenu, Type, AwaitText, Suppressed,
           Await, Menu, Lines, Texts, OwnTexts, Dialling, Answering, Acting, Checks, Means, Said
  <2> HIDE DEF a, b, c, d, e, f, g
  <2> QED
    BY <2>1, <2>2, <2>3, <2>4
<1>9. CASE use = "phone_start"
  <2> DEFINE a == Type("")
             b == AwaitText(Menu)
  <2>1. PhoneOps[use] = <<a, b>>
    BY <1>9 DEF PhoneOps, phone_start, Ready
  <2>2. /\ StepIsRight(use, 1, 2, a) /\ StepIsRight(use, 2, 2, b)
    BY <1>9
       DEF StepIsRight, Scripted, CheckStep, ActStep, Waits, ReadsMenu, Type, AwaitText, Suppressed,
           Await, Menu, Lines, Texts, OwnTexts, Dialling, Answering, Acting, Checks, Means, Said
  <2> HIDE DEF a, b
  <2> QED
    BY <2>1, <2>2
<1>10. CASE use = "phone_kill"
  <2> DEFINE a == Type("q")
             b == AwaitText("shell_prompt")
  <2>1. PhoneOps[use] = <<a, b>>
    BY <1>10 DEF PhoneOps, phone_kill
  <2>2. /\ StepIsRight(use, 1, 2, a) /\ StepIsRight(use, 2, 2, b)
    BY <1>10
       DEF StepIsRight, Scripted, CheckStep, ActStep, Waits, ReadsMenu, Type, AwaitText, Suppressed,
           Await, Menu, Lines, Texts, OwnTexts, Dialling, Answering, Acting, Checks, Means, Said
  <2> HIDE DEF a, b
  <2> QED
    BY <2>1, <2>2
<1>11. CASE use = "is_onhold"
  <2> DEFINE a == Type("")
             b == Suppressed(Menu, "TRUE")
             c == Type("U")
             d == Suppressed("Local_hold", "TRUE")
  <2>1. PhoneOps[use] = <<a, b, c, d>>
    BY <1>11 DEF PhoneOps, is_onhold, send_update_and_validate
  <2>2. /\ StepIsRight(use, 1, 4, a) /\ StepIsRight(use, 2, 4, b)
        /\ StepIsRight(use, 3, 4, c) /\ StepIsRight(use, 4, 4, d)
    BY <1>11
       DEF StepIsRight, Scripted, CheckStep, ActStep, Waits, ReadsMenu, Type, AwaitText, Suppressed,
           Await, Menu, Lines, Texts, OwnTexts, Dialling, Answering, Acting, Checks, Means, Said
  <2> HIDE DEF a, b, c, d
  <2> QED
    BY <2>1, <2>2
<1>12. CASE use = "is_playing_dialtone"
  <2> DEFINE a == Type("")
             b == Suppressed(Menu, "TRUE")
             c == Type("U")
             d == Suppressed("No_current_call", "TRUE")
  <2>1. PhoneOps[use] = <<a, b, c, d>>
    BY <1>12 DEF PhoneOps, is_playing_dialtone, send_update_and_validate
  <2>2. /\ StepIsRight(use, 1, 4, a) /\ StepIsRight(use, 2, 4, b)
        /\ StepIsRight(use, 3, 4, c) /\ StepIsRight(use, 4, 4, d)
    BY <1>12
       DEF StepIsRight, Scripted, CheckStep, ActStep, Waits, ReadsMenu, Type, AwaitText, Suppressed,
           Await, Menu, Lines, Texts, OwnTexts, Dialling, Answering, Acting, Checks, Means, Said
  <2> HIDE DEF a, b, c, d
  <2> QED
    BY <2>1, <2>2
<1>13. CASE use = "is_call_ended"
  <2> DEFINE a == Type("")
             b == AwaitText("no_calls")
             c == AwaitText(Menu)
  <2>1. PhoneOps[use] = <<a, b, c>>
    BY <1>13 DEF PhoneOps, is_call_ended
  <2>2. /\ StepIsRight(use, 1, 3, a) /\ StepIsRight(use, 2, 3, b)
        /\ StepIsRight(use, 3, 3, c)
    BY <1>13
       DEF StepIsRight, Scripted, CheckStep, ActStep, Waits, ReadsMenu, Type, AwaitText, Suppressed,
           Await, Menu, Lines, Texts, OwnTexts, Dialling, Answering, Acting, Checks, Means, Said
  <2> HIDE DEF a, b, c
  <2> QED
    BY <2>1, <2>2
<1>14. CASE use = "is_code_ended"
  <2> DEFINE a == Type("")
             b == Suppressed(Menu, "TRUE")
             c == Suppressed("Closing_sound", "TRUE")
  <2>1. PhoneOps[use] = <<a, b, c, a>>
    BY <1>14 DEF PhoneOps, is_code_ended
  <2>2. /\ StepIsRight(use, 1, 4, a) /\ StepIsRight(use, 2, 4, b)
        /\ StepIsRight(use, 3, 4, c) /\ StepIsRight(use, 4, 4, a)
    BY <1>14
       DEF StepIsRight, Scripted, CheckStep, ActStep, Waits, ReadsMenu, Type, AwaitText, Suppressed,
           Await, Menu, Lines, Texts, OwnTexts, Dialling, Answering, Acting, Checks, Means, Said
  <2> HIDE DEF a, b, c
  <2> QED
    BY <2>1, <2>2
<1>15. CASE use = "is_idle"
  <2> DEFINE a == Type("")
             b == Suppressed(Menu, "FALSE")
             c == Suppressed("no_calls", "FALSE")
  <2>1. PhoneOps[use] = <<a, b, c, b>>
    BY <1>15 DEF PhoneOps, is_idle, validate_state
  <2>2. /\ StepIsRight(use, 1, 4, a) /\ StepIsRight(use, 2, 4, b)
        /\ StepIsRight(use, 3, 4, c) /\ StepIsRight(use, 4, 4, b)
    BY <1>15
       DEF StepIsRight, Scripted, CheckStep, ActStep, Waits, ReadsMenu, Type, AwaitText, Suppressed,
           Await, Menu, Lines, Texts, OwnTexts, Dialling, Answering, Acting, Checks, Means, Said
  <2> HIDE DEF a, b, c
  <2> QED
    BY <2>1, <2>2
<1>16. CASE use = "is_dialing"
  <2> DEFINE a == Type("")
             b == Suppressed(Menu, "FALSE")
             c == Suppressed("EARLY", "FALSE")
  <2>1. PhoneOps[use] = <<a, b, c, b>>
    BY <1>16 DEF PhoneOps, is_dialing, validate_state
  <2>2. /\ StepIsRight(use, 1, 4, a) /\ StepIsRight(use, 2, 4, b)
        /\ StepIsRight(use, 3, 4, c) /\ StepIsRight(use, 4, 4, b)
    BY <1>16
       DEF StepIsRight, Scripted, CheckStep, ActStep, Waits, ReadsMenu, Type, AwaitText, Suppressed,
           Await, Menu, Lines, Texts, OwnTexts, Dialling, Answering, Acting, Checks, Means, Said
  <2> HIDE DEF a, b, c
  <2> QED
    BY <2>1, <2>2
<1>17. CASE use = "is_ringing"
  <2> DEFINE a == Type("")
             b == Suppressed(Menu, "FALSE")
             c == Suppressed("Ringing", "FALSE")
  <2>1. PhoneOps[use] = <<a, b, c, b>>
    BY <1>17 DEF PhoneOps, is_ringing, validate_state
  <2>2. /\ StepIsRight(use, 1, 4, a) /\ StepIsRight(use, 2, 4, b)
        /\ StepIsRight(use, 3, 4, c) /\ StepIsRight(use, 4, 4, b)
    BY <1>17
       DEF StepIsRight, Scripted, CheckStep, ActStep, Waits, ReadsMenu, Type, AwaitText, Suppressed,
           Await, Menu, Lines, Texts, OwnTexts, Dialling, Answering, Acting, Checks, Means, Said
  <2> HIDE DEF a, b, c
  <2> QED
    BY <2>1, <2>2
<1>18. CASE use = "is_connected"
  <2> DEFINE a == Type("")
             b == Suppressed(Menu, "FALSE")
             c == Suppressed("CONFIRMED", "FALSE")
  <2>1. PhoneOps[use] = <<a, b, c, b>>
    BY <1>18 DEF PhoneOps, is_connected, validate_state
  <2>2. /\ StepIsRight(use, 1, 4, a) /\ StepIsRight(use, 2, 4, b)
        /\ StepIsRight(use, 3, 4, c) /\ StepIsRight(use, 4, 4, b)
    BY <1>18
       DEF StepIsRight, Scripted, CheckStep, ActStep, Waits, ReadsMenu, Type, AwaitText, Suppressed,
           Await, Menu, Lines, Texts, OwnTexts, Dialling, Answering, Acting, Checks, Means, Said
  <2> HIDE DEF a, b, c
  <2> QED
    BY <2>1, <2>2
<1>19. CASE use = "is_call_waiting"
  <2> DEFINE a == Type("")
             b == Suppressed(Menu, "FALSE")
             c == Suppressed("Incoming_call", "FALSE")
  <2>1. PhoneOps[use] = <<a, b, c, b>>
    BY <1>19 DEF PhoneOps, is_call_waiting, validate_state
  <2>2. /\ StepIsRight(use, 1, 4, a) /\ StepIsRight(use, 2, 4, b)
        /\ StepIsRight(use, 3, 4, c) /\ StepIsRight(use, 4, 4, b)
    BY <1>19
       DEF StepIsRight, Scripted, CheckStep, ActStep, Waits, ReadsMenu, Type, AwaitText, Suppressed,
           Await, Menu, Lines, Texts, OwnTexts, Dialling, Answering, Acting, Checks, Means, Said
  <2> HIDE DEF a, b, c
  <2> QED
    BY <2>1, <2>2
<1> QED
  BY <1>1, <1>2, <1>3, <1>4, <1>5, <1>6, <1>7, <1>8, <1>9, <1>10, <1>11, <1>12, <1>13, <1>14, <1>15, <1>16, <1>17, <1>18, <1>19
     DEF PhoneOps

(* A buffer and the number of its menus. *)
LEMMA MenusType ==
    ASSUME NEW s \in Seq(Texts)
    PROVE  Len(s) \in Nat /\ DOMAIN s = 1 .. Len(s) /\ Menus(s) \in Nat /\ IsFiniteSet(MenusAt(s, Len(s)))
<1>1. Len(s) \in Nat /\ DOMAIN s = 1 .. Len(s)
  BY LenProperties
<1> QED
  BY <1>1, MenusFinite, Zenon DEF Menus

(* A buffer without a menu has none. *)
LEMMA NoMenu ==
    ASSUME NEW s \in Seq(Texts), \A j \in DOMAIN s : s[j] # Menu
    PROVE  Menus(s) = 0
<1>1. DOMAIN s = 1 .. Len(s)
  BY MenusType, Zenon
<1>2. MenusAt(s, Len(s)) = {}
  BY <1>1, Zenon DEF MenusAt
<1> QED
  BY <1>2, FS_EmptySet, Zenon DEF Menus, Upto

(* A buffer with menus at one place only has one at most. *)
LEMMA OneMenu ==
    ASSUME NEW s \in Seq(Texts), NEW n, \A j \in DOMAIN s : s[j] = Menu => j = n
    PROVE  Menus(s) <= 1
<1>1. DOMAIN s = 1 .. Len(s)
  BY MenusType, Zenon
<1>2. MenusAt(s, Len(s)) \subseteq {n}
  BY <1>1, Zenon DEF MenusAt
<1>3. IsFiniteSet({n}) /\ Cardinality({n}) = 1
  BY FS_Singleton, Zenon
<1>4. Menus(s) <= Cardinality({n})
  BY <1>2, <1>3, FS_Subset, Zenon DEF Menus, Upto
<1> QED
  BY <1>3, <1>4

(* A buffer with menus at two places only has two at most. *)
LEMMA TwoMenus ==
    ASSUME NEW s \in Seq(Texts), NEW n, NEW m, \A j \in DOMAIN s : s[j] = Menu => j \in {n, m}
    PROVE  Menus(s) <= 2
<1>1. DOMAIN s = 1 .. Len(s) /\ Menus(s) \in Nat
  BY MenusType, Zenon
<1>2. MenusAt(s, Len(s)) \subseteq {n} \cup {m}
  BY <1>1, Zenon DEF MenusAt
<1>3. IsFiniteSet({n}) /\ Cardinality({n}) = 1
  BY FS_Singleton, Zenon
<1>4. /\ IsFiniteSet({n} \cup {m})
      /\ Cardinality({n} \cup {m}) = IF m \in {n} THEN Cardinality({n}) ELSE Cardinality({n}) + 1
  BY <1>3, FS_AddElement, Zenon
<1>5. Menus(s) <= Cardinality({n} \cup {m})
  BY <1>2, <1>4, FS_Subset, Zenon DEF Menus, Upto
<1>6. PICK c : c = Cardinality({n} \cup {m})
  OBVIOUS
<1>7. PICK d : d = Cardinality({n})
  OBVIOUS
<1>8. c = 1 \/ c = 2
  <2>1. d = 1 /\ c = IF m \in {n} THEN d ELSE d + 1
    BY <1>3, <1>4, <1>6, <1>7, Zenon
  <2> QED
    BY <2>1
<1>9. PICK k : k = Menus(s)
  OBVIOUS
<1>10. k \in Nat /\ k <= c
  BY <1>1, <1>5, <1>6, <1>9, Zenon
<1>11. k <= 2
  BY <1>8, <1>10
<1> QED
  BY <1>9, <1>11, Zenon

(* Behind more menus than there are stands nothing.                        *)
LEMMA FewMenus ==
    ASSUME NEW s \in Seq(Texts), NEW k \in Nat, Menus(s) < k, NEW S
    PROVE  Recent(s, k, S)
<1> SUFFICES ASSUME NEW i \in DOMAIN s, Upto(s, i - 1) >= k
             PROVE  FALSE
  BY DEF Recent
<1>1. DOMAIN s = 1 .. Len(s) /\ Menus(s) \in Nat /\ Len(s) \in Nat
  BY MenusType, Zenon
<1>2. i - 1 \in 0 .. Len(s) /\ i - 1 \in Nat
  BY <1>1
<1>3. Upto(s, i - 1) <= Menus(s) /\ Upto(s, i - 1) \in Nat
  BY <1>1, <1>2, UptoGrows, MenusFinite, Zenon DEF Menus
<1> HIDE DEF Menus
<1> QED
  BY <1>1, <1>3

(* What is recent stays so, for a longer time and behind more menus. *)
LEMMA RecentForLonger ==
    ASSUME NEW s \in Seq(Texts), NEW k \in Nat, NEW l \in Nat, k <= l, NEW S, NEW R, S \subseteq R, Recent(s, k, S)
    PROVE  Recent(s, l, R)
<1> SUFFICES ASSUME NEW i \in DOMAIN s, Upto(s, i - 1) >= l
             PROVE  Said(s[i], R)
  BY DEF Recent
<1>1. DOMAIN s = 1 .. Len(s) /\ Len(s) \in Nat
  BY MenusType, Zenon
<1>2. i - 1 \in Nat
  BY <1>1
<1>3. Upto(s, i - 1) \in Nat
  BY <1>2, MenusFinite, Zenon
<1>4. Upto(s, i - 1) >= k
  BY <1>3
<1> QED
  BY <1>4, SaidOfMore DEF Recent

(* A buffer that is recent altogether is so behind any menu. *)
LEMMA AllIsRecent ==
    ASSUME NEW s \in Seq(Texts), NEW k \in Nat, NEW S, AllSaid(s, S)
    PROVE  Recent(s, k, S)
BY DEF Recent, AllSaid

(***************************************************************************)
(* How a buffer changes that holds few menus and no text of the operation  *)
(* itself                                                                  *)
(***************************************************************************)

Unowned(s) == \A i \in DOMAIN s : s[i] \notin OwnTexts

Bounded(s, m) == Unowned(s) /\ Menus(s) <= m

FreshBehind(s, S) ==
    \A p \in DOMAIN s : s[p] \in OwnTexts =>
        /\ Bounded(Beyond(s, p), IF s[p] \in {"Make_call", "Answer_with_code"} THEN 0 ELSE 1)
        /\ Recent(Beyond(s, p), 0, S)

(* What a buffer is when texts come. *)
LEMMA TextsJoined ==
    ASSUME NEW s \in Seq(Texts), NEW t \in Seq(Texts)
    PROVE  /\ s \o t \in Seq(Texts)
           /\ DOMAIN s = 1 .. Len(s) /\ DOMAIN t = 1 .. Len(t) /\ Len(s) \in Nat /\ Len(t) \in Nat
           /\ Len(s \o t) = Len(s) + Len(t)
           /\ DOMAIN (s \o t) = 1 .. (Len(s) + Len(t))
           /\ \A i \in DOMAIN s : (s \o t)[i] = s[i]
           /\ \A i \in DOMAIN t : (s \o t)[Len(s) + i] = t[i]
           /\ \A i \in DOMAIN (s \o t) :
                 \/ i \in DOMAIN s /\ (s \o t)[i] = s[i]
                 \/ \E q \in DOMAIN t : i = Len(s) + q /\ (s \o t)[i] = t[q]
<1>1. /\ Len(s) \in Nat /\ Len(t) \in Nat
      /\ Len(s \o t) = Len(s) + Len(t)
      /\ DOMAIN (s \o t) = 1 .. (Len(s) + Len(t))
      /\ DOMAIN s = 1 .. Len(s) /\ DOMAIN t = 1 .. Len(t)
      /\ s \o t \in Seq(Texts)
  BY ConcatProperties, LenProperties
<1>2. \A i \in 1 .. Len(s) + Len(t) : (s \o t)[i] = IF i <= Len(s) THEN s[i] ELSE t[i - Len(s)]
  BY ConcatProperties, Zenon
<1>3. ASSUME NEW i \in DOMAIN (s \o t), i \notin DOMAIN s
      PROVE  \E q \in DOMAIN t : i = Len(s) + q /\ (s \o t)[i] = t[q]
  <2>1. PICK q : q = i - Len(s)
    OBVIOUS
  <2>2. q \in DOMAIN t /\ i = Len(s) + q /\ (s \o t)[i] = t[q]
    BY <1>1, <1>2, <1>3, <2>1
  <2> QED
    BY <2>2
<1> QED
  BY <1>1, <1>2, <1>3

(* The menus of both add up. *)
LEMMA BoundedMore ==
    ASSUME NEW s \in Seq(Texts), NEW t \in Seq(Texts), NEW m \in Nat, NEW n \in Nat, Bounded(s, m), Bounded(t, n)
    PROVE  Bounded(s \o t, m + n)
<1>1. \A i \in DOMAIN (s \o t) :
         \/ i \in DOMAIN s /\ (s \o t)[i] = s[i]
         \/ \E q \in DOMAIN t : i = Len(s) + q /\ (s \o t)[i] = t[q]
  BY TextsJoined, Zenon
<1>3. Unowned(s \o t)
  BY <1>1, Zenon DEF Unowned, Bounded
<1>2. Menus(s \o t) = Menus(s) + Menus(t) /\ Menus(s) \in Nat /\ Menus(t) \in Nat
  BY HeardMore, Zenon
<1> QED
  BY <1>3, <1>2 DEF Bounded

(* Reading takes menus away, and reads one if it reads a menu. *)
LEMMA BoundedLess ==
    ASSUME NEW s \in Seq(Texts), NEW p \in DOMAIN s, NEW m \in Nat, Bounded(s, m)
    PROVE  Bounded(Beyond(s, p), m) /\ (s[p] = Menu => Bounded(Beyond(s, p), m - 1))
<1>1. Unowned(Beyond(s, p))
  <2>1. PICK t : t = Beyond(s, p)
    OBVIOUS
  <2>2. /\ DOMAIN t = 1 .. (Len(s) - p)
        /\ \A i \in 1 .. (Len(s) - p) : t[i] = s[p + i] /\ p + i \in DOMAIN s
    BY <2>1, BehindIs, Zenon
  <2> QED
    BY <2>1, <2>2 DEF Unowned, Bounded
<1>2. /\ Menus(Beyond(s, p)) \in Nat /\ Menus(s) \in Nat
      /\ Menus(Beyond(s, p)) <= Menus(s)
      /\ s[p] = Menu => Menus(Beyond(s, p)) <= Menus(s) - 1
  BY ReadOn, Zenon
<1> QED
  BY <1>1, <1>2 DEF Bounded

(* Reading and what comes do not disturb each other. *)
LEMMA BehindOfJoined ==
    ASSUME NEW s \in Seq(Texts), NEW t \in Seq(Texts)
    PROVE  /\ \A p \in DOMAIN s : Beyond(s \o t, p) = Beyond(s, p) \o t
           /\ \A p \in DOMAIN t : Beyond(s \o t, Len(s) + p) = Beyond(t, p)
<1>1. ASSUME NEW p \in DOMAIN s
      PROVE  Beyond(s \o t, p) = Beyond(s, p) \o t
  <2>1. /\ p \in 1 .. Len(s) /\ p \in DOMAIN (s \o t)
        /\ s \o t \in Seq(Texts) /\ Len(s) \in Nat /\ Len(t) \in Nat
        /\ Len(s \o t) = Len(s) + Len(t)
    BY TextsJoined
  <2>2. /\ Beyond(s \o t, p) \in Seq(Texts) /\ Len(Beyond(s \o t, p)) = Len(s) + Len(t) - p
        /\ \A i \in 1 .. (Len(s) + Len(t) - p) : Beyond(s \o t, p)[i] = (s \o t)[p + i]
    <3>1. PICK joined \in Seq(Texts) : joined = s \o t
      BY <2>1
    <3>2. /\ Beyond(joined, p) \in Seq(Texts) /\ Len(Beyond(joined, p)) = Len(joined) - p
          /\ \A i \in 1 .. (Len(joined) - p) : Beyond(joined, p)[i] = joined[p + i]
      BY <2>1, <3>1, BehindIs, Zenon
    <3>3. Len(joined) - p = Len(s) + Len(t) - p
      BY <2>1, <3>1
    <3> QED
      BY <3>1, <3>2, <3>3, Zenon
  <2>3. /\ Beyond(s, p) \in Seq(Texts) /\ Len(Beyond(s, p)) = Len(s) - p
        /\ \A i \in 1 .. (Len(s) - p) : Beyond(s, p)[i] = s[p + i] /\ p + i \in DOMAIN s
    BY BehindIs, Zenon
  <2>4. PICK u : u = Beyond(s, p)
    OBVIOUS
  <2>5. /\ u \o t \in Seq(Texts) /\ Len(u \o t) = Len(s) - p + Len(t)
        /\ \A i \in 1 .. (Len(s) - p + Len(t)) : (u \o t)[i] = IF i <= Len(s) - p THEN u[i] ELSE t[i - (Len(s) - p)]
    BY <2>3, <2>4, ConcatProperties
  <2>6. \A i \in 1 .. Len(s) + Len(t) : (s \o t)[i] = IF i <= Len(s) THEN s[i] ELSE t[i - Len(s)]
    BY ConcatProperties, Zenon
  <2>7. ASSUME NEW i \in 1 .. (Len(s) + Len(t) - p)
        PROVE  (s \o t)[p + i] = (u \o t)[i]
    <3>1. p + i \in 1 .. Len(s) + Len(t) /\ i \in 1 .. (Len(s) - p + Len(t))
      BY <2>1
    <3>2. CASE i <= Len(s) - p
      BY <2>1, <2>3, <2>4, <2>5, <2>6, <3>1, <3>2
    <3>3. CASE ~(i <= Len(s) - p)
      <4>1. ~(p + i <= Len(s)) /\ p + i - Len(s) = i - (Len(s) - p)
        BY <2>1, <3>3
      <4> QED
        BY <2>5, <2>6, <3>1, <3>3, <4>1
    <3> QED
      BY <3>2, <3>3
  <2>8. Len(Beyond(s \o t, p)) = Len(u \o t) /\ Len(Beyond(s \o t, p)) = Len(s) + Len(t) - p
    BY <2>1, <2>2, <2>5
  <2>9. \A i \in 1 .. Len(Beyond(s \o t, p)) : Beyond(s \o t, p)[i] = (u \o t)[i]
    BY <2>2, <2>7, <2>8
  <2> QED
    BY <2>2, <2>4, <2>5, <2>8, <2>9, SeqEqual
<1>2. ASSUME NEW p \in DOMAIN t
      PROVE  Beyond(s \o t, Len(s) + p) = Beyond(t, p)
  <2>1. /\ p \in 1 .. Len(t) /\ Len(s) + p \in DOMAIN (s \o t)
        /\ s \o t \in Seq(Texts) /\ Len(s) \in Nat /\ Len(t) \in Nat
        /\ Len(s \o t) = Len(s) + Len(t)
        /\ Len(s) + Len(t) - (Len(s) + p) = Len(t) - p
    BY TextsJoined
  <2>2. PICK q : q = Len(s) + p
    OBVIOUS
  <2>3. /\ Beyond(s \o t, q) \in Seq(Texts) /\ Len(Beyond(s \o t, q)) = Len(t) - p
        /\ \A i \in 1 .. (Len(t) - p) : Beyond(s \o t, q)[i] = (s \o t)[q + i]
    <3>1. PICK joined \in Seq(Texts) : joined = s \o t
      BY <2>1
    <3>2. /\ Beyond(joined, q) \in Seq(Texts) /\ Len(Beyond(joined, q)) = Len(joined) - q
          /\ \A i \in 1 .. (Len(joined) - q) : Beyond(joined, q)[i] = joined[q + i]
      BY <2>1, <2>2, <3>1, BehindIs, Zenon
    <3>3. Len(joined) - q = Len(t) - p
      BY <2>1, <2>2, <3>1
    <3> QED
      BY <3>1, <3>2, <3>3, Zenon
  <2>4. /\ Beyond(t, p) \in Seq(Texts) /\ Len(Beyond(t, p)) = Len(t) - p
        /\ \A i \in 1 .. (Len(t) - p) : Beyond(t, p)[i] = t[p + i] /\ p + i \in DOMAIN t
    BY BehindIs, Zenon
  <2>5. \A i \in 1 .. (Len(t) - p) : (s \o t)[q + i] = t[p + i]
    <3> SUFFICES ASSUME NEW i \in 1 .. (Len(t) - p)
                 PROVE  (s \o t)[q + i] = t[p + i]
      OBVIOUS
    <3>1. p + i \in DOMAIN t /\ q + i = Len(s) + (p + i)
      BY <2>1, <2>2, <2>4
    <3> QED
      BY <3>1, TextsJoined
  <2> QED
    BY <2>2, <2>3, <2>4, <2>5, SeqEqual
<1> QED
  BY <1>1, <1>2

(* Texts of pjsua's own accord leave it as it is.                          *)
LEMMA FreshStays ==
    ASSUME NEW s \in Seq(Texts), NEW t \in Seq(Texts), NEW S, NEW R,
           FreshBehind(s, S), S \subseteq R, Bounded(t, 0), AllSaid(t, R)
    PROVE  FreshBehind(s \o t, R)
<1> SUFFICES ASSUME NEW p \in DOMAIN (s \o t), (s \o t)[p] \in OwnTexts
             PROVE  /\ Bounded(Beyond(s \o t, p), IF (s \o t)[p] \in {"Make_call", "Answer_with_code"} THEN 0 ELSE 1)
                    /\ Recent(Beyond(s \o t, p), 0, R)
  BY DEF FreshBehind
<1>1. p \in DOMAIN s
  <2>1. \/ p \in DOMAIN s
        \/ \E q \in DOMAIN t : p = Len(s) + q /\ (s \o t)[p] = t[q]
    BY TextsJoined, Zenon
  <2> QED
    BY <2>1, Zenon DEF Bounded, Unowned
<1>2. (s \o t)[p] = s[p] /\ Beyond(s \o t, p) = Beyond(s, p) \o t /\ Beyond(s, p) \in Seq(Texts)
  BY <1>1, TextsJoined, BehindOfJoined, BehindIs, Zenon
<1>3. PICK m \in {0, 1} : m = IF s[p] \in {"Make_call", "Answer_with_code"} THEN 0 ELSE 1
  OBVIOUS
<1>4. Bounded(Beyond(s, p), m) /\ Recent(Beyond(s, p), 0, S)
  BY <1>1, <1>2, <1>3 DEF FreshBehind
<1>5. PICK u \in Seq(Texts) : u = Beyond(s, p)
  BY <1>2
<1>6. Bounded(u \o t, m + 0) /\ m + 0 = m
  BY <1>4, <1>5, BoundedMore
<1>7. Recent(u \o t, 0, R)
  BY <1>4, <1>5, HeardMore
<1> QED
  BY <1>2, <1>3, <1>5, <1>6, <1>7

(* A line's answer behind a buffer without own texts.                      *)
LEMMA FreshFrom ==
    ASSUME NEW s \in Seq(Texts), NEW t \in Seq(Texts), NEW S, Unowned(s), FreshBehind(t, S)
    PROVE  FreshBehind(s \o t, S)
<1> SUFFICES ASSUME NEW p \in DOMAIN (s \o t), (s \o t)[p] \in OwnTexts
             PROVE  /\ Bounded(Beyond(s \o t, p), IF (s \o t)[p] \in {"Make_call", "Answer_with_code"} THEN 0 ELSE 1)
                    /\ Recent(Beyond(s \o t, p), 0, S)
  BY DEF FreshBehind
<1>1. p \notin DOMAIN s
  BY TextsJoined, Zenon DEF Unowned
<1>2. PICK q \in DOMAIN t : p = Len(s) + q /\ (s \o t)[p] = t[q]
  BY <1>1, TextsJoined, Zenon
<1>3. (s \o t)[p] = t[q] /\ Beyond(s \o t, p) = Beyond(t, q)
  BY <1>2, BehindOfJoined, Zenon
<1> QED
  BY <1>3, Zenon DEF FreshBehind

(* An answer whose first text is the only own one.                         *)
LEMMA OneAnswer ==
    ASSUME NEW t \in Seq(Texts), NEW S, AllSaid(t, S), NEW n \in Int,
           \A j \in DOMAIN t : j # 1 => t[j] \notin OwnTexts /\ (t[j] = Menu => j = n),
           1 \in DOMAIN t /\ t[1] \in {"Make_call", "Answer_with_code"} => Len(t) = 1
    PROVE  FreshBehind(t, S)
<1> SUFFICES ASSUME NEW p \in DOMAIN t, t[p] \in OwnTexts
             PROVE  /\ Bounded(Beyond(t, p), IF t[p] \in {"Make_call", "Answer_with_code"} THEN 0 ELSE 1)
                    /\ Recent(Beyond(t, p), 0, S)
  BY DEF FreshBehind
<1>1. p = 1
  OBVIOUS
<1>2. /\ Beyond(t, 1) \in Seq(Texts) /\ Len(t) \in Nat /\ DOMAIN t = 1 .. Len(t)
      /\ DOMAIN Beyond(t, 1) = 1 .. (Len(t) - 1)
      /\ \A i \in 1 .. (Len(t) - 1) : Beyond(t, 1)[i] = t[1 + i] /\ 1 + i \in DOMAIN t
  BY <1>1, BehindIs, MenusType, Zenon
<1>3. ASSUME NEW i \in DOMAIN Beyond(t, 1)
      PROVE  Beyond(t, 1)[i] \notin OwnTexts /\ Said(Beyond(t, 1)[i], S) /\ (Beyond(t, 1)[i] = Menu => i = n - 1)
  <2>1. PICK j : j = 1 + i
    OBVIOUS
  <2>2. i \in 1 .. (Len(t) - 1) /\ j \in DOMAIN t /\ Beyond(t, 1)[i] = t[j] /\ j # 1
    BY <1>2, <2>1
  <2>3. t[j] \notin OwnTexts /\ Said(t[j], S) /\ (t[j] = Menu => j = n)
    BY <2>2, Zenon DEF AllSaid
  <2>4. j = n => i = n - 1
    BY <2>1, <2>2
  <2> QED
    BY <2>2, <2>3, <2>4, Zenon
<1>4. Unowned(Beyond(t, 1)) /\ Recent(Beyond(t, 1), 0, S)
  BY <1>3 DEF Unowned, Recent
<1>5. Menus(Beyond(t, 1)) <= 1
  BY <1>2, <1>3, OneMenu
<1>6. t[1] \in {"Make_call", "Answer_with_code"} => Menus(Beyond(t, 1)) = 0
  BY <1>1, <1>2, NoMenu
<1> QED
  BY <1>1, <1>4, <1>5, <1>6 DEF Bounded

(***************************************************************************)
(* What holds in its states                                                *)
(***************************************************************************)

Running == phone.result = "running"
Quitting == phone.use = "phone_kill" /\ phone.step = 2
Lately == truth.before \cup truth.now

PhoneTypes ==
    /\ PhoneTypeOK
    /\ Running => phone.use \in PhoneUses /\ phone.step \in 1 .. Len(Script)
    /\ pjsua.call \in truth.now

(* What pjsua may be in. *)
LEMMA CallTyped ==
    ASSUME PhoneTypes
    PROVE  pjsua.call \in CallStates /\ pjsua.asks \in {"nothing", "number", "code"}
BY DEF PhoneTypes, PhoneTypeOK

(* What pjsua asks for, at the steps that rely on it.                      *)
AsksRightly ==
    Running /\ pjsua.on =>
        /\ phone.step \in {2, 3} /\ phone.use # "phone_kill" => pjsua.asks = "nothing"
        /\ phone.step \in {4, 5} /\ phone.use \in Dialling => pjsua.asks = "number"
        /\ phone.step = 5 /\ phone.use \in Answering => pjsua.asks = "code"

(* Its answer to the line "a" is in the buffer at one step only, and once. *)
AnswersToA == {i \in DOMAIN heard : heard[i] \in {"Answer_with_code", "No_pending"}}
AnsweredOnce ==
    /\ AnswersToA # {} => Running /\ phone.step = 4 /\ phone.use \in Answering
    /\ \A i, j \in AnswersToA : i = j
    /\ \A i \in AnswersToA : heard[i] = "Answer_with_code" => pjsua.asks = "code"

StartedIsOn == phone.started /\ ~(Running /\ Quitting) => pjsua.on
RunningIsStarted == Running => phone.started

(* The buffer of an operation that does not lag behind, while no expect    *)
(* gave up: how many menus are left, behind how many of them all is of the *)
(* time of this operation or of the one before, and how an own text is     *)
(* followed.                                                               *)
MenusLeft ==
    IF phone.step = Len(Script) THEN 3
    ELSE IF phone.step = 5 /\ phone.use \in Dialling \cup Answering THEN 0 ELSE 1

Offering == Running /\ (Quitting \/ (phone.step = 4 /\ phone.use \in Acting))

InTime ==
    /\ ~Running => Bounded(heard, 2) /\ Recent(heard, 1, truth.now)
    /\ Running /\ phone.step = 1 => Bounded(heard, 2) /\ Recent(heard, 1, Lately)
    /\ Running /\ phone.step = 2 /\ ~Quitting =>
          Bounded(heard, 4) /\ Recent(heard, 1, Lately) /\ Recent(heard, 3, truth.now)
    /\ Running /\ (phone.step = 3 \/ (phone.step = 4 /\ phone.use \in Checks)) =>
          Bounded(heard, 3) /\ Recent(heard, 0, Lately) /\ Recent(heard, 2, truth.now)
    /\ Running /\ phone.step = 4 /\ phone.use \in Checks => Means[phone.use] \cap Lately # {}
    /\ Offering => FreshBehind(heard, truth.now)
    /\ Running /\ phone.step >= 5 => Bounded(heard, MenusLeft) /\ Recent(heard, 0, truth.now)

PhoneInv ==
    /\ PhoneTypes /\ AsksRightly /\ AnsweredOnce
    /\ ~behind =>
          /\ Running => phone.use \in Checks \cup Acting \cup {"phone_kill"}
          /\ StartedIsOn /\ RunningIsStarted /\ InTime /\ TrueIsRecent

(* Says puts a menu behind what it says. *)
LEMMA Appended ==
    ASSUME NEW x
    PROVE  Append(<<x>>, Menu) = <<x, Menu>> /\ Append(<<>>, Menu) = <<Menu>>
<1> DEFINE S == {x, Menu}
<1>1. <<x>> \in Seq(S) /\ <<>> \in Seq(S) /\ Menu \in S
  OBVIOUS
<1>2. /\ Append(<<x>>, Menu) \in Seq(S) /\ Len(Append(<<x>>, Menu)) = 2
      /\ Append(<<x>>, Menu)[1] = x /\ Append(<<x>>, Menu)[2] = Menu
      /\ Append(<<>>, Menu) \in Seq(S) /\ Len(Append(<<>>, Menu)) = 1 /\ Append(<<>>, Menu)[1] = Menu
  BY <1>1, AppendProperties
<1>3. <<x, Menu>> \in Seq(S) /\ Len(<<x, Menu>>) = 2 /\ <<Menu>> \in Seq(S) /\ Len(<<Menu>>) = 1
  OBVIOUS
<1>4. \A i \in 1 .. 2 : Append(<<x>>, Menu)[i] = <<x, Menu>>[i]
  BY <1>2
<1>5. \A i \in 1 .. 1 : Append(<<>>, Menu)[i] = <<Menu>>[i]
  BY <1>2
<1> HIDE DEF S
<1> QED
  BY <1>2, <1>3, <1>4, <1>5, SeqEqual

(* The menu's line is about the state of the call. *)
LEMMA MenuLineSays ==
    ASSUME PhoneTypes, NEW S, pjsua.call \in S
    PROVE  /\ MenuLine \in {"no_calls", "one_call", "EARLY", "CONFIRMED"}
           /\ Said(MenuLine, S)
BY CallTyped DEF CallStates, MenuLine, Said

(* What pjsua answers to a line at its menu.                               *)
LEMMA AtTheMenu ==
    ASSUME PhoneTypes, NEW text \in Lines
    PROVE  \/ text = "m" /\ AtMenu(text) = PjReply(<<"Make_call">>, "number", pjsua.call)
           \/ text = "a" /\ AtMenu(text) = PjReply(<<"Answer_with_code">>, "code", pjsua.call)
           \/ text = "a" /\ AtMenu(text) = PjReply(<<"No_pending", Menu>>, "nothing", pjsua.call)
           \/ text = "h" /\ AtMenu(text) = PjReply(<<"DISCON", Menu>>, "nothing", "none")
           \/ text = "v" /\ AtMenu(text) = PjReply(<<"re_INVITE", "SDP_done", Menu>>, "nothing", "confirmed")
           \/ text = "H" /\ AtMenu(text) = PjReply(<<"on_hold", Menu>>, "nothing", "on_hold")
           \/ text = "U" /\ AtMenu(text) = PjReply(<<"Local_hold", Menu>>, "nothing", pjsua.call)
           \/ text \in {"h", "v", "H", "U"} /\ AtMenu(text) = PjReply(<<"No_current_call", Menu>>, "nothing", pjsua.call)
           \/ text \notin {"m", "a"} /\ AtMenu(text) = PjReply(<<MenuLine, Menu>>, "nothing", pjsua.call)
<1>1. ASSUME NEW x
      PROVE  Says(<<x>>) = PjReply(<<x, Menu>>, "nothing", pjsua.call)
  BY Appended, Zenon DEF Says
<1> QED
  BY <1>1, CallTyped DEF AtMenu

OfA == {"Answer_with_code", "No_pending"}

(* An answer as it comes: typed, about the call as it is before or after.  *)
Proper(t, S) == t \in Seq(Texts) /\ AllSaid(t, S)

(* An answer of a text and a menu. *)
LEMMA Pair ==
    ASSUME NEW x \in Texts, NEW S, Said(x, S), x # Menu
    PROVE  /\ Proper(<<x, Menu>>, S) /\ Menus(<<x, Menu>>) <= 1
           /\ x \notin {"Make_call", "Answer_with_code"} => FreshBehind(<<x, Menu>>, S)
           /\ x \notin OwnTexts => Bounded(<<x, Menu>>, 1)
           /\ \A i \in DOMAIN <<x, Menu>> : <<x, Menu>>[i] \in OfA => i = 1 /\ x \in OfA
<1>1. <<x, Menu>> \in Seq(Texts) /\ DOMAIN <<x, Menu>> = 1 .. 2
  BY DEF Menu, Texts
<1>2. \A i \in 1 .. 2 : (i = 1 /\ <<x, Menu>>[i] = x) \/ (i = 2 /\ <<x, Menu>>[i] = Menu)
  OBVIOUS
<1>3. PICK t \in Seq(Texts) : t = <<x, Menu>>
  BY <1>1
<1>4. DOMAIN t = 1 .. 2 /\ \A i \in 1 .. 2 : (i = 1 /\ t[i] = x) \/ (i = 2 /\ t[i] = Menu)
  BY <1>1, <1>2, <1>3, Zenon
<1>5. Said(Menu, S) /\ Menu \notin OwnTexts /\ Menu \notin OfA
  BY DEF Said, Menu, OwnTexts, OfA
<1>6. AllSaid(t, S)
  BY <1>4, <1>5, Zenon DEF AllSaid
<1>7. \A i \in DOMAIN t : t[i] = Menu => i = 2
  BY <1>4
<1>8. Menus(t) <= 1
  BY <1>7, OneMenu
<1>9. x \notin {"Make_call", "Answer_with_code"} => FreshBehind(t, S)
  <2>1. \A i \in DOMAIN t : i # 1 => t[i] \notin OwnTexts /\ (t[i] = Menu => i = 2)
    BY <1>4, <1>5, Zenon
  <2>2. t[1] = x /\ 2 \in Int
    BY <1>4
  <2> QED
    BY <1>6, <2>1, <2>2, OneAnswer, Zenon
<1>10. x \notin OwnTexts => Bounded(t, 1)
  BY <1>4, <1>5, <1>8 DEF Bounded, Unowned
<1>11. \A i \in DOMAIN t : t[i] \in OfA => i = 1 /\ x \in OfA
  BY <1>4, <1>5, Zenon
<1> QED
  BY <1>3, <1>6, <1>8, <1>9, <1>10, <1>11, Zenon DEF Proper

(* A prompt, with no menu. *)
LEMMA OnePrompt ==
    ASSUME NEW x \in {"Make_call", "Answer_with_code", "shell_prompt"}, NEW S
    PROVE  /\ Proper(<<x>>, S) /\ FreshBehind(<<x>>, S)
           /\ \A i \in DOMAIN <<x>> : i = 1 /\ (<<x>>[i] \in OfA => x = "Answer_with_code")
<1>1. <<x>> \in Seq(Texts) /\ DOMAIN <<x>> = 1 .. 1 /\ <<x>>[1] = x /\ Len(<<x>>) = 1
  BY DEF Texts, Menu
<1>2. AllSaid(<<x>>, S)
  BY <1>1 DEF AllSaid, Said
<1>3. \A i \in DOMAIN <<x>> : i # 1 => FALSE
  BY <1>1
<1>4. FreshBehind(<<x>>, S)
  <2>1. 1 \in Int
    OBVIOUS
  <2> QED
    BY <1>1, <1>2, <1>3, <2>1, OneAnswer, Zenon
<1> QED
  BY <1>1, <1>2, <1>3, <1>4 DEF Proper, OfA

(* The answer to a line that renegotiates the call. *)
LEMMA Renegotiated ==
    ASSUME NEW S
    PROVE  LET t == <<"re_INVITE", "SDP_done", Menu>>
           IN  /\ Proper(t, S) /\ FreshBehind(t, S)
               /\ \A i \in DOMAIN t : t[i] \notin OfA
<1>1. PICK t : t = <<"re_INVITE", "SDP_done", Menu>>
  OBVIOUS
<1>2. /\ t \in Seq(Texts) /\ DOMAIN t = 1 .. 3
      /\ t[1] = "re_INVITE" /\ t[2] = "SDP_done" /\ t[3] = Menu
  BY <1>1 DEF Menu, Texts
<1>3. \A i \in DOMAIN t : i = 1 \/ i = 2 \/ i = 3
  BY <1>2
<1>4. AllSaid(t, S)
  BY <1>2, <1>3 DEF AllSaid, Said, Menu
<1>5. \A i \in DOMAIN t : i # 1 => t[i] \notin OwnTexts /\ (t[i] = Menu => i = 3)
  BY <1>2, <1>3 DEF OwnTexts, Menu
<1>6. t[1] \notin {"Make_call", "Answer_with_code"} /\ 3 \in Int
  BY <1>2
<1>7. FreshBehind(t, S)
  BY <1>2, <1>4, <1>5, <1>6, OneAnswer, Zenon
<1>8. \A i \in DOMAIN t : t[i] \notin OfA
  BY <1>2, <1>3 DEF OfA, Menu
<1> QED
  BY <1>1, <1>2, <1>4, <1>7, <1>8, Zenon DEF Proper

(* An empty answer, with the menu only. *)
LEMMA MenuAlone ==
    ASSUME NEW S
    PROVE  /\ Proper(<<Menu>>, S) /\ Bounded(<<Menu>>, 1)
           /\ \A i \in DOMAIN <<Menu>> : <<Menu>>[i] \notin OfA
<1>1. PICK t : t = <<Menu>>
  OBVIOUS
<1>2. t \in Seq(Texts) /\ DOMAIN t = 1 .. 1 /\ t[1] = Menu
  BY <1>1 DEF Texts
<1>3. \A i \in DOMAIN t : i = 1
  BY <1>2
<1>4. AllSaid(t, S) /\ Unowned(t) /\ \A i \in DOMAIN t : t[i] \notin OfA
  BY <1>2, <1>3 DEF AllSaid, Said, Unowned, OwnTexts, OfA, Menu
<1>5. Menus(t) <= 1
  BY <1>2, <1>3, OneMenu, Zenon
<1> QED
  BY <1>1, <1>2, <1>4, <1>5, Zenon DEF Proper, Bounded

(* The answer to a line at the menu.                                       *)
LEMMA MenuAnswers ==
    ASSUME PhoneTypes, NEW text \in Lines, NEW S, pjsua.call \in S, AtMenu(text).call \in S
    PROVE  /\ Proper(AtMenu(text).texts, S) /\ FreshBehind(AtMenu(text).texts, S)
           /\ AtMenu(text).asks \in {"nothing", "number", "code"} /\ AtMenu(text).call \in CallStates
           /\ text = "m" <=> AtMenu(text).asks = "number"
           /\ text # "a" => AtMenu(text).asks # "code"
           /\ \A i \in DOMAIN AtMenu(text).texts :
                 AtMenu(text).texts[i] \in OfA =>
                     /\ i = 1 /\ text = "a"
                     /\ AtMenu(text).texts[i] = "Answer_with_code" => AtMenu(text).asks = "code"
<1> DEFINE Goal(r) ==
           /\ Proper(r.texts, S) /\ FreshBehind(r.texts, S)
           /\ r.asks \in {"nothing", "number", "code"} /\ r.call \in CallStates
           /\ text = "m" <=> r.asks = "number"
           /\ text # "a" => r.asks # "code"
           /\ \A i \in DOMAIN r.texts :
                 r.texts[i] \in OfA =>
                     /\ i = 1 /\ text = "a"
                     /\ r.texts[i] = "Answer_with_code" => r.asks = "code"
<1>1. pjsua.call \in CallStates
  BY CallTyped
<1>2. ASSUME NEW x \in Texts, NEW call \in CallStates, Said(x, S), text # "m",
             x \notin {Menu, "Make_call", "Answer_with_code"}, x \in OfA => text = "a"
      PROVE  Goal(PjReply(<<x, Menu>>, "nothing", call))
  <2>1. PICK t : t = <<x, Menu>>
    OBVIOUS
  <2>2. /\ Proper(t, S) /\ FreshBehind(t, S)
        /\ \A i \in DOMAIN t : t[i] \in OfA => i = 1 /\ x \in OfA
        /\ 1 \in DOMAIN t => t[1] = x
    BY <1>2, <2>1, Pair
  <2>3. /\ PjReply(t, "nothing", call).texts = t /\ PjReply(t, "nothing", call).asks = "nothing"
        /\ PjReply(t, "nothing", call).call = call
    BY DEF PjReply
  <2> QED
    BY <1>2, <2>1, <2>2, <2>3
<1>3. ASSUME text = "m"
      PROVE  Goal(PjReply(<<"Make_call">>, "number", pjsua.call))
  <2>1. PICK t : t = <<"Make_call">>
    OBVIOUS
  <2>2. /\ Proper(t, S) /\ FreshBehind(t, S)
        /\ \A i \in DOMAIN t : i = 1 /\ (t[i] \in OfA => "Make_call" = "Answer_with_code")
    BY <2>1, OnePrompt
  <2>3. /\ PjReply(t, "number", pjsua.call).texts = t /\ PjReply(t, "number", pjsua.call).asks = "number"
        /\ PjReply(t, "number", pjsua.call).call = pjsua.call
    BY DEF PjReply
  <2> QED
    BY <1>1, <1>3, <2>1, <2>2, <2>3
<1>9. ASSUME text = "a"
      PROVE  Goal(PjReply(<<"Answer_with_code">>, "code", pjsua.call))
  <2>1. PICK t : t = <<"Answer_with_code">>
    OBVIOUS
  <2>2. /\ Proper(t, S) /\ FreshBehind(t, S)
        /\ \A i \in DOMAIN t : i = 1 /\ (t[i] \in OfA => "Answer_with_code" = "Answer_with_code")
    BY <2>1, OnePrompt
  <2>3. /\ PjReply(t, "code", pjsua.call).texts = t /\ PjReply(t, "code", pjsua.call).asks = "code"
        /\ PjReply(t, "code", pjsua.call).call = pjsua.call
    BY DEF PjReply
  <2> QED
    BY <1>1, <1>9, <2>1, <2>2, <2>3
<1>4. ASSUME text = "v"
      PROVE  Goal(PjReply(<<"re_INVITE", "SDP_done", Menu>>, "nothing", "confirmed"))
  <2>1. PICK t : t = <<"re_INVITE", "SDP_done", Menu>>
    OBVIOUS
  <2>2. Proper(t, S) /\ FreshBehind(t, S) /\ \A i \in DOMAIN t : t[i] \notin OfA
    BY <2>1, Renegotiated, Zenon
  <2>3. /\ PjReply(t, "nothing", "confirmed").texts = t /\ PjReply(t, "nothing", "confirmed").asks = "nothing"
        /\ PjReply(t, "nothing", "confirmed").call = "confirmed"
    BY DEF PjReply
  <2>4. "confirmed" \in CallStates
    BY DEF CallStates
  <2> QED
    BY <1>4, <2>1, <2>2, <2>3, <2>4
<1>5. /\ MenuLine \in Texts /\ MenuLine \notin OfA /\ Said(MenuLine, S)
      /\ MenuLine \notin {Menu, "Make_call", "Answer_with_code"}
  BY MenuLineSays DEF Texts, OfA, Menu
<1>6. \A x \in {"No_pending", "DISCON", "on_hold", "Local_hold", "No_current_call"} :
         /\ x \in Texts /\ Said(x, S) /\ x \notin {Menu, "Make_call", "Answer_with_code"}
         /\ x \in OfA => x = "No_pending"
  BY DEF Texts, Said, Menu, OfA
<1>7. {"none", "on_hold"} \subseteq CallStates
  BY DEF CallStates
<1> HIDE DEF Goal
<1>8. Goal(AtMenu(text))
  <2>1. CASE text = "m" /\ AtMenu(text) = PjReply(<<"Make_call">>, "number", pjsua.call)
    BY <1>3, <2>1, Zenon
  <2>2. CASE text = "a" /\ AtMenu(text) = PjReply(<<"Answer_with_code">>, "code", pjsua.call)
    BY <1>9, <2>2, Zenon
  <2>3. CASE text = "a" /\ AtMenu(text) = PjReply(<<"No_pending", Menu>>, "nothing", pjsua.call)
    BY <1>1, <1>2, <1>6, <2>3
  <2>4. CASE text = "h" /\ AtMenu(text) = PjReply(<<"DISCON", Menu>>, "nothing", "none")
    BY <1>2, <1>6, <1>7, <2>4
  <2>5. CASE text = "v" /\ AtMenu(text) = PjReply(<<"re_INVITE", "SDP_done", Menu>>, "nothing", "confirmed")
    BY <1>4, <2>5
  <2>6. CASE text = "H" /\ AtMenu(text) = PjReply(<<"on_hold", Menu>>, "nothing", "on_hold")
    BY <1>2, <1>6, <1>7, <2>6
  <2>7. CASE text = "U" /\ AtMenu(text) = PjReply(<<"Local_hold", Menu>>, "nothing", pjsua.call)
    BY <1>1, <1>2, <1>6, <2>7
  <2>8. CASE text \in {"h", "v", "H", "U"} /\ AtMenu(text) = PjReply(<<"No_current_call", Menu>>, "nothing", pjsua.call)
    BY <1>1, <1>2, <1>6, <2>8
  <2>9. CASE text \notin {"m", "a"} /\ AtMenu(text) = PjReply(<<MenuLine, Menu>>, "nothing", pjsua.call)
    <3>1. text # "m" /\ (MenuLine \in OfA => text = "a")
      BY <1>5, <2>9
    <3>2. Goal(PjReply(<<MenuLine, Menu>>, "nothing", pjsua.call))
      BY <1>1, <1>2, <1>5, <3>1, Zenon
    <3> QED
      BY <2>9, <3>2, Zenon
  <2> QED
    BY <2>1, <2>2, <2>3, <2>4, <2>5, <2>6, <2>7, <2>8, <2>9, AtTheMenu
<1> QED
  BY <1>8, Zenon DEF Goal

(* The answer to a line that pjsua asked for, or to none of those it knows. *)
LEMMA AskedAnswers ==
    ASSUME PhoneTypes, NEW text \in Lines, pjsua.asks # "nothing",
           NEW S, pjsua.call \in S, Replies(text).call \in S
    PROVE  /\ Proper(Replies(text).texts, S) /\ Bounded(Replies(text).texts, 1)
           /\ Replies(text).asks = "nothing" /\ Replies(text).call \in CallStates
           /\ \A i \in DOMAIN Replies(text).texts : Replies(text).texts[i] \notin OfA
<1> DEFINE Goal(r) ==
           /\ Proper(r.texts, S) /\ Bounded(r.texts, 1)
           /\ r.asks = "nothing" /\ r.call \in CallStates
           /\ \A i \in DOMAIN r.texts : r.texts[i] \notin OfA
<1>1. pjsua.call \in CallStates
  BY CallTyped
<1>2. ASSUME NEW x \in Texts, NEW call \in CallStates, Said(x, S), x # Menu, x \notin OwnTexts
      PROVE  Goal(PjReply(<<x, Menu>>, "nothing", call))
  <2>1. PICK t : t = <<x, Menu>>
    OBVIOUS
  <2>2. x \notin OfA
    BY <1>2 DEF OfA, OwnTexts
  <2>3. /\ Proper(t, S) /\ Bounded(t, 1)
        /\ \A i \in DOMAIN t : t[i] \notin OfA
    BY <1>2, <2>1, <2>2, Pair
  <2>4. /\ PjReply(t, "nothing", call).texts = t /\ PjReply(t, "nothing", call).asks = "nothing"
        /\ PjReply(t, "nothing", call).call = call
    BY DEF PjReply
  <2> QED
    BY <1>2, <2>1, <2>3, <2>4
<1>3. Goal(PjReply(<<Menu>>, "nothing", pjsua.call))
  <2>1. PICK t : t = <<Menu>>
    OBVIOUS
  <2>2. Proper(t, S) /\ Bounded(t, 1) /\ \A i \in DOMAIN t : t[i] \notin OfA
    BY <2>1, MenuAlone, Zenon
  <2>3. /\ PjReply(t, "nothing", pjsua.call).texts = t /\ PjReply(t, "nothing", pjsua.call).asks = "nothing"
        /\ PjReply(t, "nothing", pjsua.call).call = pjsua.call
    BY DEF PjReply
  <2> QED
    BY <1>1, <2>1, <2>2, <2>3
<1>4. \A x \in {"CALLING", "Too_many_calls", "DISCON"} :
         x \in Texts /\ Said(x, S) /\ x # Menu /\ x \notin OwnTexts
  BY DEF Texts, Said, Menu, OwnTexts
<1>5. {"calling", "confirmed", "none"} \subseteq CallStates
  BY DEF CallStates
<1>6. \/ Replies(text) = PjReply(<<Menu>>, "nothing", pjsua.call)
      \/ Replies(text) = PjReply(<<"CALLING", Menu>>, "nothing", "calling")
      \/ Replies(text) = PjReply(<<"Too_many_calls", Menu>>, "nothing", pjsua.call)
      \/ Replies(text) = PjReply(<<"CONFIRMED", Menu>>, "nothing", "confirmed")
      \/ Replies(text) = PjReply(<<"DISCON", Menu>>, "nothing", "none")
  <2>1. Says(<<>>) = PjReply(<<Menu>>, "nothing", pjsua.call)
    BY Appended, Zenon DEF Says
  <2>2. Says(<<"Too_many_calls">>) = PjReply(<<"Too_many_calls", Menu>>, "nothing", pjsua.call)
    BY Appended, Zenon DEF Says
  <2>3. pjsua.asks \in {"number", "code"}
    BY CallTyped
  <2> QED
    BY <2>1, <2>2, <2>3 DEF Replies, AtPrompt
<1> HIDE DEF Goal
<1>7. Goal(Replies(text))
  <2>1. CASE Replies(text) = PjReply(<<Menu>>, "nothing", pjsua.call)
    BY <1>3, <2>1, Zenon
  <2>2. CASE Replies(text) = PjReply(<<"CALLING", Menu>>, "nothing", "calling")
    BY <1>2, <1>4, <1>5, <2>2
  <2>3. CASE Replies(text) = PjReply(<<"Too_many_calls", Menu>>, "nothing", pjsua.call)
    BY <1>1, <1>2, <1>4, <2>3
  <2>4. CASE Replies(text) = PjReply(<<"CONFIRMED", Menu>>, "nothing", "confirmed")
    <3>1. "confirmed" \in S
      BY <2>4 DEF PjReply
    <3>2. "CONFIRMED" \in Texts /\ Said("CONFIRMED", S) /\ "CONFIRMED" # Menu /\ "CONFIRMED" \notin OwnTexts
      BY <3>1 DEF Texts, Said, Menu, OwnTexts
    <3> QED
      BY <1>2, <1>5, <2>4, <3>2
  <2>5. CASE Replies(text) = PjReply(<<"DISCON", Menu>>, "nothing", "none")
    BY <1>2, <1>4, <1>5, <2>5
  <2> QED
    BY <1>6, <2>1, <2>2, <2>3, <2>4, <2>5
<1> QED
  BY <1>7, Zenon DEF Goal

(* sendline("\n") shows two menus and asks for nothing.                    *)
LEMMA TwoLines ==
    ASSUME PhoneTypes, NEW S, pjsua.call \in S
    PROVE  /\ Proper(Twice(Replies("")).texts, S) /\ Bounded(Twice(Replies("")).texts, 2)
           /\ Twice(Replies("")).asks = "nothing" /\ Twice(Replies("")).call = pjsua.call
           /\ \A i \in DOMAIN Twice(Replies("")).texts : Twice(Replies("")).texts[i] \notin OfA
<1>1. /\ MenuLine \in Texts /\ MenuLine \notin OfA /\ MenuLine \notin OwnTexts /\ MenuLine # Menu /\ Said(MenuLine, S)
  BY MenuLineSays DEF Texts, OfA, Menu, OwnTexts
<1>2. PICK t : t = <<MenuLine, Menu>>
  OBVIOUS
<1>3. Proper(t, S) /\ Bounded(t, 1) /\ \A i \in DOMAIN t : t[i] \notin OfA
  BY <1>1, <1>2, Pair
<1>4. \E u : /\ Replies("") = PjReply(u, "nothing", pjsua.call)
             /\ Proper(u, S) /\ Bounded(u, 1) /\ \A i \in DOMAIN u : u[i] \notin OfA
  <2>1. CASE pjsua.asks = "nothing"
    <3>1. "" \in Lines
      BY DEF Lines
    <3>2. AtMenu("") = PjReply(t, "nothing", pjsua.call)
      BY <1>2, <3>1, AtTheMenu
    <3>3. Replies("") = PjReply(t, "nothing", pjsua.call)
      BY <2>1, <3>2 DEF Replies, AtPrompt
    <3> QED
      BY <1>3, <3>3
  <2>2. CASE pjsua.asks # "nothing"
    <3>1. Replies("") = Says(<<>>)
      BY <2>2 DEF Replies, AtPrompt
    <3>2. Replies("") = PjReply(<<Menu>>, "nothing", pjsua.call)
      BY <3>1, Appended, Zenon DEF Says
    <3> QED
      BY <3>2, MenuAlone, Zenon
  <2> QED
    BY <2>1, <2>2
<1>5. PICK u : /\ Replies("") = PjReply(u, "nothing", pjsua.call)
               /\ Proper(u, S) /\ Bounded(u, 1) /\ \A i \in DOMAIN u : u[i] \notin OfA
  BY <1>4
<1>6. /\ Twice(Replies("")).texts = u \o t
      /\ Twice(Replies("")).asks = "nothing" /\ Twice(Replies("")).call = pjsua.call
  <2>1. /\ Replies("").texts = u /\ Replies("").asks = "nothing" /\ Replies("").call = pjsua.call
    <3>1. PICK r : r = Replies("")
      OBVIOUS
    <3>2. r = PjReply(u, "nothing", pjsua.call)
      BY <1>5, <3>1, Zenon
    <3>3. r.texts = u /\ r.asks = "nothing" /\ r.call = pjsua.call
      BY <3>2 DEF PjReply
    <3> QED
      BY <3>1, <3>3
  <2>2. Twice(Replies("")) = PjReply(u \o t, "nothing", pjsua.call)
    BY <1>2, <2>1, Zenon DEF Twice
  <2>3. PICK r : r = Twice(Replies(""))
    OBVIOUS
  <2>4. r = PjReply(u \o t, "nothing", pjsua.call)
    BY <2>2, <2>3, Zenon
  <2>5. r.texts = u \o t /\ r.asks = "nothing" /\ r.call = pjsua.call
    BY <2>4 DEF PjReply
  <2> QED
    BY <2>3, <2>5, Zenon
<1>7. u \in Seq(Texts) /\ t \in Seq(Texts)
  BY <1>3, <1>5, Zenon DEF Proper
<1>8. Bounded(u \o t, 2)
  <2>1. 1 \in Nat /\ 1 + 1 = 2
    OBVIOUS
  <2>2. Bounded(u \o t, 1 + 1)
    BY <1>3, <1>5, <1>7, <2>1, BoundedMore, Zenon
  <2> QED
    BY <2>1, <2>2
<1>9. \A i \in DOMAIN (u \o t) :
         \/ i \in DOMAIN u /\ (u \o t)[i] = u[i]
         \/ \E q \in DOMAIN t : i = Len(u) + q /\ (u \o t)[i] = t[q]
  BY <1>7, TextsJoined, Zenon
<1>10. u \o t \in Seq(Texts) /\ AllSaid(u \o t, S)
  <2>1. u \o t \in Seq(Texts)
    BY <1>7, TextsJoined, Zenon
  <2>2. AllSaid(u \o t, S)
    BY <1>3, <1>5, <1>9, Zenon DEF Proper, AllSaid
  <2> QED
    BY <2>1, <2>2
<1>11. \A i \in DOMAIN (u \o t) : (u \o t)[i] \notin OfA
  BY <1>3, <1>5, <1>9, Zenon
<1> QED
  BY <1>6, <1>8, <1>10, <1>11, Zenon DEF Proper

(* The way on from a step.                                                 *)
LEMMA Advanced ==
    ASSUME NEW outcome, Advances(outcome), phone.step \in Nat
    PROVE  /\ phone'.use = phone.use /\ phone'.configured = phone.configured
           /\ outcome # "next" => phone'.result = outcome /\ phone'.step = phone.step
           /\ outcome = "next" /\ phone.step < Len(Script) =>
                 phone'.result = phone.result /\ phone'.step = phone.step + 1
           /\ outcome = "next" /\ ~(phone.step < Len(Script)) =>
                 /\ phone'.result = IF phone.use \in Checks THEN "TRUE" ELSE "done"
                 /\ phone'.step = phone.step
BY DEF Advances, Checks

(***************************************************************************)
(* What each action does                                                   *)
(***************************************************************************)

(* The step of an operation under way is one of its script. *)
LEMMA StepFacts ==
    ASSUME PhoneTypes, Running
    PROVE  /\ Len(Script) \in 2 .. 10 /\ phone.step \in 1 .. Len(Script)
           /\ phone.step \in Nat /\ phone.use \in PhoneUses
           /\ StepIsRight(phone.use, phone.step, Len(Script), Script[phone.step])
<1>1. phone.use \in DOMAIN PhoneOps /\ phone.use \in PhoneUses /\ phone.step \in 1 .. Len(Script)
  BY PhoneAssumption DEF PhoneTypes
<1>2. /\ Len(Script) \in 2 .. 10
      /\ StepIsRight(phone.use, phone.step, Len(Script), Script[phone.step])
  BY <1>1, StepsAreRight, Zenon DEF Script
<1>3. phone.step \in Nat
  BY <1>1, <1>2
<1> QED
  BY <1>1, <1>2, <1>3

(* What a typed line brings into the buffer.                               *)
LineBrings(text, t) ==
    /\ Proper(t, truth'.now)
    /\ text = "" => Bounded(t, 2) /\ pjsua'.asks = "nothing"
    /\ text # "" /\ pjsua.asks = "nothing" =>
          /\ FreshBehind(t, truth'.now)
          /\ text = "m" <=> pjsua'.asks = "number"
          /\ text # "a" => pjsua'.asks # "code"
    /\ text # "" /\ pjsua.asks # "nothing" => Bounded(t, 1) /\ pjsua'.asks = "nothing"
    /\ \A i \in DOMAIN t : t[i] \in OfA =>
          /\ i = 1 /\ text = "a"
          /\ t[i] = "Answer_with_code" => pjsua'.asks = "code"

(* Remember adds the state the call gets to. *)
LEMMA NowIsKept ==
    ASSUME PhoneTypes, Remember, pjsua'.call \in CallStates
    PROVE  /\ truth'.before = truth.before /\ truth'.now = truth.now \cup {pjsua'.call}
           /\ truth' \in [before : SUBSET CallStates, now : SUBSET CallStates]
           /\ pjsua.call \in truth'.now /\ pjsua'.call \in truth'.now
<1>1. truth \in [before : SUBSET CallStates, now : SUBSET CallStates] /\ pjsua.call \in truth.now
  BY DEF PhoneTypes, PhoneTypeOK
<1> QED
  BY <1>1 DEF Remember

(* What LineTyped does, to an operation of any kind. *)
LEMMA LineEffect ==
    ASSUME PhoneTypes, LineTyped
    PROVE  LET text == Script[phone.step].text
           IN  /\ Running /\ Script[phone.step].do = "line" /\ text \in Lines
               /\ Advances("next") /\ UNCHANGED <<behind, spent>>
               /\ pjsua' \in [on : BOOLEAN, asks : {"nothing", "number", "code"}, call : CallStates]
               /\ truth' \in [before : SUBSET CallStates, now : SUBSET CallStates]
               /\ truth'.before = truth.before /\ truth.now \subseteq truth'.now
               /\ pjsua'.call \in truth'.now
               /\ pjsua'.on <=> pjsua.on /\ text # "q"
               /\ ~(pjsua.on /\ text # "q") => heard' = heard \o <<"shell_prompt">>
               /\ pjsua.on /\ text # "q" => \E t : heard' = heard \o t /\ LineBrings(text, t)
<1> DEFINE text == Script[phone.step].text
           reply == IF text = "" THEN Twice(Replies(text)) ELSE Replies(text)
<1>1. Running /\ Script[phone.step].do = "line" /\ text \in Lines
  BY StepFacts DEF LineTyped, Performing, Running, StepIsRight, Scripted
<1>2. pjsua \in [on : BOOLEAN, asks : {"nothing", "number", "code"}, call : CallStates] /\ heard \in Seq(Texts)
  BY DEF PhoneTypes, PhoneTypeOK
<1>3. Advances("next") /\ UNCHANGED <<behind, spent>> /\ Remember
  BY DEF LineTyped
<1>4. CASE ~(pjsua.on /\ text # "q")
  <2>1. pjsua' = [on |-> FALSE, asks |-> "nothing", call |-> "none"] /\ heard' = Append(heard, "shell_prompt")
    BY <1>4, Zenon DEF LineTyped
  <2>2. Append(heard, "shell_prompt") = heard \o <<"shell_prompt">>
    BY <1>2, AppendIsConcat DEF Texts
  <2>3. pjsua'.on = FALSE /\ pjsua'.call \in CallStates
        /\ pjsua' \in [on : BOOLEAN, asks : {"nothing", "number", "code"}, call : CallStates]
    BY <2>1 DEF CallStates
  <2> QED
    BY <1>1, <1>3, <1>4, <2>1, <2>2, <2>3, NowIsKept
<1>5. CASE pjsua.on /\ text # "q"
  <2>1. pjsua' = [pjsua EXCEPT !.asks = reply.asks, !.call = reply.call] /\ heard' = heard \o reply.texts
    BY <1>5, Zenon DEF LineTyped
  <2>2. pjsua'.on = pjsua.on /\ pjsua'.asks = reply.asks /\ pjsua'.call = reply.call
    BY <1>2, <2>1
  <2>3. reply.asks \in {"nothing", "number", "code"} /\ reply.call \in CallStates
    <3>1. PICK S : S = {pjsua.call, Replies(text).call}
      OBVIOUS
    <3>5. pjsua.call \in S /\ Replies(text).call \in S
      BY <3>1
    <3>2. CASE text = ""
      <4>1. reply = Twice(Replies(""))
        BY <3>2
      <4> QED
        BY <3>5, <4>1, CallTyped, TwoLines
    <3>3. CASE text # "" /\ pjsua.asks = "nothing"
      <4>1. reply = AtMenu(text) /\ Replies(text) = AtMenu(text)
        BY <3>3 DEF Replies
      <4> QED
        BY <1>1, <3>5, <4>1, MenuAnswers
    <3>4. CASE text # "" /\ pjsua.asks # "nothing"
      <4>1. reply = Replies(text)
        BY <3>4
      <4> QED
        BY <1>1, <3>5, <3>4, <4>1, AskedAnswers
    <3> QED
      BY <3>2, <3>3, <3>4
  <2>4. /\ truth'.before = truth.before /\ truth.now \subseteq truth'.now
        /\ truth' \in [before : SUBSET CallStates, now : SUBSET CallStates]
        /\ pjsua.call \in truth'.now /\ reply.call \in truth'.now
    BY <1>3, <2>2, <2>3, NowIsKept
  <2>5. LineBrings(text, reply.texts)
    <3> HIDE DEF text, reply
    <3>1. CASE text = ""
      <4>1. reply = Twice(Replies(""))
        BY <3>1 DEF reply
      <4>2. /\ Proper(reply.texts, truth'.now) /\ Bounded(reply.texts, 2) /\ reply.asks = "nothing"
            /\ \A i \in DOMAIN reply.texts : reply.texts[i] \notin OfA
        BY <2>4, <4>1, TwoLines
      <4> QED
        BY <2>2, <3>1, <4>2 DEF LineBrings
    <3>2. CASE text # "" /\ pjsua.asks = "nothing"
      <4>1. reply = AtMenu(text)
        BY <3>2 DEF Replies, reply
      <4>2. /\ Proper(reply.texts, truth'.now) /\ FreshBehind(reply.texts, truth'.now)
            /\ text = "m" <=> reply.asks = "number"
            /\ text # "a" => reply.asks # "code"
            /\ \A i \in DOMAIN reply.texts :
                  reply.texts[i] \in OfA =>
                      /\ i = 1 /\ text = "a"
                      /\ reply.texts[i] = "Answer_with_code" => reply.asks = "code"
        BY <1>1, <2>4, <4>1, MenuAnswers
      <4> QED
        BY <2>2, <3>2, <4>2, Zenon DEF LineBrings
    <3>3. CASE text # "" /\ pjsua.asks # "nothing"
      <4>1. reply = Replies(text)
        BY <3>3 DEF reply
      <4> QED
        BY <1>1, <2>2, <2>4, <3>3, <4>1, AskedAnswers, Zenon DEF LineBrings
    <3> QED
      BY <3>1, <3>2, <3>3
  <2>6. pjsua' \in [on : BOOLEAN, asks : {"nothing", "number", "code"}, call : CallStates]
    BY <1>2, <2>1, <2>3
  <2> QED
    BY <1>1, <1>3, <1>5, <2>1, <2>2, <2>4, <2>5, <2>6
<1> QED
  BY <1>4, <1>5

(* An expect consumes the buffer up to its text.                           *)
LEMMA ReadEffect ==
    ASSUME PhoneTypes, ReadText
    PROVE  LET step == Script[phone.step]
           IN  /\ Running /\ step.do = "expect" /\ Waits(step)
               /\ UNCHANGED <<pjsua, truth, behind, spent>>
               /\ \E i \in DOMAIN heard :
                     /\ heard[i] \in {step.text, step.other}
                     /\ \A j \in DOMAIN heard : heard[j] \in {step.text, step.other} => i <= j
                     /\ heard' = Beyond(heard, i)
                     /\ Advances(IF heard[i] = step.text THEN "next" ELSE step.otherwise)
<1> DEFINE step == Script[phone.step]
<1>1. Running /\ step.do = "expect" /\ Waits(step)
  BY StepFacts DEF ReadText, Performing, Running, StepIsRight, Scripted
<1>2. heard \in Seq(Texts)
  BY DEF PhoneTypes, PhoneTypeOK
<1>3. InBuffer(step) # {} /\ InBuffer(step) \subseteq Nat
  BY <1>2, MenusType DEF ReadText, InBuffer
<1>4. PICK least \in InBuffer(step) : \A j \in InBuffer(step) : least <= j
  BY <1>3, LeastNumber
<1>5. PICK i : i = CHOOSE k \in InBuffer(step) : \A j \in InBuffer(step) : k <= j
  OBVIOUS
<1>6. i \in InBuffer(step) /\ \A j \in InBuffer(step) : i <= j
  BY <1>4, <1>5, Zenon
<1>7. /\ heard' = SubSeq(heard, i + 1, Len(heard))
      /\ Advances(IF heard[i] = step.text THEN step.hit ELSE step.otherwise)
      /\ UNCHANGED <<pjsua, truth, behind, spent>>
  BY <1>5, Zenon DEF ReadText
<1>8. step.hit = "next"
  BY <1>1 DEF Waits
<1> QED
  BY <1>1, <1>6, <1>7, <1>8 DEF InBuffer, Beyond

(***************************************************************************)
(* Types                                                                   *)
(***************************************************************************)

Phones ==
    [configured : BOOLEAN, started : BOOLEAN, use : PhoneUses \cup {"none"},
     step : 0 .. 20, result : {"running", "done", "FALSE", "TRUE", "raised"}]
Outcomes == {"next", "FALSE", "TRUE", "raised"}

(* The numbers of steps. *)
LEMMA NextStep ==
    ASSUME NEW n \in 2 .. 10, NEW s \in 1 .. n
    PROVE  /\ s \in Nat /\ s \in 0 .. 20 /\ 1 \in 0 .. 20 /\ 1 \in 1 .. n
           /\ s < n => s + 1 \in 0 .. 20 /\ s + 1 \in 1 .. n
OBVIOUS

(* Advances keeps the types of the phone and its step within the script. *)
LEMMA AdvancedTyped ==
    ASSUME PhoneTypes, Running, NEW outcome \in Outcomes, Advances(outcome)
    PROVE  /\ phone' \in Phones /\ Script' = Script
           /\ Running' => phone'.use \in PhoneUses /\ phone'.step \in 1 .. Len(Script')
<1>1. /\ Len(Script) \in 2 .. 10 /\ phone.step \in 1 .. Len(Script) /\ phone.step \in Nat
      /\ phone.use \in PhoneUses /\ phone.result = "running" /\ phone \in Phones
  BY StepFacts DEF PhoneTypes, PhoneTypeOK, Phones, Running
<1>2. phone'.use = phone.use /\ Script' = Script
  BY <1>1, Advanced DEF Script
<1>3. CASE outcome # "next"
  <2>1. phone' = [phone EXCEPT !.result = outcome]
    BY <1>3 DEF Advances
  <2>2. phone' \in Phones /\ phone'.result = outcome
    BY <1>1, <1>3, <2>1 DEF Phones, Outcomes
  <2> QED
    BY <1>2, <1>3, <2>2 DEF Running, Outcomes
<1>4. CASE outcome = "next" /\ phone.step < Len(Script)
  <2>1. phone' = [phone EXCEPT !.step = @ + 1]
    BY <1>4 DEF Advances
  <2>2. phone.step + 1 \in 0 .. 20 /\ phone.step + 1 \in 1 .. Len(Script)
    BY <1>1, <1>4, NextStep
  <2>3. phone' \in Phones /\ phone'.step = phone.step + 1
    BY <1>1, <2>1, <2>2 DEF Phones
  <2> QED
    BY <1>1, <1>2, <2>2, <2>3
<1>5. CASE outcome = "next" /\ ~(phone.step < Len(Script))
  <2>1. PICK r \in {"TRUE", "done"} : r = IF phone.use \in DOMAIN Means THEN "TRUE" ELSE "done"
    OBVIOUS
  <2>2. PICK b \in BOOLEAN : b = (phone.started /\ phone.use # "phone_kill")
    OBVIOUS
  <2>3. phone' = [phone EXCEPT !.result = r, !.started = b]
    BY <1>5, <2>1, <2>2 DEF Advances
  <2>4. phone' \in Phones /\ phone'.result = r
    BY <1>1, <2>3 DEF Phones
  <2> QED
    BY <1>2, <2>1, <2>4 DEF Running
<1> QED
  BY <1>3, <1>4, <1>5

(* Reading leaves a buffer. *)
LEMMA ReadTyped ==
    ASSUME NEW s \in Seq(Texts), NEW i \in DOMAIN s
    PROVE  Beyond(s, i) \in Seq(Texts)
BY BehindIs

(* What the far end may bring. *)
LEMMA FarWords ==
    ASSUME NEW texts \in {<<"Incoming_call", "Ringing">>, <<"Ringing">>,
                          <<"CONFIRMED">>, <<"DISCON", "Closing_sound">>}
    PROVE  /\ texts \in Seq(Texts)
           /\ \A i \in DOMAIN texts : texts[i] \in {"Incoming_call", "Ringing", "CONFIRMED", "DISCON", "Closing_sound"}
           /\ \A i \in DOMAIN texts : texts[i] = "Incoming_call" => Len(texts) = 2 /\ texts[2] = "Ringing"
           /\ \A i \in DOMAIN texts : texts[i] = "Ringing" => texts = <<"Ringing">> \/ (Len(texts) = 2 /\ texts[2] = "Ringing")
           /\ \A i \in DOMAIN texts : texts[i] = "CONFIRMED" => texts = <<"CONFIRMED">>
           /\ texts = <<"Ringing">> => texts[1] = "Ringing" /\ Len(texts) = 1
           /\ texts = <<"CONFIRMED">> => texts[1] = "CONFIRMED" /\ Len(texts) = 1
<1>1. {"Incoming_call", "Ringing", "CONFIRMED", "DISCON", "Closing_sound"} \subseteq Texts
  BY DEF Texts
<1>2. CASE texts = <<"Incoming_call", "Ringing">>
  BY <1>1, <1>2
<1>3. CASE texts = <<"Ringing">>
  BY <1>1, <1>3
<1>4. CASE texts = <<"CONFIRMED">>
  BY <1>1, <1>4
<1>5. CASE texts = <<"DISCON", "Closing_sound">>
  BY <1>1, <1>5
<1> QED
  BY <1>2, <1>3, <1>4, <1>5

(* What FarEnd does: no menus, and no texts of an operation. *)
LEMMA FarTexts ==
    ASSUME PhoneTypes, FarEnd
    PROVE  /\ UNCHANGED <<phone, behind>>
           /\ pjsua.on /\ pjsua'.on /\ pjsua'.asks = pjsua.asks
           /\ pjsua' \in [on : BOOLEAN, asks : {"nothing", "number", "code"}, call : CallStates]
           /\ truth' \in [before : SUBSET CallStates, now : SUBSET CallStates]
           /\ truth'.before = truth.before /\ truth.now \subseteq truth'.now
           /\ pjsua'.call \in truth'.now
           /\ \E t : heard' = heard \o t /\ Proper(t, truth'.now) /\ Bounded(t, 0)
<1>1. PICK call \in CallStates, texts \in {<<"Incoming_call", "Ringing">>, <<"Ringing">>,
                                           <<"CONFIRMED">>, <<"DISCON", "Closing_sound">>} :
         /\ \/ pjsua.call = "none" /\ call = "ringing" /\ Len(texts) = 2 /\ texts[2] = "Ringing"
            \/ pjsua.call = "calling" /\ call = "early" /\ texts = <<"Ringing">>
            \/ pjsua.call \in {"calling", "early"} /\ call = "confirmed" /\ texts = <<"CONFIRMED">>
            \/ pjsua.call # "none" /\ call = "none" /\ texts[1] = "DISCON"
         /\ pjsua' = [pjsua EXCEPT !.call = call]
         /\ heard' = heard \o texts
  BY DEF FarEnd
<1>2. pjsua \in [on : BOOLEAN, asks : {"nothing", "number", "code"}, call : CallStates] /\ pjsua.on
  BY DEF PhoneTypes, PhoneTypeOK, FarEnd
<1>3. /\ pjsua' \in [on : BOOLEAN, asks : {"nothing", "number", "code"}, call : CallStates]
      /\ pjsua'.call = call /\ pjsua'.asks = pjsua.asks /\ pjsua'.on = pjsua.on
  BY <1>1, <1>2
<1>4. UNCHANGED <<phone, behind>> /\ Remember
  BY DEF FarEnd
<1>5. /\ truth'.before = truth.before /\ truth'.now = truth.now \cup {call}
      /\ truth' \in [before : SUBSET CallStates, now : SUBSET CallStates]
  BY <1>3, <1>4, NowIsKept
<1>6. Proper(texts, truth'.now) /\ Bounded(texts, 0)
  <2>1. /\ texts \in Seq(Texts)
        /\ \A i \in DOMAIN texts : texts[i] \in {"Incoming_call", "Ringing", "CONFIRMED", "DISCON", "Closing_sound"}
    BY FarWords
  <2>2. \A i \in DOMAIN texts :
           /\ texts[i] = "Incoming_call" => call = "ringing"
           /\ texts[i] = "Ringing" => call \in {"ringing", "early"}
           /\ texts[i] = "CONFIRMED" => call = "confirmed"
    <3>1. CASE pjsua.call = "none" /\ call = "ringing" /\ Len(texts) = 2 /\ texts[2] = "Ringing"
      BY <3>1, FarWords
    <3>2. CASE pjsua.call = "calling" /\ call = "early" /\ texts = <<"Ringing">>
      BY <3>2, FarWords
    <3>3. CASE pjsua.call \in {"calling", "early"} /\ call = "confirmed" /\ texts = <<"CONFIRMED">>
      BY <3>3, FarWords
    <3>4. CASE pjsua.call # "none" /\ call = "none" /\ texts[1] = "DISCON"
      <4>1. texts = <<"DISCON", "Closing_sound">>
        BY <3>4
      <4> QED
        BY <4>1
    <3> QED
      BY <1>1, <3>1, <3>2, <3>3, <3>4
  <2>3. AllSaid(texts, truth'.now)
    BY <1>5, <2>1, <2>2 DEF AllSaid, Said
  <2>4. \A i \in DOMAIN texts : texts[i] # Menu /\ texts[i] \notin OwnTexts
    BY <2>1 DEF Menu, OwnTexts
  <2>5. Menus(texts) = 0
    BY <2>1, <2>4, NoMenu
  <2> QED
    BY <2>1, <2>3, <2>4, <2>5 DEF Proper, Bounded, Unowned
<1> QED
  BY <1>1, <1>2, <1>3, <1>4, <1>5, <1>6

(* What PhoneStart puts into the buffer. *)
LEMMA AfterStart ==
    ASSUME PhoneTypes
    PROVE  /\ Proper(<<MenuLine, Menu>>, truth.now) /\ Bounded(<<MenuLine, Menu>>, 1)
           /\ Proper(<<>>, truth.now) /\ Bounded(<<>>, 0)
           /\ \A i \in DOMAIN <<MenuLine, Menu>> : <<MenuLine, Menu>>[i] \notin OfA
<1>1. pjsua.call \in truth.now
  BY DEF PhoneTypes
<1>2. MenuLine \in Texts /\ MenuLine \notin OwnTexts /\ MenuLine # Menu /\ MenuLine \notin OfA /\ Said(MenuLine, truth.now)
  BY <1>1, MenuLineSays DEF Texts, OwnTexts, Menu, OfA
<1>3. /\ Proper(<<MenuLine, Menu>>, truth.now) /\ Bounded(<<MenuLine, Menu>>, 1)
      /\ \A i \in DOMAIN <<MenuLine, Menu>> : <<MenuLine, Menu>>[i] \notin OfA
  BY <1>2, Pair
<1>4. PICK t : t = <<>>
  OBVIOUS
<1>5. t \in Seq(Texts) /\ DOMAIN t = {}
  BY <1>4
<1>6. Menus(t) = 0
  BY <1>5, NoMenu
<1>7. Proper(t, truth.now) /\ Bounded(t, 0)
  BY <1>5, <1>6 DEF Proper, Bounded, Unowned, AllSaid
<1> QED
  BY <1>3, <1>4, <1>7, Zenon

(* The types, at first and after each step. *)
LEMMA PhoneTypesInit == PhoneInit => PhoneTypes
<1> SUFFICES ASSUME PhoneInit
             PROVE  PhoneTypes
  OBVIOUS
<1>1. pjsua \in [on : BOOLEAN, asks : {"nothing", "number", "code"}, call : CallStates] /\ pjsua.call = "none"
  BY DEF PhoneInit, CallStates
<1>2. phone \in Phones /\ phone.result = "done"
  BY DEF PhoneInit, Phones
<1>3. heard \in Seq(Texts) /\ truth \in [before : SUBSET CallStates, now : SUBSET CallStates] /\ "none" \in truth.now
  BY DEF PhoneInit, CallStates
<1>4. behind \in BOOLEAN /\ spent \in [uses : 0 .. MaxUses, events : 0 .. MaxEvents]
  <2>1. 0 \in 0 .. MaxUses /\ 0 \in 0 .. MaxEvents
    BY PhoneAssumption
  <2> QED
    BY <2>1 DEF PhoneInit
<1> QED
  BY <1>1, <1>2, <1>3, <1>4 DEF PhoneTypes, PhoneTypeOK, Phones, Running

LEMMA PhoneTypesStep ==
    ASSUME PhoneTypes, [PhoneNext]_phoneVars
    PROVE  PhoneTypes'
<1>1. /\ pjsua \in [on : BOOLEAN, asks : {"nothing", "number", "code"}, call : CallStates]
      /\ phone \in Phones /\ heard \in Seq(Texts)
      /\ truth \in [before : SUBSET CallStates, now : SUBSET CallStates] /\ behind \in BOOLEAN
      /\ spent \in [uses : 0 .. MaxUses, events : 0 .. MaxEvents]
      /\ pjsua.call \in truth.now /\ pjsua.call \in CallStates
      /\ Running => phone.use \in PhoneUses /\ phone.step \in 1 .. Len(Script)
  BY CallTyped DEF PhoneTypes, PhoneTypeOK, Phones
<1> SUFFICES /\ pjsua' \in [on : BOOLEAN, asks : {"nothing", "number", "code"}, call : CallStates]
             /\ phone' \in Phones /\ heard' \in Seq(Texts)
             /\ truth' \in [before : SUBSET CallStates, now : SUBSET CallStates] /\ behind' \in BOOLEAN
             /\ spent' \in [uses : 0 .. MaxUses, events : 0 .. MaxEvents]
             /\ pjsua'.call \in truth'.now
             /\ Running' => phone'.use \in PhoneUses /\ phone'.step \in 1 .. Len(Script')
  BY DEF PhoneTypes, PhoneTypeOK, Phones
<1>2. CASE PhoneConfig
  <2>1. /\ phone' = [phone EXCEPT !.configured = TRUE] /\ ~Running
        /\ heard' = <<>> /\ UNCHANGED <<pjsua, truth, behind, spent>>
    BY <1>2 DEF PhoneConfig, Running
  <2>2. phone' \in Phones /\ phone'.result = phone.result
    BY <1>1, <2>1 DEF Phones
  <2> QED
    BY <1>1, <2>1, <2>2 DEF Running
<1>3. CASE PhoneStart
  <2>1. ~Running /\ UNCHANGED <<truth, behind, spent>>
    BY <1>3 DEF PhoneStart, Running
  <2>2. CASE pjsua' = [pjsua EXCEPT !.on = TRUE] /\ phone' = [phone EXCEPT !.started = TRUE] /\ heard' = <<MenuLine, Menu>>
    <3>1. phone' \in Phones /\ phone'.result = phone.result
      BY <1>1, <2>2 DEF Phones
    <3>2. /\ pjsua' \in [on : BOOLEAN, asks : {"nothing", "number", "code"}, call : CallStates]
          /\ pjsua'.call = pjsua.call
      BY <1>1, <2>2
    <3>3. heard' \in Seq(Texts)
      BY <2>2, AfterStart DEF Proper
    <3> QED
      BY <1>1, <2>1, <3>1, <3>2, <3>3 DEF Running
  <2>3. CASE UNCHANGED <<pjsua, phone>> /\ heard' = <<>>
    BY <1>1, <2>1, <2>3 DEF Running
  <2> QED
    BY <1>3, <2>2, <2>3 DEF PhoneStart
<1>4. CASE \E use \in PhoneUses : Begin(use)
  <2>1. PICK use \in PhoneUses : Begin(use)
    BY <1>4
  <2>2. phone' = [phone EXCEPT !.use = use, !.step = 1, !.result = "running"]
    BY <2>1 DEF Begin
  <2>3. phone' \in Phones /\ phone'.use = use /\ phone'.step = 1
    <3>1. use \in PhoneUses \cup {"none"} /\ 1 \in 0 .. 20
      OBVIOUS
    <3> QED
      BY <1>1, <2>2, <3>1 DEF Phones
  <2>4. truth' = [before |-> truth.now, now |-> {pjsua.call}] /\ UNCHANGED <<pjsua, heard>>
    BY <2>1 DEF Begin
  <2>5. truth' \in [before : SUBSET CallStates, now : SUBSET CallStates] /\ pjsua'.call \in truth'.now
    BY <1>1, <2>4
  <2>6. behind' \in BOOLEAN
    BY <1>1, <2>1 DEF Begin
  <2>7. spent' = [spent EXCEPT !.uses = @ + 1] /\ spent.uses < MaxUses /\ MaxUses \in Nat
    BY <2>1, PhoneAssumption DEF Begin
  <2>8. spent' \in [uses : 0 .. MaxUses, events : 0 .. MaxEvents]
    BY <1>1, <2>7
  <2>9. use \in DOMAIN PhoneOps
    BY PhoneAssumption
  <2>10. 1 \in 1 .. Len(PhoneOps[use])
    <3>1. Len(PhoneOps[use]) \in 2 .. 10
      BY <2>9, StepsAreRight, Zenon
    <3>2. \A n \in 2 .. 10 : 1 \in 1 .. n
      OBVIOUS
    <3> QED
      BY <3>1, <3>2, Zenon
  <2>11. Script' = PhoneOps[use]
    BY <2>3 DEF Script
  <2> QED
    BY <1>1, <2>3, <2>4, <2>5, <2>6, <2>8, <2>10, <2>11
<1>5. CASE LineTyped
  <2>1. /\ Running /\ Advances("next") /\ UNCHANGED <<behind, spent>>
        /\ pjsua' \in [on : BOOLEAN, asks : {"nothing", "number", "code"}, call : CallStates]
        /\ truth' \in [before : SUBSET CallStates, now : SUBSET CallStates]
        /\ pjsua'.call \in truth'.now
        /\ heard' = heard \o <<"shell_prompt">> \/ \E t : heard' = heard \o t /\ t \in Seq(Texts)
    BY <1>5, LineEffect, Zenon DEF LineBrings, Proper
  <2>2. <<"shell_prompt">> \in Seq(Texts)
    BY DEF Texts
  <2>3. PICK t \in Seq(Texts) : heard' = heard \o t
    BY <2>1, <2>2, Zenon
  <2>5. heard' \in Seq(Texts)
    BY <1>1, <2>3, TextsJoined
  <2>4. /\ phone' \in Phones
        /\ Running' => phone'.use \in PhoneUses /\ phone'.step \in 1 .. Len(Script')
    BY <2>1, AdvancedTyped DEF Outcomes
  <2> QED
    BY <1>1, <2>1, <2>4, <2>5
<1>6. CASE ReadText
  <2>1. PICK i \in DOMAIN heard :
           /\ heard' = Beyond(heard, i)
           /\ Advances(IF heard[i] = Script[phone.step].text THEN "next" ELSE Script[phone.step].otherwise)
    BY <1>6, ReadEffect, Zenon
  <2>2. Running /\ Waits(Script[phone.step]) /\ UNCHANGED <<pjsua, truth, behind, spent>>
    BY <1>6, ReadEffect, Zenon
  <2>3. PICK outcome \in Outcomes :
           outcome = IF heard[i] = Script[phone.step].text THEN "next" ELSE Script[phone.step].otherwise
    BY <2>2 DEF Waits, Outcomes
  <2>4. /\ phone' \in Phones
        /\ Running' => phone'.use \in PhoneUses /\ phone'.step \in 1 .. Len(Script')
    BY <2>1, <2>2, <2>3, AdvancedTyped
  <2>5. heard' \in Seq(Texts)
    BY <1>1, <2>1, ReadTyped
  <2> QED
    BY <1>1, <2>2, <2>4, <2>5
<1>7. CASE Timeout
  <2>1. /\ Running /\ Script[phone.step].do = "expect" /\ Advances(Script[phone.step].miss)
        /\ behind' = TRUE /\ UNCHANGED <<pjsua, heard, truth, spent>>
    BY <1>7 DEF Timeout, Performing, Running
  <2>2. Waits(Script[phone.step])
    BY <2>1, StepFacts DEF StepIsRight, Scripted
  <2>3. /\ phone' \in Phones
        /\ Running' => phone'.use \in PhoneUses /\ phone'.step \in 1 .. Len(Script')
    BY <2>1, <2>2, AdvancedTyped DEF Waits, Outcomes
  <2> QED
    BY <1>1, <2>1, <2>3
<1>8. CASE FarEnd
  <2>1. /\ UNCHANGED <<phone, behind>> /\ pjsua'.call \in truth'.now
        /\ pjsua' \in [on : BOOLEAN, asks : {"nothing", "number", "code"}, call : CallStates]
        /\ truth' \in [before : SUBSET CallStates, now : SUBSET CallStates]
    BY <1>8, FarTexts
  <2>5. PICK t : heard' = heard \o t /\ Proper(t, truth'.now)
    BY <1>8, FarTexts, Zenon
  <2>2. heard' \in Seq(Texts)
    BY <1>1, <2>5, TextsJoined DEF Proper
  <2>3. spent' = [spent EXCEPT !.events = @ + 1] /\ spent.events < MaxEvents /\ MaxEvents \in Nat
    BY <1>8, PhoneAssumption DEF FarEnd
  <2>4. spent' \in [uses : 0 .. MaxUses, events : 0 .. MaxEvents]
    BY <1>1, <2>3
  <2> QED
    BY <1>1, <2>1, <2>2, <2>4 DEF Running, Script
<1>9. CASE UNCHANGED phoneVars
  BY <1>1, <1>9 DEF phoneVars, Running, Script
<1> QED
  BY <1>2, <1>3, <1>4, <1>5, <1>6, <1>7, <1>8, <1>9 DEF PhoneNext

(***************************************************************************)
(* What pjsua asks for                                                     *)
(***************************************************************************)

OfAIn(s) == {i \in DOMAIN s : s[i] \in OfA}

(* No answer to "a" comes with texts that have none. *)
LEMMA OfAStays ==
    ASSUME NEW s \in Seq(Texts), NEW t \in Seq(Texts), \A i \in DOMAIN t : t[i] \notin OfA
    PROVE  \A i \in OfAIn(s \o t) : i \in OfAIn(s) /\ (s \o t)[i] = s[i]
BY TextsJoined DEF OfAIn

(* An answer that comes stands first behind what there was. *)
LEMMA OfAComes ==
    ASSUME NEW s \in Seq(Texts), NEW t \in Seq(Texts), OfAIn(s) = {},
           \A i \in DOMAIN t : t[i] \in OfA => i = 1
    PROVE  \A i \in OfAIn(s \o t) :
              i = Len(s) + 1 /\ 1 \in DOMAIN t /\ (s \o t)[i] = t[1] /\ t[1] \in OfA
<1> SUFFICES ASSUME NEW i \in OfAIn(s \o t)
             PROVE  i = Len(s) + 1 /\ 1 \in DOMAIN t /\ (s \o t)[i] = t[1] /\ t[1] \in OfA
  OBVIOUS
<1>1. i \in DOMAIN (s \o t) /\ (s \o t)[i] \in OfA
  BY DEF OfAIn
<1>2. ~(i \in DOMAIN s /\ (s \o t)[i] = s[i])
  BY <1>1 DEF OfAIn
<1>3. PICK q \in DOMAIN t : i = Len(s) + q /\ (s \o t)[i] = t[q]
  BY <1>1, <1>2, TextsJoined, Zenon
<1> QED
  BY <1>1, <1>3

(* It is there no more once it was read. *)
LEMMA OfAIsRead ==
    ASSUME NEW s \in Seq(Texts), NEW p \in DOMAIN s, \A i, j \in OfAIn(s) : i = j,
           OfAIn(s) = {} \/ p \in OfAIn(s)
    PROVE  OfAIn(Beyond(s, p)) = {}
<1> SUFFICES ASSUME NEW i \in OfAIn(Beyond(s, p))
             PROVE  FALSE
  OBVIOUS
<1>1. i \in DOMAIN Beyond(s, p) /\ Beyond(s, p)[i] \in OfA
  BY DEF OfAIn
<1>2. i \in 1 .. (Len(s) - p) /\ p \in Nat /\ Len(s) \in Nat
  BY <1>1, BehindIs
<1>3. p + i \in OfAIn(s)
  BY <1>1, <1>2, BehindIs DEF OfAIn
<1>4. p + i # p
  BY <1>2
<1> QED
  BY <1>3, <1>4

(* Where Advances leads. *)
LEMMA AdvancesTo ==
    ASSUME PhoneTypes, Running, NEW outcome \in Outcomes, Advances(outcome)
    PROVE  /\ phone'.use = phone.use /\ Script' = Script
           /\ Running' => /\ outcome = "next" /\ phone.step < Len(Script)
                          /\ phone'.step = phone.step + 1
           /\ ~Running' => outcome = phone'.result \/ (outcome = "next" /\ phone.step = Len(Script)
                  /\ phone'.result = IF phone.use \in Checks THEN "TRUE" ELSE "done")
<1>1. /\ phone.step \in Nat /\ Len(Script) \in Nat /\ phone.step \in 1 .. Len(Script)
      /\ phone.result = "running"
  BY StepFacts DEF Running
<1>2. phone'.use = phone.use /\ Script' = Script
  BY <1>1, Advanced DEF Script
<1>3. CASE outcome # "next"
  BY <1>1, <1>2, <1>3, Advanced DEF Outcomes, Running
<1>4. CASE outcome = "next" /\ phone.step < Len(Script)
  BY <1>1, <1>2, <1>4, Advanced DEF Running
<1>5. CASE outcome = "next" /\ ~(phone.step < Len(Script))
  BY <1>1, <1>2, <1>5, Advanced DEF Running
<1> QED
  BY <1>3, <1>4, <1>5

(* An operation that types "a" goes on after it. *)
LEMMA FourSteps ==
    ASSUME PhoneTypes, Running, phone.use \in Answering, phone.step = 3
    PROVE  phone.step < Len(Script)
<1>1. Len(Script) \in 2 .. 10 /\ phone.use \in Acting
  BY StepFacts DEF Answering, Acting
<1>2. ActStep(phone.use, phone.step, Len(Script), Script[phone.step])
  BY <1>1, StepFacts DEF StepIsRight
<1> QED
  BY <1>1, <1>2 DEF ActStep

AnswersKept == AnsweredOnce /\ AsksRightly

(* AnsweredOnce, in terms of the buffer, now and after a step. *)
LEMMA AnsweredIs ==
    AnsweredOnce <=>
        /\ OfAIn(heard) # {} => Running /\ phone.step = 4 /\ phone.use \in Answering
        /\ \A i, j \in OfAIn(heard) : i = j
        /\ \A i \in OfAIn(heard) : heard[i] = "Answer_with_code" => pjsua.asks = "code"
<1>1. AnswersToA = OfAIn(heard)
  BY DEF AnswersToA, OfAIn, OfA
<1> QED
  BY <1>1 DEF AnsweredOnce

LEMMA AnsweredIsNext ==
    AnsweredOnce' <=>
        /\ OfAIn(heard') # {} => Running' /\ phone'.step = 4 /\ phone'.use \in Answering
        /\ \A i, j \in OfAIn(heard') : i = j
        /\ \A i \in OfAIn(heard') : heard'[i] = "Answer_with_code" => pjsua'.asks = "code"
<1>1. AnswersToA' = OfAIn(heard')
  BY DEF AnswersToA, OfAIn, OfA
<1> QED
  BY <1>1 DEF AnsweredOnce

(* Between operations nothing of "a" is in the buffer, nor at a first step. *)
LEMMA NothingAsked ==
    ASSUME PhoneTypes, AnswersKept, PhoneConfig \/ PhoneStart \/ (\E use \in PhoneUses : Begin(use))
    PROVE  AnswersKept'
<1>1. ~Running
  BY DEF PhoneConfig, PhoneStart, Begin, Running
<1>2. OfAIn(heard) = {}
  BY <1>1, AnsweredIs DEF AnswersKept
<1>3. OfAIn(heard') = {}
  <2>1. CASE heard' = <<>>
    BY <2>1 DEF OfAIn
  <2>2. CASE heard' = <<MenuLine, Menu>>
    BY <2>2, AfterStart, Zenon DEF OfAIn
  <2>3. CASE heard' = heard
    BY <1>2, <2>3
  <2> QED
    BY <2>1, <2>2, <2>3 DEF PhoneConfig, PhoneStart, Begin
<1>4. AnsweredOnce'
  BY <1>3, AnsweredIsNext
<1>5. AsksRightly'
  <2>1. phone \in Phones
    BY DEF PhoneTypes, PhoneTypeOK, Phones
  <2>2. CASE PhoneConfig \/ PhoneStart
    <3>1. phone'.result = phone.result
      BY <2>1, <2>2 DEF PhoneConfig, PhoneStart, Phones
    <3> QED
      BY <1>1, <3>1 DEF AsksRightly, Running
  <2>3. CASE \E use \in PhoneUses : Begin(use)
    <3>1. phone'.step = 1
      BY <2>1, <2>3 DEF Begin, Phones
    <3> QED
      BY <3>1 DEF AsksRightly
  <2> QED
    BY <2>2, <2>3
<1> QED
  BY <1>4, <1>5 DEF AnswersKept

(* A line is typed where pjsua asks for it, and its answer comes once. *)
LEMMA LineAsks ==
    ASSUME PhoneTypes, AnswersKept, LineTyped
    PROVE  AnswersKept'
<1> DEFINE text == Script[phone.step].text
           s == phone.step
<1>1. /\ Running /\ Script[phone.step].do = "line" /\ text \in Lines
      /\ Advances("next") /\ pjsua' \in [on : BOOLEAN, asks : {"nothing", "number", "code"}, call : CallStates]
      /\ pjsua'.on <=> pjsua.on /\ text # "q"
      /\ ~(pjsua.on /\ text # "q") => heard' = heard \o <<"shell_prompt">>
      /\ pjsua.on /\ text # "q" => \E t : heard' = heard \o t /\ LineBrings(text, t)
  BY LineEffect, Zenon
<1>2. /\ phone'.use = phone.use
      /\ Running' => phone.step < Len(Script) /\ phone'.step = phone.step + 1
      /\ phone.step \in Nat
  BY <1>1, AdvancesTo, StepFacts DEF Outcomes
<1>3. Scripted(phone.use, phone.step, Len(Script), Script[phone.step])
  BY <1>1, StepFacts DEF StepIsRight
<1>4. /\ s # 2 /\ (s = 4 => phone.use \notin Dialling \cup Answering)
      /\ s = 1 => text \in {"", "q"}
      /\ s = 3 /\ phone.use \in Dialling => text = "m"
      /\ text = "a" => phone.use \in Answering /\ s = 3
      /\ phone.use \in Dialling => phone.use # "phone_kill"
  BY <1>1, <1>3 DEF Scripted, Waits, Dialling
<1>5. heard \in Seq(Texts)
  BY DEF PhoneTypes, PhoneTypeOK
<1>6. OfAIn(heard) = {}
  BY <1>1, <1>4, AnsweredIs DEF AnswersKept
<1> HIDE DEF text, s
<1>7. CASE ~(pjsua.on /\ text # "q")
  <2>1. ~pjsua'.on
    BY <1>1, <1>7
  <2>2. <<"shell_prompt">> \in Seq(Texts) /\ \A i \in DOMAIN <<"shell_prompt">> : <<"shell_prompt">>[i] \notin OfA
    BY DEF Texts, OfA
  <2>3. OfAIn(heard \o <<"shell_prompt">>) = {}
    BY <1>5, <1>6, <2>2, OfAStays, Zenon
  <2>4. OfAIn(heard') = {}
    BY <1>1, <1>7, <2>3
  <2> QED
    BY <2>1, <2>4, AnsweredIsNext DEF AnswersKept, AsksRightly
<1>8. CASE pjsua.on /\ text # "q"
  <2>1. PICK t : heard' = heard \o t /\ LineBrings(text, t)
    BY <1>1, <1>8
  <2>2. /\ t \in Seq(Texts)
        /\ text = "" => pjsua'.asks = "nothing"
        /\ text # "" /\ pjsua.asks = "nothing" => (text = "m" <=> pjsua'.asks = "number")
        /\ \A i \in DOMAIN t : t[i] \in OfA => i = 1 /\ text = "a"
        /\ \A i \in DOMAIN t : t[i] = "Answer_with_code" => pjsua'.asks = "code"
    BY <2>1 DEF LineBrings, Proper, OfA
  <2>3. \A i \in OfAIn(heard') :
           i = Len(heard) + 1 /\ 1 \in DOMAIN t /\ heard'[i] = t[1] /\ t[1] \in OfA
    BY <1>5, <1>6, <2>1, <2>2, OfAComes
  <2>4. AsksRightly'
    <3> SUFFICES ASSUME Running', pjsua'.on
                 PROVE  /\ phone'.step \in {2, 3} /\ phone'.use # "phone_kill" => pjsua'.asks = "nothing"
                        /\ phone'.step \in {4, 5} /\ phone'.use \in Dialling => pjsua'.asks = "number"
                        /\ phone'.step = 5 /\ phone'.use \in Answering => pjsua'.asks = "code"
      BY DEF AsksRightly
    <3>1. phone'.step = s + 1 /\ s \in Nat /\ s # 2
      BY <1>2, <1>4 DEF s
    <3>2. phone'.step \in {2, 3} => s = 1
      BY <3>1
    <3>3. phone'.step \in {4, 5} => s \in {3, 4}
      BY <3>1
    <3>4. phone'.step = 5 => s = 4
      BY <3>1
    <3>5. s = 1 => text = ""
      BY <1>4, <1>8
    <3>6. s = 3 /\ phone.use \in Dialling => pjsua.asks = "nothing" /\ text = "m"
      BY <1>1, <1>4, <1>8 DEF AnswersKept, AsksRightly, s
    <3> QED
      BY <1>2, <1>4, <2>2, <3>2, <3>3, <3>4, <3>5, <3>6
  <2>5. AnsweredOnce'
    <3>1. OfAIn(heard') # {} => text = "a"
      BY <2>2, <2>3
    <3>2. text = "a" => Running' /\ phone'.step = 4 /\ phone'.use \in Answering
      <4> SUFFICES ASSUME text = "a"
                   PROVE  Running' /\ phone'.step = 4 /\ phone'.use \in Answering
        OBVIOUS
      <4>1. phone.use \in Answering /\ phone.step = 3
        BY <1>4 DEF s
      <4>2. phone.step < Len(Script)
        BY <1>1, <4>1, FourSteps
      <4>3. phone'.step = phone.step + 1 /\ Running'
        BY <1>1, <1>2, <4>2, Advanced DEF Running
      <4> QED
        BY <1>2, <4>1, <4>3
    <3>3. \A i, j \in OfAIn(heard') : i = j
      BY <2>3
    <3>4. \A i \in OfAIn(heard') : heard'[i] = "Answer_with_code" => pjsua'.asks = "code"
      BY <2>2, <2>3
    <3> QED
      BY <3>1, <3>2, <3>3, <3>4, AnsweredIsNext
  <2> QED
    BY <2>4, <2>5 DEF AnswersKept
<1> QED
  BY <1>7, <1>8

(* An operation goes on to its code only behind "Answer_with_code". *)
LEMMA ReadAsks ==
    ASSUME PhoneTypes, AnswersKept, ReadText
    PROVE  AnswersKept'
<1> DEFINE step == Script[phone.step]
<1>1. /\ Running /\ step.do = "expect" /\ Waits(step) /\ UNCHANGED pjsua
      /\ \E i \in DOMAIN heard :
            /\ heard[i] \in {step.text, step.other}
            /\ heard' = Beyond(heard, i)
            /\ Advances(IF heard[i] = step.text THEN "next" ELSE step.otherwise)
  BY ReadEffect, Zenon
<1>2. PICK i \in DOMAIN heard :
         /\ heard[i] \in {step.text, step.other}
         /\ heard' = Beyond(heard, i)
         /\ Advances(IF heard[i] = step.text THEN "next" ELSE step.otherwise)
  BY <1>1, Zenon
<1>3. PICK outcome \in Outcomes : outcome = IF heard[i] = step.text THEN "next" ELSE step.otherwise
  BY <1>1 DEF Waits, Outcomes
<1>4. /\ phone'.use = phone.use /\ phone.step \in Nat
      /\ Running' => outcome = "next" /\ phone'.step = phone.step + 1
  BY <1>1, <1>2, <1>3, AdvancesTo, StepFacts
<1>5. Scripted(phone.use, phone.step, Len(Script), step)
  BY <1>1, StepFacts DEF StepIsRight
<1>6. /\ phone.step # 1 /\ (phone.step = 3 => phone.use \notin Dialling \cup Answering)
      /\ phone.step = 4 /\ phone.use \in Answering =>
            step.text = "Answer_with_code" /\ step.other = "No_pending" /\ step.otherwise # "next"
  BY <1>1, <1>5 DEF Scripted, Waits
<1>7. heard \in Seq(Texts)
  BY DEF PhoneTypes, PhoneTypeOK
<1>8. OfAIn(heard') = {}
  <2>1. OfAIn(heard) = {} \/ i \in OfAIn(heard)
    BY <1>2, <1>6, AnsweredIs DEF AnswersKept, OfAIn, OfA
  <2>2. \A j, k \in OfAIn(heard) : j = k
    BY AnsweredIs DEF AnswersKept
  <2> QED
    BY <1>2, <1>7, <2>1, <2>2, OfAIsRead
<1>9. phone.step = 4 /\ phone.use \in Answering /\ outcome = "next" => pjsua.asks = "code"
  <2> SUFFICES ASSUME phone.step = 4, phone.use \in Answering, outcome = "next"
               PROVE  pjsua.asks = "code"
    OBVIOUS
  <2>1. heard[i] = "Answer_with_code"
    BY <1>2, <1>3, <1>6
  <2>2. i \in OfAIn(heard)
    BY <2>1 DEF OfAIn, OfA
  <2> QED
    BY <2>1, <2>2, AnsweredIs DEF AnswersKept
<1> HIDE DEF step
<1>10. AsksRightly'
  <2> SUFFICES ASSUME Running', pjsua'.on
               PROVE  /\ phone'.step \in {2, 3} /\ phone'.use # "phone_kill" => pjsua'.asks = "nothing"
                      /\ phone'.step \in {4, 5} /\ phone'.use \in Dialling => pjsua'.asks = "number"
                      /\ phone'.step = 5 /\ phone'.use \in Answering => pjsua'.asks = "code"
    BY DEF AsksRightly
  <2>1. phone'.step = phone.step + 1 /\ phone.step \in Nat /\ phone.step # 1 /\ outcome = "next"
    BY <1>4, <1>6
  <2>2. phone'.step \in {2, 3} => phone.step = 2
    BY <2>1
  <2>3. phone'.step \in {4, 5} => phone.step \in {3, 4}
    BY <2>1
  <2>4. phone'.step = 5 => phone.step = 4
    BY <2>1
  <2>5. /\ phone.step = 2 /\ phone.use # "phone_kill" => pjsua.asks = "nothing"
        /\ phone.step = 4 /\ phone.use \in Dialling => pjsua.asks = "number"
    BY <1>1 DEF AnswersKept, AsksRightly
  <2> QED
    BY <1>1, <1>4, <1>6, <1>9, <2>1, <2>2, <2>3, <2>4, <2>5
<1> QED
  BY <1>8, <1>10, AnsweredIsNext DEF AnswersKept

(* An expect that gives up ends the operation. *)
LEMMA TimeoutAsks ==
    ASSUME PhoneTypes, AnswersKept, Timeout
    PROVE  AnswersKept'
<1> DEFINE step == Script[phone.step]
<1>1. /\ Running /\ step.do = "expect" /\ Advances(step.miss)
      /\ UNCHANGED <<pjsua, heard>> /\ InBuffer(step) = {}
  BY DEF Timeout, Performing, Running
<1>2. Scripted(phone.use, phone.step, Len(Script), step) /\ Waits(step)
  BY <1>1, StepFacts DEF StepIsRight, Scripted
<1>3. ~Running'
  BY <1>1, <1>2, AdvancesTo DEF Waits, Outcomes
<1>4. OfAIn(heard) = {}
  <2>1. phone.step = 4 /\ phone.use \in Answering => step.text = "Answer_with_code" /\ step.other = "No_pending"
    BY <1>2 DEF Scripted
  <2>2. phone.step = 4 /\ phone.use \in Answering => OfAIn(heard) = InBuffer(step)
    BY <2>1 DEF OfAIn, InBuffer, OfA
  <2> QED
    BY <1>1, <2>2, AnsweredIs DEF AnswersKept
<1>5. OfAIn(heard') = {}
  BY <1>1, <1>4
<1> QED
  BY <1>3, <1>5, AnsweredIsNext DEF AnswersKept, AsksRightly

(* The far end does not change what pjsua asks for. *)
LEMMA FarEndAsks ==
    ASSUME PhoneTypes, AnswersKept, FarEnd
    PROVE  AnswersKept'
<1>1. /\ UNCHANGED phone /\ pjsua.on /\ pjsua'.on /\ pjsua'.asks = pjsua.asks
  BY FarTexts
<1>2. PICK t : heard' = heard \o t /\ Proper(t, truth'.now) /\ Bounded(t, 0)
  BY FarTexts, Zenon
<1>3. heard \in Seq(Texts) /\ t \in Seq(Texts)
  BY <1>2 DEF PhoneTypes, PhoneTypeOK, Proper
<1>4. \A i \in DOMAIN t : t[i] \notin OfA
  BY <1>2 DEF Bounded, Unowned, OwnTexts, OfA
<1>5. \A i \in OfAIn(heard') : i \in OfAIn(heard) /\ heard'[i] = heard[i]
  BY <1>2, <1>3, <1>4, OfAStays
<1>6. Running' = Running
  BY <1>1 DEF Running
<1>7. AnsweredOnce'
  BY <1>1, <1>5, <1>6, AnsweredIs, AnsweredIsNext DEF AnswersKept
<1>8. AsksRightly'
  BY <1>1, <1>6 DEF AnswersKept, AsksRightly
<1> QED
  BY <1>7, <1>8 DEF AnswersKept

LEMMA AsksStep ==
    ASSUME PhoneTypes, AnswersKept, [PhoneNext]_phoneVars
    PROVE  AnswersKept'
<1>1. CASE UNCHANGED phoneVars
  BY <1>1 DEF phoneVars, AnswersKept, AnsweredOnce, AnswersToA, AsksRightly, Running
<1> QED
  BY <1>1, NothingAsked, LineAsks, ReadAsks, TimeoutAsks, FarEndAsks DEF PhoneNext

LEMMA AsksInit == PhoneInit => AnswersKept
BY DEF PhoneInit, AnswersKept, AnsweredOnce, AnswersToA, AsksRightly, Running

(***************************************************************************)
(* An operation that does not lag behind, while no expect gave up          *)
(***************************************************************************)

Timely ==
    /\ Running => phone.use \in Checks \cup Acting \cup {"phone_kill"}
    /\ StartedIsOn /\ RunningIsStarted /\ InTime /\ TrueIsRecent

(* The kinds of operations. *)
LEMMA UsesAre ==
    ASSUME NEW use \in DOMAIN PhoneOps, use \notin Laggards
    PROVE  use \in Checks \cup Acting \cup {"phone_kill"}
BY DEF PhoneOps, Laggards, Checks, Means, Acting

LEMMA UsesDiffer ==
    /\ \A use \in Checks : use \notin Acting \cup Dialling \cup Answering \cup {"phone_kill"}
    /\ "phone_kill" \notin Acting /\ Checks = DOMAIN Means
BY DEF Checks, Means, Acting, Dialling, Answering

(* Only phone_kill takes away _phone_started. *)
LEMMA StartedKept ==
    ASSUME PhoneTypes, Running, NEW outcome \in Outcomes, Advances(outcome)
    PROVE  /\ phone'.started => phone.started
           /\ Running' => phone'.started = phone.started
           /\ outcome = "next" /\ phone.step = Len(Script) /\ phone.use = "phone_kill" => ~phone'.started
<1>1. phone \in Phones /\ phone.step \in Nat /\ Len(Script) \in Nat /\ phone.result = "running"
  BY StepFacts DEF PhoneTypes, PhoneTypeOK, Phones, Running
<1>2. CASE outcome # "next"
  <2>1. phone' = [phone EXCEPT !.result = outcome]
    BY <1>2 DEF Advances
  <2> QED
    BY <1>1, <1>2, <2>1 DEF Phones
<1>3. CASE outcome = "next" /\ phone.step < Len(Script)
  <2>1. phone' = [phone EXCEPT !.step = @ + 1]
    BY <1>3 DEF Advances
  <2>2. phone'.started = phone.started
    BY <1>1, <2>1 DEF Phones
  <2>3. phone.step # Len(Script)
    BY <1>1, <1>3
  <2> QED
    BY <2>2, <2>3
<1>4. CASE outcome = "next" /\ ~(phone.step < Len(Script))
  <2>1. PICK r \in {"TRUE", "done"} : r = IF phone.use \in DOMAIN Means THEN "TRUE" ELSE "done"
    OBVIOUS
  <2>2. PICK b \in BOOLEAN : b = (phone.started /\ phone.use # "phone_kill")
    OBVIOUS
  <2>3. phone' = [phone EXCEPT !.result = r, !.started = b]
    BY <1>4, <2>1, <2>2 DEF Advances
  <2>4. phone'.result = r /\ phone'.started = b
    BY <1>1, <2>3 DEF Phones
  <2> QED
    BY <2>2, <2>4 DEF Running
<1> QED
  BY <1>2, <1>3, <1>4

(* A step that is not the last leads to the next one. *)
LEMMA GoesOn ==
    ASSUME PhoneTypes, Running, Advances("next"), phone.step < Len(Script)
    PROVE  /\ Running' /\ phone'.step = phone.step + 1 /\ phone'.use = phone.use /\ Script' = Script
           /\ phone'.started = phone.started
<1>1. phone.step \in Nat /\ phone.result = "running"
  BY StepFacts DEF Running
<1>2. Running' /\ phone'.step = phone.step + 1 /\ phone'.use = phone.use /\ Script' = Script
  BY <1>1, Advanced DEF Running, Script
<1> QED
  BY <1>2, StartedKept DEF Outcomes

(* What is about states of S is about states of a larger set. *)
LEMMA SaidMore ==
    ASSUME NEW t, NEW S, NEW R, S \subseteq R, AllSaid(t, S)
    PROVE  AllSaid(t, R)
BY SaidOfMore, Zenon DEF AllSaid

(* Texts that leave no menus. *)
LEMMA Grown ==
    ASSUME NEW s \in Seq(Texts), NEW t \in Seq(Texts), NEW R, Bounded(t, 0), AllSaid(t, R)
    PROVE  /\ \A m \in Nat : Bounded(s, m) => Bounded(s \o t, m)
           /\ \A k \in Nat : \A S : S \subseteq R /\ Recent(s, k, S) => Recent(s \o t, k, R)
<1>1. ASSUME NEW m \in Nat, Bounded(s, m)
      PROVE  Bounded(s \o t, m)
  <2>1. Bounded(s \o t, m + 0)
    BY <1>1, BoundedMore
  <2>2. m + 0 = m
    OBVIOUS
  <2> QED
    BY <2>1, <2>2, Zenon
<1>2. ASSUME NEW k \in Nat, NEW S, S \subseteq R, Recent(s, k, S)
      PROVE  Recent(s \o t, k, R)
  BY <1>2, HeardMore, Zenon
<1> QED
  BY <1>1, <1>2

(* What is to be shown for each step that an operation gets to. *)
LEMMA AtRest ==
    ASSUME ~Running', phone'.started => pjsua'.on, Bounded(heard', 2), Recent(heard', 1, truth'.now),
           TrueIsRecent'
    PROVE  Timely'
BY DEF Timely, StartedIsOn, RunningIsStarted, InTime, Offering

LEMMA AtWork ==
    ASSUME Running', phone'.use \in Checks \cup Acting \cup {"phone_kill"}, phone'.started,
           Quitting' \/ pjsua'.on, InTime'
    PROVE  Timely'
BY DEF Timely, StartedIsOn, RunningIsStarted, TrueIsRecent, Running

LEMMA AtFirst ==
    ASSUME Running', phone'.step = 1, Bounded(heard', 2), Recent(heard', 1, Lately')
    PROVE  InTime'
BY DEF InTime, Offering, Quitting

LEMMA AtSecond ==
    ASSUME Running', phone'.step = 2, phone'.use # "phone_kill", Bounded(heard', 4),
           Recent(heard', 1, Lately'), Recent(heard', 3, truth'.now)
    PROVE  InTime'
BY DEF InTime, Offering, Quitting

LEMMA AtThird ==
    ASSUME Running', phone'.step = 3, Bounded(heard', 3),
           Recent(heard', 0, Lately'), Recent(heard', 2, truth'.now)
    PROVE  InTime'
BY DEF InTime, Offering, Quitting

LEMMA AtFourth ==
    ASSUME Running', phone'.step = 4, phone'.use \in Checks, Bounded(heard', 3),
           Recent(heard', 0, Lately'), Recent(heard', 2, truth'.now),
           Means[phone'.use] \cap Lately' # {}
    PROVE  InTime'
BY UsesDiffer DEF InTime, Offering, Quitting

LEMMA AtOffer ==
    ASSUME Running', Offering', phone'.use \in Acting \cup {"phone_kill"}, FreshBehind(heard', truth'.now)
    PROVE  InTime'
BY UsesDiffer DEF InTime, Offering, Quitting

LEMMA AtLater ==
    ASSUME Running', phone'.step \in Nat, phone'.step >= 5,
           Bounded(heard', MenusLeft'), Recent(heard', 0, truth'.now)
    PROVE  InTime'
<1>1. phone'.step \notin {1, 2, 3, 4}
  OBVIOUS
<1> QED
  BY <1>1 DEF InTime, Offering, Quitting

(* A phone that starts has one menu in its buffer. *)
LEMMA StartsTimely ==
    ASSUME PhoneTypes, Timely, PhoneConfig \/ PhoneStart
    PROVE  Timely'
<1>1. phone \in Phones /\ ~Running
  BY DEF PhoneTypes, PhoneTypeOK, Phones, PhoneConfig, PhoneStart, Running
<1>2. UNCHANGED <<truth, behind>>
  BY DEF PhoneConfig, PhoneStart
<1>3. /\ phone'.result = phone.result /\ phone'.use = phone.use
      /\ phone'.started => pjsua'.on
      /\ heard' = <<>> \/ heard' = <<MenuLine, Menu>>
  <2>1. CASE PhoneConfig
    BY <1>1, <2>1 DEF PhoneConfig, Phones, Timely, StartedIsOn
  <2>2. CASE PhoneStart
    <3>1. pjsua \in [on : BOOLEAN, asks : {"nothing", "number", "code"}, call : CallStates]
      BY DEF PhoneTypes, PhoneTypeOK
    <3> QED
      BY <1>1, <2>2, <3>1 DEF PhoneStart, Phones
  <2> QED
    BY <2>1, <2>2
<1>4. /\ heard' \in Seq(Texts) /\ AllSaid(heard', truth.now)
      /\ Bounded(heard', 0) \/ Bounded(heard', 1)
  BY <1>3, AfterStart, Zenon DEF Proper
<1>5. Bounded(heard', 2)
  BY <1>4, MenusType DEF Bounded
<1>6. Recent(heard', 1, truth'.now)
  BY <1>2, <1>4, AllIsRecent
<1>7. TrueIsRecent'
  BY <1>2, <1>3 DEF Timely, TrueIsRecent
<1>8. ~Running'
  BY <1>1, <1>3 DEF Running
<1> QED
  BY <1>3, <1>5, <1>6, <1>7, <1>8, AtRest

(* What is of the present becomes what is of the operation before. *)
LEMMA BeginsTimely ==
    ASSUME PhoneTypes, Timely, NEW use \in PhoneUses, use \notin Laggards, Begin(use)
    PROVE  Timely'
<1>1. phone \in Phones /\ ~Running
  BY DEF PhoneTypes, PhoneTypeOK, Phones, Begin, Running
<1>2. /\ phone' = [phone EXCEPT !.use = use, !.step = 1, !.result = "running"] /\ phone.started
      /\ truth' = [before |-> truth.now, now |-> {pjsua.call}] /\ UNCHANGED <<pjsua, heard>>
  BY DEF Begin
<1>3. Running' /\ phone'.use = use /\ phone'.step = 1 /\ phone'.started
  BY <1>1, <1>2 DEF Phones, Running
<1>4. truth.now \subseteq Lately'
  BY <1>2 DEF Lately
<1>5. pjsua'.on /\ Bounded(heard, 2) /\ Recent(heard, 1, truth.now)
  BY <1>1, <1>2 DEF Timely, StartedIsOn, InTime
<1>6. heard \in Seq(Texts) /\ use \in Checks \cup Acting \cup {"phone_kill"}
  BY UsesAre, PhoneAssumption DEF PhoneTypes, PhoneTypeOK
<1>7. Recent(heard, 1, Lately')
  <2>1. 1 <= 1 /\ 1 \in Nat
    OBVIOUS
  <2> QED
    BY <1>4, <1>5, <1>6, <2>1, RecentForLonger, Zenon
<1>8. heard' = heard
  BY <1>2
<1> QED
  BY <1>3, <1>5, <1>6, <1>7, <1>8, AtFirst, AtWork

(* The far end brings texts about the state it leads to, and no menus. *)
LEMMA FarEndTimely ==
    ASSUME PhoneTypes, Timely, FarEnd
    PROVE  Timely'
<1>1. /\ UNCHANGED <<phone, behind>> /\ pjsua'.on
      /\ truth'.before = truth.before /\ truth.now \subseteq truth'.now
  BY FarTexts
<1>2. PICK t : heard' = heard \o t /\ Proper(t, truth'.now) /\ Bounded(t, 0)
  BY FarTexts, Zenon
<1>3. heard \in Seq(Texts) /\ t \in Seq(Texts) /\ AllSaid(t, truth'.now)
  BY <1>2 DEF PhoneTypes, PhoneTypeOK, Proper
<1>4. Lately \subseteq Lately' /\ truth'.now \subseteq Lately'
  BY <1>1 DEF Lately
<1>5. AllSaid(t, Lately')
  BY <1>3, <1>4, SaidMore
<1>6. \A m \in Nat : Bounded(heard, m) => Bounded(heard', m)
  BY <1>2, <1>3, Grown
<1>7. \A k \in Nat : Recent(heard, k, truth.now) => Recent(heard', k, truth'.now)
  BY <1>1, <1>2, <1>3, Grown, Zenon
<1>8. \A k \in Nat : Recent(heard, k, Lately) => Recent(heard', k, Lately')
  BY <1>2, <1>3, <1>4, <1>5, Grown, Zenon
<1>9. FreshBehind(heard, truth.now) => FreshBehind(heard', truth'.now)
  BY <1>1, <1>2, <1>3, FreshStays, Zenon
<1>10. Running' = Running /\ Quitting' = Quitting /\ Offering' = Offering /\ MenusLeft' = MenusLeft
  BY <1>1 DEF Running, Quitting, Offering, MenusLeft, Script
<1>11. MenusLeft \in Nat
  BY DEF MenusLeft
<1>12. InTime'
  <2>1. InTime
    BY DEF Timely
  <2>2. \A m \in {2, 3, 4, MenusLeft} : Bounded(heard, m) => Bounded(heard', m)
    BY <1>6, <1>11
  <2>3. \A k \in {0, 1, 2, 3} : /\ Recent(heard, k, truth.now) => Recent(heard', k, truth'.now)
                                /\ Recent(heard, k, Lately) => Recent(heard', k, Lately')
    BY <1>7, <1>8
  <2>4. Means[phone.use] \cap Lately # {} => Means[phone.use] \cap Lately' # {}
    BY <1>4
  <2> HIDE <1>6, <1>7, <1>8
  <2> QED
    BY <1>1, <1>9, <1>10, <2>1, <2>2, <2>3, <2>4 DEF InTime
<1>13. TrueIsRecent'
  BY <1>1 DEF Timely, TrueIsRecent
<1> QED
  BY <1>1, <1>10, <1>12, <1>13 DEF Timely, StartedIsOn, RunningIsStarted

(* The places in a script of n steps. *)
LEMMA InScript ==
    ASSUME NEW n \in 2 .. 10, NEW s \in 1 .. n
    PROVE  /\ s \in Nat
           /\ n = 2 /\ s # 1 => s = 2
           /\ n = 2 /\ s # 2 => s = 1
           /\ n = 4 => 2 < n /\ ~(s >= 5)
           /\ n >= 4 => 2 < n
           /\ n > 6 /\ s = 5 => s < n /\ s # n
           /\ n > 6 => n # 6
           /\ s = n \/ s = n - 1 \/ s < n - 1
           /\ s = n - 1 => s < n /\ s # n /\ s + 1 = n
           /\ s = n - 1 /\ s >= 5 => n \in Nat /\ n >= 5
           /\ s >= 5 => s # 1 /\ s # 3
           /\ s = 1 => s < n
OBVIOUS

(* An operation types a line with few menus before its answer. *)
LEMMA LineTimely ==
    ASSUME PhoneTypes, AnswersKept, Timely, LineTyped
    PROVE  Timely'
<1> DEFINE text == Script[phone.step].text
<1>1. /\ Running /\ Script[phone.step].do = "line" /\ text \in Lines
      /\ Advances("next")
      /\ truth'.before = truth.before /\ truth.now \subseteq truth'.now
      /\ pjsua'.on <=> pjsua.on /\ text # "q"
      /\ ~(pjsua.on /\ text # "q") => heard' = heard \o <<"shell_prompt">>
      /\ pjsua.on /\ text # "q" => \E t : heard' = heard \o t /\ LineBrings(text, t)
  BY LineEffect, Zenon
<1>2. /\ Len(Script) \in 2 .. 10 /\ phone.step \in 1 .. Len(Script) /\ phone.step \in Nat
      /\ StepIsRight(phone.use, phone.step, Len(Script), Script[phone.step])
  BY <1>1, StepFacts
<1>3. phone.use \in Checks \cup Acting \cup {"phone_kill"} /\ phone.started /\ InTime
  BY <1>1 DEF Timely, RunningIsStarted
<1>4. ~Quitting
  BY <1>1, <1>2 DEF Quitting, StepIsRight, Waits
<1>5. pjsua.on
  BY <1>1, <1>3, <1>4 DEF Timely, StartedIsOn
<1>6. heard \in Seq(Texts)
  BY DEF PhoneTypes, PhoneTypeOK
<1>7. Lately \subseteq Lately' /\ truth'.now \subseteq Lately'
  BY <1>1 DEF Lately
<1>8. phone.step < Len(Script) =>
         /\ Running' /\ phone'.step = phone.step + 1 /\ phone'.use = phone.use /\ Script' = Script
         /\ phone'.started
  BY <1>1, <1>3, GoesOn
<1> HIDE DEF text
<1>9. text # "q" => \E t \in Seq(Texts) : heard' = heard \o t /\ LineBrings(text, t)
  BY <1>1, <1>5 DEF LineBrings, Proper
<1>10. CASE phone.use = "phone_kill"
  <2>1. Len(Script) = 2 /\ phone.step = 1 /\ text = "q"
    <3>1. Len(Script) = 2 /\ Scripted(phone.use, phone.step, Len(Script), Script[phone.step])
      BY <1>2, <1>10 DEF StepIsRight
    <3>2. phone.step # 2
      BY <1>4, <1>10 DEF Quitting
    <3>3. phone.step = 1
      BY <1>2, <3>1, <3>2, InScript
    <3> QED
      BY <1>1, <1>10, <3>1, <3>3 DEF Scripted, text
  <2>2. Running' /\ phone'.step = 2 /\ phone'.use = "phone_kill" /\ phone'.started
    BY <1>8, <1>10, <2>1
  <2>3. Quitting' /\ Offering'
    BY <2>2 DEF Quitting, Offering
  <2>4. Unowned(heard)
    BY <1>1, <1>3, <2>1 DEF InTime, Bounded
  <2>5. <<"shell_prompt">> \in Seq(Texts) /\ FreshBehind(<<"shell_prompt">>, truth'.now)
    BY OnePrompt DEF Proper
  <2>6. FreshBehind(heard', truth'.now)
    BY <1>1, <1>6, <2>1, <2>4, <2>5, FreshFrom
  <2> QED
    BY <2>2, <2>3, <2>6, AtOffer, AtWork
<1>11. CASE phone.use # "phone_kill" /\ phone.step = 1
  <2>1. text = ""
    BY <1>1, <1>2, <1>11 DEF StepIsRight, Scripted, text
  <2>2. phone.step < Len(Script)
    BY <1>2, <1>11, InScript, Zenon
  <2>3. Running' /\ phone'.step = 2 /\ phone'.use = phone.use /\ phone'.started
    BY <1>8, <1>11, <2>2
  <2>4. PICK t \in Seq(Texts) : heard' = heard \o t /\ LineBrings(text, t)
    BY <1>9, <2>1
  <2>5. Bounded(t, 2) /\ AllSaid(t, truth'.now)
    BY <2>1, <2>4 DEF LineBrings, Proper
  <2>6. Bounded(heard, 2) /\ Recent(heard, 1, Lately)
    BY <1>1, <1>3, <1>11 DEF InTime
  <2>7. Bounded(heard', 4)
    <3>1. Bounded(heard', 2 + 2)
      BY <1>6, <2>4, <2>5, <2>6, BoundedMore
    <3>2. 2 + 2 = 4
      OBVIOUS
    <3> QED
      BY <3>1, <3>2, Zenon
  <2>8. AllSaid(t, Lately')
    BY <1>7, <2>5, SaidMore
  <2>9. Recent(heard', 1, Lately')
    <3>1. 1 \in Nat
      OBVIOUS
    <3> QED
      BY <1>6, <1>7, <2>4, <2>6, <2>8, <3>1, HeardMore, Zenon
  <2>10. Recent(heard', 3, truth'.now)
    <3>1. Menus(heard) < 3 /\ 3 \in Nat
      BY <1>6, <2>6, MenusType DEF Bounded
    <3>2. Recent(heard, 3, truth'.now)
      BY <1>6, <3>1, FewMenus, Zenon
    <3> QED
      BY <1>6, <2>4, <2>5, <3>1, <3>2, HeardMore, Zenon
  <2>11. pjsua'.on
    BY <1>1, <1>5, <2>1
  <2> QED
    BY <1>3, <1>11, <2>3, <2>7, <2>9, <2>10, <2>11, AtSecond, AtWork
<1>12. CASE phone.use \in Acting /\ phone.step = 3
  <2>1. text \in {"m", "a", "v", "H", "U"} /\ phone.step < Len(Script)
    BY <1>2, <1>12 DEF StepIsRight, ActStep, text
  <2>2. Running' /\ phone'.step = 4 /\ phone'.use = phone.use /\ phone'.started
    BY <1>8, <1>12, <2>1
  <2>3. PICK t \in Seq(Texts) : heard' = heard \o t /\ LineBrings(text, t)
    BY <1>9, <2>1
  <2>4. pjsua.asks = "nothing"
    BY <1>1, <1>5, <1>12, UsesDiffer DEF AnswersKept, AsksRightly
  <2>5. FreshBehind(t, truth'.now)
    BY <2>1, <2>3, <2>4 DEF LineBrings
  <2>6. Unowned(heard)
    BY <1>1, <1>3, <1>12 DEF InTime, Bounded
  <2>7. FreshBehind(heard', truth'.now)
    BY <1>6, <2>3, <2>5, <2>6, FreshFrom
  <2>8. Offering' /\ pjsua'.on
    BY <1>1, <1>5, <1>12, <2>1, <2>2 DEF Offering
  <2> QED
    BY <1>3, <1>12, <2>2, <2>7, <2>8, AtOffer, AtWork
<1>13. CASE phone.use \in Acting /\ phone.step >= 5
  <2>1. ActStep(phone.use, phone.step, Len(Script), Script[phone.step])
    BY <1>2, <1>13 DEF StepIsRight
  <2>2. Bounded(heard, MenusLeft) /\ Recent(heard, 0, truth.now)
    BY <1>1, <1>3, <1>13 DEF InTime
  <2>3. CASE phone.step = 5 /\ phone.use \in Dialling \cup Answering
    <3>1. text \in {"number", "200", "code"} /\ Len(Script) > 6
      BY <2>1, <2>3 DEF ActStep, text
    <3>2. phone.step < Len(Script) /\ MenusLeft = 0
      <4>1. phone.step < Len(Script) /\ phone.step # Len(Script)
        BY <1>2, <2>3, <3>1, InScript
      <4> QED
        BY <2>3, <4>1 DEF MenusLeft
    <3>3. Running' /\ phone'.step = 6 /\ phone'.use = phone.use /\ phone'.started /\ Script' = Script
      BY <1>8, <2>3, <3>2
    <3>4. PICK t \in Seq(Texts) : heard' = heard \o t /\ LineBrings(text, t)
      BY <1>9, <3>1
    <3>5. pjsua.asks # "nothing"
      BY <1>1, <1>5, <2>3 DEF AnswersKept, AsksRightly
    <3>6. Bounded(t, 1) /\ AllSaid(t, truth'.now)
      BY <3>1, <3>4, <3>5 DEF LineBrings, Proper
    <3>7. MenusLeft' = 1
      <4>1. Len(Script) # 6
        BY <1>2, <3>1, InScript
      <4>2. phone'.step # Len(Script') /\ phone'.step # 5
        BY <3>3, <4>1
      <4> QED
        BY <4>2 DEF MenusLeft
    <3>8. Bounded(heard', MenusLeft')
      <4>1. Bounded(heard', 0 + 1)
        BY <1>6, <2>2, <3>2, <3>4, <3>6, BoundedMore
      <4>2. 0 + 1 = 1
        OBVIOUS
      <4> QED
        BY <3>7, <4>1, <4>2, Zenon
    <3>9. Recent(heard', 0, truth'.now)
      <4>1. 0 \in Nat
        OBVIOUS
      <4> QED
        BY <1>1, <1>6, <2>2, <3>4, <3>6, <4>1, HeardMore, Zenon
    <3>10. pjsua'.on /\ phone'.step \in Nat /\ phone'.step >= 5
      BY <1>1, <1>5, <3>1, <3>3
    <3> QED
      BY <1>3, <3>3, <3>8, <3>9, <3>10, AtLater, AtWork
  <2>4. CASE ~(phone.step = 5 /\ phone.use \in Dialling \cup Answering)
    <3>1. phone.step = Len(Script) - 1 /\ text = ""
      <4>1. phone.step # Len(Script)
        BY <1>1, <1>13, <2>1 DEF ActStep, ReadsMenu, Waits
      <4>2. ~(phone.step < Len(Script) - 1)
        BY <1>1, <1>13, <2>1, <2>4 DEF ActStep, Waits
      <4>3. phone.step = Len(Script) - 1
        BY <1>2, <4>1, <4>2, InScript
      <4> QED
        BY <1>13, <2>1, <4>3 DEF ActStep, text
    <3>2. phone.step < Len(Script) /\ MenusLeft = 1
      <4>1. phone.step < Len(Script) /\ phone.step # Len(Script)
        BY <1>2, <3>1, InScript
      <4> QED
        BY <2>4, <4>1 DEF MenusLeft
    <3>3. /\ Running' /\ phone'.step = Len(Script) /\ phone'.use = phone.use /\ phone'.started
          /\ Script' = Script
      <4>1. phone.step + 1 = Len(Script)
        BY <1>2, <3>1, InScript
      <4> QED
        BY <1>8, <3>2, <4>1
    <3>4. PICK t \in Seq(Texts) : heard' = heard \o t /\ LineBrings(text, t)
      BY <1>9, <3>1
    <3>5. Bounded(t, 2) /\ AllSaid(t, truth'.now)
      BY <3>1, <3>4 DEF LineBrings, Proper
    <3>6. MenusLeft' = 3
      BY <3>3 DEF MenusLeft
    <3>7. Bounded(heard', MenusLeft')
      <4>1. Bounded(heard', 1 + 2)
        BY <1>6, <2>2, <3>2, <3>4, <3>5, BoundedMore
      <4>2. 1 + 2 = 3
        OBVIOUS
      <4> QED
        BY <3>6, <4>1, <4>2, Zenon
    <3>8. Recent(heard', 0, truth'.now)
      <4>1. 0 \in Nat
        OBVIOUS
      <4> QED
        BY <1>1, <1>6, <2>2, <3>4, <3>5, <4>1, HeardMore, Zenon
    <3>9. pjsua'.on /\ phone'.step \in Nat /\ phone'.step >= 5
      <4>1. Len(Script) \in Nat /\ Len(Script) >= 5
        BY <1>2, <1>13, <3>1, InScript
      <4> QED
        BY <1>1, <1>5, <3>1, <3>3, <4>1
    <3> QED
      BY <1>3, <3>3, <3>7, <3>8, <3>9, AtLater, AtWork
  <2> QED
    BY <2>3, <2>4
<1>14. CASE phone.use \in Checks /\ phone.step # 1
  <2>1. FALSE
    BY <1>1, <1>2, <1>14 DEF StepIsRight, CheckStep, ReadsMenu, Waits
  <2> QED
    BY <2>1
<1>15. CASE phone.use \in Acting /\ phone.step \in {2, 4}
  <2>1. FALSE
    BY <1>1, <1>2, <1>15 DEF StepIsRight, ActStep, ReadsMenu, Waits
  <2> QED
    BY <2>1
<1>16. phone.step \in {1, 2, 3, 4} \/ phone.step >= 5
  BY <1>2
<1> QED
  BY <1>3, <1>10, <1>11, <1>12, <1>13, <1>14, <1>15, <1>16

(* An operation reads as many menus as keep the next one from old texts. *)
LEMMA ReadTimely ==
    ASSUME PhoneTypes, AnswersKept, Timely, ReadText
    PROVE  Timely'
<1> DEFINE step == Script[phone.step]
<1>1. /\ Running /\ step.do = "expect" /\ Waits(step)
      /\ UNCHANGED <<pjsua, truth, behind, spent>>
      /\ \E i \in DOMAIN heard :
            /\ heard[i] \in {step.text, step.other}
            /\ \A j \in DOMAIN heard : heard[j] \in {step.text, step.other} => i <= j
            /\ heard' = Beyond(heard, i)
            /\ Advances(IF heard[i] = step.text THEN "next" ELSE step.otherwise)
  BY ReadEffect, Zenon
<1>2. PICK i \in DOMAIN heard :
         /\ heard[i] \in {step.text, step.other}
         /\ heard' = Beyond(heard, i)
         /\ Advances(IF heard[i] = step.text THEN "next" ELSE step.otherwise)
  BY <1>1, Zenon
<1>3. PICK outcome \in Outcomes : outcome = IF heard[i] = step.text THEN "next" ELSE step.otherwise
  BY <1>1 DEF Waits, Outcomes
<1>4. /\ Len(Script) \in 2 .. 10 /\ phone.step \in 1 .. Len(Script) /\ phone.step \in Nat
      /\ StepIsRight(phone.use, phone.step, Len(Script), step)
  BY <1>1, StepFacts
<1>5. phone.use \in Checks \cup Acting \cup {"phone_kill"} /\ phone.started /\ InTime
  BY <1>1 DEF Timely, RunningIsStarted
<1>6. heard \in Seq(Texts) /\ heard[i] \in Texts /\ heard[i] # "nothing"
  <2>1. heard \in Seq(Texts)
    BY DEF PhoneTypes, PhoneTypeOK
  <2>2. heard[i] \in Texts
    BY <2>1, ElementOfSeq, MenusType
  <2> QED
    BY <2>1, <2>2 DEF Texts, Menu
<1>7. Advances(outcome) /\ Lately' = Lately /\ truth' = truth /\ pjsua' = pjsua
  BY <1>1, <1>2, <1>3 DEF Lately
<1>8. /\ phone'.use = phone.use /\ Script' = Script
      /\ Running' => outcome = "next" /\ phone.step < Len(Script) /\ phone'.step = phone.step + 1
      /\ phone'.started => phone.started
      /\ Running' => phone'.started
      /\ outcome = "next" /\ phone.step = Len(Script) /\ phone.use = "phone_kill" => ~phone'.started
  BY <1>1, <1>5, <1>7, AdvancesTo, StartedKept
<1>9. outcome = "next" /\ phone.step < Len(Script) => Running'
  BY <1>1, <1>7, GoesOn
<1>10. ~Quitting => pjsua.on
  BY <1>1, <1>5 DEF Timely, StartedIsOn
<1>11. step.other = "nothing" => heard[i] = step.text /\ outcome = "next"
  BY <1>2, <1>3, <1>6
<1> HIDE DEF step
<1>12. /\ \A m \in Nat : Bounded(heard, m) => Bounded(heard', m) /\ (heard[i] = Menu => Bounded(heard', m - 1))
       /\ \A k \in Nat : \A S : Recent(heard, k, S) => Recent(heard', k, S)
       /\ heard[i] = Menu => \A k \in Nat : \A S : Recent(heard, k + 1, S) => Recent(heard', k, S)
  BY <1>2, <1>6, BoundedLess, ReadOn, Zenon
<1>13. CASE phone.use = "phone_kill"
  <2>1. Len(Script) = 2 /\ phone.step = 2 /\ step.text = "shell_prompt" /\ step.other = "nothing"
    <3>1. Len(Script) = 2 /\ Scripted(phone.use, phone.step, Len(Script), step)
      BY <1>4, <1>13 DEF StepIsRight
    <3>2. phone.step # 1
      BY <1>1, <3>1 DEF Scripted
    <3>3. phone.step = 2
      BY <1>4, <3>1, <3>2, InScript
    <3> QED
      BY <1>4, <1>13, <3>1, <3>3 DEF StepIsRight
  <2>2. outcome = "next" /\ heard[i] = "shell_prompt" /\ ~phone'.started /\ ~Running'
    BY <1>8, <1>11, <1>13, <2>1
  <2>3. FreshBehind(heard, truth.now)
    BY <1>1, <1>5, <1>13, <2>1 DEF InTime, Offering, Quitting
  <2>4. Bounded(heard', 1) /\ Recent(heard', 0, truth'.now)
    BY <1>2, <1>7, <2>2, <2>3 DEF FreshBehind, OwnTexts
  <2>5. heard' \in Seq(Texts)
    BY <1>2, <1>6, ReadTyped
  <2>6. Bounded(heard', 2)
    BY <2>4, <2>5, MenusType DEF Bounded
  <2>7. Recent(heard', 1, truth'.now)
    BY <2>4, <2>5, RecentForLonger
  <2>8. TrueIsRecent'
    BY <1>8, <1>13, UsesDiffer DEF TrueIsRecent
  <2> QED
    BY <2>2, <2>6, <2>7, <2>8, AtRest
<1>14. CASE phone.use # "phone_kill" /\ phone.step = 2
  <2>1. ReadsMenu(step) /\ 2 < Len(Script)
    <3>1. CASE phone.use \in Checks
      <4>1. Len(Script) = 4 /\ ReadsMenu(step)
        BY <1>4, <1>14, <3>1 DEF StepIsRight, CheckStep
      <4> QED
        BY <1>4, <4>1, InScript
    <3>2. CASE phone.use \in Acting
      <4>1. Len(Script) >= 4 /\ ReadsMenu(step)
        BY <1>4, <1>14, <3>2 DEF StepIsRight, ActStep
      <4> QED
        BY <1>4, <4>1, InScript
    <3> QED
      BY <1>5, <1>14, <3>1, <3>2
  <2>2. heard[i] = Menu /\ Running' /\ phone'.step = 3
    BY <1>8, <1>9, <1>11, <1>14, <2>1 DEF ReadsMenu
  <2>3. Bounded(heard, 4) /\ Recent(heard, 1, Lately) /\ Recent(heard, 3, truth.now)
    BY <1>1, <1>5, <1>14 DEF InTime, Quitting
  <2>4. /\ 4 \in Nat /\ 4 - 1 = 3 /\ 0 \in Nat /\ 0 + 1 = 1 /\ 2 \in Nat /\ 2 + 1 = 3
    OBVIOUS
  <2>5. Bounded(heard', 3)
    BY <1>12, <2>2, <2>3, <2>4
  <2>6. Recent(heard', 0, Lately') /\ Recent(heard', 2, truth'.now)
    BY <1>7, <1>12, <2>2, <2>3, <2>4
  <2>7. pjsua'.on
    BY <1>7, <1>10, <1>14 DEF Quitting
  <2> QED
    BY <1>5, <1>8, <2>2, <2>5, <2>6, <2>7, AtThird, AtWork
<1>15. CASE phone.use \in Checks /\ phone.step = 3
  <2>1. /\ Len(Script) = 4 /\ step.other = "nothing"
        /\ \A S : Said(step.text, S) => Means[phone.use] \cap S # {}
    BY <1>4, <1>15 DEF StepIsRight, CheckStep
  <2>2. heard[i] = step.text /\ Running' /\ phone'.step = 4
    BY <1>8, <1>9, <1>11, <1>15, <2>1
  <2>3. Bounded(heard, 3) /\ Recent(heard, 0, Lately) /\ Recent(heard, 2, truth.now)
    BY <1>1, <1>5, <1>15 DEF InTime
  <2>4. Said(heard[i], Lately)
    <3>1. i \in 1 .. Len(heard) /\ Len(heard) \in Nat
      BY <1>6, MenusType
    <3>2. i - 1 \in Nat
      BY <3>1
    <3>3. Upto(heard, i - 1) \in Nat
      BY <3>2, MenusFinite
    <3>4. Upto(heard, i - 1) >= 0
      BY <3>3
    <3> QED
      BY <2>3, <3>4 DEF Recent
  <2>5. Means[phone'.use] \cap Lately' # {}
    BY <1>7, <1>8, <2>1, <2>2, <2>4
  <2>6. Bounded(heard', 3) /\ Recent(heard', 0, Lately') /\ Recent(heard', 2, truth'.now)
    BY <1>7, <1>12, <2>3
  <2>7. pjsua'.on
    BY <1>7, <1>10, <1>15 DEF Quitting
  <2> QED
    BY <1>5, <1>8, <1>15, <2>2, <2>5, <2>6, <2>7, AtFourth, AtWork
<1>16. CASE phone.use \in Checks /\ phone.step = 4
  <2>1. Len(Script) = 4 /\ ReadsMenu(step)
    BY <1>4, <1>16 DEF StepIsRight, CheckStep
  <2>2. heard[i] = Menu /\ ~Running'
    BY <1>4, <1>8, <1>11, <1>16, <2>1 DEF ReadsMenu
  <2>3. Bounded(heard, 3) /\ Recent(heard, 2, truth.now) /\ Means[phone.use] \cap Lately # {}
    BY <1>1, <1>5, <1>16 DEF InTime
  <2>4. 3 \in Nat /\ 3 - 1 = 2 /\ 1 \in Nat /\ 1 + 1 = 2
    OBVIOUS
  <2>5. Bounded(heard', 2) /\ Recent(heard', 1, truth'.now)
    BY <1>7, <1>12, <2>2, <2>3, <2>4
  <2>6. TrueIsRecent'
    BY <1>7, <1>8, <2>3 DEF TrueIsRecent, Lately
  <2>7. pjsua'.on
    BY <1>7, <1>10, <1>16 DEF Quitting
  <2> QED
    BY <2>2, <2>5, <2>6, <2>7, AtRest
<1>17. CASE phone.use \in Acting /\ phone.step = 4
  <2>1. ActStep(phone.use, phone.step, Len(Script), step) /\ Scripted(phone.use, phone.step, Len(Script), step)
    BY <1>4, <1>17 DEF StepIsRight
  <2>2. heard[i] \in OwnTexts
    BY <1>2, <1>6, <1>17, <2>1 DEF ActStep
  <2>3. FreshBehind(heard, truth.now)
    BY <1>1, <1>5, <1>17 DEF InTime, Offering
  <2>4. /\ Bounded(heard', IF heard[i] \in {"Make_call", "Answer_with_code"} THEN 0 ELSE 1)
        /\ Recent(heard', 0, truth'.now)
    BY <1>2, <1>7, <2>2, <2>3 DEF FreshBehind
  <2>5. heard' \in Seq(Texts) /\ Menus(heard') \in Nat
    BY <1>2, <1>6, ReadTyped, MenusType
  <2>6. Bounded(heard', 1) /\ Bounded(heard', 2) /\ Bounded(heard', 3)
    BY <2>4, <2>5 DEF Bounded
  <2>7. pjsua'.on
    BY <1>7, <1>10, <1>17 DEF Quitting
  <2>8. CASE Running'
    <3>1. outcome = "next" /\ phone'.step = 5 /\ phone'.step \in Nat /\ phone'.step >= 5
      BY <1>8, <1>17, <2>8
    <3>2. phone.use \in Dialling \cup Answering => heard[i] \in {"Make_call", "Answer_with_code"}
      BY <1>2, <1>3, <1>6, <1>17, <2>1, <3>1 DEF ActStep, Scripted
    <3>3. Bounded(heard', MenusLeft')
      BY <1>8, <2>4, <2>6, <3>1, <3>2 DEF MenusLeft
    <3> QED
      BY <1>5, <1>8, <2>4, <2>7, <2>8, <3>1, <3>3, AtLater, AtWork
  <2>9. CASE ~Running'
    <3>1. Recent(heard', 1, truth'.now)
      BY <2>4, <2>5, RecentForLonger
    <3>2. TrueIsRecent'
      BY <1>8, <1>17, UsesDiffer DEF TrueIsRecent
    <3> QED
      BY <2>6, <2>7, <2>9, <3>1, <3>2, AtRest
  <2> QED
    BY <2>8, <2>9
<1>18. CASE phone.use \in Acting /\ phone.step >= 5
  <2>1. ActStep(phone.use, phone.step, Len(Script), step)
    BY <1>4, <1>18 DEF StepIsRight
  <2>2. Bounded(heard, MenusLeft) /\ Recent(heard, 0, truth.now)
    BY <1>1, <1>5, <1>18 DEF InTime
  <2>3. pjsua'.on
    BY <1>7, <1>10, <1>18 DEF Quitting
  <2>4. ~(phone.step = 5 /\ phone.use \in Dialling \cup Answering)
    BY <1>1, <2>1 DEF ActStep
  <2>5. CASE phone.step = Len(Script)
    <3>1. ReadsMenu(step) /\ MenusLeft = 3
      BY <1>18, <2>1, <2>5 DEF ActStep, MenusLeft
    <3>2. heard[i] = Menu /\ ~Running'
      BY <1>4, <1>8, <1>11, <2>5, <3>1 DEF ReadsMenu
    <3>3. 3 \in Nat /\ 3 - 1 = 2 /\ 0 \in Nat /\ 1 \in Nat /\ 0 <= 1
      OBVIOUS
    <3>4. Bounded(heard', 2) /\ Recent(heard', 0, truth'.now)
      BY <1>7, <1>12, <2>2, <3>1, <3>2, <3>3
    <3>5. heard' \in Seq(Texts)
      BY <1>2, <1>6, ReadTyped
    <3>6. Recent(heard', 1, truth'.now)
      BY <3>4, <3>5, RecentForLonger
    <3>7. TrueIsRecent'
      BY <1>8, <1>18, UsesDiffer DEF TrueIsRecent
    <3> QED
      BY <2>3, <3>2, <3>4, <3>6, <3>7, AtRest
  <2>6. CASE phone.step < Len(Script)
    <3>1. phone.step # Len(Script) - 1
      BY <1>1, <2>1, <1>18 DEF ActStep
    <3>2. phone.step < Len(Script) - 1
      BY <1>4, <2>6, <3>1
    <3>3. step.other = "nothing"
      BY <1>18, <2>1, <2>4, <3>2 DEF ActStep
    <3>4. Running' /\ phone'.step = phone.step + 1
      BY <1>8, <1>9, <1>11, <2>6, <3>3
    <3>5. phone'.step \in Nat /\ phone'.step >= 5 /\ phone'.step # 5 /\ phone'.step # Len(Script)
      BY <1>4, <1>18, <3>2, <3>4
    <3>6. MenusLeft = 1 /\ MenusLeft' = 1
      BY <1>4, <1>8, <2>4, <2>6, <3>5 DEF MenusLeft
    <3>7. Bounded(heard', MenusLeft') /\ Recent(heard', 0, truth'.now)
      BY <1>7, <1>12, <2>2, <3>6
    <3> QED
      BY <1>5, <1>8, <2>3, <3>4, <3>5, <3>7, AtLater, AtWork
  <2> QED
    BY <1>4, <2>5, <2>6
<1>19. CASE phone.step = 1 \/ (phone.use \in Checks /\ phone.step >= 5) \/ (phone.use \in Acting /\ phone.step = 3)
  <2>1. FALSE
    <3>1. phone.step # 1
      BY <1>1, <1>4 DEF StepIsRight, Scripted
    <3>2. phone.use \in Checks => Len(Script) = 4
      BY <1>4 DEF StepIsRight, CheckStep
    <3>3. ~(phone.use \in Acting /\ phone.step = 3)
      BY <1>1, <1>4 DEF StepIsRight, ActStep
    <3>4. phone.use \in Checks => ~(phone.step >= 5)
      BY <1>4, <3>2, InScript
    <3> QED
      BY <1>19, <3>1, <3>3, <3>4
  <2> QED
    BY <2>1
<1>20. phone.step \in {1, 2, 3, 4} \/ phone.step >= 5
  BY <1>4
<1> QED
  BY <1>5, <1>13, <1>14, <1>15, <1>16, <1>17, <1>18, <1>19, <1>20

PhoneIsInStep == PhoneTypes /\ AnswersKept /\ (~behind => Timely)

(* The invariant, at first and after each step. *)
LEMMA InStepInit == PhoneInit => PhoneIsInStep
<1> SUFFICES ASSUME PhoneInit
             PROVE  PhoneIsInStep
  OBVIOUS
<1>1. PhoneTypes /\ AnswersKept
  BY PhoneTypesInit, AsksInit
<1>2. ~Running /\ ~phone.started /\ phone.result # "TRUE" /\ heard = <<>>
  BY DEF PhoneInit, Running
<1>3. heard \in Seq(Texts) /\ AllSaid(heard, truth.now) /\ Bounded(heard, 0)
  BY <1>1, <1>2, AfterStart, Zenon DEF Proper
<1>4. Bounded(heard, 2)
  BY <1>3, MenusType DEF Bounded
<1>5. Recent(heard, 1, truth.now)
  BY <1>3, AllIsRecent
<1> QED
  BY <1>1, <1>2, <1>4, <1>5
     DEF PhoneIsInStep, Timely, StartedIsOn, RunningIsStarted, InTime, Offering, TrueIsRecent

LEMMA InStepKept ==
    ASSUME Laggards \cap PhoneUses \subseteq Lagging, PhoneIsInStep, [PhoneNext]_phoneVars
    PROVE  PhoneIsInStep'
<1>1. PhoneTypes' /\ AnswersKept'
  BY PhoneTypesStep, AsksStep DEF PhoneIsInStep
<1>2. ASSUME ~behind'
      PROVE  Timely'
  <2>1. CASE UNCHANGED phoneVars
    BY <1>2, <2>1 DEF PhoneIsInStep, phoneVars, Timely, StartedIsOn, RunningIsStarted, InTime, TrueIsRecent,
       Running, Quitting, Offering, MenusLeft, Lately, Script
  <2>2. CASE PhoneConfig \/ PhoneStart
    <3>1. behind' = behind
      BY <2>2 DEF PhoneConfig, PhoneStart
    <3> QED
      BY <1>2, <2>2, <3>1, StartsTimely DEF PhoneIsInStep
  <2>3. CASE \E use \in PhoneUses : Begin(use)
    <3>1. PICK use \in PhoneUses : Begin(use)
      BY <2>3
    <3>2. ~behind /\ use \notin Lagging
      BY <1>2, <3>1 DEF Begin
    <3>3. use \notin Laggards
      BY <3>2
    <3> QED
      BY <3>1, <3>2, <3>3, BeginsTimely DEF PhoneIsInStep
  <2>4. CASE LineTyped
    <3>1. behind' = behind
      BY <2>4 DEF LineTyped
    <3> QED
      BY <1>2, <2>4, <3>1, LineTimely DEF PhoneIsInStep
  <2>5. CASE ReadText
    <3>1. behind' = behind
      BY <2>5 DEF ReadText
    <3> QED
      BY <1>2, <2>5, <3>1, ReadTimely DEF PhoneIsInStep
  <2>6. CASE Timeout
    BY <1>2, <2>6 DEF Timeout
  <2>7. CASE FarEnd
    <3>1. behind' = behind
      BY <2>7 DEF FarEnd
    <3> QED
      BY <1>2, <2>7, <3>1, FarEndTimely DEF PhoneIsInStep
  <2> QED
    BY <2>1, <2>2, <2>3, <2>4, <2>5, <2>6, <2>7 DEF PhoneNext
<1> QED
  BY <1>1, <1>2 DEF PhoneIsInStep

(* What a line is, if it says for what it was asked. *)
LEMMA AskedFor ==
    ASSUME PhoneTypes, AnswersKept, LineTyped, pjsua.on
    PROVE  /\ Script[phone.step].text = "number" => pjsua.asks = "number"
           /\ Script[phone.step].text \in {"200", "code"} => pjsua.asks = "code"
<1>1. Running /\ Script[phone.step].do = "line"
  BY DEF LineTyped, Performing, Running
<1>2. Scripted(phone.use, phone.step, Len(Script), Script[phone.step])
  BY <1>1, StepFacts DEF StepIsRight
<1> QED
  BY <1>1, <1>2 DEF Scripted, AnswersKept, AsksRightly

(* Whatever operations a phone performs, with a far end that does what it  *)
(* likes, its variables keep their types.                                  *)
THEOREM PhoneTyped == PhoneSpec => []PhoneTypeOK
<1>1. PhoneInit => PhoneTypes
  BY PhoneTypesInit
<1>2. PhoneTypes /\ [PhoneNext]_phoneVars => PhoneTypes'
  BY PhoneTypesStep
<1>3. PhoneTypes => PhoneTypeOK
  BY DEF PhoneTypes
<1> QED
  BY <1>1, <1>2, <1>3, PTL DEF PhoneSpec

(* An operation types a number or a code only where pjsua asks for one,    *)
(* and a check that returns True has read what is of its own time, if the  *)
(* operations that read fewer menus than they cause are named as such.     *)
THEOREM PhoneKeepsInStep ==
    ASSUME Laggards \cap PhoneUses \subseteq Lagging
    PROVE  PhoneSpec => PhoneInStep
<1>1. PhoneInit => PhoneIsInStep
  BY InStepInit
<1>2. PhoneIsInStep /\ [PhoneNext]_phoneVars => PhoneIsInStep'
  BY InStepKept
<1>3. PhoneIsInStep' => TrueIsRecent'
  BY DEF PhoneIsInStep, Timely, TrueIsRecent
<1>4. PhoneIsInStep /\ [PhoneNext]_phoneVars =>
        [/\ LineTyped /\ pjsua.on =>
               /\ Script[phone.step].text = "number" => pjsua.asks = "number"
               /\ Script[phone.step].text \in {"200", "code"} => pjsua.asks = "code"
         /\ TrueIsRecent']_phoneVars
  BY <1>2, <1>3, AskedFor DEF PhoneIsInStep
<1> QED
  BY <1>1, <1>2, <1>4, PTL DEF PhoneSpec, PhoneInStep
=================================================================================
