----------------------------- MODULE UseCaseProofs -----------------------------
(***************************************************************************)
(* Theorems about the use cases on devices: ManagedBlocks, for every set   *)
(* of uses and every depth, and IperfTraffic, for every set of sessions,   *)
(* hosts and ports; and the types of all five parts of the devices.        *)
(***************************************************************************)
EXTENDS MCDevices, ConsoleProofs, DeviceProofs

(***************************************************************************)
(* Blocks (ManagedBlocks)                                                  *)
(***************************************************************************)

(* No port of an HTTP server is what another one begins with, as 80 is of  *)
(* 8080: the run ports shows what happens where one is.                    *)
Separated == \A p, q \in HttpPorts : Greps(p, q) <=> p = q

(* A step of entering or leaving is one of a block, and no two open blocks *)
(* make the same use of the device.                                        *)
Nested ==
    /\ stage # "body" => Len(blocks) > 0
    /\ stage = "first_stop" => Innermost.use.kind = "http"
    /\ \A i, j \in DOMAIN blocks : blocks[i].use = blocks[j].use => i = j

(* What a block without a process id finds in effect, an earlier start or  *)
(* stop that raised left behind: the block has not started it.             *)
WithoutPid ==
    \A i \in DOMAIN blocks : ~blocks[i].pid /\ blocks[i].use \in inEffect => blocks[i].use \in unsure

BlocksInv == BlocksTypeOK /\ Nested /\ WithoutPid /\ LeftAsFound /\ PortIsFree

(* What is left of a sequence without its last element.                    *)
LEMMA AllButLast ==
    ASSUME NEW S, NEW s \in Seq(S), Len(s) > 0
    PROVE  /\ Len(s) \in DOMAIN s /\ s[Len(s)] \in S
           /\ SubSeq(s, 1, Len(s) - 1) \in Seq(S)
           /\ Len(SubSeq(s, 1, Len(s) - 1)) = Len(s) - 1
           /\ DOMAIN SubSeq(s, 1, Len(s) - 1) = DOMAIN s \ {Len(s)}
           /\ \A i \in DOMAIN s \ {Len(s)} : SubSeq(s, 1, Len(s) - 1)[i] = s[i]
<1>1. Len(s) - 1 \in Nat /\ DOMAIN s = 1 .. Len(s) /\ \A i \in 1 .. Len(s) : s[i] \in S
  OBVIOUS
<1>2. /\ SubSeq(s, 1, Len(s) - 1) \in Seq(S)
      /\ Len(SubSeq(s, 1, Len(s) - 1)) = Len(s) - 1
      /\ \A i \in 1 .. Len(s) - 1 : SubSeq(s, 1, Len(s) - 1)[i] = s[i]
  BY <1>1, SubSeqProperties
<1> QED
  BY <1>1, <1>2

(* A sequence with one more element.                                       *)
LEMMA OneMore ==
    ASSUME NEW S, NEW s \in Seq(S), NEW e \in S
    PROVE  /\ Append(s, e) \in Seq(S)
           /\ Len(Append(s, e)) = Len(s) + 1
           /\ DOMAIN Append(s, e) = DOMAIN s \cup {Len(s) + 1}
           /\ \A i \in DOMAIN s : Append(s, e)[i] = s[i]
           /\ Append(s, e)[Len(s) + 1] = e
           /\ Len(s) + 1 \notin DOMAIN s
  OBVIOUS

(* The innermost block and those around it.                                *)
LEMMA TheInnermost ==
    ASSUME BlocksInv, Len(blocks) > 0
    PROVE  /\ Innermost \in [use : Uses, pid : BOOLEAN]
           /\ Outer \in Seq([use : Uses, pid : BOOLEAN]) /\ Len(Outer) = Len(blocks) - 1
           /\ Len(blocks) \in DOMAIN blocks /\ DOMAIN Outer = DOMAIN blocks \ {Len(blocks)}
           /\ \A i \in DOMAIN Outer : Outer[i] = blocks[i]
           /\ Open = {Outer[i].use : i \in DOMAIN Outer} \cup {Innermost.use}
<1>1. /\ Len(blocks) \in DOMAIN blocks /\ Innermost \in [use : Uses, pid : BOOLEAN]
      /\ Outer \in Seq([use : Uses, pid : BOOLEAN]) /\ Len(Outer) = Len(blocks) - 1
      /\ DOMAIN Outer = DOMAIN blocks \ {Len(blocks)}
      /\ \A i \in DOMAIN Outer : Outer[i] = blocks[i]
  BY AllButLast DEF BlocksInv, BlocksTypeOK, Innermost, Outer
<1>2. Open = {Outer[i].use : i \in DOMAIN Outer} \cup {Innermost.use}
  BY <1>1 DEF Open, Innermost
<1> QED
  BY <1>1, <1>2

(* grep finds the server on the port, and no other one.                    *)
LEMMA OneServerOnAPort ==
    ASSUME Separated, BlocksTypeOK, NEW u \in Uses, u.kind = "http"
    PROVE  WebServers(u.port) = inEffect \cap {u}
<1>1. \A v \in Uses : v.kind = "http" => v.port \in HttpPorts /\ v = Http(v.port)
  BY BlocksAssumption DEF Uses, Http, Use
<1>2. \A v \in inEffect : v.kind = "http" => (Greps(u.port, v.port) <=> v = u)
  BY <1>1 DEF Separated, BlocksTypeOK, Http
<1> QED
  BY <1>2 DEF WebServers

(* A use that no open block makes is in effect only where a start or stop  *)
(* raised.                                                                 *)
LEMMA EnterKeeps ==
    ASSUME BlocksInv, NEW u \in Uses, Enter(u)
    PROVE  BlocksInv'
<1> DEFINE n == Len(blocks) + 1
<1>1. /\ blocks' \in Seq([use : Uses, pid : BOOLEAN]) /\ Len(blocks') = n
      /\ DOMAIN blocks' = DOMAIN blocks \cup {n} /\ n \notin DOMAIN blocks
      /\ \A i \in DOMAIN blocks : blocks'[i] = blocks[i]
      /\ blocks'[n] = [use |-> u, pid |-> FALSE]
  BY OneMore DEF BlocksInv, BlocksTypeOK, Enter
<1>2. BlocksTypeOK'
  BY <1>1, BlocksAssumption DEF BlocksInv, BlocksTypeOK, Enter
<1>3. Innermost' = [use |-> u, pid |-> FALSE] /\ Open' = Open \cup {u}
  BY <1>1 DEF Innermost, Open
<1>4. Nested'
  BY <1>1, <1>3 DEF BlocksInv, BlocksTypeOK, Nested, Enter, Open
<1>5. LeftAsFound'
  BY <1>3 DEF BlocksInv, LeftAsFound, Enter
<1>6. WithoutPid'
  BY <1>1 DEF BlocksInv, WithoutPid, LeftAsFound, Enter
<1>7. PortIsFree'
  BY <1>3 DEF PortIsFree, Enter
<1> QED
  BY <1>2, <1>4, <1>5, <1>6, <1>7 DEF BlocksInv

(* The innermost block is left: what it used and leaves in effect is now   *)
(* known to have been left behind.                                         *)
LEMMA LeavingKeeps ==
    ASSUME BlocksInv, Len(blocks) > 0, blocks' = Outer, stage' = "body", raising' \in BOOLEAN,
           inEffect' \subseteq inEffect, unsure' \subseteq Uses,
           \A u \in inEffect' \cap (unsure \cup {Innermost.use}) : u \in unsure'
    PROVE  BlocksInv'
<1>1. BlocksTypeOK'
  BY TheInnermost, BlocksAssumption DEF BlocksInv, BlocksTypeOK
<1>2. Nested'
  BY TheInnermost DEF BlocksInv, Nested
<1>3. Open = Open' \cup {Innermost.use}
  BY TheInnermost DEF Open
<1>4. LeftAsFound'
  BY <1>3 DEF BlocksInv, LeftAsFound
<1>5. WithoutPid'
  BY TheInnermost DEF BlocksInv, WithoutPid
<1>6. PortIsFree'
  BY DEF PortIsFree
<1> QED
  BY <1>1, <1>2, <1>4, <1>5, <1>6 DEF BlocksInv

(* The blocks stay, and what runs on does so for the same reason.          *)
LEMMA StayingKeeps ==
    ASSUME BlocksInv, blocks' = blocks, stage' \in {stage, "body", "leaving"}, raising' \in BOOLEAN,
           stage' # "body" => Len(blocks) > 0,
           inEffect' \subseteq inEffect, unsure' \subseteq Uses, inEffect' \cap unsure \subseteq unsure'
    PROVE  BlocksInv'
<1>1. BlocksTypeOK'
  BY DEF BlocksInv, BlocksTypeOK
<1>2. Open' = Open /\ Innermost' = Innermost
  BY DEF Open, Innermost
<1>3. Nested'
  BY <1>2 DEF BlocksInv, Nested
<1>4. LeftAsFound' /\ WithoutPid'
  BY <1>2 DEF BlocksInv, LeftAsFound, WithoutPid
<1>5. PortIsFree'
  BY <1>2 DEF BlocksInv, PortIsFree
<1> QED
  BY <1>1, <1>3, <1>4, <1>5 DEF BlocksInv

(* The server on the block's port is ended, and no other one.              *)
LEMMA PortFreedKeeps ==
    ASSUME Separated, BlocksInv, PortFreed
    PROVE  BlocksInv' /\ inEffect \ inEffect' \subseteq {Innermost.use}
<1>1. Len(blocks) > 0 /\ Innermost.use.kind = "http" /\ Innermost.use \in Uses
  BY TheInnermost DEF BlocksInv, Nested, PortFreed
<1>2. inEffect' = inEffect \ {Innermost.use} /\ unsure' = unsure \ (inEffect \cap {Innermost.use})
  BY <1>1, OneServerOnAPort DEF BlocksInv, PortFreed, Ends
<1>3. Innermost' = Innermost /\ Open' = Open
  BY DEF PortFreed, Innermost, Open
<1>4. BlocksTypeOK' /\ Nested'
  BY <1>1, <1>2, <1>3 DEF BlocksInv, BlocksTypeOK, Nested, PortFreed
<1>5. LeftAsFound' /\ WithoutPid'
  BY <1>2, <1>3 DEF BlocksInv, LeftAsFound, WithoutPid, PortFreed
<1>6. PortIsFree'
  BY <1>2, <1>3 DEF PortIsFree
<1> QED
  BY <1>2, <1>4, <1>5, <1>6 DEF BlocksInv

(* The block is left before it was entered.                                *)
LEMMA PortNotFreedKeeps ==
    ASSUME Separated, BlocksInv, PortNotFreed
    PROVE  BlocksInv' /\ inEffect \ inEffect' \subseteq {Innermost.use}
<1>1. Len(blocks) > 0 /\ Innermost.use.kind = "http" /\ Innermost.use \in Uses
  BY TheInnermost DEF BlocksInv, Nested, PortNotFreed
<1>2. inEffect' \subseteq inEffect /\ inEffect \ inEffect' \subseteq {Innermost.use}
  BY <1>1, OneServerOnAPort DEF BlocksInv, PortNotFreed
<1> QED
  BY <1>1, <1>2, LeavingKeeps DEF BlocksInv, BlocksTypeOK, PortNotFreed

(* What the block starts is its own, and its process id is known.          *)
LEMMA StartedKeeps ==
    ASSUME BlocksInv, Started
    PROVE  BlocksInv' /\ inEffect \ inEffect' = {}
<1>1. /\ Len(blocks) > 0 /\ Len(blocks) \in DOMAIN blocks
      /\ Innermost \in [use : Uses, pid : BOOLEAN] /\ Innermost.use \in Open
  BY TheInnermost DEF BlocksInv, Nested, Started
<1>2. /\ blocks' \in Seq([use : Uses, pid : BOOLEAN]) /\ Len(blocks') = Len(blocks)
      /\ DOMAIN blocks' = DOMAIN blocks
      /\ \A i \in DOMAIN blocks : blocks'[i].use = blocks[i].use
      /\ \A i \in DOMAIN blocks : ~blocks'[i].pid => ~blocks[i].pid /\ i # Len(blocks)
  <2>1. blocks \in [1 .. Len(blocks) -> [use : Uses, pid : BOOLEAN]] /\ Len(blocks) \in 1 .. Len(blocks)
    BY <1>1, LenProperties DEF BlocksInv, BlocksTypeOK
  <2>2. [use |-> Innermost.use, pid |-> TRUE] \in [use : Uses, pid : BOOLEAN]
    BY <1>1
  <2>3. blocks' = [blocks EXCEPT ![Len(blocks)] = [use |-> Innermost.use, pid |-> TRUE]]
    BY DEF Started
  <2>4. /\ blocks' \in Seq([use : Uses, pid : BOOLEAN]) /\ Len(blocks') = Len(blocks)
        /\ \A i \in 1 .. Len(blocks) :
              blocks'[i] = IF i = Len(blocks) THEN [use |-> Innermost.use, pid |-> TRUE] ELSE blocks[i]
    BY <2>1, <2>2, <2>3, ExceptSeq DEF BlocksInv, BlocksTypeOK
  <2>5. DOMAIN blocks = 1 .. Len(blocks) /\ DOMAIN blocks' = 1 .. Len(blocks)
    BY <2>1, <2>4, LenProperties
  <2>6. \A i \in DOMAIN blocks : i = Len(blocks) => blocks'[i].use = blocks[i].use /\ blocks'[i].pid
    <3>1. blocks'[Len(blocks)] = [use |-> Innermost.use, pid |-> TRUE]
      BY <2>1, <2>4
    <3>2. blocks'[Len(blocks)].use = Innermost.use
      BY <3>1
    <3>3. blocks'[Len(blocks)].pid = TRUE
      BY <3>1
    <3> QED
      BY <3>2, <3>3 DEF Innermost
  <2> QED
    BY <2>4, <2>5, <2>6
<1>3. BlocksTypeOK' /\ Nested'
  BY <1>1, <1>2 DEF BlocksInv, BlocksTypeOK, Nested, Started
<1>4. Open' = Open
  BY <1>2 DEF Open
<1>5. LeftAsFound'
  BY <1>1, <1>4 DEF BlocksInv, LeftAsFound, Started
<1>6. WithoutPid'
  BY <1>1, <1>2 DEF BlocksInv, WithoutPid, Nested, Started, Innermost
<1>7. PortIsFree'
  BY DEF PortIsFree, Started
<1> QED
  BY <1>3, <1>5, <1>6, <1>7 DEF BlocksInv, Started

(* What may have been started is recorded as unsure.                       *)
LEMMA NotStartedKeeps ==
    ASSUME BlocksInv, NotStarted
    PROVE  BlocksInv' /\ inEffect \ inEffect' = {}
<1>1. Len(blocks) > 0 /\ Innermost.use \in Uses
  BY TheInnermost DEF BlocksInv, Nested, NotStarted
<1>2. Open' = Open /\ Innermost' = Innermost
  BY DEF Open, Innermost, NotStarted
<1>3. BlocksTypeOK' /\ Nested'
  BY <1>1, <1>2 DEF BlocksInv, BlocksTypeOK, Nested, NotStarted
<1>4. LeftAsFound' /\ WithoutPid'
  BY <1>2 DEF BlocksInv, LeftAsFound, WithoutPid, NotStarted
<1>5. PortIsFree'
  BY DEF PortIsFree, NotStarted
<1> QED
  BY <1>3, <1>4, <1>5 DEF BlocksInv, NotStarted

(* What the finally block ends is the block's own.                         *)
LEMMA EndedIsOwn ==
    ASSUME Separated, BlocksInv, Len(blocks) > 0
    PROVE  Ended \subseteq {Innermost.use}
  BY TheInnermost, OneServerOnAPort DEF BlocksInv, Ended

(* Whatever the finally block does not end is still unsure: without a      *)
(* process id the block started nothing, or that start raised.             *)
LEMMA NotEndedIsUnsure ==
    ASSUME Separated, BlocksInv, Len(blocks) > 0, Innermost.use \in inEffect \ Ended
    PROVE  Innermost.use \in unsure
<1>1. Innermost.use.kind \notin {"http"} \cup Restored
  BY TheInnermost, OneServerOnAPort DEF BlocksInv, Ended, Restored
<1>2. CASE Innermost.pid
  BY <1>1, <1>2 DEF Ended
<1>3. CASE ~Innermost.pid
  BY <1>3, TheInnermost DEF BlocksInv, WithoutPid, Innermost
<1> QED
  BY <1>2, <1>3

(* A stop that returns.                                                    *)
LEMMA StopInFinallyKeeps ==
    ASSUME Separated, BlocksInv, StopInFinally
    PROVE  BlocksInv' /\ inEffect \ inEffect' \subseteq {Innermost.use}
<1>1. Len(blocks) > 0
  BY DEF BlocksInv, Nested, StopInFinally
<1>2. inEffect' = inEffect \ Ended /\ unsure' = unsure \ Ended
  BY DEF StopInFinally, Ends
<1>3. \A u \in inEffect' \cap (unsure \cup {Innermost.use}) : u \in unsure'
  BY <1>1, <1>2, NotEndedIsUnsure
<1> QED
  BY <1>1, <1>2, <1>3, EndedIsOwn, LeavingKeeps DEF BlocksInv, BlocksTypeOK, StopInFinally

(* A stop that raises: what it leaves in effect becomes unsure.            *)
LEMMA StopRaisesKeeps ==
    ASSUME Separated, BlocksInv, StopRaises
    PROVE  BlocksInv' /\ inEffect \ inEffect' \subseteq {Innermost.use}
<1>1. Len(blocks) > 0 /\ Innermost.use \in Uses
  BY TheInnermost DEF BlocksInv, Nested, StopRaises
<1>2. inEffect' \subseteq inEffect /\ inEffect \ inEffect' \subseteq {Innermost.use}
  BY <1>1, EndedIsOwn DEF StopRaises
<1> QED
  BY <1>1, <1>2, LeavingKeeps DEF BlocksInv, BlocksTypeOK, StopRaises

(* A step keeps the invariant, and ends nothing but what the innermost     *)
(* block uses, unless a process ends by itself.                            *)
LEMMA BlocksStep ==
    ASSUME Separated, BlocksInv, [BlocksNext]_blockVars
    PROVE  BlocksInv' /\ (BlockSteps => inEffect \ inEffect' \subseteq {Innermost.use})
<1>1. CASE \E u \in Uses : Enter(u)
  BY <1>1, EnterKeeps DEF Enter
<1>2. CASE BodyEnds
  BY <1>2, StayingKeeps DEF BodyEnds, BlocksInv, BlocksTypeOK
<1>3. CASE BodyRaises
  BY <1>3, StayingKeeps DEF BodyRaises, BlocksInv, BlocksTypeOK, Nested
<1>4. CASE Caught
  BY <1>4, StayingKeeps DEF Caught, BlocksInv, BlocksTypeOK, Nested
<1>5. CASE ProcessEnds /\ ~BlockSteps
  BY <1>5, StayingKeeps DEF ProcessEnds, BlocksInv, BlocksTypeOK, Nested
<1>6. CASE UNCHANGED blockVars
  BY <1>6, StayingKeeps DEF blockVars, BlocksInv, BlocksTypeOK, Nested
<1> QED
  BY <1>1, <1>2, <1>3, <1>4, <1>5, <1>6, PortFreedKeeps, PortNotFreedKeeps, StartedKeeps,
     NotStartedKeeps, StopInFinallyKeeps, StopRaisesKeeps
  DEF BlocksNext, BlockSteps

(* Where no port is what another one begins with, blocks undo what they    *)
(* did and nothing else, however they are nested and whatever raises.      *)
THEOREM BlocksUndo ==
    ASSUME Separated
    PROVE  BlocksSpec => BlocksUndone
<1>1. BlocksInit => BlocksInv
  <2> SUFFICES ASSUME BlocksInit
               PROVE  BlocksInv
    OBVIOUS
  <2>1. blocks = <<>> /\ Len(blocks) = 0 /\ blocks \in Seq([use : Uses, pid : BOOLEAN])
        /\ DOMAIN blocks = {}
    BY DEF BlocksInit
  <2>2. BlocksTypeOK
    <3>1. Len(blocks) <= MaxDepth
      BY <2>1, BlocksAssumption
    <3> QED
      BY <2>1, <3>1 DEF BlocksInit, BlocksTypeOK
  <2> QED
    BY <2>1, <2>2 DEF BlocksInit, BlocksInv, Nested, WithoutPid, LeftAsFound, PortIsFree
<1>2. BlocksInv /\ [BlocksNext]_blockVars => BlocksInv'
  BY BlocksStep
<1>3. BlocksInv' => LeftAsFound' /\ PortIsFree'
  BY DEF BlocksInv
<1>4. BlocksInv /\ [BlocksNext]_blockVars
        => [BlockSteps => \A u \in inEffect \ inEffect' : u = Innermost.use]_blockVars
  BY BlocksStep
<1> QED
  BY <1>1, <1>2, <1>3, <1>4, PTL DEF BlocksSpec, BlocksUndone, StopSparesOthers

(***************************************************************************)
(* Iperf traffic (IperfTraffic)                                            *)
(***************************************************************************)

Senders(s) == {p \in running : p.of = s /\ p.role = "sender"}

Places == {"idle", "receiver", "sender", "send", "given_up", "started", "stopping", "stopped", "raised"}

(* Types, without the bound on the number of processes. *)
TrafficTyped ==
    /\ route \in [Sessions -> Routes]
    /\ running \subseteq Process /\ spawned \in Nat
    /\ session \in [Sessions -> [at : Places, receiver : Nat, sender : Nat]]

(* A process id is used once, and is of the session that was told of it. *)
PidsAreOwn ==
    /\ \A p \in running : p.pid \in 1 .. spawned
    /\ \A p, q \in running : p.pid = q.pid => p = q
    /\ \A s \in Sessions : session[s].receiver <= spawned /\ session[s].sender <= spawned
    /\ \A s \in Sessions, p \in running :
          p.pid \in {session[s].receiver, session[s].sender} => p.of = s

(* A process runs where the route of its session says. *)
ProcessesAreRouted ==
    \A p \in running :
        /\ p.port = route[p.of].port /\ p.to = route[p.of].to
        /\ p.host = IF p.role = "receiver" THEN route[p.of].to ELSE route[p.of].from

(* A port has one receiver, a session one sender, and no sender runs       *)
(* without the receiver of its session.                                    *)
OneReceiver ==
    \A p, q \in running :
        p.role = "receiver" /\ q.role = "receiver" /\ p.host = q.host /\ p.port = q.port => p = q
OneSender == \A s \in Sessions : \A p, q \in Senders(s) : p = q
NoOrphans == \A s \in Sessions : Senders(s) # {} => Receivers(s) # {}

OneCall ==
    \A s, t \in Sessions : session[s].at \in Between \/ session[t].at \in Between \/ s = t

(* What runs of a session, place by place; a shell with "Exit 1" to print  *)
(* is one where the process just started has ended.                        *)
ProcessesOf(s) ==
    /\ session[s].at \in {"idle", "receiver", "sender", "given_up", "stopping", "stopped"} => Senders(s) = {}
    /\ session[s].at \in {"idle", "stopped"} => Receivers(s) = {}
    /\ session[s].at = "receiver" /\ Receivers(s) = {} => route[s].to \in exit1
    /\ session[s].at \in {"sender", "send"} => Receivers(s) # {}
    /\ session[s].at \in {"sender", "send", "given_up", "started", "stopping"} =>
          \A p \in Receivers(s) : p.pid = session[s].receiver
    /\ session[s].at = "send" /\ Senders(s) # {} => route[s].from \notin exit1
    /\ session[s].at = "started" => \A p \in Senders(s) : p.pid = session[s].sender
    /\ session[s].at = "started" /\ session[s].sender = NoPid => Receivers(s) = {}

TrafficInv ==
    /\ TrafficTyped /\ ~BothWays(route)
    /\ PidsAreOwn /\ ProcessesAreRouted /\ OneReceiver /\ OneSender /\ NoOrphans /\ OneCall
    /\ \A s \in Sessions : ProcessesOf(s)

(* Reaches moves one session and leaves its process ids alone.             *)
LEMMA ReachesOne ==
    ASSUME TrafficTyped, NEW s \in Sessions, NEW place \in Places, Reaches(s, place)
    PROVE  /\ session' \in [Sessions -> [at : Places, receiver : Nat, sender : Nat]]
           /\ session'[s].at = place
           /\ \A t \in Sessions : session'[t].receiver = session[t].receiver
                                 /\ session'[t].sender = session[t].sender
           /\ \A t \in Sessions \ {s} : session'[t].at = session[t].at
  BY DEF TrafficTyped, Places, Reaches

(* So does a step that tells a session a process id, of its receiver ...   *)
LEMMA Told ==
    ASSUME TrafficTyped, NEW s \in Sessions, NEW place \in Places, NEW n \in Nat,
           session' = [session EXCEPT ![s].at = place, ![s].receiver = n]
    PROVE  /\ session' \in [Sessions -> [at : Places, receiver : Nat, sender : Nat]]
           /\ session'[s].at = place /\ session'[s].receiver = n /\ session'[s].sender = session[s].sender
           /\ \A t \in Sessions \ {s} : session'[t] = session[t]
  BY DEF TrafficTyped, Places

(* ... or of its sender.                                                   *)
LEMMA ToldSender ==
    ASSUME TrafficTyped, NEW s \in Sessions, NEW place \in Places, NEW n \in Nat,
           session' = [session EXCEPT ![s].at = place, ![s].sender = n]
    PROVE  /\ session' \in [Sessions -> [at : Places, receiver : Nat, sender : Nat]]
           /\ session'[s].at = place /\ session'[s].sender = n /\ session'[s].receiver = session[s].receiver
           /\ \A t \in Sessions \ {s} : session'[t] = session[t]
  BY DEF TrafficTyped, Places

(* One call stays the only one under way.                                  *)
LEMMA CallMovesOn ==
    ASSUME TrafficInv, NEW s \in Sessions, NEW place \in Places, Calling(s, place),
           \A t \in Sessions \ {s} : session'[t].at = session[t].at
    PROVE  OneCall'
  BY DEF TrafficInv, OneCall, Calling, Between

(* What others run does not depend on this call.                           *)
LEMMA OthersKeep ==
    ASSUME TrafficInv, NEW t \in Sessions, session[t].at \in Between,
           session'[t].at = session[t].at, session'[t].receiver = session[t].receiver,
           session'[t].sender = session[t].sender,
           Receivers(t)' = Receivers(t), Senders(t)' = Senders(t)
    PROVE  ProcessesOf(t)'
  BY DEF TrafficInv, ProcessesOf, Between

(* The process a launch adds.                                              *)
LEMMA Launched ==
    ASSUME TrafficInv, NEW s \in Sessions, NEW host \in Hosts, NEW role \in {"receiver", "sender"},
           Launch(s, host, role)
    PROVE  \E n \in Process :
              /\ n \notin running /\ running' = running \cup {n}
              /\ n.pid = spawned + 1 /\ n.host = host /\ n.role = role /\ n.of = s
              /\ n.to = route[s].to /\ n.port = route[s].port
              /\ spawned' = spawned + 1 /\ spawned' \in Nat
<1> DEFINE n == [pid |-> spawned', host |-> host, role |-> role, to |-> route[s].to,
                 port |-> route[s].port, of |-> s]
<1>1. route[s] \in Routes /\ spawned \in Nat
  BY DEF TrafficInv, TrafficTyped
<1>2. n \in Process /\ n.pid = spawned + 1
  BY <1>1 DEF Routes, Process, Launch
<1>3. n \notin running
  BY <1>1, <1>2 DEF TrafficInv, PidsAreOwn
<1> QED
  BY <1>1, <1>2, <1>3 DEF Launch

(* A launch keeps what is said of process ids and of routes.               *)
LEMMA LaunchKeeps ==
    ASSUME TrafficInv, NEW s \in Sessions, NEW n \in Process, n.of = s, n.pid = spawned + 1,
           running' = running \cup {n}, spawned' = spawned + 1, route' = route,
           n.port = route[s].port, n.to = route[s].to,
           n.host = (IF n.role = "receiver" THEN route[s].to ELSE route[s].from),
           \A t \in Sessions : session'[t].receiver = session[t].receiver
                             /\ session'[t].sender = session[t].sender
    PROVE  PidsAreOwn' /\ ProcessesAreRouted'
<1>1. spawned \in Nat /\ \A p \in running : p.pid \in 1 .. spawned /\ p.pid # n.pid
  BY DEF TrafficInv, TrafficTyped, PidsAreOwn
<1>2. \A t \in Sessions : /\ session[t].receiver \in Nat /\ session[t].receiver <= spawned
                          /\ session[t].sender \in Nat /\ session[t].sender <= spawned
  BY DEF TrafficInv, TrafficTyped, PidsAreOwn
<1>3. PidsAreOwn'
  <2>1. (\A p \in running : p.pid \in 1 .. spawned)'
    BY <1>1
  <2>2. (\A p, q \in running : p.pid = q.pid => p = q)'
    BY <1>1 DEF TrafficInv, PidsAreOwn
  <2>3. (\A t \in Sessions : session[t].receiver <= spawned /\ session[t].sender <= spawned)'
    BY <1>1, <1>2
  <2>4. \A t \in Sessions : n.pid # session[t].receiver /\ n.pid # session[t].sender
    BY <1>1, <1>2
  <2>5. (\A t \in Sessions, p \in running :
             p.pid \in {session[t].receiver, session[t].sender} => p.of = t)'
    BY <2>4 DEF TrafficInv, PidsAreOwn
  <2> QED
    BY <2>1, <2>2, <2>3, <2>5 DEF PidsAreOwn
<1>4. ProcessesAreRouted'
  BY DEF TrafficInv, ProcessesAreRouted
<1> QED
  BY <1>3, <1>4

(* A receiver starts where none has the port.                              *)
LEMMA ReceiverSpawnedKeeps ==
    ASSUME TrafficInv, NEW s \in Sessions, ReceiverSpawned(s)
    PROVE  TrafficInv' /\ running \subseteq running'
<1> USE DEF ReceiverSpawned
<1>1. /\ session' \in [Sessions -> [at : Places, receiver : Nat, sender : Nat]]
      /\ session'[s].at = "receiver"
      /\ \A t \in Sessions : session'[t].receiver = session[t].receiver /\ session'[t].sender = session[t].sender
      /\ \A t \in Sessions \ {s} : session'[t].at = session[t].at
  BY ReachesOne DEF TrafficInv, Places
<1>2. OneCall'
  BY <1>1, CallMovesOn DEF Places
<1>3. session[s].at = "idle" /\ Senders(s) = {} /\ Receivers(s) = {}
  BY DEF TrafficInv, ProcessesOf, Calling
<1>4. \A t \in Sessions \ {s} : session[t].at \in Between
  BY DEF Calling
<1>5. route[s] \in Routes /\ route[s].to \in Hosts
  BY DEF TrafficInv, TrafficTyped, Routes
<1>6. CASE Server(route[s].to, route[s].port) = {}
  <2>1. Launch(s, route[s].to, "receiver")
    BY <1>6
  <2>2. PICK n \in Process :
              /\ n \notin running /\ running' = running \cup {n}
              /\ n.pid = spawned + 1 /\ n.host = route[s].to /\ n.role = "receiver" /\ n.of = s
              /\ n.to = route[s].to /\ n.port = route[s].port
              /\ spawned' = spawned + 1 /\ spawned' \in Nat
    BY <2>1, <1>5, Launched
  <2>3. PidsAreOwn' /\ ProcessesAreRouted'
    BY <2>2, <1>1, LaunchKeeps
  <2>4. TrafficTyped' /\ ~BothWays(route')
    BY <2>2, <1>1 DEF TrafficInv, TrafficTyped, Places
  <2>5. /\ \A t \in Sessions : Senders(t)' = Senders(t)
        /\ \A t \in Sessions \ {s} : Receivers(t)' = Receivers(t)
        /\ Receivers(s)' = {n}
    BY <2>2, <1>3 DEF Senders, Receivers
  <2>6. OneReceiver'
    BY <2>2, <1>6 DEF TrafficInv, OneReceiver, Server, On
  <2>7. OneSender' /\ NoOrphans'
    BY <2>5 DEF TrafficInv, OneSender, NoOrphans
  <2>8. ProcessesOf(s)'
    BY <2>5, <1>1, <1>3 DEF ProcessesOf
  <2>9. \A t \in Sessions \ {s} : ProcessesOf(t)'
    BY <2>5, <1>1, <1>4, OthersKeep DEF Between, Places
  <2> QED
    BY <2>2, <2>3, <2>4, <2>6, <2>7, <2>8, <2>9, <1>2 DEF TrafficInv
<1>7. CASE Server(route[s].to, route[s].port) # {}
  <2>1. running' = running /\ spawned' = spawned /\ route' = route /\ route[s].to \in exit1'
    BY <1>7
  <2>2. \A t \in Sessions : Senders(t)' = Senders(t) /\ Receivers(t)' = Receivers(t)
    BY <2>1 DEF Senders, Receivers
  <2>3. TrafficTyped' /\ ~BothWays(route')
    BY <2>1, <1>1 DEF TrafficInv, TrafficTyped, Places
  <2>4. PidsAreOwn' /\ ProcessesAreRouted' /\ OneReceiver' /\ OneSender' /\ NoOrphans'
    BY <2>1, <2>2, <1>1 DEF TrafficInv, PidsAreOwn, ProcessesAreRouted, OneReceiver, OneSender, NoOrphans
  <2>5. ProcessesOf(s)'
    BY <2>1, <2>2, <1>1, <1>3 DEF ProcessesOf
  <2>6. \A t \in Sessions \ {s} : ProcessesOf(t)'
    BY <2>2, <1>1, <1>4, OthersKeep DEF Between, Places
  <2> QED
    BY <2>1, <2>3, <2>4, <2>5, <2>6, <1>2 DEF TrafficInv
<1> QED
  BY <1>6, <1>7
(* A call that starts and ends nothing, and is told of its own processes   *)
(* only.                                                                   *)
LEMMA SameProcesses ==
    ASSUME TrafficInv, running' = running, spawned' = spawned, route' = route,
           session' \in [Sessions -> [at : Places, receiver : Nat, sender : Nat]],
           \A t \in Sessions :
               /\ \/ session'[t].receiver = session[t].receiver
                  \/ \E p \in running : p.of = t /\ p.pid = session'[t].receiver
               /\ \/ session'[t].sender = session[t].sender
                  \/ \E p \in running : p.of = t /\ p.pid = session'[t].sender
    PROVE  /\ TrafficTyped' /\ ~BothWays(route') /\ PidsAreOwn' /\ ProcessesAreRouted'
           /\ OneReceiver' /\ OneSender' /\ NoOrphans'
           /\ \A t \in Sessions : Senders(t)' = Senders(t) /\ Receivers(t)' = Receivers(t)
<1>1. \A t \in Sessions : Senders(t)' = Senders(t) /\ Receivers(t)' = Receivers(t)
  BY DEF Senders, Receivers
<1>2. TrafficTyped' /\ ~BothWays(route')
  BY DEF TrafficInv, TrafficTyped, Places
<1>3. PidsAreOwn'
  <2>1. \A p \in running : p.pid \in 1 .. spawned
    BY DEF TrafficInv, PidsAreOwn
  <2>2. \A t \in Sessions : session'[t].receiver <= spawned /\ session'[t].sender <= spawned
    BY <2>1 DEF TrafficInv, PidsAreOwn, TrafficTyped
  <2>3. \A t \in Sessions, p \in running :
            p.pid \in {session'[t].receiver, session'[t].sender} => p.of = t
    BY DEF TrafficInv, PidsAreOwn
  <2> QED
    BY <2>1, <2>2, <2>3 DEF TrafficInv, PidsAreOwn
<1>4. ProcessesAreRouted' /\ OneReceiver' /\ OneSender' /\ NoOrphans'
  BY <1>1 DEF TrafficInv, ProcessesAreRouted, OneReceiver, OneSender, NoOrphans
<1> QED
  BY <1>1, <1>2, <1>3, <1>4

(* Of one process the first is that one.                                   *)
LEMMA FirstOfOne ==
    ASSUME NEW p \in Process
    PROVE  First({p}) = p
  BY DEF First, Process

(* ps lists the receiver of the session and no other process on its port:  *)
(* senders on that host use other ports, and a receiver that found its     *)
(* port in use has left "Exit 1" on the shell.                             *)
LEMMA ReceiverIsListed ==
    ASSUME TrafficInv, NEW s \in Sessions, session[s].at = "receiver",
           Listed(route[s].to)
    PROVE  \E r \in Process : /\ {p \in On(route[s].to) : p.port = route[s].port} = {r}
                              /\ r \in running /\ r.of = s /\ Receivers(s) = {r}
<1>1. PICK r \in Receivers(s) : TRUE
  BY DEF TrafficInv, ProcessesOf, Listed
<1>2. r \in running /\ r \in Process /\ r.of = s /\ r.role = "receiver"
  BY DEF Receivers, TrafficInv, TrafficTyped
<1>3. r.host = route[s].to /\ r.port = route[s].port
  BY <1>2 DEF TrafficInv, ProcessesAreRouted
<1>4. ASSUME NEW p \in running, p.host = route[s].to, p.port = route[s].port
      PROVE  p = r
  <2>1. p \in Process /\ p.role \in {"receiver", "sender"} /\ p.of \in Sessions
    BY DEF TrafficInv, TrafficTyped, Process
  <2>2. CASE p.role = "receiver"
    BY <1>2, <1>3, <1>4, <2>2 DEF TrafficInv, OneReceiver
  <2>3. CASE p.role = "sender"
    <3>1. route[p.of].from = route[s].to /\ route[p.of].port = route[s].port
      BY <1>4, <2>3 DEF TrafficInv, ProcessesAreRouted
    <3> QED
      BY <2>1, <3>1 DEF TrafficInv, BothWays
  <2> QED
    BY <2>1, <2>2, <2>3
<1>5. {p \in On(route[s].to) : p.port = route[s].port} = {r}
  BY <1>2, <1>3, <1>4 DEF On
<1>6. Receivers(s) = {r}
  BY <1>2, <1>4 DEF Receivers, TrafficInv, ProcessesAreRouted
<1> QED
  BY <1>2, <1>5, <1>6

(* The process id is that of the receiver.                                 *)
LEMMA ReceiverFoundKeeps ==
    ASSUME TrafficInv, NEW s \in Sessions, ReceiverFound(s)
    PROVE  TrafficInv' /\ running \subseteq running'
<1>1. session[s].at = "receiver" /\ Listed(route[s].to) /\ Senders(s) = {}
  BY DEF ReceiverFound, Calling, TrafficInv, ProcessesOf
<1>2. PICK r \in Process : /\ {p \in On(route[s].to) : p.port = route[s].port} = {r}
                          /\ r \in running /\ r.of = s /\ Receivers(s) = {r}
  BY <1>1, ReceiverIsListed
<1>3. session' = [session EXCEPT ![s].at = "sender", ![s].receiver = r.pid] /\ r.pid \in Nat
  BY <1>2, FirstOfOne DEF ReceiverFound, Process
<1>4. /\ session' \in [Sessions -> [at : Places, receiver : Nat, sender : Nat]]
      /\ session'[s].at = "sender" /\ session'[s].receiver = r.pid /\ session'[s].sender = session[s].sender
      /\ \A t \in Sessions \ {s} : session'[t] = session[t]
  BY <1>3, Told DEF TrafficInv, Places
<1>5. OneCall' /\ \A t \in Sessions \ {s} : session[t].at \in Between
  BY <1>4, CallMovesOn DEF ReceiverFound, Places, Calling
<1>6. running' = running /\ spawned' = spawned /\ route' = route
  BY DEF ReceiverFound
<1>7. /\ TrafficTyped' /\ ~BothWays(route') /\ PidsAreOwn' /\ ProcessesAreRouted'
      /\ OneReceiver' /\ OneSender' /\ NoOrphans'
      /\ \A t \in Sessions : Senders(t)' = Senders(t) /\ Receivers(t)' = Receivers(t)
  BY <1>2, <1>4, <1>6, SameProcesses
<1>8. ProcessesOf(s)'
  BY <1>1, <1>2, <1>4, <1>7 DEF ProcessesOf
<1>9. \A t \in Sessions \ {s} : ProcessesOf(t)'
  BY <1>4, <1>5, <1>7, OthersKeep
<1> QED
  BY <1>5, <1>6, <1>7, <1>8, <1>9 DEF TrafficInv

(* A call that goes on without a process, or raises.                       *)
LEMMA NotFoundKeeps ==
    ASSUME TrafficInv, NEW s \in Sessions, NEW place \in Places, Calling(s, place),
           \/ Reaches(s, "raised")
           \/ Reaches(s, "given_up") /\ place = "send" /\ Senders(s) = {},
           running' = running, spawned' = spawned, route' = route
    PROVE  TrafficInv' /\ running \subseteq running'
<1>1. PICK end \in {"raised", "given_up"} :
          Reaches(s, end) /\ (end = "given_up" => place = "send" /\ Senders(s) = {})
  OBVIOUS
<1>2. /\ session' \in [Sessions -> [at : Places, receiver : Nat, sender : Nat]]
      /\ session'[s].at = end
      /\ \A t \in Sessions : session'[t].receiver = session[t].receiver /\ session'[t].sender = session[t].sender
      /\ \A t \in Sessions \ {s} : session'[t].at = session[t].at
  BY <1>1, ReachesOne DEF TrafficInv, Places
<1>3. OneCall' /\ \A t \in Sessions \ {s} : session[t].at \in Between
  BY <1>2, CallMovesOn DEF Calling
<1>4. /\ TrafficTyped' /\ ~BothWays(route') /\ PidsAreOwn' /\ ProcessesAreRouted'
      /\ OneReceiver' /\ OneSender' /\ NoOrphans'
      /\ \A t \in Sessions : Senders(t)' = Senders(t) /\ Receivers(t)' = Receivers(t)
  BY <1>2, SameProcesses
<1>5. ProcessesOf(s)'
  BY <1>1, <1>2, <1>4 DEF TrafficInv, ProcessesOf, Calling
<1>6. \A t \in Sessions \ {s} : ProcessesOf(t)'
  BY <1>2, <1>3, <1>4, OthersKeep
<1> QED
  BY <1>3, <1>4, <1>5, <1>6 DEF TrafficInv
(* A sender starts where the receiver of its session runs.                 *)
LEMMA SenderSpawnedKeeps ==
    ASSUME TrafficInv, NEW s \in Sessions, SenderSpawned(s)
    PROVE  TrafficInv' /\ running \subseteq running'
<1>1. Calling(s, "sender") /\ Reaches(s, "send") /\ route' = route
  BY DEF SenderSpawned
<1>2. /\ session' \in [Sessions -> [at : Places, receiver : Nat, sender : Nat]]
      /\ session'[s].at = "send"
      /\ \A t \in Sessions : session'[t].receiver = session[t].receiver /\ session'[t].sender = session[t].sender
      /\ \A t \in Sessions \ {s} : session'[t].at = session[t].at
  BY <1>1, ReachesOne DEF TrafficInv, Places
<1>3. OneCall' /\ \A t \in Sessions \ {s} : session[t].at \in Between
  BY <1>1, <1>2, CallMovesOn DEF Places, Calling
<1>4. /\ Senders(s) = {} /\ Receivers(s) # {}
      /\ \A p \in Receivers(s) : p.pid = session[s].receiver
  BY <1>1 DEF TrafficInv, ProcessesOf, Calling
<1>5. CASE Launch(s, route[s].from, "sender") /\ exit1' = exit1 \ {route[s].from}
  <2>1. route[s].from \in Hosts /\ route[s].from # route[s].to
    BY DEF TrafficInv, TrafficTyped, Routes
  <2>2. PICK n \in Process :
              /\ n \notin running /\ running' = running \cup {n}
              /\ n.pid = spawned + 1 /\ n.host = route[s].from /\ n.role = "sender" /\ n.of = s
              /\ n.to = route[s].to /\ n.port = route[s].port
              /\ spawned' = spawned + 1 /\ spawned' \in Nat
    BY <2>1, <1>5, Launched
  <2>3. PidsAreOwn' /\ ProcessesAreRouted'
    BY <2>2, <1>1, <1>2, LaunchKeeps
  <2>4. TrafficTyped' /\ ~BothWays(route') /\ OneReceiver'
    BY <2>2, <1>1, <1>2 DEF TrafficInv, TrafficTyped, Places, OneReceiver
  <2>5. /\ \A t \in Sessions : Receivers(t)' = Receivers(t)
        /\ \A t \in Sessions \ {s} : Senders(t)' = Senders(t)
        /\ Senders(s)' = {n}
    BY <2>2, <1>4 DEF Senders, Receivers
  <2>6. OneSender' /\ NoOrphans'
    BY <2>5, <1>4 DEF TrafficInv, OneSender, NoOrphans
  <2>7. ProcessesOf(s)'
    BY <2>5, <1>1, <1>2, <1>4, <1>5 DEF ProcessesOf
  <2>8. \A t \in Sessions \ {s} : ProcessesOf(t)'
    BY <2>5, <1>2, <1>3, OthersKeep
  <2> QED
    BY <2>2, <2>3, <2>4, <2>6, <2>7, <2>8, <1>3 DEF TrafficInv
<1>6. CASE running' = running /\ spawned' = spawned
  <2>1. /\ TrafficTyped' /\ ~BothWays(route') /\ PidsAreOwn' /\ ProcessesAreRouted'
        /\ OneReceiver' /\ OneSender' /\ NoOrphans'
        /\ \A t \in Sessions : Senders(t)' = Senders(t) /\ Receivers(t)' = Receivers(t)
    BY <1>1, <1>2, <1>6, SameProcesses
  <2>2. ProcessesOf(s)'
    BY <2>1, <1>2, <1>4 DEF ProcessesOf
  <2>3. \A t \in Sessions \ {s} : ProcessesOf(t)'
    BY <2>1, <1>2, <1>3, OthersKeep
  <2> QED
    BY <2>1, <2>2, <2>3, <1>3, <1>6 DEF TrafficInv
<1> QED
  BY <1>5, <1>6 DEF SenderSpawned

(* The lines with the host and the port are those of the session's sender: *)
(* another one with this route would have its receiver on the port.        *)
LEMMA SenderIsListed ==
    ASSUME TrafficInv, NEW s \in Sessions, session[s].at = "send"
    PROVE  SenderLines(s) = Senders(s)
<1>1. PICK r \in Receivers(s) : TRUE
  BY DEF TrafficInv, ProcessesOf
<1>2. r \in running /\ r.role = "receiver" /\ r.of = s /\ r.host = route[s].to /\ r.port = route[s].port
  BY <1>1 DEF TrafficInv, ProcessesAreRouted, Receivers
<1>3. ASSUME NEW p \in SenderLines(s)
      PROVE  p \in Senders(s)
  <2>1. /\ p \in running /\ p.role = "sender" /\ p.of \in Sessions
        /\ p.to = route[s].to /\ p.port = route[s].port
    BY <1>3 DEF SenderLines, On, TrafficInv, TrafficTyped, Process
  <2>2. PICK q \in Receivers(p.of) : TRUE
    BY <2>1 DEF TrafficInv, NoOrphans, Senders
  <2>3. q \in running /\ q.role = "receiver" /\ q.of = p.of /\ q.host = p.to /\ q.port = p.port
    BY <2>1, <2>2 DEF TrafficInv, ProcessesAreRouted, Receivers
  <2>4. q = r
    BY <1>2, <2>1, <2>3 DEF TrafficInv, OneReceiver
  <2> QED
    BY <1>2, <2>1, <2>3, <2>4 DEF Senders
<1>4. ASSUME NEW p \in Senders(s)
      PROVE  p \in SenderLines(s)
  BY <1>4 DEF Senders, SenderLines, On, TrafficInv, ProcessesAreRouted
<1> QED
  BY <1>3, <1>4

(* The process id is that of the sender.                                   *)
LEMMA SenderFoundKeeps ==
    ASSUME TrafficInv, NEW s \in Sessions, SenderFound(s)
    PROVE  TrafficInv' /\ running \subseteq running'
<1>1. session[s].at = "send" /\ Calling(s, "send") /\ SenderLines(s) = Senders(s) /\ Senders(s) # {}
  BY SenderIsListed DEF SenderFound, Calling
<1>2. PICK p \in Process : p \in running /\ p.of = s /\ Senders(s) = {p}
  <2>1. PICK p \in Senders(s) : TRUE
    BY <1>1
  <2>2. Senders(s) = {p} /\ p \in running /\ p.of = s /\ p \in Process
    BY <2>1 DEF TrafficInv, TrafficTyped, OneSender, Senders
  <2> QED
    BY <2>2
<1>3. session' = [session EXCEPT ![s].at = "started", ![s].sender = p.pid] /\ p.pid \in Nat
  BY <1>1, <1>2, FirstOfOne DEF SenderFound, Process
<1>4. /\ session' \in [Sessions -> [at : Places, receiver : Nat, sender : Nat]]
      /\ session'[s].at = "started" /\ session'[s].sender = p.pid /\ session'[s].receiver = session[s].receiver
      /\ \A t \in Sessions \ {s} : session'[t] = session[t]
  BY <1>3, ToldSender DEF TrafficInv, Places
<1>5. OneCall' /\ \A t \in Sessions \ {s} : session[t].at \in Between
  BY <1>1, <1>4, CallMovesOn DEF Places, Calling
<1>6. running' = running /\ spawned' = spawned /\ route' = route
  BY DEF SenderFound
<1>7. /\ TrafficTyped' /\ ~BothWays(route') /\ PidsAreOwn' /\ ProcessesAreRouted'
      /\ OneReceiver' /\ OneSender' /\ NoOrphans'
      /\ \A t \in Sessions : Senders(t)' = Senders(t) /\ Receivers(t)' = Receivers(t)
  BY <1>2, <1>4, <1>6, SameProcesses
<1>8. p.pid # NoPid
  BY <1>2 DEF TrafficInv, TrafficTyped, PidsAreOwn, NoPid
<1>9. ProcessesOf(s)'
  BY <1>1, <1>2, <1>4, <1>7, <1>8 DEF TrafficInv, ProcessesOf
<1>10. \A t \in Sessions \ {s} : ProcessesOf(t)'
  BY <1>4, <1>5, <1>7, OthersKeep
<1> QED
  BY <1>5, <1>6, <1>7, <1>9, <1>10 DEF TrafficInv
(* A kill by a process id that a session was told of is of its own.        *)
LEMMA KilledIsOwn ==
    ASSUME TrafficInv, NEW s \in Sessions, NEW host \in Hosts,
           NEW pid \in {session[s].receiver, session[s].sender}, Killed(host, pid),
           spawned' = spawned, route' = route,
           session' \in [Sessions -> [at : Places, receiver : Nat, sender : Nat]],
           \A t \in Sessions : session'[t].receiver = session[t].receiver
                             /\ session'[t].sender = session[t].sender
    PROVE  /\ running' \subseteq running /\ \A p \in running \ running' : p.of = s
           /\ TrafficTyped' /\ ~BothWays(route') /\ PidsAreOwn' /\ ProcessesAreRouted'
           /\ OneReceiver' /\ OneSender'
           /\ \A t \in Sessions \ {s} : Senders(t)' = Senders(t) /\ Receivers(t)' = Receivers(t)
<1>1. running' \subseteq running /\ \A p \in running \ running' : p.of = s
  BY DEF Killed, TrafficInv, PidsAreOwn
<1>2. TrafficTyped' /\ ~BothWays(route')
  BY <1>1 DEF TrafficInv, TrafficTyped, Places
<1>3. PidsAreOwn' /\ ProcessesAreRouted'
  BY <1>1 DEF TrafficInv, PidsAreOwn, ProcessesAreRouted
<1>4. OneReceiver' /\ OneSender'
  BY <1>1 DEF TrafficInv, OneReceiver, OneSender, Senders
<1>5. \A t \in Sessions \ {s} : Senders(t)' = Senders(t) /\ Receivers(t)' = Receivers(t)
  BY <1>1 DEF Senders, Receivers
<1> QED
  BY <1>1, <1>2, <1>3, <1>4, <1>5

(* Where a call has ended the receiver, or the sender, that it was told of *)
(* and nothing else of the session is left without its receiver.           *)
LEMMA EndedKeeps ==
    ASSUME TrafficInv, NEW s \in Sessions, NEW place \in Places, NEW next \in Places,
           Calling(s, place), Reaches(s, next), route' = route, spawned' = spawned,
           running' = running \/ (\E host \in Hosts, pid \in {session[s].receiver, session[s].sender} :
                                     Killed(host, pid)),
           Senders(s)' = {}, ProcessesOf(s)'
    PROVE  TrafficInv' /\ \A p \in running \ running' : p.of = s
<1>1. /\ session' \in [Sessions -> [at : Places, receiver : Nat, sender : Nat]]
      /\ session'[s].at = next
      /\ \A t \in Sessions : session'[t].receiver = session[t].receiver /\ session'[t].sender = session[t].sender
      /\ \A t \in Sessions \ {s} : session'[t].at = session[t].at
  BY ReachesOne DEF TrafficInv
<1>2. OneCall' /\ \A t \in Sessions \ {s} : session[t].at \in Between
  BY <1>1, CallMovesOn DEF Calling
<1>3. /\ \A p \in running \ running' : p.of = s
      /\ TrafficTyped' /\ ~BothWays(route') /\ PidsAreOwn' /\ ProcessesAreRouted'
      /\ OneReceiver' /\ OneSender'
      /\ \A t \in Sessions \ {s} : Senders(t)' = Senders(t) /\ Receivers(t)' = Receivers(t)
  BY <1>1, SameProcesses, KilledIsOwn
<1>4. NoOrphans'
  BY <1>3 DEF TrafficInv, NoOrphans
<1>5. \A t \in Sessions \ {s} : ProcessesOf(t)'
  BY <1>1, <1>2, <1>3, OthersKeep
<1> QED
  BY <1>2, <1>3, <1>4, <1>5 DEF TrafficInv

(* The processes of a session are where a kill looks for them.             *)
LEMMA WhereTheyRun ==
    ASSUME TrafficInv, NEW s \in Sessions
    PROVE  /\ route[s].to \in Hosts /\ route[s].from \in Hosts
           /\ \A p \in Receivers(s) : p.host = route[s].to
           /\ \A p \in Senders(s) : p.host = route[s].from
  BY DEF TrafficInv, TrafficTyped, Routes, ProcessesAreRouted, Receivers, Senders

(* The receiver is ended where no sender was found.                        *)
LEMMA ReceiverStoppedKeeps ==
    ASSUME TrafficInv, NEW s \in Sessions, ReceiverStopped(s)
    PROVE  TrafficInv' /\ \A p \in running \ running' : p.of = s
<1>1. /\ Calling(s, "given_up") /\ Reaches(s, "started") /\ Killed(route[s].to, session[s].receiver)
      /\ route' = route /\ spawned' = spawned
  BY DEF ReceiverStopped
<1>2. Senders(s) = {} /\ \A p \in Receivers(s) : p.pid = session[s].receiver
  BY <1>1 DEF TrafficInv, ProcessesOf, Calling
<1>3. Senders(s)' = {} /\ Receivers(s)' = {}
  BY <1>1, <1>2, WhereTheyRun DEF Killed, Senders, Receivers
<1>4. session'[s].at = "started"
  BY <1>1, ReachesOne DEF Places, TrafficInv
<1>5. ProcessesOf(s)'
  BY <1>3, <1>4 DEF ProcessesOf
<1> QED
  BY <1>1, <1>3, <1>5, WhereTheyRun, EndedKeeps DEF Places

(* The sender is ended, if there was one.                                  *)
LEMMA StopSenderKeeps ==
    ASSUME TrafficInv, NEW s \in Sessions, StopSender(s)
    PROVE  TrafficInv' /\ \A p \in running \ running' : p.of = s
<1>1. /\ Calling(s, "started") /\ Reaches(s, "stopping") /\ route' = route /\ spawned' = spawned
      /\ \/ session[s].sender = NoPid /\ running' = running
         \/ Killed(route[s].from, session[s].sender)
  BY DEF StopSender
<1>2. /\ \A p \in Receivers(s) : p.pid = session[s].receiver
      /\ \A p \in Senders(s) : p.pid = session[s].sender
  BY <1>1 DEF TrafficInv, ProcessesOf, Calling
<1>3. \A p \in Senders(s) : p.pid # NoPid
  BY DEF TrafficInv, TrafficTyped, PidsAreOwn, Senders, NoPid
<1>4. Senders(s)' = {} /\ Receivers(s)' \subseteq Receivers(s)
  BY <1>1, <1>2, <1>3, WhereTheyRun DEF Killed, Senders, Receivers
<1>5. session'[s].at = "stopping" /\ session'[s].receiver = session[s].receiver
  BY <1>1, ReachesOne DEF Places, TrafficInv
<1>6. ProcessesOf(s)'
  BY <1>2, <1>4, <1>5 DEF ProcessesOf
<1> QED
  BY <1>1, <1>4, <1>6, WhereTheyRun, EndedKeeps DEF Places

(* The receiver is ended.                                                  *)
LEMMA StopReceiverKeeps ==
    ASSUME TrafficInv, NEW s \in Sessions, StopReceiver(s)
    PROVE  TrafficInv' /\ \A p \in running \ running' : p.of = s
<1>1. /\ Calling(s, "stopping") /\ Reaches(s, "stopped") /\ Killed(route[s].to, session[s].receiver)
      /\ route' = route /\ spawned' = spawned
  BY DEF StopReceiver
<1>2. Senders(s) = {} /\ \A p \in Receivers(s) : p.pid = session[s].receiver
  BY <1>1 DEF TrafficInv, ProcessesOf, Calling
<1>3. Senders(s)' = {} /\ Receivers(s)' = {}
  BY <1>1, <1>2, WhereTheyRun DEF Killed, Senders, Receivers
<1>4. session'[s].at = "stopped"
  BY <1>1, ReachesOne DEF Places, TrafficInv
<1>5. ProcessesOf(s)'
  BY <1>3, <1>4 DEF ProcessesOf
<1> QED
  BY <1>1, <1>3, <1>5, WhereTheyRun, EndedKeeps DEF Places

(* A sender that exits has its receiver, and leaves no "Exit 1" behind.    *)
LEMMA SenderExitsKeeps ==
    ASSUME TrafficInv, SenderExits
    PROVE  TrafficInv' /\ session' = session
<1>1. PICK p \in running :
        /\ p.role = "sender" /\ running' = running \ {p}
        /\ exit1' = IF Server(p.to, p.port) = {} THEN exit1 \cup {p.host} ELSE exit1
        /\ route' = route /\ spawned' = spawned /\ session' = session
  BY DEF SenderExits
<1>2. p.of \in Sessions /\ p \in Senders(p.of)
  BY <1>1 DEF TrafficInv, TrafficTyped, Process, Senders
<1>3. PICK r \in Receivers(p.of) : TRUE
  BY <1>2 DEF TrafficInv, NoOrphans
<1>4. r \in Server(p.to, p.port)
  BY <1>2, <1>3 DEF TrafficInv, ProcessesAreRouted, Receivers, Server, On
<1>5. exit1' = exit1
  BY <1>1, <1>4
<1>6. \A t \in Sessions : Receivers(t)' = Receivers(t) /\ Senders(t)' \subseteq Senders(t)
  BY <1>1 DEF Receivers, Senders
<1>7. TrafficTyped' /\ ~BothWays(route') /\ PidsAreOwn' /\ ProcessesAreRouted' /\ OneReceiver'
  BY <1>1 DEF TrafficInv, TrafficTyped, PidsAreOwn, ProcessesAreRouted, OneReceiver
<1>8. OneSender' /\ NoOrphans' /\ OneCall'
  BY <1>1, <1>6 DEF TrafficInv, OneSender, NoOrphans, OneCall
<1>9. \A t \in Sessions : ProcessesOf(t)'
  BY <1>1, <1>5, <1>6 DEF TrafficInv, ProcessesOf
<1> QED
  BY <1>1, <1>7, <1>8, <1>9 DEF TrafficInv

(* A call ends processes of its own session only.                          *)
LEMMA TrafficStep ==
    ASSUME TrafficInv, [TrafficNext]_trafficVars
    PROVE  /\ TrafficInv'
           /\ \A s \in Sessions : session'[s].at # session[s].at => \A p \in running \ running' : p.of = s
<1>1. CASE UNCHANGED trafficVars
  BY <1>1 DEF trafficVars, TrafficInv, TrafficTyped, PidsAreOwn, ProcessesAreRouted, OneReceiver,
     OneSender, NoOrphans, OneCall, ProcessesOf, Senders, Receivers
<1>2. CASE SenderExits
  BY <1>2, SenderExitsKeeps
<1>3. ASSUME NEW s \in Sessions, TrafficCalls(s)
      PROVE  /\ TrafficInv'
             /\ \A t \in Sessions \ {s} : session'[t].at = session[t].at
             /\ \A p \in running \ running' : p.of = s
  <2>1. \A t \in Sessions \ {s} : session'[t].at = session[t].at
    BY <1>3 DEF TrafficInv, TrafficTyped, TrafficCalls, ReceiverSpawned, ReceiverFound, ReceiverNotFound,
       SenderSpawned, SenderFound, SenderNotFound, ReceiverStopped, StopSender, StopReceiver, Reaches
  <2>2. CASE ReceiverNotFound(s)
    BY <2>1, <2>2, NotFoundKeeps DEF ReceiverNotFound, Places
  <2>3. CASE SenderNotFound(s)
    <3>1. ~Listed(route[s].from) => Senders(s) = {}
      BY <2>3, WhereTheyRun DEF SenderNotFound, Calling, TrafficInv, ProcessesOf, Listed, On, Senders
    <3> QED
      BY <2>1, <2>3, <3>1, NotFoundKeeps DEF SenderNotFound, Places
  <2> QED
    BY <1>3, <2>1, <2>2, <2>3, ReceiverSpawnedKeeps, ReceiverFoundKeeps, SenderSpawnedKeeps,
       SenderFoundKeeps, ReceiverStoppedKeeps, StopSenderKeeps, StopReceiverKeeps DEF TrafficCalls
<1> QED
  BY <1>1, <1>2, <1>3 DEF TrafficNext, TrafficEnded

(* Where no port is used in both directions, a start and a stop end the    *)
(* processes of their own session and no other, whatever else runs.        *)
THEOREM StopsAreOwn ==
    ASSUME ~Both
    PROVE  TrafficSpec => StopsAreExact
<1>1. TrafficInit => TrafficInv
  BY DEF TrafficInit, TrafficInv, TrafficTyped, PidsAreOwn, ProcessesAreRouted, OneReceiver, OneSender,
     NoOrphans, OneCall, Between, ProcessesOf, Senders, Receivers, NoPid, Places
<1>2. TrafficInv /\ [TrafficNext]_trafficVars => TrafficInv'
  BY TrafficStep
<1>3. TrafficInv' => StopEndsReceiver' /\ NoReceiverAlone'
  BY DEF TrafficInv, ProcessesOf, StopEndsReceiver, NoReceiverAlone
<1>4. TrafficInv /\ [TrafficNext]_trafficVars
        => [/\ \A s \in Sessions : session'[s].at # session[s].at =>
                    \A p \in running \ running' : p.of = s
            /\ StopEndsReceiver' /\ NoReceiverAlone']_trafficVars
  BY <1>3, TrafficStep
<1> QED
  BY <1>1, <1>2, <1>4, PTL DEF TrafficSpec, StopsAreExact

(***************************************************************************)
(* The types of the five parts of the devices                              *)
(***************************************************************************)

(* Blocks: a start or a stop is of an open block.                          *)
BlocksTypes == BlocksTypeOK /\ (stage # "body" => Len(blocks) > 0)

LEMMA BlocksTypesStep ==
    ASSUME BlocksTypes, [BlocksNext]_blockVars
    PROVE  BlocksTypes'
<1>1. /\ blocks \in Seq([use : Uses, pid : BOOLEAN]) /\ Len(blocks) <= MaxDepth /\ Len(blocks) \in Nat
      /\ stage \in {"body", "first_stop", "starting", "leaving"} /\ raising \in BOOLEAN
      /\ inEffect \subseteq Uses /\ unsure \subseteq Uses /\ (stage # "body" => Len(blocks) > 0)
      /\ MaxDepth \in Nat
  BY BlocksAssumption DEF BlocksTypes, BlocksTypeOK
<1>2. ASSUME Len(blocks) > 0
      PROVE  /\ Innermost.use \in Uses /\ Outer \in Seq([use : Uses, pid : BOOLEAN]) /\ Len(Outer) = Len(blocks) - 1
             /\ Len(blocks) \in DOMAIN blocks
  <2>1. /\ Len(blocks) \in DOMAIN blocks /\ Innermost \in [use : Uses, pid : BOOLEAN]
        /\ Outer \in Seq([use : Uses, pid : BOOLEAN]) /\ Len(Outer) = Len(blocks) - 1
    BY <1>1, <1>2, AllButLast DEF Innermost, Outer
  <2>2. Innermost.use \in Uses
    BY <2>1
  <2> QED
    BY <2>1, <2>2
<1>3. CASE UNCHANGED blockVars
  BY <1>1, <1>3 DEF blockVars, BlocksTypes, BlocksTypeOK
<1>4. ASSUME NEW u \in Uses, Enter(u)
      PROVE  BlocksTypes'
  <2>1. [use |-> u, pid |-> FALSE] \in [use : Uses, pid : BOOLEAN]
    OBVIOUS
  <2>2. blocks' \in Seq([use : Uses, pid : BOOLEAN]) /\ Len(blocks') = Len(blocks) + 1
    BY <1>1, <1>4, <2>1, OneMore DEF Enter
  <2> QED
    BY <1>1, <1>4, <2>2 DEF Enter, BlocksTypes, BlocksTypeOK
<1>5. CASE PortFreed \/ BodyEnds \/ BodyRaises \/ Caught \/ ProcessEnds
  BY <1>1, <1>5 DEF PortFreed, BodyEnds, BodyRaises, Caught, ProcessEnds, Ends, Processes, BlocksTypes, BlocksTypeOK
<1>6. CASE PortNotFreed \/ StopInFinally \/ StopRaises
  <2>1. stage # "body"
    BY <1>6 DEF PortNotFreed, StopInFinally, StopRaises
  <2>2. blocks' = Outer /\ stage' = "body" /\ raising' \in BOOLEAN
    BY <1>1, <1>6 DEF PortNotFreed, StopInFinally, StopRaises
  <2>3. inEffect' \subseteq Uses /\ unsure' \subseteq Uses
    BY <1>1, <1>2, <1>6, <2>1 DEF PortNotFreed, StopInFinally, StopRaises, Ends
  <2> QED
    BY <1>1, <1>2, <2>1, <2>2, <2>3 DEF BlocksTypes, BlocksTypeOK
<1>7. CASE Started
  <2>1. [use |-> Innermost.use, pid |-> TRUE] \in [use : Uses, pid : BOOLEAN] /\ Len(blocks) > 0
    BY <1>1, <1>2, <1>7 DEF Started
  <2>2. blocks' \in Seq([use : Uses, pid : BOOLEAN]) /\ Len(blocks') = Len(blocks)
    BY <1>1, <1>2, <1>7, <2>1, ExceptSeq DEF Started
  <2> QED
    BY <1>1, <1>2, <1>7, <2>1, <2>2 DEF Started, BlocksTypes, BlocksTypeOK
<1>8. CASE NotStarted
  BY <1>1, <1>2, <1>8 DEF NotStarted, BlocksTypes, BlocksTypeOK
<1> QED
  BY <1>3, <1>4, <1>5, <1>6, <1>7, <1>8 DEF BlocksNext, BlockSteps

(* Traffic: a session that called for its receiver started one process at  *)
(* most, and one that called for its sender another one.                   *)
Called == {s \in Sessions : session[s].at # "idle"}
CalledTwice == {s \in Sessions : session[s].at \notin {"idle", "receiver", "sender"}}

TrafficTypes ==
    /\ route \in [Sessions -> Routes]
    /\ spawned \in Nat /\ spawned <= Cardinality(Called) + Cardinality(CalledTwice)
    /\ running \subseteq Process /\ \A p \in running : p.pid \in 1 .. spawned
    /\ exit1 \subseteq Hosts
    /\ session \in [Sessions -> [at : Places, receiver : 0 .. spawned, sender : 0 .. spawned]]

LEMMA TrafficIsTyped ==
    ASSUME IsFiniteSet(Sessions), TrafficTypes
    PROVE  TrafficTypeOK
<1>1. /\ Cardinality(Called) <= Cardinality(Sessions) /\ Cardinality(CalledTwice) <= Cardinality(Sessions)
      /\ Cardinality(Called) \in Nat /\ Cardinality(CalledTwice) \in Nat /\ Cardinality(Sessions) \in Nat
  <2>1. Called \in SUBSET Sessions /\ CalledTwice \in SUBSET Sessions
    BY DEF Called, CalledTwice
  <2>2. IsFiniteSet(Called) /\ IsFiniteSet(CalledTwice)
    BY <2>1, FS_Subset
  <2> QED
    BY <2>1, <2>2, FS_Subset, FS_CardinalityType
<1>2. spawned \in 0 .. 2 * Cardinality(Sessions)
  BY <1>1 DEF TrafficTypes
<1> QED
  BY <1>2 DEF TrafficTypes, TrafficTypeOK, Places

(* One session goes on, and no process starts or this one's.               *)
LEMMA CallsCounted ==
    ASSUME IsFiniteSet(Sessions), TrafficTypes, NEW s \in Sessions,
           \A t \in Sessions \ {s} : session'[t].at = session[t].at,
           session[s].at # "idle" => session'[s].at # "idle",
           session[s].at \notin {"idle", "receiver", "sender"} =>
               session'[s].at \notin {"idle", "receiver", "sender"},
           \/ spawned' = spawned
           \/ /\ spawned' = spawned + 1
              /\ \/ session[s].at = "idle" /\ session'[s].at # "idle"
                 \/ session[s].at = "sender" /\ session'[s].at \notin {"idle", "receiver", "sender"}
    PROVE  spawned' \in Nat /\ spawned' <= Cardinality(Called') + Cardinality(CalledTwice')
<1>1. /\ Called \in SUBSET Sessions /\ CalledTwice \in SUBSET Sessions
      /\ Called' \in SUBSET Sessions /\ CalledTwice' \in SUBSET Sessions
  BY DEF Called, CalledTwice
<1>2. IsFiniteSet(Called) /\ IsFiniteSet(CalledTwice) /\ IsFiniteSet(Called') /\ IsFiniteSet(CalledTwice')
  BY <1>1, FS_Subset
<1>3. Called \subseteq Called' /\ CalledTwice \subseteq CalledTwice'
  BY DEF Called, CalledTwice
<1>4. /\ Cardinality(Called) \in Nat /\ Cardinality(CalledTwice) \in Nat
      /\ Cardinality(Called') \in Nat /\ Cardinality(CalledTwice') \in Nat
      /\ Cardinality(Called) <= Cardinality(Called') /\ Cardinality(CalledTwice) <= Cardinality(CalledTwice')
  BY <1>2, <1>3, FS_Subset, FS_CardinalityType
<1>5. CASE spawned' = spawned
  BY <1>4, <1>5 DEF TrafficTypes
<1>6. CASE spawned' = spawned + 1 /\ session[s].at = "idle" /\ session'[s].at # "idle"
  <2>1. Called' = Called \cup {s} /\ s \notin Called
    BY <1>6 DEF Called
  <2>2. Cardinality(Called') = Cardinality(Called) + 1
    BY <1>2, <2>1, FS_AddElement
  <2> QED
    BY <1>4, <1>6, <2>2 DEF TrafficTypes
<1>7. CASE /\ spawned' = spawned + 1 /\ session[s].at = "sender"
           /\ session'[s].at \notin {"idle", "receiver", "sender"}
  <2>1. CalledTwice' = CalledTwice \cup {s} /\ s \notin CalledTwice
    BY <1>7 DEF CalledTwice
  <2>2. Cardinality(CalledTwice') = Cardinality(CalledTwice) + 1
    BY <1>2, <2>1, FS_AddElement
  <2> QED
    BY <1>4, <1>7, <2>2 DEF TrafficTypes
<1> QED
  BY <1>5, <1>6, <1>7

(* The first of some processes is one of them.                             *)
LEMMA FirstIsFound ==
    ASSUME TrafficTypes, NEW found \in SUBSET running, found # {}
    PROVE  First(found) \in running /\ First(found).pid \in 1 .. spawned
<1> DEFINE pids == {p.pid : p \in found}
<1>1. \A p \in found : p \in running /\ p.pid \in 1 .. spawned
  BY DEF TrafficTypes
<1>2. pids \in SUBSET Nat /\ pids # {}
  BY <1>1 DEF TrafficTypes
<1>3. PICK n \in pids : \A m \in pids : n <= m
  BY <1>2, LeastIndex
<1>4. PICK p \in found : \A q \in found : p.pid <= q.pid
  BY <1>3
<1>5. First(found) \in found
  BY <1>4 DEF First
<1> QED
  BY <1>1, <1>5

(* A session reaches a place, and no process starts.                       *)
LEMMA ReachesTyped ==
    ASSUME IsFiniteSet(Sessions), TrafficTypes, NEW s \in Sessions, NEW place \in Places, Reaches(s, place),
           session[s].at # "idle" => place # "idle",
           session[s].at \notin {"idle", "receiver", "sender"} => place \notin {"idle", "receiver", "sender"},
           UNCHANGED <<route, spawned>>, running' \subseteq running, exit1' \subseteq Hosts
    PROVE  TrafficTypes'
<1>1. /\ session' \in [Sessions -> [at : Places, receiver : 0 .. spawned, sender : 0 .. spawned]]
      /\ session'[s].at = place /\ \A t \in Sessions \ {s} : session'[t] = session[t]
  BY DEF TrafficTypes, Reaches, Places
<1>2. spawned' \in Nat /\ spawned' <= Cardinality(Called') + Cardinality(CalledTwice')
  BY <1>1, CallsCounted
<1> QED
  BY <1>1, <1>2 DEF TrafficTypes

(* A session's process starts.                                             *)
LEMMA LaunchTyped ==
    ASSUME IsFiniteSet(Sessions), TrafficTypes, NEW s \in Sessions, NEW place \in Places, Reaches(s, place),
           NEW host \in Hosts, NEW role \in {"receiver", "sender"}, Launch(s, host, role),
           \/ session[s].at = "idle" /\ place # "idle"
           \/ session[s].at = "sender" /\ place \notin {"idle", "receiver", "sender"},
           UNCHANGED route, exit1' \subseteq Hosts
    PROVE  TrafficTypes'
<1>1. /\ session' \in [Sessions -> [at : Places, receiver : 0 .. spawned, sender : 0 .. spawned]]
      /\ session'[s].at = place /\ \A t \in Sessions \ {s} : session'[t] = session[t]
  BY DEF TrafficTypes, Reaches, Places
<1>2. spawned' = spawned + 1 /\ spawned \in Nat
  BY DEF Launch, TrafficTypes
<1>3. spawned' \in Nat /\ spawned' <= Cardinality(Called') + Cardinality(CalledTwice')
  BY <1>1, <1>2, CallsCounted
<1>4. 0 .. spawned \subseteq 0 .. spawned' /\ 1 .. spawned \subseteq 1 .. spawned' /\ spawned' \in 1 .. spawned'
  BY <1>2
<1>5. session' \in [Sessions -> [at : Places, receiver : 0 .. spawned', sender : 0 .. spawned']]
  <2>1. [at : Places, receiver : 0 .. spawned, sender : 0 .. spawned]
          \subseteq [at : Places, receiver : 0 .. spawned', sender : 0 .. spawned']
    BY <1>4
  <2> QED
    BY <1>1, <2>1
<1>6. running' \subseteq Process /\ \A p \in running' : p.pid \in 1 .. spawned'
  <2>1. PICK n : n = [pid |-> spawned', host |-> host, role |-> role, to |-> route[s].to,
                      port |-> route[s].port, of |-> s]
    OBVIOUS
  <2>2. route[s].to \in Hosts /\ route[s].port \in Ports
    BY DEF TrafficTypes, Routes
  <2>3. n \in Process /\ n.pid = spawned'
    BY <1>3, <2>1, <2>2 DEF Process
  <2>4. running' = running \cup {n}
    BY <2>1 DEF Launch
  <2> QED
    BY <1>4, <2>3, <2>4 DEF TrafficTypes
<1> QED
  BY <1>3, <1>5, <1>6 DEF TrafficTypes

(* Every step keeps them.                                                  *)
LEMMA TrafficTypesStep ==
    ASSUME IsFiniteSet(Sessions), TrafficTypes, [TrafficNext]_trafficVars
    PROVE  TrafficTypes'
<1>1. CASE UNCHANGED trafficVars
  BY <1>1 DEF trafficVars, TrafficTypes, Called, CalledTwice
<1>2. \A s \in Sessions : route[s] \in Routes /\ route[s].from \in Hosts /\ route[s].to \in Hosts
  BY DEF TrafficTypes, Routes
<1>3. exit1 \subseteq Hosts
  BY DEF TrafficTypes
<1>4. ASSUME NEW s \in Sessions, ReceiverSpawned(s)
      PROVE  TrafficTypes'
  <2>1. /\ session[s].at = "idle" /\ Reaches(s, "receiver") /\ "receiver" \in Places /\ UNCHANGED route
        /\ exit1' \subseteq Hosts
    BY <1>2, <1>3, <1>4 DEF ReceiverSpawned, Calling, Places
  <2>2. \/ Launch(s, route[s].to, "receiver") \/ UNCHANGED <<running, spawned>>
    BY <1>4 DEF ReceiverSpawned
  <2> QED
    BY <1>2, <2>1, <2>2, ReachesTyped, LaunchTyped
<1>5. ASSUME NEW s \in Sessions, SenderSpawned(s)
      PROVE  TrafficTypes'
  <2>1. /\ session[s].at = "sender" /\ Reaches(s, "send") /\ "send" \in Places /\ UNCHANGED route
        /\ exit1' \subseteq Hosts
    BY <1>2, <1>3, <1>5 DEF SenderSpawned, Calling, Places
  <2>2. \/ Launch(s, route[s].from, "sender") \/ UNCHANGED <<running, spawned>>
    BY <1>5 DEF SenderSpawned
  <2> QED
    BY <1>2, <2>1, <2>2, ReachesTyped, LaunchTyped
<1>6. ASSUME NEW s \in Sessions, ReceiverFound(s)
      PROVE  TrafficTypes'
  <2>1. PICK found \in SUBSET running : found # {} /\ session' = [session EXCEPT ![s].at = "sender", ![s].receiver = First(found).pid]
    BY <1>6 DEF ReceiverFound, On
  <2>2. First(found).pid \in 0 .. spawned
    BY <2>1, FirstIsFound DEF TrafficTypes
  <2>3. /\ session' \in [Sessions -> [at : Places, receiver : 0 .. spawned, sender : 0 .. spawned]]
        /\ session'[s].at = "sender" /\ \A t \in Sessions \ {s} : session'[t] = session[t]
    BY <2>1, <2>2 DEF TrafficTypes, Places
  <2>4. session[s].at = "receiver" /\ UNCHANGED <<route, running, spawned>> /\ exit1' \subseteq Hosts
    BY <1>3, <1>6 DEF ReceiverFound, Calling
  <2>5. spawned' \in Nat /\ spawned' <= Cardinality(Called') + Cardinality(CalledTwice')
    BY <2>3, <2>4, CallsCounted
  <2> QED
    BY <2>3, <2>4, <2>5 DEF TrafficTypes
<1>7. ASSUME NEW s \in Sessions, SenderFound(s)
      PROVE  TrafficTypes'
  <2>1. PICK found \in SUBSET running : found # {} /\ session' = [session EXCEPT ![s].at = "started", ![s].sender = First(found).pid]
    BY <1>7 DEF SenderFound, SenderLines, On
  <2>2. First(found).pid \in 0 .. spawned
    BY <2>1, FirstIsFound DEF TrafficTypes
  <2>3. /\ session' \in [Sessions -> [at : Places, receiver : 0 .. spawned, sender : 0 .. spawned]]
        /\ session'[s].at = "started" /\ \A t \in Sessions \ {s} : session'[t] = session[t]
    BY <2>1, <2>2 DEF TrafficTypes, Places
  <2>4. session[s].at = "send" /\ UNCHANGED <<route, running, spawned>> /\ exit1' \subseteq Hosts
    BY <1>3, <1>7 DEF SenderFound, Calling
  <2>5. spawned' \in Nat /\ spawned' <= Cardinality(Called') + Cardinality(CalledTwice')
    BY <2>3, <2>4, CallsCounted
  <2> QED
    BY <2>3, <2>4, <2>5 DEF TrafficTypes
<1>8. ASSUME NEW s \in Sessions, ReceiverNotFound(s) \/ SenderNotFound(s) \/ ReceiverStopped(s) \/ StopSender(s) \/ StopReceiver(s)
      PROVE  TrafficTypes'
  <2>1. /\ session[s].at # "idle" /\ UNCHANGED <<route, spawned>> /\ running' \subseteq running /\ exit1' \subseteq Hosts
        /\ \E place \in {"raised", "given_up", "started", "stopping", "stopped"} : Reaches(s, place)
    BY <1>3, <1>8 DEF ReceiverNotFound, SenderNotFound, ReceiverStopped, StopSender, StopReceiver, Calling, Killed
  <2>2. {"raised", "given_up", "started", "stopping", "stopped"} \subseteq Places \ {"idle", "receiver", "sender"}
    BY DEF Places
  <2> QED
    BY <2>1, <2>2, ReachesTyped
<1>9. CASE SenderExits
  <2>1. UNCHANGED <<route, spawned, session>> /\ running' \subseteq running
    BY <1>9 DEF SenderExits
  <2>2. exit1' \subseteq Hosts
    <3>1. \A p \in running : p.host \in Hosts
      BY DEF TrafficTypes, Process
    <3> QED
      BY <1>3, <1>9, <3>1 DEF SenderExits
  <2> QED
    BY <2>1, <2>2 DEF TrafficTypes, Called, CalledTwice
<1>10. CASE TrafficEnded
  BY <1>1, <1>10 DEF TrafficEnded
<1> QED
  BY <1>1, <1>4, <1>5, <1>6, <1>7, <1>8, <1>9, <1>10 DEF TrafficNext, TrafficCalls

(* Provisioning: each attempt at a call sends one request at most, which   *)
(* is queued, or was executed and may have added an object, or is gone.    *)
Attempts ==
    (client.call - 1) * Retries + client.attempt - (IF client.at = "calls" THEN 1 ELSE 0)

AcsTypes ==
    /\ program \in Programs
    /\ client.attempt \in 1 .. Retries /\ (client.at = "sleeps" => client.attempt < Retries)
    /\ \A i \in DOMAIN queue : queue[i].attempt \in 1 .. Retries
    /\ cpe.executed <= Len(program)
    /\ cpe.objects + Len(queue) <= Attempts

(* One call has Retries attempts more.                                     *)
LEMMA OneCallMore ==
    /\ \A c \in Nat, r \in Nat : c * r \in Nat /\ (c + 1) * r = c * r + r
    /\ \A a \in Nat, b \in Nat, r \in Nat : a <= b => a * r <= b * r
<1>1. \A c \in Nat, r \in Nat : c * r \in Nat /\ (c + 1) * r = c * r + r
  OBVIOUS
<1>2. \A a \in Nat, b \in Nat, r \in Nat : a <= b => a * r <= b * r
  <2>1. ASSUME NEW a \in Nat, NEW b \in Nat, NEW r \in Nat, a <= b
        PROVE  a * r <= b * r
    <3>1. PICK d \in Nat : b = a + d
      <4>1. b - a \in Nat /\ b = a + (b - a)
        BY <2>1
      <4> QED
        BY <4>1
    <3>2. b * r = a * r + d * r /\ d * r \in Nat /\ a * r \in Nat
      BY <3>1
    <3> QED
      BY <3>2
  <2> QED
    BY <2>1
<1> QED
  BY <1>1, <1>2

(* The list has Length calls at most.                                      *)
LEMMA ListLength ==
    ASSUME program \in Programs
    PROVE  /\ Len(program) \in 1 .. Length /\ DOMAIN program = 1 .. Len(program)
           /\ Length \in Nat /\ Retries \in Nat /\ Retries > 0
<1>1. PICK n \in 1 .. Length : program \in [1 .. n -> Call]
  BY DEF Programs
<1>2. n \in Nat /\ program \in Seq(Call) /\ DOMAIN program = 1 .. n
  BY <1>1, AcsAssumption, SeqDef
<1>3. Len(program) = n
  BY <1>2, LenProperties
<1> QED
  BY <1>1, <1>2, <1>3, AcsAssumption

(* With both invariants the types are those Acs declares.                  *)
LEMMA AcsIsTyped ==
    ASSUME AcsInv, AcsTypes
    PROVE  AcsTypeOK
<1>1. /\ Len(program) \in 1 .. Length /\ Length \in Nat /\ Retries \in Nat /\ Retries > 0
  BY ListLength DEF AcsTypes
<1>2. /\ client \in [at : {"calls", "waits", "sleeps", "done", "raised"}, call : 1 .. Len(program), attempt : Nat]
      /\ client.attempt \in 1 .. Retries /\ queue \in Seq(Queued) /\ keeps \in BOOLEAN
      /\ cpe \in [inReach : BOOLEAN, value : Values \cup {NoValue}, objects : Nat, executed : Nat]
      /\ cpe.executed <= Len(program)
  BY DEF AcsInv, AcsTyped, AcsTypes
<1>3. client \in [at : {"calls", "waits", "sleeps", "done", "raised"}, call : 1 .. Length + 1, attempt : 1 .. Retries]
  BY <1>1, <1>2
<1>4. Len(queue) \in Nat /\ DOMAIN queue = 1 .. Len(queue) /\ \A i \in 1 .. Len(queue) : queue[i] \in Queued
  BY <1>2, LenProperties, ElementOfSeq
<1>5. queue \in Seq(Request)
  <2>1. \A i \in 1 .. Len(queue) : queue[i] \in Request
    BY <1>1, <1>4 DEF AcsTypes, Queued, Request
  <2>2. queue \in [1 .. Len(queue) -> Request]
    BY <1>2, <1>4, <2>1
  <2> QED
    BY <1>4, <2>2, SeqDef
<1>6. cpe.objects + Len(queue) <= Length * Retries
  <2> DEFINE c == client.call - 1
  <2>1. c \in Nat /\ c + 1 <= Length /\ c + 1 \in Nat /\ client.attempt <= Retries /\ client.attempt \in Nat
    BY <1>1, <1>2
  <2>2. (c + 1) * Retries = c * Retries + Retries /\ (c + 1) * Retries <= Length * Retries
        /\ c * Retries \in Nat /\ Length * Retries \in Nat
    BY <1>1, <2>1, OneCallMore
  <2>3. PICK earlier : earlier = c * Retries
    OBVIOUS
  <2>4. Attempts = earlier + client.attempt - (IF client.at = "calls" THEN 1 ELSE 0) /\ earlier \in Nat
    BY <2>2, <2>3 DEF Attempts
  <2>5. cpe.objects \in Nat /\ cpe.objects + Len(queue) <= Attempts
    BY <1>2 DEF AcsTypes
  <2>6. cpe.objects + Len(queue) <= earlier + client.attempt
    BY <1>4, <2>1, <2>4, <2>5
  <2> HIDE DEF c
  <2> QED
    BY <1>1, <1>4, <2>1, <2>2, <2>3, <2>5, <2>6
<1>7. /\ Len(queue) <= Length * Retries /\ cpe.objects \in 0 .. Length * Retries /\ cpe.executed \in 0 .. Length
  <2>1. Length * Retries \in Nat
    BY <1>1, OneCallMore
  <2> QED
    BY <1>1, <1>2, <1>4, <1>6, <2>1
<1>8. cpe \in [inReach : BOOLEAN, value : Values \cup {NoValue}, objects : 0 .. Length * Retries, executed : 0 .. Length]
  BY <1>2, <1>7
<1> QED
  BY <1>2, <1>3, <1>5, <1>7, <1>8 DEF AcsTypeOK, AcsTypes

(* An attempt that fails, or that its exception ends.                      *)
LEMMA AttemptFails ==
    ASSUME AcsInv, AcsTypes, Fails
    PROVE  /\ client'.attempt \in 1 .. Retries /\ (client'.at = "sleeps" => client'.attempt < Retries)
           /\ Attempts' = Attempts + (IF client.at = "calls" THEN 1 ELSE 0)
           /\ Attempts \in Int
<1>1. /\ client \in [at : {"calls", "waits", "sleeps", "done", "raised"}, call : 1 .. Len(program), attempt : Nat]
      /\ client.attempt \in 1 .. Retries /\ Len(program) \in Nat /\ Retries \in Nat
  BY ListLength DEF AcsInv, AcsTyped, AcsTypes
<1>2. /\ client'.call = client.call /\ client'.attempt = client.attempt /\ client'.at \in {"sleeps", "raised"}
      /\ client'.at = "sleeps" => client.attempt < Retries
  BY <1>1 DEF Fails
<1>3. PICK earlier \in Nat : earlier = (client.call - 1) * Retries
  <2>1. client.call - 1 \in Nat
    BY <1>1
  <2> QED
    BY <1>1, <2>1, OneCallMore
<1>4. /\ Attempts = earlier + client.attempt - (IF client.at = "calls" THEN 1 ELSE 0)
      /\ Attempts' = earlier + client.attempt
  BY <1>1, <1>2, <1>3 DEF Attempts
<1> QED
  BY <1>1, <1>2, <1>4

(* A call that returns, before the last of its attempts or with it.        *)
LEMMA CallCounted ==
    ASSUME AcsInv, AcsTypes, client.at = "waits", CallReturns
    PROVE  /\ client'.attempt \in 1 .. Retries /\ client'.at # "sleeps"
           /\ Attempts' >= Attempts /\ Attempts \in Int /\ Attempts' \in Int
<1>1. /\ client \in [at : {"calls", "waits", "sleeps", "done", "raised"}, call : 1 .. Len(program), attempt : Nat]
      /\ client.attempt \in 1 .. Retries /\ Len(program) \in Nat /\ Retries \in Nat /\ Retries > 0
  BY ListLength DEF AcsInv, AcsTyped, AcsTypes
<1>2. PICK earlier \in Nat : earlier = (client.call - 1) * Retries
  <2>1. client.call - 1 \in Nat
    BY <1>1
  <2> QED
    BY <1>1, <2>1, OneCallMore
<1>3. Attempts = earlier + client.attempt
  BY <1>1, <1>2 DEF Attempts
<1>4. CASE client.call = Len(program)
  <2>1. client'.call = client.call /\ client'.attempt = client.attempt /\ client'.at = "done"
    BY <1>1, <1>4 DEF CallReturns
  <2>2. Attempts' = earlier + client.attempt
    BY <1>1, <1>2, <2>1 DEF Attempts
  <2> QED
    BY <1>1, <1>3, <2>1, <2>2
<1>5. CASE client.call # Len(program)
  <2>1. client'.call = client.call + 1 /\ client'.attempt = 1 /\ client'.at = "calls"
    BY <1>1, <1>5 DEF CallReturns
  <2>2. PICK now \in Nat : now = client.call * Retries
    BY <1>1, OneCallMore
  <2>3. now = earlier + Retries
    <3>1. PICK c \in Nat : c + 1 = client.call /\ c = client.call - 1
      <4>1. client.call - 1 \in Nat /\ client.call - 1 + 1 = client.call
        BY <1>1
      <4> QED
        BY <4>1
    <3>2. (c + 1) * Retries = c * Retries + Retries
      BY <1>1, OneCallMore
    <3> QED
      BY <1>2, <2>2, <3>1, <3>2
  <2>4. Attempts' = now
    <3>1. client'.call - 1 = client.call
      BY <1>1, <2>1
    <3> QED
      BY <2>1, <2>2, <3>1 DEF Attempts
  <2> QED
    BY <1>1, <1>3, <2>1, <2>3, <2>4
<1> QED
  BY <1>4, <1>5

(* The oldest request leaves the queue, executed or not.                   *)
LEMMA OldestLeaves ==
    ASSUME AcsInv, AcsTypes, queue # <<>>, queue' = Tail(queue)
    PROVE  /\ \A i \in DOMAIN queue' : queue'[i].attempt \in 1 .. Retries
           /\ Len(queue) \in Nat /\ Len(queue') = Len(queue) - 1
           /\ Head(queue) = queue[1] /\ queue[1] \in Queued
           /\ Head(queue).waits => client.at = "waits"
<1>1. queue \in Seq(Queued)
  BY DEF AcsInv, AcsTyped
<1>2. /\ Head(queue) = queue[1] /\ queue[1] \in Queued /\ 1 \in DOMAIN queue
      /\ Len(queue) \in Nat /\ Len(queue) > 0 /\ Len(Tail(queue)) = Len(queue) - 1
      /\ DOMAIN queue = 1 .. Len(queue) /\ DOMAIN Tail(queue) = 1 .. Len(queue) - 1
      /\ \A i \in 1 .. Len(queue) - 1 : Tail(queue)[i] = queue[i + 1]
  BY <1>1, WithoutHead
<1>3. \A i \in DOMAIN queue' : queue'[i].attempt \in 1 .. Retries
  BY <1>2 DEF AcsTypes
<1>4. Head(queue).waits => client.at = "waits"
  BY <1>2 DEF AcsInv, LastIsWaitedFor
<1> QED
  BY <1>2, <1>3, <1>4

(* Every step of the client, the ACS and the CPE keeps them.               *)
LEMMA AcsTypesStep ==
    ASSUME AcsInv, AcsTypes, [AcsNext]_acsVars
    PROVE  AcsTypes'
<1>1. /\ client \in [at : {"calls", "waits", "sleeps", "done", "raised"}, call : 1 .. Len(program), attempt : Nat]
      /\ program \in Programs /\ client.attempt \in 1 .. Retries /\ Len(program) \in Nat
      /\ Retries \in Nat /\ Retries > 0 /\ Len(queue) \in Nat /\ queue \in Seq(Queued)
      /\ cpe \in [inReach : BOOLEAN, value : Values \cup {NoValue}, objects : Nat, executed : Nat]
      /\ cpe.executed <= Len(program) /\ cpe.objects \in Nat
      /\ cpe.objects + Len(queue) <= Attempts
  BY ListLength, LenProperties DEF AcsInv, AcsTyped, AcsTypes
<1>2. Attempts \in Int
  <2>1. client.call - 1 \in Nat
    BY <1>1
  <2>2. (client.call - 1) * Retries \in Nat
    BY <1>1, <2>1, OneCallMore
  <2> QED
    BY <1>1, <2>2 DEF Attempts
<1>3. CASE UNCHANGED acsVars
  BY <1>3 DEF acsVars, AcsTypes, Attempts
<1>4. CASE Post
  <2> DEFINE request == [call |-> client.call, attempt |-> client.attempt, waits |-> TRUE]
  <2>1. request \in Queued /\ request.attempt \in 1 .. Retries /\ queue' = Append(queue, request)
    BY <1>1, <1>4 DEF Post, Queued
  <2>2. Len(queue') = Len(queue) + 1 /\ \A i \in DOMAIN queue' : queue'[i].attempt \in 1 .. Retries
    BY <1>1, <2>1, WithOneMore DEF AcsTypes
  <2>3. /\ client'.call = client.call /\ client'.attempt = client.attempt /\ client'.at = "waits"
        /\ client.at = "calls" /\ UNCHANGED <<keeps, program, cpe>>
    BY <1>1, <1>4 DEF Post
  <2>4. Attempts' = Attempts + 1
    <3>1. PICK earlier \in Nat : earlier = (client.call - 1) * Retries
      <4>1. client.call - 1 \in Nat
        BY <1>1
      <4> QED
        BY <1>1, <4>1, OneCallMore
    <3>2. Attempts = earlier + client.attempt - 1 /\ Attempts' = earlier + client.attempt
      BY <1>1, <2>3, <3>1 DEF Attempts
    <3> QED
      BY <1>1, <3>2
  <2> QED
    BY <1>1, <1>2, <2>2, <2>3, <2>4 DEF AcsTypes
<1>5. CASE CallRaises
  <2>1. Fails /\ client.at = "calls" /\ UNCHANGED <<keeps, program, queue, cpe>>
    BY <1>5 DEF CallRaises
  <2> QED
    BY <1>1, <2>1, AttemptFails DEF AcsTypes
<1>6. CASE Sleep
  <2>1. /\ client'.call = client.call /\ client'.attempt = client.attempt + 1 /\ client'.at = "calls"
        /\ client.at = "sleeps" /\ UNCHANGED <<keeps, program, queue, cpe>>
    BY <1>1, <1>6 DEF Sleep
  <2>2. client'.attempt \in 1 .. Retries
    BY <1>1, <2>1 DEF AcsTypes
  <2>3. Attempts' = Attempts
    <3>1. PICK earlier \in Nat : earlier = (client.call - 1) * Retries
      <4>1. client.call - 1 \in Nat
        BY <1>1
      <4> QED
        BY <1>1, <4>1, OneCallMore
    <3>2. Attempts = earlier + client.attempt /\ Attempts' = earlier + (client.attempt + 1) - 1
      BY <1>1, <2>1, <3>1 DEF Attempts
    <3> QED
      BY <1>1, <3>2
  <2> QED
    BY <1>1, <2>1, <2>2, <2>3 DEF AcsTypes
<1>7. ASSUME NobodyWaits, UNCHANGED <<program, cpe>>, client'.attempt \in 1 .. Retries,
             client'.at = "sleeps" => client'.attempt < Retries, Attempts' >= Attempts, Attempts' \in Int
      PROVE  AcsTypes'
  <2>1. /\ Len(queue') = Len(queue) /\ DOMAIN queue' = DOMAIN queue
    BY <1>7, QueueStays DEF AcsInv
  <2>2. \A i \in DOMAIN queue : queue'[i].attempt = queue[i].attempt
    BY <1>7 DEF NobodyWaits
  <2> QED
    BY <1>1, <1>2, <1>7, <2>1, <2>2 DEF AcsTypes
<1>8. CASE AnswerLost
  <2>1. Fails /\ client.at = "waits" /\ UNCHANGED <<program, cpe>> /\ NobodyWaits
    BY <1>8 DEF AnswerLost
  <2> QED
    BY <1>2, <1>7, <2>1, AttemptFails
<1>9. CASE Accepted
  <2>1. CallReturns /\ client.at = "waits" /\ UNCHANGED <<program, cpe>> /\ NobodyWaits
    BY <1>9 DEF Accepted
  <2> QED
    BY <1>7, <2>1, CallCounted
<1>10. CASE Refused \/ LifetimeEnds
  <2>1. /\ queue # <<>> /\ queue' = Tail(queue) /\ UNCHANGED <<program, cpe>>
        /\ IF Head(queue).waits THEN Fails ELSE UNCHANGED client
    BY <1>10 DEF Refused, LifetimeEnds
  <2>2. /\ client'.attempt \in 1 .. Retries /\ (client'.at = "sleeps" => client'.attempt < Retries)
        /\ Attempts' = Attempts
    <3>1. CASE Head(queue).waits
      BY <2>1, <3>1, AttemptFails, OldestLeaves
    <3>2. CASE ~Head(queue).waits
      BY <2>1, <3>2 DEF AcsTypes, Attempts
    <3> QED
      BY <3>1, <3>2
  <2> QED
    BY <1>1, <1>2, <2>1, <2>2, OldestLeaves DEF AcsTypes
<1>11. CASE Executed
  <2>1. /\ queue # <<>> /\ queue' = Tail(queue) /\ UNCHANGED <<keeps, program>> /\ Executes(Head(queue).call)
        /\ IF Head(queue).waits THEN CallReturns \/ Fails ELSE UNCHANGED client
    BY <1>11 DEF Executed
  <2>2. /\ client'.attempt \in 1 .. Retries /\ (client'.at = "sleeps" => client'.attempt < Retries)
        /\ Attempts' >= Attempts /\ Attempts' \in Int
    <3>1. CASE Head(queue).waits
      <4>1. client.at = "waits"
        BY <2>1, <3>1, OldestLeaves
      <4>2. CASE CallReturns
        BY <4>1, <4>2, CallCounted
      <4>3. CASE Fails
        BY <1>2, <4>1, <4>3, AttemptFails
      <4> QED
        BY <2>1, <3>1, <4>2, <4>3
    <3>2. CASE ~Head(queue).waits
      <4>1. client' = client
        BY <2>1, <3>2
      <4>2. Attempts' = Attempts
        BY <4>1 DEF Attempts
      <4> QED
        BY <1>2, <4>1, <4>2 DEF AcsTypes
    <3> QED
      BY <3>1, <3>2
  <2>3. Head(queue).call \in 1 .. Len(program)
    BY <2>1, OldestLeaves DEF Queued
  <2>4. cpe'.objects \in {cpe.objects, cpe.objects + 1} /\ cpe'.executed \in {cpe.executed, Head(queue).call}
    BY <1>1, <2>1 DEF Executes
  <2>5. cpe'.executed <= Len(program)
    BY <1>1, <2>3, <2>4
  <2>6. Len(queue') = Len(queue) - 1 /\ \A i \in DOMAIN queue' : queue'[i].attempt \in 1 .. Retries
    BY <2>1, OldestLeaves
  <2>7. cpe'.objects + Len(queue') <= Attempts'
    BY <1>1, <1>2, <2>2, <2>4, <2>6
  <2> QED
    BY <1>1, <2>1, <2>2, <2>5, <2>6, <2>7 DEF AcsTypes
<1>12. CASE GoesOutOfReach \/ InReachAgain
  <2>1. /\ cpe'.objects = cpe.objects /\ cpe'.executed = cpe.executed /\ UNCHANGED <<program, client, queue>>
    BY <1>1, <1>12 DEF GoesOutOfReach, InReachAgain
  <2> QED
    BY <2>1 DEF AcsTypes, Attempts
<1> QED
  BY <1>3, <1>4, <1>5, <1>6, <1>8, <1>9, <1>10, <1>11, <1>12 DEF AcsNext, ClientSteps, CpeSteps

LEMMA TrafficTypesInit == TrafficInit => TrafficTypes
<1> SUFFICES ASSUME TrafficInit
             PROVE  TrafficTypes
  OBVIOUS
<1>1. Called = {} /\ CalledTwice = {}
  BY DEF TrafficInit, Called, CalledTwice
<1>2. Cardinality(Called) = 0 /\ Cardinality(CalledTwice) = 0
  BY <1>1, FS_EmptySet
<1>3. session \in [Sessions -> [at : Places, receiver : 0 .. spawned, sender : 0 .. spawned]]
  BY DEF TrafficInit, NoPid, Places
<1> QED
  BY <1>2, <1>3 DEF TrafficInit, TrafficTypes

LEMMA AcsTypesInit == AcsInit => AcsTypes
<1> SUFFICES ASSUME AcsInit
             PROVE  AcsTypes
  OBVIOUS
<1>1. program \in Programs
  BY DEF AcsInit
<1>2. Len(program) \in Nat /\ Retries \in Nat /\ Retries > 0
  BY <1>1, ListLength
<1>3. (1 - 1) * Retries = 0
  BY <1>2
<1>4. Attempts = 0
  BY <1>3 DEF AcsInit, Attempts
<1>5. queue = <<>> /\ DOMAIN queue = {} /\ Len(queue) = 0
  BY DEF AcsInit
<1> QED
  BY <1>1, <1>2, <1>4, <1>5 DEF AcsInit, AcsTypes

(* The five parts' invariants. *)
DevicesInv == ConsoleTypes /\ TrafficTypes /\ BlocksTypes /\ AcsInv /\ AcsTypes /\ PhoneTypes

(* Whichever part runs, every variable of the five keeps its type, for any *)
(* operations, traffic sessions, uses, provisioning lists and phones: a    *)
(* script never goes past its end, two iperf processes start for each      *)
(* session at most, and the ACS never has more requests, nor the CPE more  *)
(* objects, than there are attempts at the calls of the list.              *)
THEOREM DevicesTyped ==
    ASSUME IsFiniteSet(Sessions)
    PROVE  DevicesSpec => []DevicesTypeOK
<1>1. DevicesInit => DevicesInv
  <2>1. BlocksInit => BlocksTypes
    <3>1. MaxDepth \in Nat
      BY BlocksAssumption
    <3>2. <<>> \in Seq([use : Uses, pid : BOOLEAN]) /\ Len(<<>>) = 0
      BY EmptySeq
    <3>3. Len(<<>>) <= MaxDepth
      BY <3>1, <3>2
    <3> QED
      BY <3>2, <3>3, Zenon DEF BlocksInit, BlocksTypes, BlocksTypeOK
  <2> QED
    BY <2>1, TypesInit, TrafficTypesInit, AcsInvInit, AcsTypesInit, PhoneTypesInit DEF DevicesInit, DevicesInv
<1>2. DevicesInv /\ [DevicesNext]_deviceVars => DevicesInv'
  <2> SUFFICES ASSUME DevicesInv, [DevicesNext]_deviceVars
               PROVE  DevicesInv'
    OBVIOUS
  <2>1. /\ [ConsoleNext]_consoleVars /\ [TrafficNext]_trafficVars /\ [BlocksNext]_blockVars
        /\ [AcsNext]_acsVars /\ [PhoneNext]_phoneVars
    BY DEF DevicesNext, deviceVars
  <2>2. ConsoleTypes'
    BY <2>1, TypesStep DEF DevicesInv
  <2>3. TrafficTypes'
    BY <2>1, TrafficTypesStep DEF DevicesInv
  <2>4. BlocksTypes'
    BY <2>1, BlocksTypesStep DEF DevicesInv
  <2>5. AcsInv' /\ AcsTypes'
    BY <2>1, AcsStepKeeps, AcsTypesStep DEF DevicesInv
  <2>6. PhoneTypes'
    BY <2>1, PhoneTypesStep DEF DevicesInv
  <2> QED
    BY <2>2, <2>3, <2>4, <2>5, <2>6 DEF DevicesInv
<1>3. DevicesInv => DevicesTypeOK
  BY TypesAreTyped, TrafficIsTyped, AcsIsTyped DEF DevicesInv, DevicesTypeOK, BlocksTypes, PhoneTypes
<1> QED
  BY <1>1, <1>2, <1>3, PTL DEF DevicesSpec
=============================================================================
