----------------------------- MODULE ManagedBlocks -----------------------------
(***************************************************************************)
(* The use cases that are context managers (src/boardfarm3/use_cases): a   *)
(* with-block starts a process on a device, or stops a server, or changes  *)
(* a mode, and puts things back when it is left, by its end or by an       *)
(* exception.  A test nests blocks on one device.                          *)
(***************************************************************************)
EXTENDS Naturals, Sequences

CONSTANTS
    HttpPorts,  \* the ports of its HTTP servers
    OtherUses,  \* the other uses: packet captures, pings, a stopped SIP
                \* server and a wireless client's monitor mode
    MaxDepth    \* bound on nesting

ASSUME BlocksAssumption ==
    /\ HttpPorts \subseteq Nat
    /\ OtherUses \subseteq {"nping", "other_nping", "capture", "server_stopped", "monitor_mode"}
    /\ MaxDepth \in Nat

VARIABLES
    blocks,     \* the open blocks, the innermost one last
    stage,      \* what the innermost block does
    raising,    \* whether an exception is on its way out
    inEffect,   \* what runs, or is changed, on the device
    unsure      \* the uses of which a start or a stop raised

blockVars == <<blocks, stage, raising, inEffect, unsure>>

Http(port) == [kind |-> "http", port |-> port]
Use(kind) == [kind |-> kind, port |-> 0]
Uses == {Http(port) : port \in HttpPorts} \cup {Use(kind) : kind \in OtherUses}

(* What is put back; only processes end by themselves. *)
Restored == {"server_stopped", "monitor_mode"}
Processes == {u \in Uses : u.kind \notin Restored}
Npings == {Use("nping"), Use("other_nping")}

BlocksTypeOK ==
    /\ blocks \in Seq([use : Uses, pid : BOOLEAN]) /\ Len(blocks) <= MaxDepth
    /\ stage \in {"body", "first_stop", "starting", "leaving"}
    /\ raising \in BOOLEAN
    /\ inEffect \subseteq Uses /\ unsure \subseteq Uses

BlocksInit ==
    blocks = <<>> /\ stage = "body" /\ raising = FALSE /\ inEffect = {} /\ unsure = {}

-----------------------------------------------------------------------------
Innermost == blocks[Len(blocks)]
Outer == SubSeq(blocks, 1, Len(blocks) - 1)
Open == {blocks[i].use : i \in DOMAIN blocks}

(* grep "webfsd -F -p 80" finds the server on port 8080 as well. *)
Greps(port, other) == \E k \in 0 .. 4 : other \div 10^k = port

Defect_WebServers(port) == {u \in inEffect : u.kind = "http"}
WebServers(port) == {u \in inEffect : u.kind = "http" /\ Greps(port, u.port)}

Ends(uses) == inEffect' = inEffect \ uses /\ unsure' = unsure \ uses

(* An HTTP server's port is freed first, outside of the try block. *)
Enter(u) ==
    /\ stage = "body" /\ ~raising /\ Len(blocks) < MaxDepth /\ u \notin Open
    /\ blocks' = Append(blocks, [use |-> u, pid |-> FALSE])
    /\ stage' = IF u.kind = "http" THEN "first_stop" ELSE "starting"
    /\ UNCHANGED <<raising, inEffect, unsure>>

PortFreed ==
    /\ stage = "first_stop"
    /\ Ends(WebServers(Innermost.use.port))
    /\ stage' = "starting"
    /\ UNCHANGED <<blocks, raising>>

(* The process is still listed, or the console did not answer. *)
PortNotFreed ==
    /\ stage = "first_stop"
    /\ \/ UNCHANGED inEffect
       \/ inEffect' = inEffect \ WebServers(Innermost.use.port)
    /\ unsure' = unsure \cup {Innermost.use}
    /\ blocks' = Outer /\ stage' = "body" /\ raising' = TRUE

Started ==
    /\ stage = "starting"
    /\ inEffect' = inEffect \cup {Innermost.use}
    /\ blocks' = [blocks EXCEPT ![Len(blocks)] = [use |-> Innermost.use, pid |-> TRUE]]
    /\ stage' = "body"
    /\ UNCHANGED <<raising, unsure>>

(* It failed, or it was started and its output or process id was not read. *)
NotStarted ==
    /\ stage = "starting"
    /\ inEffect' \in {inEffect, inEffect \cup {Innermost.use}}
    /\ unsure' = unsure \cup {Innermost.use}
    /\ stage' = "leaving" /\ raising' = TRUE
    /\ UNCHANGED blocks

BodyEnds ==
    /\ stage = "body" /\ Len(blocks) > 0
    /\ stage' = "leaving"
    /\ UNCHANGED <<blocks, raising, inEffect, unsure>>

BodyRaises ==
    /\ stage = "body" /\ Len(blocks) > 0 /\ ~raising
    /\ raising' = TRUE
    /\ UNCHANGED <<blocks, stage, inEffect, unsure>>

(* What the finally block ends.  Without a process id nothing: the pid of  *)
(* a tcpdump of a server or client is unbound, kill and ps of the board's  *)
(* and of nping get an empty one.  With one, not what was left before.     *)
Ended ==
    CASE Innermost.use.kind = "http" -> WebServers(Innermost.use.port)
      [] Innermost.use.kind \in Restored -> {Innermost.use}
      [] OTHER -> IF Innermost.pid THEN {Innermost.use} \ unsure ELSE {}

(* nping is waited for, and killed after ten hours; pgrep then looks for   *)
(* any nping at all.                                                       *)
StopMustRaise ==
    \/ Innermost.use.kind = "capture" /\ ~Innermost.pid
    \/ Innermost.use \in Npings /\ (inEffect \ Ended) \cap Npings # {}

StopInFinally ==
    /\ stage = "leaving" /\ ~StopMustRaise
    /\ Ends(Ended)
    /\ blocks' = Outer /\ stage' = "body"
    /\ UNCHANGED raising

(* The stop raises, whether what it stops has ended or not. *)
StopRaises ==
    /\ stage = "leaving"
    /\ inEffect' \in {inEffect \ Ended} \cup (IF StopMustRaise THEN {} ELSE {inEffect})
    /\ unsure' = IF Innermost.use \in inEffect' THEN unsure \cup {Innermost.use} ELSE unsure
    /\ blocks' = Outer /\ stage' = "body" /\ raising' = TRUE

(* The exception leaves the outermost block, and the test goes on. *)
Caught ==
    /\ raising /\ blocks = <<>>
    /\ raising' = FALSE
    /\ UNCHANGED <<blocks, stage, inEffect, unsure>>

ProcessEnds ==
    /\ \E u \in Processes \cap inEffect : inEffect' = inEffect \ {u}
    /\ UNCHANGED <<blocks, stage, raising, unsure>>

BlockSteps ==
    \/ (\E u \in Uses : Enter(u)) \/ PortFreed \/ PortNotFreed \/ Started \/ NotStarted
    \/ BodyEnds \/ BodyRaises \/ StopInFinally \/ StopRaises \/ Caught

BlocksNext == BlockSteps \/ ProcessEnds
BlocksSpec == BlocksInit /\ [][BlocksNext]_blockVars

-----------------------------------------------------------------------------
(* Properties *)

(* Whatever the bodies raise, what is left behind is only what a start or  *)
(* a stop that raised left behind.                                         *)
LeftAsFound == inEffect \subseteq Open \cup unsure

(* An HTTP server starts on a free port, also when the block before it     *)
(* left one behind.                                                        *)
PortIsFree ==
    stage = "starting" /\ Innermost.use.kind = "http" => Innermost.use \notin inEffect

(* The device's stop_http_service and the other stops end what their own   *)
(* block started, and nothing that belongs to another open block.          *)
StopSparesOthers ==
    [][BlockSteps => \A u \in inEffect \ inEffect' : u = Innermost.use]_blockVars

(* Blocks undo what they did and nothing else.                             *)
BlocksUndone == [][LeftAsFound' /\ PortIsFree']_blockVars /\ StopSparesOthers
=============================================================================
