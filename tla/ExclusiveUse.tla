---------------------------- MODULE ExclusiveUse ----------------------------
(***************************************************************************)
(* What the control plane promises of boards: a board is in use by at most *)
(* one session at a time, and a session that gave its board back never     *)
(* gets it again.                                                          *)
(***************************************************************************)
CONSTANTS Sessions, Boards

VARIABLES
    users,  \* for each board, the sessions that use it
    spent   \* the sessions that used a board and gave it back

Init ==
    /\ users = [b \in Boards |-> {}]
    /\ spent = {}

Claim(b, s) ==
    /\ users[b] = {}
    /\ s \notin spent
    /\ users' = [users EXCEPT ![b] = {s}]
    /\ UNCHANGED spent

(* One session ends, or several at once when the process crashes. *)
Yield(freed) ==
    /\ users' = [b \in Boards |-> IF b \in freed THEN {} ELSE users[b]]
    /\ spent' = spent \cup UNION {users[b] : b \in freed}

Next ==
    \/ \E b \in Boards, s \in Sessions : Claim(b, s)
    \/ \E freed \in SUBSET Boards : Yield(freed)

Spec == Init /\ [][Next]_<<users, spent>>
=============================================================================
