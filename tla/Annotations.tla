------------------------------ MODULE Annotations ------------------------------
(***************************************************************************)
(* What may be true of a console between two steps of a script, as an      *)
(* annotation of the script: each step has the set of the states it may be *)
(* taken in.  An annotation is right when it holds where the script begins *)
(* and each step, of the script or of the shell, leads from a state of one *)
(* set into the set of the next.  The assumptions at the end say so of the *)
(* scripts that are studied; TLC evaluates them, and ConsoleProofs draws   *)
(* from them what is true of Console.                                      *)
(***************************************************************************)
EXTENDS Console

(* A state is that of the terminal, less what the script found in its      *)
(* buffer, which holds no prompt.  Once the script has typed a line, or    *)
(* consumed something behind it, nothing of that is taken for an answer to *)
(* the script: it is past.                                                 *)
Begun(printing, delayed, first) ==
    [unread : {<<>>}, shell : {"idle"}, ahead : {<<>>}, job : printing, late : delayed, past : first]

(* The first operation finds an empty buffer; what follows one that left   *)
(* the console in step may find anything but a prompt.                     *)
Beginnings(code) ==
    Begun({"none"}, {FALSE}, {TRUE}) \cup
        IF code \in {Ops[name] : name \in Probes} THEN Begun({"none", "old"}, BOOLEAN, {FALSE}) ELSE {}

Behind(s, token) == [s EXCEPT !.unread = Append(@, token)]
OwnerOf(s) == IF s.shell \in {"asks", "waits"} THEN "own" ELSE s.shell

-----------------------------------------------------------------------------
(* What the terminal makes of what is typed. *)

TypedIn(s, takes) ==
    LET echoed == [s EXCEPT !.unread = Append(Aged(@), Token("echo", "own")), !.past = TRUE]
    IN  IF s.shell = "idle"
        THEN [echoed EXCEPT !.shell = takes]
        ELSE [echoed EXCEPT !.shell = "old", !.ahead = Append([i \in DOMAIN @ |-> "old"], "own")]

BlankIn(s) ==
    IF s.shell = "idle" THEN Behind(s, Token("prompt", "own")) ELSE [s EXCEPT !.ahead = Append(@, "own")]

ReplyIn(s, again) ==
    IF s.shell = "idle" THEN TypedIn(s, "own")
    ELSE IF s.shell # "waits" THEN s
    ELSE [s EXCEPT !.shell = IF again THEN "asks" ELSE "own"]

InterruptIn(s) ==
    [Behind(s, Token("prompt", IF s.shell = "idle" THEN "own" ELSE OwnerOf(s)))
        EXCEPT !.shell = "idle", !.ahead = <<>>]

Sent(word, s) ==
    CASE word = "line" -> TypedIn(s, "own")
      [] word = "ask" -> TypedIn(s, "asks")
      [] word = "job" -> [TypedIn(s, "own") EXCEPT !.job = "own"]
      [] word = "blank" -> BlankIn(s)
      [] word = "reply" -> ReplyIn(s, FALSE)
      [] word = "answer" -> ReplyIn(s, TRUE)
      [] word = "spawn" -> [s EXCEPT !.shell = "asks"]
      [] word = "attach" -> [s EXCEPT !.job = "own"]
      [] word = "interrupt" -> InterruptIn(s)

SentWords == {"line", "ask", "job", "blank", "reply", "answer", "spawn", "attach", "interrupt"}

-----------------------------------------------------------------------------
(* What an expect makes of the buffer. *)

Hits(s, word) == {i \in DOMAIN s.unread : Matches(s.unread[i], word)}
FirstHit(s, word) == CHOOSE i \in Hits(s, word) : \A j \in Hits(s, word) : i <= j
After(s, i) == [s EXCEPT !.unread = SubSeq(@, i + 1, Len(@)), !.past = TRUE]

Handlers(code, i) == {t \in 1 .. i : code[t].do = "try" /\ i <= t + code[t].over}
Handling(code, i) == LET t == Max(Handlers(code, i)) IN Land(code, t + code[t].over + 2)
Handled(code, i, s) ==
    IF Handlers(code, i) = {} THEN {} ELSE {<<Handling(code, i), [s EXCEPT !.late = TRUE]>>}

(* A match in what the script found in the buffer changes nothing else. *)
Earlier(code, i, s) == IF s.past THEN {} ELSE {<<Land(code, i + 1), s>>}

ExpectedIn(code, i, s) ==
    LET word == code[i].do
    IN  (IF word = "prompt" THEN {} ELSE Earlier(code, i, s)) \cup
        IF Hits(s, word) = {} THEN Handled(code, i, s)
        ELSE {<<Land(code, i + 1), After(s, FirstHit(s, word))>>}

SpottedIn(code, i, s) ==
    Earlier(code, i, s) \cup
    IF Hits(s, "spot") = {} THEN Handled(code, i, s)
    ELSE LET hit == FirstHit(s, "spot")
             over == IF s.unread[hit].kind = "out" THEN 1 ELSE code[i].unseen
         IN  {<<Land(code, i + over), After(s, hit)>>}

(* Where a step of the script may lead, and what is true there. *)
Moves(code, i, s) ==
    LET word == code[i].do
    IN  CASE word \in SentWords -> {<<Land(code, i + 1), Sent(word, s)>>}
          [] word \in {"echo", "text", "prompt"} -> ExpectedIn(code, i, s)
          [] word = "spot" -> SpottedIn(code, i, s)
          [] word = "either" -> {<<Land(code, i + n), s>> : n \in code[i].by}
          [] OTHER -> {}

-----------------------------------------------------------------------------
(* What the shell and its job may do meanwhile. *)

PrintedIn(s) ==
    IF s.shell \in {"idle", "waits"} \/ \E i \in DOMAIN s.unread : s.unread[i] = Token("out", OwnerOf(s))
    THEN {}
    ELSE {[Behind(s, Token("out", OwnerOf(s))) EXCEPT !.shell = IF @ = "asks" THEN "waits" ELSE @]}

JobPrintedIn(s) ==
    IF s.job = "none" THEN {} ELSE {[Behind(s, Token("out", s.job)) EXCEPT !.job = "none"]}

FinishedIn(s) ==
    IF s.shell \in {"idle", "waits"} THEN {}
    ELSE LET prompted == Behind(s, Token("prompt", OwnerOf(s)))
         IN  IF s.ahead = <<>> THEN {[prompted EXCEPT !.shell = "idle"]}
             ELSE {[Behind(prompted, Token("echo", Head(s.ahead)))
                        EXCEPT !.shell = Head(s.ahead), !.ahead = Tail(s.ahead)]}

Meanwhile(s) == PrintedIn(s) \cup JobPrintedIn(s) \cup FinishedIn(s)

-----------------------------------------------------------------------------
(* Annotations *)

Quiet(s) ==
    /\ s.shell = "idle" /\ s.ahead = <<>>
    /\ \A i \in DOMAIN s.unread : s.unread[i].kind # "prompt"

IsAnnotation(code, holds) ==
    /\ Beginnings(code) \subseteq holds[Land(code, 1)]
    /\ \A i \in 1 .. Len(code) + 1 : \A s \in holds[i] : Meanwhile(s) \subseteq holds[i]
    /\ \A i \in 1 .. Len(code) : \A s \in holds[i] : \A m \in Moves(code, i, s) : m[2] \in holds[m[1]]
    /\ \A s \in holds[Len(code) + 1] :
           /\ ~s.late => Quiet(s)
           /\ code \notin Unfinished => s.shell = "idle"

(* The annotation of a script is found from its first step to its last, as *)
(* no step leads back; what the shell does meanwhile is added as often as  *)
(* it does something, which Rounds bounds.                                 *)
Rounds == 1 .. 12
Settled(states) ==
    FoldLeft(LAMBDA known, round : known \cup UNION {Meanwhile(s) : s \in known}, states, [r \in Rounds |-> r])

Annotation(code) ==
    LET steps == 1 .. Len(code) + 1
        first == [i \in steps |-> IF i = Land(code, 1) THEN Beginnings(code) ELSE {}]
        Follow(holds, i) ==
            LET settled == Settled(holds[i])
                moves == IF i > Len(code) THEN {} ELSE UNION {Moves(code, i, s) : s \in settled}
            IN  [j \in steps |->
                    IF j = i THEN settled ELSE holds[j] \cup {m[2] : m \in {n \in moves : n[1] = j}}]
    IN  FoldLeft(Follow, first, [i \in steps |-> i])

(* The steps of a script stay within it. *)
Targets(code, i) ==
    {Land(code, i + 1)}
        \cup (IF code[i].do = "either" THEN {Land(code, i + n) : n \in code[i].by} ELSE {})
        \cup (IF code[i].do = "spot" THEN {Land(code, i + code[i].unseen)} ELSE {})
        \cup (IF Handlers(code, i) = {} THEN {} ELSE {Handling(code, i)})

StaysWithin(code) ==
    /\ Len(code) \in Nat
    /\ Land(code, 1) \in 1 .. Len(code) + 1
    /\ \A i \in 1 .. Len(code) : Targets(code, i) \subseteq 1 .. Len(code) + 1

-----------------------------------------------------------------------------
(* What is assumed of the operations that are studied and that follow. *)

Codes == {Ops[name] : name \in Studied \cup Probes}

ASSUME WithinAssumption == \A code \in Codes : StaysWithin(code)

(* An operation that is known to leave the console out of step has no      *)
(* annotation that ends in step.                                           *)
ASSUME AnnotatedAssumption == \A code \in Codes \ Unpaced : IsAnnotation(code, Annotation(code))

(* What waits for its echo types a line, and goes on step by step.         *)
WaitsForEcho(code) ==
    /\ Len(code) = 3 /\ code[1].do = "line" /\ code[2].do = "echo" /\ code[3].do = "prompt"
    /\ \A i \in 1 .. 4 : Land(code, i) = i

ASSUME EchoedAssumption == \A code \in Echoed : WaitsForEcho(code)
=============================================================================
