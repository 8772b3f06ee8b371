------------------------------- MODULE Console -------------------------------
(***************************************************************************)
(* A device's console (src/boardfarm3/lib/connections): a pexpect buffer   *)
(* in front of a terminal and its shell.  An operation types and expects,  *)
(* as its script says; the shell runs what was typed at its own pace, and  *)
(* any expect may give up before the output is there.  Operations follow   *)
(* each other on one console, whose buffer keeps what nobody consumed.     *)
(***************************************************************************)
EXTENDS CpeScripts

CONSTANTS
    Studied,    \* the operations that come first
    Probes,     \* the operations that may follow another one
    Echoing,    \* the operations that wait for the echo of their command
    Astray,     \* operations known to leave the console out of step
    Resigned    \* operations that pass over a timeout and leave it at that

(* The script of each operation, by its name. *)
Ops == LinuxDeviceOps @@ LibraryOps @@ ClientOps @@ ServerOps @@ CpeOps

Unpaced == {Ops[name] : name \in Astray}
Unfinished == {Ops[name] : name \in Astray \cup Resigned}
Echoed == {Ops[name] : name \in Echoing}

ASSUME ProbeAssumption == Studied \cup Probes \cup Echoing \cup Astray \cup Resigned \subseteq DOMAIN Ops

VARIABLES
    script,     \* the script of the operation under way, or of the last one:
                \* operations with the same script behave alike
    at,         \* the step of its script it stands at
    result,     \* "running", "done" or "raised"
    turn,       \* 1 for the first operation, 2 for the one that follows
    level,      \* whether the console was in step when it began
    late,       \* whether an expect of any operation gave up
    unread,     \* pexpect's buffer, as a sequence of tokens
    shell,      \* "idle", or what it runs: an "own" or "old" command, or one
                \* that "asks" or "waits" for the answer
    ahead,      \* lines typed ahead
    job,        \* whose background job will still print, if any
    asked,      \* whether the shell was idle when the last line was typed
    answer      \* whose prompt ended the last wait for one

consoleVars == <<script, at, result, turn, level, late, unread, shell, ahead, job, asked, answer>>
tty == <<unread, shell, ahead, job>>

Words == {"line", "blank", "reply", "job", "ask", "spawn", "attach", "interrupt", "echo", "text", "prompt",
          "raise", "either", "spot"}
Token(kind, of) == [kind |-> kind, of |-> of]
Tokens == [kind : {"echo", "out", "prompt"}, of : {"own", "old"}]

(* Where a step leads: jumps and the beginning of a try are no steps. *)
Land(code, step) ==
    LET land[i \in 1 .. Len(code) + 1] ==
            IF i > Len(code) THEN i
            ELSE IF code[i].do = "jump" THEN land[i + code[i].by]
            ELSE IF code[i].do = "try" THEN land[i + 1]
            ELSE i
    IN  land[step]

ConsoleTypeOK ==
    /\ turn \in 1 .. 2
    /\ at \in 1 .. Len(script) + 1
    /\ result \in {"running", "done", "raised"}
    /\ level \in BOOLEAN /\ late \in BOOLEAN /\ asked \in BOOLEAN
    /\ unread \in Seq(Tokens) /\ ahead \in Seq({"own", "old"})
    /\ shell \in {"idle", "own", "old", "asks", "waits"}
    /\ answer \in {"none", "own", "old"} /\ job \in {"none", "own", "old"}

Whose == IF shell \in {"asks", "waits"} THEN "own" ELSE shell

(* In step: the shell waits, and nobody overlooked a prompt of it. *)
InStep ==
    /\ shell = "idle" /\ ahead = <<>>
    /\ \A i \in DOMAIN unread : unread[i].kind # "prompt"

ConsoleInit ==
    /\ \E name \in Studied : script = Ops[name]
    /\ at = Land(script, 1)
    /\ result = "running" /\ turn = 1 /\ level = TRUE /\ late = FALSE
    /\ unread = <<>> /\ shell = "idle" /\ ahead = <<>> /\ job = "none"
    /\ asked = FALSE /\ answer = "none"

-----------------------------------------------------------------------------
(* The terminal *)

Aged(tokens) == [i \in DOMAIN tokens |-> [tokens[i] EXCEPT !.of = "old"]]

(* A line is echoed at once.  An idle shell takes it; a busy one finds it  *)
(* typed ahead.  Whatever was there before belongs to earlier lines.       *)
Typed(takes) ==
    /\ unread' = Append(Aged(unread), Token("echo", "own"))
    /\ asked' = (shell = "idle")
    /\ IF shell = "idle"
       THEN shell' = takes /\ UNCHANGED ahead
       ELSE shell' = "old" /\ ahead' = Append([i \in DOMAIN ahead |-> "old"], "own")

Goes(step) == at' = Land(script, step) /\ UNCHANGED <<script, result, turn, level>>
Doing(word) == result = "running" /\ at <= Len(script) /\ script[at].do = word

TypeLine ==
    /\ Doing("line") /\ Typed("own")
    /\ Goes(at + 1) /\ UNCHANGED <<late, job, answer>>

TypeAsk ==
    /\ Doing("ask") /\ Typed("asks")
    /\ Goes(at + 1) /\ UNCHANGED <<late, job, answer>>

TypeJob ==
    /\ Doing("job") /\ Typed("own") /\ job' = "own"
    /\ Goes(at + 1) /\ UNCHANGED <<late, answer>>

(* An empty line: a shell that waits only prompts again. *)
TypeBlank ==
    /\ Doing("blank")
    /\ IF shell = "idle"
       THEN unread' = Append(unread, Token("prompt", "own")) /\ UNCHANGED ahead
       ELSE ahead' = Append(ahead, "own") /\ UNCHANGED unread
    /\ Goes(at + 1) /\ UNCHANGED <<late, shell, job, asked, answer>>

(* A program that asks takes the reply; without one the shell does. *)
TypeReply ==
    /\ Doing("reply") \/ Doing("answer")
    /\ IF shell = "idle" THEN Typed("own")
       ELSE /\ shell' = IF shell # "waits" THEN shell
                        ELSE IF Doing("answer") THEN "asks" ELSE "own"
            /\ UNCHANGED <<unread, ahead, asked>>
    /\ Goes(at + 1) /\ UNCHANGED <<late, job, answer>>

SpawnProcess ==
    /\ Doing("spawn")
    /\ shell' = "asks"
    /\ Goes(at + 1) /\ UNCHANGED <<late, unread, ahead, job, asked, answer>>

AttachTerminal ==
    /\ Doing("attach")
    /\ job' = "own"
    /\ Goes(at + 1) /\ UNCHANGED <<late, unread, shell, ahead, asked, answer>>

(* Ctrl-C ends the command and what was typed ahead of the shell; the      *)
(* shell prompts, again if it was idle.                                    *)
SendInterrupt ==
    /\ Doing("interrupt")
    /\ unread' = Append(unread, Token("prompt", IF shell = "idle" THEN "own" ELSE Whose))
    /\ shell' = "idle" /\ ahead' = <<>>
    /\ Goes(at + 1) /\ UNCHANGED <<late, job, asked, answer>>

-----------------------------------------------------------------------------
(* What is expected: the first match, and all before it, leave the buffer. *)

Matches(token, word) ==
    \/ word = "echo" /\ token = Token("echo", "own")
    \/ word = "text" /\ token = Token("out", "own")
    \/ word = "prompt" /\ token.kind = "prompt"
    \/ word = "spot" /\ (token = Token("out", "own") \/ token.kind = "prompt")

Found(word) == {i \in DOMAIN unread : Matches(unread[i], word)}
Earliest(word) == CHOOSE i \in Found(word) : \A j \in Found(word) : i <= j
Consumed(i) == unread' = SubSeq(unread, i + 1, Len(unread))
Answered(i) == answer' = IF unread[i].kind = "prompt" THEN unread[i].of ELSE answer

Defect_Expected(word) ==
    LET found == IF word = "prompt" THEN DOMAIN unread ELSE Found(word)
    IN  /\ Doing(word) /\ word \in {"echo", "text", "prompt"} /\ found # {}
        /\ Consumed(Min(found)) /\ Answered(Min(found))
        /\ Goes(at + 1) /\ UNCHANGED <<late, shell, ahead, job, asked>>

Expected(word) ==
    /\ Doing(word) /\ word \in {"echo", "text", "prompt"} /\ Found(word) # {}
    /\ Consumed(Earliest(word)) /\ Answered(Earliest(word))
    /\ Goes(at + 1) /\ UNCHANGED <<late, shell, ahead, job, asked>>

Spotted ==
    /\ Doing("spot") /\ Found("spot") # {}
    /\ LET i == Earliest("spot")
       IN  /\ Consumed(i) /\ Answered(i)
           /\ Goes(at + IF unread[i].kind = "out" THEN 1 ELSE script[at].unseen)
    /\ UNCHANGED <<late, shell, ahead, job, asked>>

(* The handler of the innermost try around this step, or none. *)
Tries == {i \in 1 .. at : script[i].do = "try" /\ at <= i + script[i].over}
Thrown ==
    IF Tries = {}
    THEN result' = "raised" /\ UNCHANGED <<script, at, turn, level>>
    ELSE LET i == Max(Tries) IN Goes(i + script[i].over + 2)

(* pexpect.TIMEOUT: what is expected is not there yet. *)
GivesUp(word) ==
    /\ Doing(word) /\ word \in {"echo", "text", "prompt", "spot"} /\ Found(word) = {}
    /\ late' = TRUE /\ Thrown
    /\ UNCHANGED <<tty, asked, answer>>

Raises ==
    /\ Doing("raise")
    /\ result' = "raised"
    /\ UNCHANGED <<script, at, turn, level, late, tty, asked, answer>>

-----------------------------------------------------------------------------
Chooses ==
    /\ Doing("either")
    /\ \E n \in script[at].by : Goes(at + n)
    /\ UNCHANGED <<late, tty, asked, answer>>

Returns ==
    /\ result = "running" /\ at > Len(script)
    /\ result' = "done"
    /\ UNCHANGED <<script, at, turn, level, late, tty, asked, answer>>

Defect_Follows(name) ==
    /\ result # "running"
    /\ turn' = turn + 1 /\ script' = Ops[name] /\ at' = Land(script', 1)
    /\ result' = "running"
    /\ level' = InStep /\ answer' = "none" /\ asked' = FALSE
    /\ job' = IF job = "own" THEN "old" ELSE job
    /\ UNCHANGED <<late, unread, shell, ahead>>

(* Another operation on the same console, after this one ended. *)
Follows(name) ==
    /\ result # "running" /\ turn = 1
    /\ turn' = 2 /\ script' = Ops[name] /\ at' = Land(script', 1)
    /\ result' = "running"
    /\ level' = InStep /\ answer' = "none" /\ asked' = FALSE
    /\ job' = IF job = "own" THEN "old" ELSE job
    /\ UNCHANGED <<late, unread, shell, ahead>>

-----------------------------------------------------------------------------
(* The shell and what it runs *)

Prints ==
    /\ shell \notin {"idle", "waits"}
    /\ \A i \in DOMAIN unread : unread[i] # Token("out", Whose)
    /\ unread' = Append(unread, Token("out", Whose))
    /\ shell' = IF shell = "asks" THEN "waits" ELSE shell
    /\ UNCHANGED <<script, at, result, turn, level, late, ahead, job, asked, answer>>

JobPrints ==
    /\ job # "none" /\ job' = "none"
    /\ unread' = Append(unread, Token("out", job))
    /\ UNCHANGED <<script, at, result, turn, level, late, shell, ahead, asked, answer>>

(* The next line that was typed ahead is echoed again behind the prompt. *)
Finishes ==
    /\ shell \notin {"idle", "waits"}
    /\ IF ahead = <<>>
       THEN unread' = Append(unread, Token("prompt", Whose)) /\ shell' = "idle" /\ UNCHANGED ahead
       ELSE /\ unread' = unread \o <<Token("prompt", Whose), Token("echo", Head(ahead))>>
            /\ shell' = Head(ahead) /\ ahead' = Tail(ahead)
    /\ UNCHANGED <<script, at, result, turn, level, late, job, asked, answer>>

-----------------------------------------------------------------------------
ConsoleNext ==
    \/ TypeLine \/ TypeAsk \/ TypeJob \/ TypeBlank \/ TypeReply
    \/ SpawnProcess \/ AttachTerminal \/ SendInterrupt
    \/ \E w \in Words : Expected(w) \/ GivesUp(w)
    \/ Spotted \/ Raises \/ Chooses \/ Returns
    \/ \E name \in Probes : Follows(name)
    \/ Prints \/ JobPrints \/ Finishes

ConsoleSpec == ConsoleInit /\ [][ConsoleNext]_consoleVars

-----------------------------------------------------------------------------
(* Properties *)

(* An operation that begins in step and in which no expect gives up leaves *)
(* the console in step: it consumed a prompt for every line it typed.      *)
EndsInStep ==
    result = "done" /\ level /\ ~late /\ script \notin Unpaced => InStep

(* An operation that handles its own timeouts returns with the shell idle: *)
(* the command it gave up on no longer runs.                               *)
ReturnsIdle ==
    result = "done" /\ level /\ script \notin Unfinished => shell = "idle"

(* What execute_command returns is the output of its own command, however  *)
(* far the console was out of step, if the shell was idle when it typed.   *)
EchoedAnswerIsOwn ==
    result = "done" /\ asked /\ script \in Echoed => answer = "own"

(* An operation leaves the console as the next one needs it.               *)
ConsoleSound == EndsInStep /\ ReturnsIdle /\ EchoedAnswerIsOwn
=============================================================================
