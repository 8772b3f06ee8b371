------------------------------- MODULE Scripts -------------------------------
(***************************************************************************)
(* What an operation does to a device's console, as a sequence of steps:   *)
(* the lines it types (pexpect's sendline), the control characters it      *)
(* sends, and what it expects.  The text of a command is left out; whether *)
(* the code then waits for its echo, for some output or for the prompt is  *)
(* kept, and so are its tests, loops, exceptions and handlers.  The        *)
(* synchronous and the asynchronous variant of an operation are one script *)
(* where they type and expect the same.                                    *)
(***************************************************************************)
EXTENDS Naturals, SequencesExt

Step(word) == <<[do |-> word]>>

Line == Step("line")            \* sendline(command)
Blank == Step("blank")          \* sendline() or a leading "\n"
Reply == Step("reply")          \* sendline() to a program that asks
Answer == Step("answer")        \* the same, and it may ask again
Job == Step("job")              \* sendline(command &)
Ask == Step("ask")              \* sendline(command) of a program that may ask
Spawn == Step("spawn")          \* a program that may ask is started by itself
Attach == Step("attach")        \* a line to a terminal that is there already
Interrupt == Step("interrupt")  \* sendcontrol("c")
Echo == Step("echo")            \* expect_exact(command)
Text == Step("text")            \* expect(some output)
Prompt == Step("prompt")        \* expect(shell_prompt)
Raise == Step("raise")          \* an exception other than pexpect.TIMEOUT

(* Branches are laid out one behind the other; a jump leads out of one.    *)
Then(one, other) == one \o <<[do |-> "jump", by |-> Len(other) + 1]>> \o other

(* A choice that depends on the arguments or on what was read. *)
Either(one, other) == <<[do |-> "either", by |-> {1, Len(one) + 2}]>> \o Then(one, other)
Maybe(script) == <<[do |-> "either", by |-> {1, Len(script) + 1}]>> \o script

(* expect([text, prompt]): what follows each. *)
Spot(seen, unseen) == <<[do |-> "spot", unseen |-> Len(seen) + 2]>> \o Then(seen, unseen)

(* try: script; except pexpect.TIMEOUT: handler. *)
Try(script, handler) == <<[do |-> "try", over |-> Len(script)]>> \o Then(script, handler)

(* for: a loop is gone through at most twice, a bound of the model. *)
Loop(script) == Maybe(script \o Maybe(script))

Check(script) == script \o Maybe(Raise)

(* except: again, twice of the times the code tries, a bound of the model. *)
Retried(script, handler) == Try(script, handler \o Try(script, handler))
=============================================================================
