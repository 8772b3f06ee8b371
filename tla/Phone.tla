--------------------------------- MODULE Phone ---------------------------------
(***************************************************************************)
(* A SIP phone, PJSIPPhone (src/boardfarm3/devices/pjsip_phone.py): the    *)
(* console of pjsua, into which an operation types lines and from which it *)
(* expects texts.  pjsua answers a line with its text and the prompt, and  *)
(* an empty line with the menu, which shows the call; as sendline("\n")    *)
(* types two empty lines, one menu is left to be read by whatever comes    *)
(* next.  Meanwhile the far end rings, answers and hangs up.               *)
(***************************************************************************)
EXTENDS Naturals, Sequences

CONSTANTS
    PhoneUses,      \* the operations a test calls
    Lagging,        \* those that leave more menus unread than they found
    MaxUses,        \* bound on their number
    MaxEvents       \* bound on what the far end does

VARIABLES
    pjsua,      \* whether it runs, what it asks for, and its call
    phone,      \* _phone_configured and _phone_started, and the operation
                \* under way or the last one: its step and its result
    heard,      \* pexpect's buffer
    truth,      \* the states the call was in, during the operation before and
                \* since the one under way began
    behind,     \* whether an expect gave up, or an operation leaves menus over
    spent       \* how many operations and events there were

phoneVars == <<pjsua, phone, heard, truth, behind, spent>>

-----------------------------------------------------------------------------
(* What operations type and expect *)

Type(text) == [do |-> "line", text |-> text]

(* AwaitText one of two texts, or neither: each goes on or ends the operation. *)
Await(text, hit, other, otherwise, miss) ==
    [do |-> "expect", text |-> text, hit |-> hit, other |-> other, otherwise |-> otherwise, miss |-> miss]
AwaitText(text) == Await(text, "next", "nothing", "next", "raised")
Suppressed(text, result) == Await(text, "next", "nothing", "next", result)

Menu == "menu"
Ready == <<Type(""), AwaitText(Menu)>>

select_option_make_call == Ready \o <<Type("m"), AwaitText("Make_call")>>
dial == select_option_make_call \o <<Type("number"), AwaitText("CALLING")>> \o Ready
answer_call ==
    Ready \o <<Type("a"), Await("Answer_with_code", "next", "No_pending", "FALSE", "raised"),
               Type("200"), AwaitText("CONFIRMED")>> \o Ready
hangup == Ready \o <<Type("h"), Await("DISCON", "next", "No_current_call", "next", "raised")>> \o Ready
reinvite == Ready \o <<Type("v"), AwaitText("re_INVITE"), AwaitText("SDP_done")>> \o Ready
hold == Ready \o <<Type("H"), AwaitText("on_hold")>> \o Ready
phone_start == Ready    \* once it is started
phone_kill == <<Type("q"), AwaitText("shell_prompt")>>

Defect_validate_state(text) ==
    <<Type(""), Suppressed(Menu, "FALSE"), Suppressed(text, "FALSE")>>

validate_state(text) ==
    <<Type(""), Suppressed(Menu, "FALSE"), Suppressed(text, "FALSE"), Suppressed(Menu, "FALSE")>>
send_update_and_validate(text) ==
    <<Type(""), Suppressed(Menu, "TRUE"), Type("U"), Suppressed(text, "TRUE")>>

is_idle == validate_state("no_calls")
is_dialing == validate_state("EARLY")
is_ringing == validate_state("Ringing")
is_connected == validate_state("CONFIRMED")
is_call_waiting == validate_state("Incoming_call")
is_onhold == send_update_and_validate("Local_hold")
is_playing_dialtone == send_update_and_validate("No_current_call")

(* is_line_busy and is_call_not_answered differ in the reason they look    *)
(* for in the text before the menu.                                        *)
is_call_ended == <<Type(""), AwaitText("no_calls"), AwaitText(Menu)>>
is_code_ended ==
    <<Type(""), Suppressed(Menu, "TRUE"), Suppressed("Closing_sound", "TRUE"), Type("")>>

reply_with_code ==
    Ready \o <<Type("a"), Await("Answer_with_code", "next", "No_pending", "raised", "raised"),
               Type("code"), Type(""), AwaitText(Menu)>>
dial_feature_code ==
    select_option_make_call \o <<Type("number"), AwaitText("CALLING")>> \o is_code_ended

(* The use case of voice.py. *)
is_dialtone_detected == hangup \o is_playing_dialtone

PhoneOps ==
    [dial |-> dial, answer |-> answer_call, hangup |-> hangup, reinvite |-> reinvite, hold |-> hold,
     phone_start |-> phone_start, phone_kill |-> phone_kill, is_idle |-> is_idle, is_dialing |-> is_dialing,
     is_ringing |-> is_ringing, is_connected |-> is_connected, is_call_waiting |-> is_call_waiting,
     is_onhold |-> is_onhold, is_playing_dialtone |-> is_playing_dialtone,
     is_call_ended |-> is_call_ended, is_code_ended |-> is_code_ended,
     reply_with_code |-> reply_with_code, dial_feature_code |-> dial_feature_code,
     is_dialtone_detected |-> is_dialtone_detected]

(* What a check says when it returns True. *)
Means ==
    [is_idle |-> {"none"}, is_dialing |-> {"early", "ringing"}, is_ringing |-> {"early", "ringing"},
     is_connected |-> {"confirmed", "on_hold"}, is_call_waiting |-> {"ringing"}]

CallStates == {"none", "calling", "early", "ringing", "confirmed", "on_hold"}
Texts ==
    {Menu, "shell_prompt", "no_calls", "one_call", "EARLY", "CONFIRMED", "Make_call", "CALLING", "Ringing",
     "Answer_with_code", "No_pending", "DISCON", "No_current_call", "re_INVITE", "SDP_done", "on_hold",
     "Local_hold", "Incoming_call", "Closing_sound", "Too_many_calls"}

ASSUME PhoneAssumption ==
    PhoneUses \subseteq DOMAIN PhoneOps /\ MaxUses \in Nat /\ MaxEvents \in Nat

PhoneTypeOK ==
    /\ pjsua \in [on : BOOLEAN, asks : {"nothing", "number", "code"}, call : CallStates]
    /\ phone \in [configured : BOOLEAN, started : BOOLEAN, use : PhoneUses \cup {"none"},
                  step : 0 .. 20, result : {"running", "done", "FALSE", "TRUE", "raised"}]
    /\ heard \in Seq(Texts)
    /\ truth \in [before : SUBSET CallStates, now : SUBSET CallStates] /\ behind \in BOOLEAN
    /\ spent \in [uses : 0 .. MaxUses, events : 0 .. MaxEvents]

PhoneInit ==
    /\ pjsua = [on |-> FALSE, asks |-> "nothing", call |-> "none"]
    /\ phone = [configured |-> FALSE, started |-> FALSE, use |-> "none", step |-> 0, result |-> "done"]
    /\ heard = <<>> /\ truth = [before |-> {}, now |-> {"none"}] /\ behind = FALSE
    /\ spent = [uses |-> 0, events |-> 0]

-----------------------------------------------------------------------------
(* pjsua *)

MenuLine ==
    CASE pjsua.call = "none" -> "no_calls"
      [] pjsua.call = "calling" -> "one_call"
      [] pjsua.call \in {"early", "ringing"} -> "EARLY"
      [] OTHER -> "CONFIRMED"
InCall == pjsua.call \in {"confirmed", "on_hold"}

(* Its answer to a line, and what it asks for and its call after it. *)
PjReply(texts, asks, call) == [texts |-> texts, asks |-> asks, call |-> call]
Says(texts) == PjReply(Append(texts, Menu), "nothing", pjsua.call)

AtMenu(text) ==
    CASE text = "m" -> PjReply(<<"Make_call">>, "number", pjsua.call)
      [] text = "a" /\ pjsua.call = "ringing" -> PjReply(<<"Answer_with_code">>, "code", pjsua.call)
      [] text = "a" /\ pjsua.call # "ringing" -> Says(<<"No_pending">>)
      [] text = "h" /\ pjsua.call # "none" -> PjReply(<<"DISCON", Menu>>, "nothing", "none")
      [] text = "v" /\ InCall -> PjReply(<<"re_INVITE", "SDP_done", Menu>>, "nothing", "confirmed")
      [] text = "H" /\ InCall -> PjReply(<<"on_hold", Menu>>, "nothing", "on_hold")
      [] text = "U" /\ pjsua.call = "on_hold" -> Says(<<"Local_hold">>)
      [] text \in {"h", "v", "H", "U"} /\ pjsua.call = "none" -> Says(<<"No_current_call">>)
      [] OTHER -> Says(<<MenuLine>>)

AtPrompt(text) ==
    CASE text = "" -> Says(<<>>)
      [] text # "" /\ pjsua.asks = "number" /\ pjsua.call = "none" ->
            PjReply(<<"CALLING", Menu>>, "nothing", "calling")
      [] text # "" /\ pjsua.asks = "number" /\ pjsua.call # "none" -> Says(<<"Too_many_calls">>)
      [] text # "" /\ pjsua.asks = "code" /\ pjsua.call # "ringing" -> Says(<<>>)
      [] text = "200" /\ pjsua.asks = "code" /\ pjsua.call = "ringing" ->
            PjReply(<<"CONFIRMED", Menu>>, "nothing", "confirmed")
      [] OTHER -> PjReply(<<"DISCON", Menu>>, "nothing", "none")

Replies(text) == IF pjsua.asks = "nothing" THEN AtMenu(text) ELSE AtPrompt(text)

(* sendline("\n") types two empty lines. *)
Twice(answer) == PjReply(answer.texts \o <<MenuLine, Menu>>, answer.asks, answer.call)

-----------------------------------------------------------------------------
(* The operations *)

Script == PhoneOps[phone.use]
Performing(word) == phone.result = "running" /\ Script[phone.step].do = word

(* The next step, or the end: a check that gets there returns True. *)
Advances(outcome) ==
    phone' =
        IF outcome # "next" THEN [phone EXCEPT !.result = outcome]
        ELSE IF phone.step < Len(Script) THEN [phone EXCEPT !.step = @ + 1]
        ELSE [phone EXCEPT !.result = IF phone.use \in DOMAIN Means THEN "TRUE" ELSE "done",
                           !.started = @ /\ phone.use # "phone_kill"]
Remember == truth' = [truth EXCEPT !.now = @ \cup {pjsua'.call}]

PhoneConfig ==
    /\ phone.result # "running" /\ ~pjsua.on /\ ~phone.configured
    /\ phone' = [phone EXCEPT !.configured = TRUE]
    /\ heard' = <<>>
    /\ UNCHANGED <<pjsua, truth, behind, spent>>

(* Already started, or started now, unless its registration fails. *)
PhoneStart ==
    /\ phone.result # "running" /\ phone.configured
    /\ ~phone.started
    /\ \/ /\ pjsua' = [pjsua EXCEPT !.on = TRUE]
          /\ phone' = [phone EXCEPT !.started = TRUE]
          /\ heard' = <<MenuLine, Menu>>
       \/ UNCHANGED <<pjsua, phone>> /\ heard' = <<>>
    /\ UNCHANGED <<truth, behind, spent>>

Begin(use) ==
    /\ phone.result # "running" /\ phone.started /\ spent.uses < MaxUses
    /\ phone' = [phone EXCEPT !.use = use, !.step = 1, !.result = "running"]
    /\ truth' = [before |-> truth.now, now |-> {pjsua.call}]
    /\ spent' = [spent EXCEPT !.uses = @ + 1]
    /\ behind' = (behind \/ use \in Lagging)
    /\ UNCHANGED <<pjsua, heard>>

LineTyped ==
    /\ Performing("line")
    /\ LET text == Script[phone.step].text
           reply == IF text = "" THEN Twice(Replies(text)) ELSE Replies(text)
       IN  IF pjsua.on /\ text # "q"
           THEN /\ pjsua' = [pjsua EXCEPT !.asks = reply.asks, !.call = reply.call]
                /\ heard' = heard \o reply.texts
           ELSE /\ pjsua' = [on |-> FALSE, asks |-> "nothing", call |-> "none"]
                /\ heard' = Append(heard, "shell_prompt")
    /\ Advances("next") /\ Remember
    /\ UNCHANGED <<behind, spent>>

InBuffer(step) == {i \in DOMAIN heard : heard[i] \in {step.text, step.other}}

(* What stands before the text is consumed with it. *)
ReadText ==
    /\ Performing("expect") /\ InBuffer(Script[phone.step]) # {}
    /\ LET step == Script[phone.step]
           i == CHOOSE i \in InBuffer(step) : \A j \in InBuffer(step) : i <= j
       IN  /\ heard' = SubSeq(heard, i + 1, Len(heard))
           /\ Advances(IF heard[i] = step.text THEN step.hit ELSE step.otherwise)
    /\ UNCHANGED <<pjsua, truth, behind, spent>>

Timeout ==
    /\ Performing("expect") /\ InBuffer(Script[phone.step]) = {}
    /\ Advances(Script[phone.step].miss)
    /\ behind' = TRUE
    /\ UNCHANGED <<pjsua, heard, truth, spent>>

(* The far end rings, answers or ends a call. *)
FarEnd ==
    /\ pjsua.on /\ spent.events < MaxEvents
    /\ \E call \in CallStates, texts \in {<<"Incoming_call", "Ringing">>, <<"Ringing">>,
                                        <<"CONFIRMED">>, <<"DISCON", "Closing_sound">>} :
        /\ \/ pjsua.call = "none" /\ call = "ringing" /\ Len(texts) = 2 /\ texts[2] = "Ringing"
           \/ pjsua.call = "calling" /\ call = "early" /\ texts = <<"Ringing">>
           \/ pjsua.call \in {"calling", "early"} /\ call = "confirmed" /\ texts = <<"CONFIRMED">>
           \/ pjsua.call # "none" /\ call = "none" /\ texts[1] = "DISCON"
        /\ pjsua' = [pjsua EXCEPT !.call = call]
        /\ heard' = heard \o texts
    /\ spent' = [spent EXCEPT !.events = @ + 1]
    /\ Remember
    /\ UNCHANGED <<phone, behind>>

PhoneNext ==
    \/ PhoneConfig \/ PhoneStart \/ (\E use \in PhoneUses : Begin(use))
    \/ LineTyped \/ ReadText \/ Timeout \/ FarEnd

PhoneSpec == PhoneInit /\ [][PhoneNext]_phoneVars

-----------------------------------------------------------------------------
(* Properties *)

(* A check that returns True has read a text of its own time or of the     *)
(* operation before, not an older menu, while no menus were left over.     *)
TrueIsRecent ==
    phone.result = "TRUE" /\ phone.use \in DOMAIN Means /\ ~behind =>
        Means[phone.use] \cap (truth.before \cup truth.now) # {}

(* A number or a code is typed only where pjsua asks for it, as a command  *)
(* of the menu it would do something else; and a check is not deceived by  *)
(* an older menu.                                                          *)
PhoneInStep ==
    [][/\ LineTyped /\ pjsua.on =>
              /\ Script[phone.step].text = "number" => pjsua.asks = "number"
              /\ Script[phone.step].text \in {"200", "code"} => pjsua.asks = "code"
       /\ TrueIsRecent']_phoneVars
=============================================================================
