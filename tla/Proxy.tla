-------------------------------- MODULE Proxy --------------------------------
(***************************************************************************)
(* How the control plane reaches its agents for its clients: the proxying  *)
(* of requests and streams (src/boardfarm3_control/proxy.py, openapi.py)   *)
(* and GET /sessions, which asks every agent for its state (app.py).       *)
(* Sessions end meanwhile, and agents answer, hang or break off.           *)
(***************************************************************************)
EXTENDS Naturals

CONSTANTS
    Clients,    \* requests in flight at the same time
    Hosted,     \* sessions
    NoHost

ASSUME HostAssumption == NoHost \notin Hosted

VARIABLES
    known,      \* the live sessions of the registry
    activity,   \* the keys of _last_activity
    agent,      \* whether an agent answers, hangs or is gone
    request,    \* each client's request: its place, kind and session
    reply       \* what the client was sent, and whether it was told it broke

proxyVars == <<known, activity, agent, request, reply>>

(* "plain" and "stream" go through the pooled client, "stream" without a   *)
(* read timeout; a "plugin" route opens a client of its own; "listing" is  *)
(* GET /sessions, probing one session within 2 s.                          *)
Kinds == {"plain", "stream", "plugin", "listing"}
NoRequest == [at |-> "idle", kind |-> "plain", host |-> NoHost]
NoReply == [status |-> "none", body |-> "none"]

ProxyTypeOK ==
    /\ known \subseteq Hosted /\ activity \subseteq Hosted
    /\ agent \in [Hosted -> {"answers", "hangs", "gone"}]
    /\ request \in [Clients -> [at : {"idle", "reading", "sent", "forwarding"},
                                kind : Kinds, host : Hosted \cup {NoHost}]]
    /\ reply \in [Clients -> [status : {"none", "200", "404", "500", "502", "unreachable"},
                              body : {"none", "whole", "truncated", "error_frame"}]]

ProxyInit ==
    /\ known = Hosted /\ activity = Hosted
    /\ agent = [s \in Hosted |-> "answers"]
    /\ request = [c \in Clients |-> NoRequest]
    /\ reply = [c \in Clients |-> NoReply]

-----------------------------------------------------------------------------
At(c, place) == request[c].at = place
HostOf(c) == request[c].host
Goes(c, place) == request' = [request EXCEPT ![c].at = place]
Replies(c, status, body) ==
    /\ request' = [request EXCEPT ![c].at = "idle"]
    /\ reply' = [reply EXCEPT ![c] = [status |-> status, body |-> body]]

(* The catch-all route touches the session; plugin routes do not; neither  *)
(* knows a session that is gone.                                           *)
Requested(c, s, k) ==
    /\ At(c, "idle") /\ k # "listing"
    /\ IF s \in known
       THEN /\ request' = [request EXCEPT ![c] = [at |-> "reading", kind |-> k, host |-> s]]
            /\ reply' = [reply EXCEPT ![c] = NoReply]
            /\ activity' = IF k = "plugin" THEN activity ELSE activity \cup {s}
       ELSE Replies(c, "404", "none") /\ UNCHANGED activity
    /\ UNCHANGED <<known, agent>>

(* request.body() was read: the request is sent on. *)
Forwarded(c) ==
    /\ At(c, "reading")
    /\ Goes(c, "sent")
    /\ UNCHANGED <<known, activity, agent, reply>>

Answered(c) ==
    /\ At(c, "sent") /\ request[c].kind # "listing"
    /\ agent[HostOf(c)] = "answers"
    /\ Goes(c, "forwarding")
    /\ UNCHANGED <<known, activity, agent, reply>>

(* ConnectError, or the read timeout when there is one.                    *)
Unreachable(c) ==
    /\ At(c, "sent") /\ request[c].kind # "listing"
    /\ \/ agent[HostOf(c)] = "gone"
       \/ agent[HostOf(c)] = "hangs" /\ request[c].kind # "stream"
    /\ Replies(c, "502", "none")
    /\ UNCHANGED <<known, activity, agent>>

(* Any other error of httpx escapes.                                       *)
SendRaises(c) ==
    /\ At(c, "sent") /\ request[c].kind # "listing"
    /\ agent[HostOf(c)] = "gone"
    /\ Replies(c, "500", "none")
    /\ UNCHANGED <<known, activity, agent>>

(* _forward_stream, to the end of what the agent sends ...                 *)
BodyForwarded(c) ==
    /\ At(c, "forwarding")
    /\ agent[HostOf(c)] = "answers"
    /\ Replies(c, "200", "whole")
    /\ UNCHANGED <<known, activity, agent>>

(* ... or until it breaks off; an SSE client is told so in a last frame.   *)
BodyBreaks(c) ==
    /\ At(c, "forwarding")
    /\ \/ agent[HostOf(c)] = "gone"
       \/ agent[HostOf(c)] = "hangs" /\ request[c].kind # "stream"
    /\ Replies(c, "200", IF request[c].kind = "stream" THEN "error_frame" ELSE "truncated")
    /\ UNCHANGED <<known, activity, agent>>

-----------------------------------------------------------------------------
(* GET /sessions: the page is read, then every agent on it is asked.       *)

ListingBegins(c, s) ==
    /\ At(c, "idle") /\ s \in known
    /\ request' = [request EXCEPT ![c] = [at |-> "sent", kind |-> "listing", host |-> s]]
    /\ reply' = [reply EXCEPT ![c] = NoReply]
    /\ UNCHANGED <<known, activity, agent>>

Probed(c) ==
    /\ At(c, "sent") /\ request[c].kind = "listing"
    /\ agent[HostOf(c)] = "answers"
    /\ activity' = activity \cup {HostOf(c)}
    /\ Replies(c, "200", "whole")
    /\ UNCHANGED <<known, agent>>

Defect_ProbeFails(c) ==
    /\ At(c, "sent") /\ request[c].kind = "listing"
    /\ agent[HostOf(c)] = "gone"
    /\ Replies(c, "unreachable", "none")
    /\ UNCHANGED <<known, activity, agent>>

ProbeFails(c) ==
    /\ At(c, "sent") /\ request[c].kind = "listing"
    /\ agent[HostOf(c)] # "answers"
    /\ Replies(c, "unreachable", "none")
    /\ UNCHANGED <<known, activity, agent>>

-----------------------------------------------------------------------------
AgentChanges(s) ==
    /\ agent[s] # "gone"
    /\ \E how \in {"answers", "hangs", "gone"} \ {agent[s]} : agent' = [agent EXCEPT ![s] = how]
    /\ UNCHANGED <<known, activity, request, reply>>

(* The registry forgets a session whose agent was stopped.                 *)
SessionRemoved(s) ==
    /\ s \in known
    /\ known' = known \ {s}
    /\ activity' = activity \ {s}
    /\ agent' = [agent EXCEPT ![s] = "gone"]
    /\ UNCHANGED <<request, reply>>

-----------------------------------------------------------------------------
RequestSteps(c) ==
    \/ Forwarded(c) \/ Answered(c) \/ Unreachable(c) \/ SendRaises(c)
    \/ BodyForwarded(c) \/ BodyBreaks(c) \/ Probed(c) \/ ProbeFails(c)

ProxyNext ==
    \/ \E c \in Clients :
          \/ \E s \in Hosted : (\E k \in Kinds : Requested(c, s, k)) \/ ListingBegins(c, s)
          \/ RequestSteps(c)
    \/ \E s \in Hosted : AgentChanges(s) \/ SessionRemoved(s)

(* The event loop runs every request; httpx ends a connect, and a read     *)
(* that has one, with its timeout.                                         *)
ProxySpec ==
    ProxyInit /\ [][ProxyNext]_proxyVars
        /\ \A c \in Clients : WF_proxyVars(RequestSteps(c))

-----------------------------------------------------------------------------
(* Properties *)

(* Every request is answered in the end, whatever its agent does; only a   *)
(* stream lasts as long as an agent that hangs.                            *)
RequestsEnd ==
    \A c \in Clients :
        request[c].at # "idle"
            ~> \/ request[c].at = "idle"
               \/ request[c].kind = "stream" /\ agent[HostOf(c)] = "hangs"
=============================================================================
