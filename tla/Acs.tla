---------------------------------- MODULE Acs ----------------------------------
(***************************************************************************)
(* Provisioning a CPE through its ACS: provision_cpe_via_tr069 of AxirosACS *)
(* and GenieACS (src/boardfarm3/devices), which makes one RPC after the    *)
(* other over HTTP and retries each that raises.  The ACS queues a request *)
(* until the CPE has a session with it.  Axiros answers when the CPE has   *)
(* executed the request, or refuses when the lifetime the request names is *)
(* over; Genie answers 202 where the CPE is out of reach, and keeps the    *)
(* request.  Answers are lost, and so are requests.                        *)
(***************************************************************************)
EXTENDS Naturals, Sequences

CONSTANTS
    Rpcs,       \* the RPCs a list of provisioning calls may name
    Length,     \* bound on the calls in the list
    Values,     \* the values SetParameterValues writes to the parameter
    Retries     \* how often retry_on_exception calls

ASSUME AcsAssumption == Length \in Nat /\ Retries \in Nat \ {0}

VARIABLES
    keeps,      \* whether the ACS is Genie, which keeps requests
    program,    \* the calls to be made
    client,     \* where provisioning is: the call, its attempt, what it does
    queue,      \* the requests the ACS has for the CPE
    cpe         \* whether it is in reach, the parameter's value, its objects,
                \* and how many calls of the list it has executed so far

acsVars == <<keeps, program, client, queue, cpe>>

-----------------------------------------------------------------------------
(* What the RPCs do: whether a call with one parameter gets as far as a    *)
(* request, and whether its answer is converted, or a second request reads *)
(* the result, which may raise after the CPE has executed the request.     *)
Rpc(sends, converts) == [sends |-> sends, converts |-> converts]

AcsGPV == Rpc(TRUE, TRUE)
AcsSPV == Rpc(TRUE, TRUE)
AcsGPA == Rpc(TRUE, TRUE)
AcsSPA == Rpc(TRUE, FALSE)
AcsFactoryReset == Rpc(FALSE, TRUE)
AcsReboot == Rpc(TRUE, TRUE)
AcsAddObject == Rpc(TRUE, TRUE)
AcsDelObject == Rpc(TRUE, TRUE)
AcsGPN == Rpc(FALSE, TRUE)
AcsScheduleInform == Rpc(TRUE, TRUE)
AcsGetRPCMethods == Rpc(FALSE, FALSE)
AcsDownload == Rpc(TRUE, FALSE)

AxirosMethods ==
    [GPV |-> AcsGPV, SPV |-> AcsSPV, GPA |-> AcsGPA, SPA |-> AcsSPA, FactoryReset |-> AcsFactoryReset,
     Reboot |-> AcsReboot, AddObject |-> AcsAddObject, DelObject |-> AcsDelObject, GPN |-> AcsGPN,
     ScheduleInform |-> AcsScheduleInform, GetRPCMethods |-> AcsGetRPCMethods,
     Download |-> AcsDownload]

ASSUME RpcsAssumption == Rpcs \subseteq DOMAIN AxirosMethods

GenieGPV == Rpc(TRUE, TRUE)
GenieSPV == Rpc(TRUE, FALSE)
GenieAttributes == Rpc(FALSE, FALSE)
NotImplemented == Rpc(FALSE, FALSE)

GenieMethods ==
    [rpc \in DOMAIN AxirosMethods |->
        CASE rpc = "GPV" -> GenieGPV
          [] rpc = "SPV" -> GenieSPV
          [] rpc \in {"GPA", "SPA"} -> GenieAttributes
          [] OTHER -> NotImplemented]

Methods == IF keeps THEN GenieMethods ELSE AxirosMethods

(* Of what these write only AddObject's objects and SetParameterValues'    *)
(* value are told apart.                                                   *)
NoValue == "unset"
Call ==
    {c \in [rpc : Rpcs, value : Values \cup {NoValue}] : c.value = NoValue <=> c.rpc # "SPV"}
Programs == UNION {[1 .. n -> Call] : n \in 1 .. Length}
Request == [call : 1 .. Length, attempt : 1 .. Retries, waits : BOOLEAN]

AcsTypeOK ==
    /\ keeps \in BOOLEAN /\ program \in Programs
    /\ client \in [at : {"calls", "waits", "sleeps", "done", "raised"},
                   call : 1 .. Length + 1, attempt : 1 .. Retries]
    /\ queue \in Seq(Request) /\ Len(queue) <= Length * Retries
    /\ cpe \in [inReach : BOOLEAN, value : Values \cup {NoValue},
                objects : 0 .. Length * Retries, executed : 0 .. Length]

AcsInit ==
    /\ keeps \in BOOLEAN /\ program \in Programs
    /\ client = [at |-> "calls", call |-> 1, attempt |-> 1]
    /\ queue = <<>>
    /\ cpe = [inReach |-> TRUE, value |-> NoValue, objects |-> 0, executed |-> 0]

-----------------------------------------------------------------------------
(* The client *)

Sends == Methods[program[client.call].rpc].sends

Defect_Fails ==
    client' = IF client.attempt < Retries THEN [client EXCEPT !.at = "sleeps"]
              ELSE IF client.call = Len(program) THEN [client EXCEPT !.at = "done"]
              ELSE [at |-> "calls", call |-> client.call + 1, attempt |-> 1]

(* retry_on_exception: the last attempt's exception ends provisioning. *)
Fails ==
    client' = [client EXCEPT !.at = IF client.attempt < Retries THEN "sleeps" ELSE "raised"]

CallReturns ==
    client' = IF client.call = Len(program) THEN [client EXCEPT !.at = "done"]
              ELSE [at |-> "calls", call |-> client.call + 1, attempt |-> 1]

(* The ACS does not learn of it, and keeps the request.                    *)
NobodyWaits ==
    queue' = [i \in DOMAIN queue |->
                [call |-> queue[i].call, attempt |-> queue[i].attempt, waits |-> FALSE]]

Post ==
    /\ client.at = "calls" /\ Sends
    /\ queue' = Append(queue, [call |-> client.call, attempt |-> client.attempt, waits |-> TRUE])
    /\ client' = [client EXCEPT !.at = "waits"]
    /\ UNCHANGED <<keeps, program, cpe>>

(* A TypeError, a NotImplementedError, or a connection refused. *)
CallRaises ==
    /\ client.at = "calls"
    /\ Fails
    /\ UNCHANGED <<keeps, program, queue, cpe>>

Sleep ==
    /\ client.at = "sleeps"
    /\ client' = [client EXCEPT !.at = "calls", !.attempt = client.attempt + 1]
    /\ UNCHANGED <<keeps, program, queue, cpe>>

(* The connection breaks, or the client's timeout is over. *)
AnswerLost ==
    /\ client.at = "waits"
    /\ Fails
    /\ NobodyWaits
    /\ UNCHANGED <<keeps, program, cpe>>

(* Genie: 202, and raise_for_status is content. *)
Accepted ==
    /\ client.at = "waits" /\ \E i \in DOMAIN queue : queue[i].waits
    /\ keeps /\ ~cpe.inReach
    /\ CallReturns
    /\ NobodyWaits
    /\ UNCHANGED <<keeps, program, cpe>>

-----------------------------------------------------------------------------
(* The ACS and the CPE *)

Executes(call) ==
    cpe' = [cpe EXCEPT !.value = IF program[call].rpc = "SPV" THEN program[call].value ELSE @,
                       !.objects = IF program[call].rpc = "AddObject" THEN @ + 1 ELSE @,
                       !.executed = IF call > @ THEN call ELSE @,
                       !.inReach = program[call].rpc # "Reboot"]

(* In a session the CPE executes the oldest request.  Whoever waits for it *)
(* has the result, which may not be what the caller expects.               *)
Executed ==
    /\ queue # <<>> /\ cpe.inReach
    /\ Executes(Head(queue).call)
    /\ queue' = Tail(queue)
    /\ IF Head(queue).waits
       THEN CallReturns \/ (Methods[program[Head(queue).call].rpc].converts /\ Fails)
       ELSE UNCHANGED client
    /\ UNCHANGED <<keeps, program>>

(* A fault code, which Axiros passes on. *)
Refused ==
    /\ ~keeps /\ queue # <<>> /\ cpe.inReach
    /\ queue' = Tail(queue)
    /\ IF Head(queue).waits THEN Fails ELSE UNCHANGED client
    /\ UNCHANGED <<keeps, program, cpe>>

(* The lifetime that a request names is over; the client waits 30 s more.  *)
LifetimeEnds ==
    /\ ~keeps /\ queue # <<>>
    /\ queue' = Tail(queue)
    /\ IF Head(queue).waits THEN Fails ELSE UNCHANGED client
    /\ UNCHANGED <<keeps, program, cpe>>

GoesOutOfReach ==
    /\ cpe.inReach
    /\ cpe' = [cpe EXCEPT !.inReach = FALSE]
    /\ UNCHANGED <<keeps, program, client, queue>>

InReachAgain ==
    /\ ~cpe.inReach
    /\ cpe' = [cpe EXCEPT !.inReach = TRUE]
    /\ UNCHANGED <<keeps, program, client, queue>>

ClientSteps == Post \/ CallRaises \/ Sleep \/ AnswerLost \/ Accepted
CpeSteps == Executed \/ Refused \/ LifetimeEnds \/ GoesOutOfReach \/ InReachAgain

AcsNext == ClientSteps \/ CpeSteps

(* Every wait of the client has a timeout.  A CPE that is switched on has  *)
(* a session with its ACS from time to time.                               *)
AcsFairness == WF_acsVars(ClientSteps) /\ WF_acsVars(InReachAgain) /\ SF_acsVars(Executed)
AcsSpec == AcsInit /\ [][AcsNext]_acsVars /\ AcsFairness

-----------------------------------------------------------------------------
(* Properties *)

(* The value of the last SetParameterValues in the list, if it has one. *)
Provisioned ==
    LET writes == {i \in DOMAIN program : program[i].rpc = "SPV"}
    IN  IF writes = {} THEN NoValue
        ELSE program[CHOOSE i \in writes : \A j \in writes : j <= i].value

(* When Axiros' provisioning returns, the CPE has the value the list ends  *)
(* with, whatever was lost, refused, delayed and sent again on the way.    *)
ProvisionedWhenDone == ~keeps /\ client.at = "done" => cpe.value = Provisioned

(* The CPE never executes a call before it has executed all earlier ones   *)
(* of the list, as a call that fails for good ends provisioning; and so it *)
(* has the last value when provisioning returns.                           *)
ProvisionedInOrder ==
    [][cpe'.executed <= cpe.executed + 1 /\ ProvisionedWhenDone']_acsVars

(* Provisioning that has sent a request ends: a call that never succeeds   *)
(* is given up.                                                            *)
ProvisioningEnds == client.at = "waits" ~> client.at \in {"done", "raised"}

(* What Genie accepted while the CPE was out of reach is executed later:   *)
(* after provisioning returned the CPE comes to have the last value.       *)
AcceptedIsExecuted == client.at = "done" ~> cpe.value = Provisioned

(* Provisioning ends, and what was accepted comes to be executed.          *)
ProvisioningTakesEffect == ProvisioningEnds /\ AcceptedIsExecuted
=============================================================================
