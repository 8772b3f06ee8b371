----------------------------- MODULE IperfTraffic -----------------------------
(***************************************************************************)
(* Traffic between two devices (src/boardfarm3/use_cases/iperf.py): a test *)
(* starts a receiver and a sender, and stops them by the process ids that  *)
(* LinuxDevice (devices/base_devices/linux_device.py) read from the output *)
(* of ps.  A test makes one call at a time; the processes run on and exit  *)
(* by themselves, and bash prints "Exit 1" of a job that failed into the   *)
(* output of whatever command comes next.                                  *)
(***************************************************************************)
EXTENDS Naturals, FiniteSets

CONSTANTS
    Sessions,   \* calls of start_iperf_ipv4 or start_iperf_ipv6, and their stops
    Hosts,
    Ports,
    Both        \* whether a port is used in both directions between hosts

ASSUME HostsAssumption == Cardinality(Hosts) > 1

VARIABLES
    route,      \* of each session: its sender's host, receiver's host and port
    running,    \* the iperf processes, with the session that started them
    spawned,    \* how many were started: ps lists them in this order
    exit1,      \* the hosts whose shell has an "Exit 1" to print
    session     \* how far each session is, and the process ids it was given

trafficVars == <<route, running, spawned, exit1, session>>

NoPid == 0
Routes == {r \in [from : Hosts, to : Hosts, port : Ports] : r.from # r.to}
Process == [pid : Nat, host : Hosts, role : {"receiver", "sender"}, to : Hosts, port : Ports,
            of : Sessions]

TrafficTypeOK ==
    /\ route \in [Sessions -> Routes]
    /\ spawned \in 0 .. 2 * Cardinality(Sessions)
    /\ running \subseteq Process /\ \A p \in running : p.pid \in 1 .. spawned
    /\ exit1 \subseteq Hosts
    /\ session \in [Sessions -> [at : {"idle", "receiver", "sender", "send", "given_up", "started",
                                       "stopping", "stopped", "raised"},
                                 receiver : 0 .. spawned, sender : 0 .. spawned]]

BothWays(routes) ==
    \E s, t \in Sessions : routes[s].port = routes[t].port /\ routes[s].from = routes[t].to

TrafficInit ==
    /\ route \in [Sessions -> Routes] /\ (BothWays(route) => Both)
    /\ running = {} /\ spawned = 0 /\ exit1 = {}
    /\ session = [s \in Sessions |-> [at |-> "idle", receiver |-> NoPid, sender |-> NoPid]]

-----------------------------------------------------------------------------
Between == {"idle", "started", "stopped", "raised"}

(* One call at a time: this session's goes on, or none is under way. *)
Calling(s, at) ==
    /\ session[s].at = at
    /\ \A t \in Sessions \ {s} : session[t].at \in Between
Reaches(s, at) == session' = [session EXCEPT ![s].at = at]

On(host) == {p \in running : p.host = host}
Server(host, port) == {p \in On(host) : p.role = "receiver" /\ p.port = port}
First(found) == CHOOSE p \in found : \A q \in found : p.pid <= q.pid

(* The job is started; the prompt behind it prints what was to be printed. *)
Launch(s, host, role) ==
    /\ spawned' = spawned + 1
    /\ running' = running \cup
        {[pid |-> spawned', host |-> host, role |-> role, to |-> route[s].to,
          port |-> route[s].port, of |-> s]}

(* start_traffic_receiver, up to its ps: a port in use ends the process.   *)
ReceiverSpawned(s) ==
    /\ Calling(s, "idle")
    /\ IF Server(route[s].to, route[s].port) = {}
       THEN Launch(s, route[s].to, "receiver") /\ exit1' = exit1 \ {route[s].to}
       ELSE exit1' = exit1 \cup {route[s].to} /\ UNCHANGED <<running, spawned>>
    /\ Reaches(s, "receiver")
    /\ UNCHANGED route

Listed(host) == On(host) # {} /\ host \notin exit1

(* Of the lines with iperf, the first one with the port is taken. *)
ReceiverFound(s) ==
    LET found == {p \in On(route[s].to) : p.port = route[s].port}
    IN  /\ Calling(s, "receiver")
        /\ Listed(route[s].to) /\ found # {}
        /\ session' = [session EXCEPT ![s].at = "sender", ![s].receiver = First(found).pid]
        /\ exit1' = exit1 \ {route[s].to}
        /\ UNCHANGED <<route, running, spawned>>

(* CodeError, or an AttributeError where no line has the port. *)
ReceiverNotFound(s) ==
    /\ Calling(s, "receiver")
    /\ ~Listed(route[s].to) \/ \A p \in On(route[s].to) : p.port # route[s].port
    /\ Reaches(s, "raised")
    /\ exit1' = exit1 \ {route[s].to}
    /\ UNCHANGED <<route, running, spawned>>

(* start_traffic_sender, up to its ps: the sender finds its receiver busy, *)
(* or not at all, and exits, or it sends.                                  *)
SenderSpawned(s) ==
    /\ Calling(s, "sender")
    /\ \/ /\ Server(route[s].to, route[s].port) # {}
          /\ Launch(s, route[s].from, "sender") /\ exit1' = exit1 \ {route[s].from}
       \/ exit1' = exit1 \cup {route[s].from} /\ UNCHANGED <<running, spawned>>
    /\ Reaches(s, "send")
    /\ UNCHANGED route

SenderLines(s) ==
    {p \in On(route[s].from) : p.role = "sender" /\ p.to = route[s].to /\ p.port = route[s].port}

SenderFound(s) ==
    /\ Calling(s, "send")
    /\ Listed(route[s].from) /\ SenderLines(s) # {}
    /\ session' = [session EXCEPT ![s].at = "started", ![s].sender = First(SenderLines(s)).pid]
    /\ exit1' = exit1 \ {route[s].from}
    /\ UNCHANGED <<route, running, spawned>>

(* CodeError is handled; an AttributeError, where no line has the host and *)
(* the port, is not.                                                       *)
SenderNotFound(s) ==
    /\ Calling(s, "send")
    /\ \/ ~Listed(route[s].from) /\ Reaches(s, "given_up")
       \/ Listed(route[s].from) /\ SenderLines(s) = {} /\ Reaches(s, "raised")
    /\ exit1' = exit1 \ {route[s].from}
    /\ UNCHANGED <<route, running, spawned>>

Killed(host, pid) == running' = {p \in running : p.host # host \/ p.pid # pid}

(* The handler of CodeError stops the receiver; start_iperf returns with   *)
(* its process id all the same.                                            *)
ReceiverStopped(s) ==
    /\ Calling(s, "given_up")
    /\ Killed(route[s].to, session[s].receiver)
    /\ exit1' = exit1 \ {route[s].to}
    /\ Reaches(s, "started")
    /\ UNCHANGED <<route, spawned>>

Defect_StopSender(s) ==
    /\ Calling(s, "started")
    /\ running' = IF session[s].sender = NoPid THEN running
                  ELSE {p \in running : p.host # route[s].from \/ p.role # "sender"}
    /\ exit1' = IF session[s].sender = NoPid THEN exit1 ELSE exit1 \ {route[s].from}
    /\ Reaches(s, "stopping")
    /\ UNCHANGED <<route, spawned>>

(* stop_iperf_traffic *)
StopSender(s) ==
    /\ Calling(s, "started")
    /\ IF session[s].sender = NoPid
       THEN UNCHANGED <<running, exit1>>
       ELSE Killed(route[s].from, session[s].sender) /\ exit1' = exit1 \ {route[s].from}
    /\ Reaches(s, "stopping")
    /\ UNCHANGED <<route, spawned>>

StopReceiver(s) ==
    /\ Calling(s, "stopping")
    /\ Killed(route[s].to, session[s].receiver)
    /\ exit1' = exit1 \ {route[s].to}
    /\ Reaches(s, "stopped")
    /\ UNCHANGED <<route, spawned>>

(* A sender's time is up, or its receiver is gone. *)
SenderExits ==
    \E p \in running :
        /\ p.role = "sender"
        /\ running' = running \ {p}
        /\ exit1' = IF Server(p.to, p.port) = {} THEN exit1 \cup {p.host} ELSE exit1
        /\ UNCHANGED <<route, spawned, session>>

TrafficCalls(s) ==
    \/ ReceiverSpawned(s) \/ ReceiverFound(s) \/ ReceiverNotFound(s)
    \/ SenderSpawned(s) \/ SenderFound(s) \/ SenderNotFound(s) \/ ReceiverStopped(s)
    \/ StopSender(s) \/ StopReceiver(s)

TrafficEnded ==
    /\ \A s \in Sessions : session[s].at \in {"stopped", "raised"}
    /\ UNCHANGED trafficVars

TrafficNext == (\E s \in Sessions : TrafficCalls(s)) \/ SenderExits \/ TrafficEnded

TrafficSpec == TrafficInit /\ [][TrafficNext]_trafficVars

-----------------------------------------------------------------------------
(* Properties *)

Receivers(s) == {p \in running : p.of = s /\ p.role = "receiver"}

(* A stop that returns has ended the receiver of its session, which would  *)
(* keep the port: the process id read from ps was that of the receiver.    *)
StopEndsReceiver ==
    \A s \in Sessions : session[s].at = "stopped" => Receivers(s) = {}

(* A start that returns without a sender has left no receiver behind. *)
NoReceiverAlone ==
    \A s \in Sessions :
        session[s].at = "started" /\ session[s].sender = NoPid => Receivers(s) = {}

(* A start and a stop end the processes of their own session and no other: *)
(* the process ids they read are those they should be.                     *)
StopsAreExact ==
    [][/\ \A s \in Sessions : session'[s].at # session[s].at =>
              \A p \in running \ running' : p.of = s
       /\ StopEndsReceiver' /\ NoReceiverAlone']_trafficVars
=============================================================================
