---------------------------- MODULE ControlPlane ----------------------------
(***************************************************************************)
(* The control plane of boardfarm (src/boardfarm3_control): one asyncio    *)
(* process that starts one agent container per session, leases each board  *)
(* to at most one session, and tears sessions down.  Each request handler  *)
(* is a task whose actions are the segments of code between two awaits;    *)
(* the launcher is the Docker one.                                         *)
(***************************************************************************)
EXTENDS FiniteSets

CONSTANTS
    Sessions,   \* identifiers _new_session_id can draw, each drawn once
    Boards,     \* boards a session can ask for
    Handlers,   \* HTTP requests in flight at the same time
    Reaper,     \* the background task of run_reaper
    Routes,     \* the requests clients send
    Faults,     \* the faults of the environment that may happen
    None

Tasks == Handlers \cup {Reaper}

(* "daemon": a Docker API call raises, before or after taking effect;     *)
(* "disk": writing the diagnostics store raises OSError;                  *)
(* "reply": an agent's answer raises something the handler does not catch *)
AllFaults == {"daemon", "disk", "reply"}

ASSUME TaskAssumption == Reaper \notin Handlers
ASSUME NoneAssumption == None \notin Sessions \cup Boards
ASSUME RouteAssumption ==
    Routes \subseteq {"create", "delete", "snapshot", "diagnostics"}
ASSUME FaultAssumption == Faults \subseteq AllFaults

VARIABLES
    phase,      \* of the process: "down", "rebuilding" (startup), "serving"
    lease,      \* BoardLease._leases
    registry,   \* SessionRegistry._sessions: what is known of each session
    container,  \* the Docker container labelled with the session
    board,      \* the board a session was created for (a container label)
    meta,       \* meta.json of the session in the diagnostics store
    bundle,     \* whether bundle.tar.gz is in the diagnostics store
    task,       \* where each task stands, and on which session
    page        \* the corpses the reaper's pass has still to purge

vars == <<phase, lease, registry, container, board, meta, bundle, task, page>>

-----------------------------------------------------------------------------
(* States.  A corpse is "dead", past its TTL "aged", or "undated" when its *)
(* ended_at is None; a meta.json is "fresh" or, past its TTL, "aged".      *)

Corpse == {"dead", "aged", "undated"}
Listing == {"absent", "live"} \cup Corpse

Creating == {"creating", "starting", "polling", "configuring", "booting"}
Teardown == {"archiving", "releasing", "finding", "stopping", "removing",
             "stopped", "stop_failed"}
Purging == {"locating", "erasing", "erased"}
Places == {"idle", "snapshotting", "collecting", "reaping"}
              \cup Creating \cup Teardown \cup Purging

(* The place a task waits at, its session, and DELETE's retain parameter. *)
TaskRecords == [at : Places, on : Sessions \cup {None}, retain : BOOLEAN]
Idle == [at |-> "idle", on |-> None, retain |-> FALSE]

TypeOK ==
    /\ phase \in {"down", "rebuilding", "serving"}
    /\ lease \in [Boards -> Sessions \cup {None}]
    /\ registry \in [Sessions -> Listing]
    /\ container \in [Sessions -> {"absent", "created", "running", "exited"}]
    /\ board \in [Sessions -> Boards \cup {None}]
    /\ meta \in [Sessions -> {"none", "fresh", "aged"}]
    /\ bundle \in [Sessions -> BOOLEAN]
    /\ task \in [Tasks -> TaskRecords]
    /\ page \in SUBSET Sessions

Init ==
    /\ phase = "serving"
    /\ lease = [b \in Boards |-> None]
    /\ registry = [s \in Sessions |-> "absent"]
    /\ container = [s \in Sessions |-> "absent"]
    /\ board = [s \in Sessions |-> None]
    /\ meta = [s \in Sessions |-> "none"]
    /\ bundle = [s \in Sessions |-> FALSE]
    /\ task = [t \in Tasks |-> Idle]
    /\ page = {}

-----------------------------------------------------------------------------
(* BoardLease and SessionRegistry: the tables after each of their methods. *)
(* A definition named Defect_X, here and below, is what X could have been  *)
(* by mistake; no action uses it, the runs are repeated with it.           *)

Acquire(b, s) == [lease EXCEPT ![b] = s]
Defect_Release(s) == [b \in Boards |-> None]
Release(s) == [b \in Boards |-> IF lease[b] = s THEN None ELSE lease[b]]

Add(s) == [registry EXCEPT ![s] = "live"]
Remove(s) == [registry EXCEPT ![s] = "absent"]
Defect_MarkDead(s) == [registry EXCEPT ![s] = "dead"]
MarkDead(s) == IF registry[s] = "absent" THEN registry
               ELSE [registry EXCEPT ![s] = "dead"]

(* Where the next segment of task t starts. *)
Goto(t, place) == task' = [task EXCEPT ![t].at = place]
Begin(t, place, s, retain) ==
    task' = [task EXCEPT ![t] = [at |-> place, on |-> s, retain |-> retain]]
End(t) == task' = [task EXCEPT ![t] = Idle]

At(t, place) == task[t].at = place
Target(t) == task[t].on

-----------------------------------------------------------------------------
(* POST /sessions: create_session. *)

(* The board is free (else 409): lease it and call launcher.start. *)
CreateSession(t, s, b) ==
    /\ "create" \in Routes
    /\ phase = "serving" /\ At(t, "idle")
    /\ board[s] = None
    /\ lease[b] = None
    /\ lease' = Acquire(b, s)
    /\ board' = [board EXCEPT ![s] = b]
    /\ Begin(t, "creating", s, FALSE)
    /\ UNCHANGED <<phase, registry, container, meta, bundle, page>>

(* containers.run, in an executor thread: docker create, then docker start. *)
ContainerCreated(t) ==
    /\ At(t, "creating")
    /\ container' = [container EXCEPT ![Target(t)] = "created"]
    /\ Goto(t, "starting")
    /\ UNCHANGED <<phase, lease, registry, board, meta, bundle, page>>

Defect_ContainerStarted(t) ==
    /\ At(t, "starting")
    /\ container' = [container EXCEPT ![Target(t)] = "running"]
    /\ registry' = Add(Target(t))
    /\ Goto(t, "polling")
    /\ UNCHANGED <<phase, lease, board, meta, bundle, page>>

ContainerStarted(t) ==
    /\ At(t, "starting")
    /\ container' = [container EXCEPT ![Target(t)] = "running"]
    /\ Goto(t, "polling")
    /\ UNCHANGED <<phase, lease, registry, board, meta, bundle, page>>

Defect_StartFails(t) ==
    /\ task[t].at \in {"creating", "starting"}
    /\ End(t)
    /\ UNCHANGED <<phase, lease, registry, container, board, meta, bundle, page>>

(* launcher.start raises: the lease is released, nothing is registered.    *)
(* What containers.run created before it raised stays with the daemon.     *)
StartFails(t) ==
    /\ task[t].at \in {"creating", "starting"}
    /\ \/ UNCHANGED container
       \/ /\ At(t, "starting") /\ "daemon" \in Faults
          /\ container' = [container EXCEPT ![Target(t)] = "running"]
    /\ lease' = Release(Target(t))
    /\ End(t)
    /\ UNCHANGED <<phase, registry, board, meta, bundle, page>>

(* GET /health answers 200 in time; POST /session/config answers 200. *)
AgentAnswers(t) ==
    /\ task[t].at \in {"polling", "configuring"}
    /\ container[Target(t)] = "running"
    /\ Goto(t, IF At(t, "polling") THEN "configuring" ELSE "booting")
    /\ UNCHANGED <<phase, lease, registry, container, board, meta, bundle, page>>

(* POST /session/boot answers 202: only now is the session listed. *)
BootAccepted(t) ==
    /\ At(t, "booting")
    /\ container[Target(t)] = "running"
    /\ registry' = Add(Target(t))
    /\ End(t)
    /\ UNCHANGED <<phase, lease, container, board, meta, bundle, page>>

(* No health in 30 s, config or boot refused or unreachable: _unwind lists *)
(* the session and runs teardown_session with retain=True.                 *)
Unwind(t) ==
    /\ task[t].at \in {"polling", "configuring", "booting"}
    /\ registry' = Add(Target(t))
    /\ Begin(t, "archiving", Target(t), TRUE)
    /\ UNCHANGED <<phase, lease, container, board, meta, bundle, page>>

(* An error neither the health poll (only TransportError) nor the reading  *)
(* of the boot answer (boot.json() is in no try) catches.                  *)
CreateEscapes(t) ==
    /\ "reply" \in Faults
    /\ task[t].at \in {"polling", "booting"}
    /\ container[Target(t)] = "running"
    /\ End(t)
    /\ UNCHANGED <<phase, lease, registry, container, board, meta, bundle, page>>

-----------------------------------------------------------------------------
(* DELETE /sessions/{id}: delete_session, teardown_session, the launcher.  *)

(* A corpse with retain is left as it is; without, it is purged. *)
DeleteSession(t, s, retain) ==
    /\ "delete" \in Routes
    /\ phase = "serving" /\ At(t, "idle")
    /\ \/ registry[s] = "live" /\ Begin(t, "archiving", s, retain)
       \/ registry[s] \in Corpse /\ ~retain /\ Begin(t, "locating", s, FALSE)
    /\ UNCHANGED <<phase, lease, registry, container, board, meta, bundle, page>>

(* archive_bundle returned or raised; write_meta follows without an await. *)
Archived(t) ==
    /\ At(t, "archiving")
    /\ \E stored \in BOOLEAN :
          bundle' = [bundle EXCEPT ![Target(t)] = @ \/ stored]
    /\ meta' = [meta EXCEPT ![Target(t)] = "fresh"]
    /\ Goto(t, "releasing")
    /\ UNCHANGED <<phase, lease, registry, container, board, page>>

(* write_meta raises OSError, which nothing catches: the request ends. *)
MetaFails(t) ==
    /\ "disk" \in Faults
    /\ At(t, "archiving")
    /\ \E stored \in BOOLEAN, m \in {meta[Target(t)], "none"} :
          /\ bundle' = [bundle EXCEPT ![Target(t)] = @ \/ stored]
          /\ meta' = [meta EXCEPT ![Target(t)] = m]
    /\ End(t)
    /\ UNCHANGED <<phase, lease, registry, container, board, page>>

Defect_DevicesReleased(t) ==
    /\ At(t, "releasing")
    /\ lease' = Release(Target(t))
    /\ Goto(t, "finding")
    /\ UNCHANGED <<phase, registry, container, board, meta, bundle, page>>

Defect2_DevicesReleased(t) ==
    /\ At(t, "releasing")
    /\ container[Target(t)] = "running"
    /\ Goto(t, "finding")
    /\ UNCHANGED <<phase, lease, registry, container, board, meta, bundle, page>>

(* DELETE {agent}/session answered, was refused, or timed out. *)
DevicesReleased(t) ==
    /\ At(t, "releasing")
    /\ Goto(t, "finding")
    /\ UNCHANGED <<phase, lease, registry, container, board, meta, bundle, page>>

(* DockerLauncher.stop looks the container up; an empty list is success. *)
FindToStop(t) ==
    /\ At(t, "finding")
    /\ Goto(t, IF container[Target(t)] = "absent" THEN "stopped" ELSE "stopping")
    /\ UNCHANGED <<phase, lease, registry, container, board, meta, bundle, page>>

(* container.stop; on a container another task removed it raises NotFound. *)
StopContainer(t) ==
    /\ At(t, "stopping")
    /\ IF container[Target(t)] = "absent"
       THEN UNCHANGED container /\ Goto(t, "stop_failed")
       ELSE /\ container' = [container EXCEPT ![Target(t)] =
                                IF @ = "running" THEN "exited" ELSE @]
            /\ Goto(t, IF task[t].retain THEN "stopped" ELSE "removing")
    /\ UNCHANGED <<phase, lease, registry, board, meta, bundle, page>>

RemoveContainer(t) ==
    /\ At(t, "removing")
    /\ container' = [container EXCEPT ![Target(t)] = "absent"]
    /\ Goto(t, IF container[Target(t)] = "absent" THEN "stop_failed" ELSE "stopped")
    /\ UNCHANGED <<phase, lease, registry, board, meta, bundle, page>>

(* Any of the three calls raises; container.stop and container.remove may  *)
(* have taken effect.                                                      *)
DaemonFails(t) ==
    /\ "daemon" \in Faults
    /\ task[t].at \in {"finding", "stopping", "removing"}
    /\ container' \in {container, [container EXCEPT ![Target(t)] =
                           CASE At(t, "stopping") /\ @ = "running" -> "exited"
                             [] At(t, "removing") -> "absent"
                             [] OTHER -> @]}
    /\ Goto(t, "stop_failed")
    /\ UNCHANGED <<phase, lease, registry, board, meta, bundle, page>>

Defect_FinishTeardown(t) ==
    /\ task[t].at \in {"stopped", "stop_failed"}
    /\ lease' = IF At(t, "stopped") THEN Release(Target(t)) ELSE lease
    /\ registry' = IF task[t].retain \/ At(t, "stop_failed")
                   THEN MarkDead(Target(t)) ELSE Remove(Target(t))
    /\ End(t)
    /\ UNCHANGED <<phase, container, board, meta, bundle, page>>

(* The finally block: free the board, keep or forget the session. *)
FinishTeardown(t) ==
    /\ task[t].at \in {"stopped", "stop_failed"}
    /\ lease' = Release(Target(t))
    /\ registry' = IF task[t].retain \/ At(t, "stop_failed")
                   THEN MarkDead(Target(t)) ELSE Remove(Target(t))
    /\ End(t)
    /\ UNCHANGED <<phase, container, board, meta, bundle, page>>

-----------------------------------------------------------------------------
(* DockerLauncher.purge, of a DELETE on a corpse and of the reaper. *)

FindToPurge(t) ==
    /\ At(t, "locating")
    /\ Goto(t, IF container[Target(t)] = "absent" THEN "erased" ELSE "erasing")
    /\ UNCHANGED <<phase, lease, registry, container, board, meta, bundle, page>>

(* container.remove(force=True), which also kills a running container. *)
EraseContainer(t) ==
    /\ At(t, "erasing")
    /\ container[Target(t)] # "absent"
    /\ container' = [container EXCEPT ![Target(t)] = "absent"]
    /\ Goto(t, "erased")
    /\ UNCHANGED <<phase, lease, registry, board, meta, bundle, page>>

(* The container is gone, or the daemon fails: the request ends in a 500,  *)
(* the reaper's pass is abandoned until the next interval.                 *)
PurgeFails(t) ==
    /\ \/ At(t, "erasing") /\ container[Target(t)] = "absent"
       \/ "daemon" \in Faults /\ task[t].at \in {"locating", "erasing"}
    /\ page' = IF t = Reaper THEN {} ELSE page
    /\ End(t)
    /\ UNCHANGED <<phase, lease, registry, container, board, meta, bundle>>

FinishPurge(t) ==
    /\ t \in Handlers /\ At(t, "erased")
    /\ meta' = [meta EXCEPT ![Target(t)] = "none"]
    /\ bundle' = [bundle EXCEPT ![Target(t)] = FALSE]
    /\ registry' = Remove(Target(t))
    /\ End(t)
    /\ UNCHANGED <<phase, lease, container, board, page>>

-----------------------------------------------------------------------------
(* POST .../diagnostics/snapshot and GET .../diagnostics. *)

Snapshot(t, s) ==
    /\ "snapshot" \in Routes
    /\ phase = "serving" /\ At(t, "idle")
    /\ registry[s] # "absent"
    /\ Begin(t, "snapshotting", s, FALSE)
    /\ UNCHANGED <<phase, lease, registry, container, board, meta, bundle, page>>

(* The bundle and a meta.json dated now are written, or a 502 is returned; *)
(* a full disk can leave a bundle and no readable meta.json.               *)
SnapshotTaken(t) ==
    /\ At(t, "snapshotting")
    /\ \/ /\ bundle' = [bundle EXCEPT ![Target(t)] = TRUE]
          /\ meta' = [meta EXCEPT ![Target(t)] = "fresh"]
       \/ /\ "disk" \in Faults
          /\ bundle' = [bundle EXCEPT ![Target(t)] = TRUE]
          /\ meta' \in {meta, [meta EXCEPT ![Target(t)] = "none"]}
       \/ UNCHANGED <<meta, bundle>>
    /\ End(t)
    /\ UNCHANGED <<phase, lease, registry, container, board, page>>

(* The store is read after the agent of a live session did not answer. *)
Diagnostics(t, s) ==
    /\ "diagnostics" \in Routes
    /\ phase = "serving" /\ At(t, "idle")
    /\ \/ registry[s] = "live"
       \/ registry[s] \in Corpse /\ ~bundle[s]
    /\ Begin(t, "collecting", s, FALSE)
    /\ UNCHANGED <<phase, lease, registry, container, board, meta, bundle, page>>

(* Streamed by the agent, served from the archive, or nothing to serve; or *)
(* built now from the launcher, which stores a bundle without a meta.json. *)
DiagnosticsServed(t) ==
    /\ At(t, "collecting")
    /\ \/ UNCHANGED bundle
       \/ bundle' = [bundle EXCEPT ![Target(t)] = TRUE]
    /\ End(t)
    /\ UNCHANGED <<phase, lease, registry, container, board, meta, page>>

-----------------------------------------------------------------------------
(* reap_once: purge a page of corpses one by one, then sweep the store. *)

StartPass ==
    /\ phase = "serving" /\ At(Reaper, "idle")
    /\ page' = {s \in Sessions : registry[s] = "aged"}
    /\ Begin(Reaper, "reaping", None, FALSE)
    /\ UNCHANGED <<phase, lease, registry, container, board, meta, bundle>>

ReapCorpse(s) ==
    /\ At(Reaper, "reaping") /\ s \in page
    /\ page' = page \ {s}
    /\ Begin(Reaper, "locating", s, FALSE)
    /\ UNCHANGED <<phase, lease, registry, container, board, meta, bundle>>

Defect_CorpseReaped ==
    /\ At(Reaper, "erased")
    /\ Begin(Reaper, "reaping", None, FALSE)
    /\ UNCHANGED <<phase, lease, registry, container, board, meta, bundle, page>>

CorpseReaped ==
    /\ At(Reaper, "erased")
    /\ registry' = Remove(Target(Reaper))
    /\ Begin(Reaper, "reaping", None, FALSE)
    /\ UNCHANGED <<phase, lease, container, board, meta, bundle, page>>

(* A live session's entry is never swept, nor one without an ended_at; an  *)
(* aged one is deleted, and some others when the store is over its cap.    *)
SweepStore ==
    /\ At(Reaper, "reaping") /\ page = {}
    /\ \E evicted \in SUBSET {s \in Sessions : meta[s] = "fresh"} :
          LET swept == {s \in Sessions : /\ registry[s] # "live"
                                         /\ meta[s] = "aged" \/ s \in evicted}
          IN  /\ meta' = [s \in Sessions |->
                             IF s \in swept THEN "none" ELSE meta[s]]
              /\ bundle' = [s \in Sessions |-> bundle[s] /\ s \notin swept]
    /\ End(Reaper)
    /\ UNCHANGED <<phase, lease, registry, container, board, page>>

-----------------------------------------------------------------------------
(* The process and its environment. *)

(* A container's main process exits on its own. *)
AgentDies(s) ==
    /\ container[s] = "running"
    /\ container' = [container EXCEPT ![s] = "exited"]
    /\ UNCHANGED <<phase, lease, registry, board, meta, bundle, task, page>>

(* Time passes the TTL of a corpse or of a store entry. *)
CorpseExpires(s) ==
    /\ registry[s] = "dead"
    /\ registry' = [registry EXCEPT ![s] = "aged"]
    /\ UNCHANGED <<phase, lease, container, board, meta, bundle, task, page>>

BundleExpires(s) ==
    /\ meta[s] = "fresh"
    /\ meta' = [meta EXCEPT ![s] = "aged"]
    /\ UNCHANGED <<phase, lease, registry, container, board, bundle, task, page>>

(* The process ends, killed or stopped: every task and both tables are     *)
(* lost, containers and store stay.                                        *)
Crash ==
    /\ phase # "down"
    /\ phase' = "down"
    /\ lease' = [b \in Boards |-> None]
    /\ registry' = [s \in Sessions |-> "absent"]
    /\ task' = [t \in Tasks |-> Idle]
    /\ page' = {}
    /\ UNCHANGED <<container, board, meta, bundle>>

(* lifespan startup, first listing: a container that is not running is a   *)
(* corpse, dated by State.FinishedAt unless it never ran.                  *)
ListedAs(s) ==
    CASE container[s] = "absent"  -> {"absent"}
      [] container[s] = "running" -> {"live"}
      [] container[s] = "created" -> {"undated"}
      [] container[s] = "exited"  -> {"dead", "aged"}

RebuildRegistry ==
    /\ phase = "down"
    /\ phase' = "rebuilding"
    /\ registry' \in {r \in [Sessions -> Listing] :
                         \A s \in Sessions : r[s] \in ListedAs(s)}
    /\ UNCHANGED <<lease, container, board, meta, bundle, task, page>>

(* Second listing: a board goes to the last running container listed. *)
RebuildLease ==
    /\ phase = "rebuilding"
    /\ phase' = "serving"
    /\ lease' \in [Boards -> Sessions \cup {None}]
    /\ \A b \in Boards :
          LET live == {s \in Sessions : container[s] = "running" /\ board[s] = b}
          IN  lease'[b] \in (IF live = {} THEN {None} ELSE live)
    /\ UNCHANGED <<registry, container, board, meta, bundle, task, page>>

-----------------------------------------------------------------------------
Requests(t) ==
    \E s \in Sessions :
       \/ \E b \in Boards : CreateSession(t, s, b)
       \/ \E retain \in BOOLEAN : DeleteSession(t, s, retain)
       \/ Snapshot(t, s)
       \/ Diagnostics(t, s)

CreateSteps(t) ==
    \/ ContainerCreated(t) \/ ContainerStarted(t) \/ StartFails(t)
    \/ AgentAnswers(t) \/ BootAccepted(t) \/ Unwind(t) \/ CreateEscapes(t)

TeardownSteps(t) ==
    \/ Archived(t) \/ MetaFails(t) \/ DevicesReleased(t)
    \/ FindToStop(t) \/ StopContainer(t) \/ RemoveContainer(t)
    \/ DaemonFails(t) \/ FinishTeardown(t)

PurgeSteps(t) ==
    FindToPurge(t) \/ EraseContainer(t) \/ PurgeFails(t) \/ FinishPurge(t)

HandlerSteps(t) ==
    \/ CreateSteps(t) \/ TeardownSteps(t) \/ PurgeSteps(t)
    \/ SnapshotTaken(t) \/ DiagnosticsServed(t)

ReaperSteps ==
    \/ (\E s \in Sessions : ReapCorpse(s)) \/ CorpseReaped \/ SweepStore
    \/ PurgeSteps(Reaper)

Environment ==
    \/ \E s \in Sessions : AgentDies(s) \/ CorpseExpires(s) \/ BundleExpires(s)
    \/ Crash \/ RebuildRegistry \/ RebuildLease

Next ==
    \/ \E t \in Handlers : Requests(t) \/ HandlerSteps(t)
    \/ StartPass \/ ReaperSteps
    \/ Environment

Spec == Init /\ [][Next]_vars

(* The event loop resumes every task whose await is over, and every await  *)
(* is bounded: each HTTP call has a timeout (httpx's default of 5 s, 30 s  *)
(* for the health poll) and the daemon answers; the reaper sleeps a fixed  *)
(* interval between passes, and time passes.  Nothing makes an agent die,  *)
(* a request arrive, or the process crash.                                 *)
Fairness ==
    /\ \A t \in Handlers : WF_vars(HandlerSteps(t))
    /\ WF_vars(StartPass) /\ WF_vars(ReaperSteps)
    /\ \A s \in Sessions : WF_vars(CorpseExpires(s))
    /\ WF_vars(RebuildRegistry \/ RebuildLease)

FairSpec == Spec /\ Fairness

-----------------------------------------------------------------------------
(* Properties *)

(* Two agents never run on one board: the lease is taken before the        *)
(* container starts, kept until launcher.stop returns, and taken back for  *)
(* the containers found running at startup.  Needs a daemon that does not  *)
(* fail: after a failed stop the lease is released all the same.           *)
BoardExclusive ==
    \A s, t \in Sessions :
        container[s] = "running" /\ container[t] = "running" /\ board[s] = board[t]
            => s = t

(* While requests are served, a running agent's session holds the lease of *)
(* its board, whatever requests, crashes and rebuilds came before.         *)
AgentHoldsLease ==
    phase = "serving" =>
        \A s \in Sessions : container[s] = "running" => lease[board[s]] = s

(* A session listed as a corpse has no running container, so purging it    *)
(* destroys no running agent (launcher.purge removes with force=True).     *)
CorpseIsStopped ==
    \A s \in Sessions : registry[s] \in Corpse => container[s] # "running"

(* No board is stranded: whoever holds a lease is either being created, or *)
(* listed as live, where a DELETE can reach it.                            *)
LeaseHasOwner ==
    \A b \in Boards : lease[b] # None =>
        \/ registry[lease[b]] = "live"
        \/ \E t \in Handlers : task[t].at \in Creating /\ Target(t) = lease[b]

(* While the process serves, a corpse never turns live again, and a        *)
(* session that is not listed is never listed as a corpse: two DELETEs and *)
(* a purge of one session, in any order, leave no ghost in the registry.   *)
NoResurrection ==
    [][phase = "serving" =>
          \A s \in Sessions :
             /\ registry[s] \in Corpse => registry'[s] # "live"
             /\ registry[s] = "absent" => registry'[s] \notin Corpse]_vars

(* A teardown that runs to its end, however it ends, leaves its session    *)
(* without a lease.                                                        *)
TeardownFreesBoard ==
    [][\A t \in Handlers :
          task[t].at \in Teardown /\ task'[t].at = "idle" =>
             \A b \in Boards : lease'[b] # Target(t)]_vars

(* A session being torn down gives its board back, unless the process      *)
(* stops first.                                                            *)
BoardReturns ==
    \A s \in Sessions :
        (\E t \in Handlers : task[t].at \in Teardown /\ Target(t) = s)
            ~> (phase # "serving" \/ \A b \in Boards : lease[b] # s)

(* A corpse with a timestamp is not kept for ever: some pass of the reaper *)
(* (or a DELETE) purges it, though a purge racing with another one fails.  *)
CorpseIsReaped ==
    \A s \in Sessions :
        registry[s] \in {"dead", "aged"} ~> registry[s] = "absent"

-----------------------------------------------------------------------------
(* A board is in use by the session that leases it and by those whose      *)
(* container runs on it; a crash loses the leases but not the containers.  *)
Users == [b \in Boards |->
             {s \in Sessions : board[s] = b /\ (container[s] = "running"
                                                  \/ lease[b] = s)}]
Spent == {s \in Sessions : board[s] # None} \ UNION {Users[b] : b \in Boards}

Use == INSTANCE ExclusiveUse WITH users <- Users, spent <- Spent

(* The control plane implements ExclusiveUse: no request, crash or rebuild *)
(* gives a board in use to a second session, or back to a session that     *)
(* ended.                                                                  *)
ImplementsExclusiveUse == Use!Spec

-----------------------------------------------------------------------------
(* Why BoardExclusive holds: the inductive invariant. *)

(* Outside "serving" there are no tasks and no leases. *)
QuietWhenDown ==
    phase # "serving" => /\ \A t \in Tasks : task[t] = Idle
                         /\ \A b \in Boards : lease[b] = None
                         /\ page = {}

(* A session that was never created left no trace but in the store. *)
FreshIsUntouched ==
    \A s \in Sessions : board[s] = None =>
        /\ registry[s] = "absent" /\ container[s] = "absent" /\ s \notin page
        /\ \A t \in Tasks : Target(t) # s

LeaseMatchesBoard ==
    \A b \in Boards : lease[b] # None => board[lease[b]] = b

TaskHasTarget ==
    \A t \in Tasks : ~(task[t].at \in {"idle", "reaping"}) => Target(t) \in Sessions

(* A session being created belongs to its one handler, which holds the     *)
(* lease; nobody else can have seen the session yet.                       *)
CreateOwnsSession ==
    \A t \in Tasks : task[t].at \in Creating =>
        LET s == Target(t) IN
        /\ lease[board[s]] = s
        /\ registry[s] = "absent" /\ s \notin page
        /\ \A u \in Tasks : Target(u) = s => u = t
        /\ At(t, "creating") => container[s] = "absent"
        /\ At(t, "starting") => container[s] = "created"

(* Once container.stop returned, the container does not run. *)
StopIsFinal ==
    \A t \in Tasks : task[t].at \in {"removing", "stopped", "stop_failed"} =>
        container[Target(t)] # "running"

(* All of it, with the three properties it is for: the invariant of every  *)
(* step that TLAPS checks.                                                 *)
IndInv ==
    /\ TypeOK
    /\ QuietWhenDown /\ FreshIsUntouched /\ LeaseMatchesBoard /\ TaskHasTarget
    /\ CreateOwnsSession /\ StopIsFinal
    /\ AgentHoldsLease /\ BoardExclusive /\ CorpseIsStopped
=============================================================================
