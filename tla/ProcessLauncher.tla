--------------------------- MODULE ProcessLauncher ---------------------------
(***************************************************************************)
(* ProcessLauncher (src/boardfarm3_control/launcher.py): agents as local   *)
(* subprocesses.  What the control plane knows of them is lost when it     *)
(* ends; a state file names their pids, and the next incarnation kills     *)
(* what the file names before it serves.  The operating system gives a pid *)
(* that is free to whatever process comes next.                            *)
(***************************************************************************)
EXTENDS Naturals

CONSTANTS
    Agents,     \* session identifiers, each started at most once
    Pids,
    Callers,    \* the tasks of the control plane that call the launcher
    Foreign,    \* any process that is not an agent
    NoPid, NoAgent

ASSUME PidAssumption == NoPid \notin Pids
ASSUME AgentAssumption == NoAgent \notin Agents /\ Foreign \notin Agents /\ Foreign # NoAgent

VARIABLES
    plane,      \* of the control plane: "down", "cleaning" or "serving"
    process,    \* the agent or foreign process that runs under each pid
    begun,      \* the sessions that start was called for
    entry,      \* _sessions: the state of each entry, and its pid
    saved,      \* the state file: the pid it names for each session
    call,       \* where each caller stands, with which session and pid
    victims,    \* the pids _cleanup_orphans has still to look at
    adrift      \* agents that ran at a crash and that the file did not name

launcherVars == <<plane, process, begun, entry, saved, call, victims, adrift>>

NoEntry == [state |-> "absent", pid |-> NoPid]
NoCall == [at |-> "idle", on |-> NoAgent, pid |-> NoPid]

LauncherTypeOK ==
    /\ plane \in {"down", "cleaning", "serving"}
    /\ process \in [Pids -> Agents \cup {Foreign, NoAgent}]
    /\ begun \subseteq Agents
    /\ entry \in [Agents -> [state : {"absent", "live", "dead"}, pid : Pids \cup {NoPid}]]
    /\ saved \in [Agents -> Pids \cup {NoPid}]
    /\ call \in [Callers -> [at : {"idle", "spawning", "spawned", "stopping", "retaining"},
                             on : Agents \cup {NoAgent}, pid : Pids \cup {NoPid}]]
    /\ victims \subseteq Pids /\ adrift \subseteq Agents

LauncherInit ==
    /\ plane = "serving"
    /\ process = [p \in Pids |-> NoAgent]
    /\ begun = {} /\ adrift = {} /\ victims = {}
    /\ entry = [s \in Agents |-> NoEntry]
    /\ saved = [s \in Agents |-> NoPid]
    /\ call = [c \in Callers |-> NoCall]

-----------------------------------------------------------------------------
Calls(c, place, s, p) == call' = [call EXCEPT ![c] = [at |-> place, on |-> s, pid |-> p]]
Returns(c) == call' = [call EXCEPT ![c] = NoCall]
Runs(s, p) == p # NoPid /\ process[p] = s

(* _save_state: the whole table replaces the file at once. *)
SaveState(table) == saved' = [s \in Agents |-> table[s].pid]

(* start up to the creation of the subprocess. *)
StartAgent(c, s) ==
    /\ plane = "serving" /\ call[c].at = "idle"
    /\ s \notin begun
    /\ begun' = begun \cup {s}
    /\ Calls(c, "spawning", s, NoPid)
    /\ UNCHANGED <<plane, process, entry, saved, victims, adrift>>

Spawn(c, p) ==
    /\ call[c].at = "spawning"
    /\ process[p] = NoAgent
    /\ process' = [process EXCEPT ![p] = call[c].on]
    /\ Calls(c, "spawned", call[c].on, p)
    /\ UNCHANGED <<plane, begun, entry, saved, victims, adrift>>

AgentStarted(c) ==
    /\ call[c].at = "spawned"
    /\ entry' = [entry EXCEPT ![call[c].on] = [state |-> "live", pid |-> call[c].pid]]
    /\ SaveState(entry')
    /\ Returns(c)
    /\ UNCHANGED <<plane, process, begun, victims, adrift>>

(* stop up to the wait for the process; terminate raises for a process     *)
(* that exited, after the entry was popped and before anything is saved.   *)
StopAgent(c, s, remove) ==
    /\ plane = "serving" /\ call[c].at = "idle"
    /\ entry[s].state # "absent"
    /\ entry' = IF remove THEN [entry EXCEPT ![s] = NoEntry] ELSE entry
    /\ IF Runs(s, entry[s].pid)
       THEN Calls(c, IF remove THEN "stopping" ELSE "retaining", s, entry[s].pid)
       ELSE UNCHANGED call
    /\ UNCHANGED <<plane, process, begun, saved, victims, adrift>>

(* It exits on SIGTERM, or 5 s later on SIGKILL. *)
AgentStopped(c) ==
    /\ call[c].at \in {"stopping", "retaining"}
    /\ process' = [process EXCEPT ![call[c].pid] = IF @ = call[c].on THEN NoAgent ELSE @]
    /\ entry' = IF call[c].at = "retaining"
                THEN [entry EXCEPT ![call[c].on] = [state |-> "dead", pid |-> call[c].pid]]
                ELSE entry
    /\ SaveState(entry')
    /\ Returns(c)
    /\ UNCHANGED <<plane, begun, victims, adrift>>

(* The registry lets a caller purge only what is dead. *)
PurgeAgent(s) ==
    /\ plane = "serving"
    /\ entry[s].state = "dead"
    /\ entry' = [entry EXCEPT ![s] = NoEntry]
    /\ SaveState(entry')
    /\ UNCHANGED <<plane, process, begun, call, victims, adrift>>

-----------------------------------------------------------------------------
(* Processes come and go. *)
ProcessExits(p) ==
    /\ process[p] # NoAgent
    /\ process' = [process EXCEPT ![p] = NoAgent]
    /\ UNCHANGED <<plane, begun, entry, saved, call, victims, adrift>>

ForeignStarts(p) ==
    /\ process[p] = NoAgent
    /\ process' = [process EXCEPT ![p] = Foreign]
    /\ UNCHANGED <<plane, begun, entry, saved, call, victims, adrift>>

-----------------------------------------------------------------------------
(* The control plane ends; its subprocesses do not. *)
PlaneCrashes ==
    /\ plane # "down"
    /\ plane' = "down"
    /\ adrift' = {s \in Agents : \E p \in Pids : process[p] = s /\ saved[s] # p}
    /\ entry' = [s \in Agents |-> NoEntry]
    /\ call' = [c \in Callers |-> NoCall]
    /\ victims' = {}
    /\ UNCHANGED <<process, begun, saved>>

(* The first list_sessions reads the file. *)
CleanupBegins ==
    /\ plane = "down"
    /\ plane' = "cleaning"
    /\ victims' = {saved[s] : s \in Agents} \ {NoPid}
    /\ UNCHANGED <<process, begun, entry, saved, call, adrift>>

Defect_KillOrphan(p) ==
    /\ plane = "cleaning" /\ p \in victims
    /\ victims' = victims \ {p}
    /\ \/ process' = [process EXCEPT ![p] = NoAgent]
       \/ UNCHANGED process
    /\ UNCHANGED <<plane, begun, entry, saved, call, adrift>>

(* Probe, SIGTERM, SIGKILL after 5 s.  A process of another user cannot be *)
(* probed and is passed over.                                              *)
KillOrphan(p) ==
    /\ plane = "cleaning" /\ p \in victims
    /\ victims' = victims \ {p}
    /\ \/ process' = [process EXCEPT ![p] = NoAgent]
       \/ process[p] = Foreign /\ UNCHANGED process
    /\ UNCHANGED <<plane, begun, entry, saved, call, adrift>>

CleanupEnds ==
    /\ plane = "cleaning" /\ victims = {}
    /\ plane' = "serving"
    /\ SaveState(entry)
    /\ UNCHANGED <<process, begun, entry, call, victims, adrift>>

-----------------------------------------------------------------------------
Recovery == CleanupBegins \/ (\E p \in Pids : KillOrphan(p)) \/ CleanupEnds

LauncherNext ==
    \/ \E c \in Callers :
          \/ \E s \in Agents : StartAgent(c, s) \/ (\E r \in BOOLEAN : StopAgent(c, s, r))
          \/ \E p \in Pids : Spawn(c, p)
          \/ AgentStarted(c) \/ AgentStopped(c)
    \/ \E s \in Agents : PurgeAgent(s)
    \/ \E p \in Pids : ProcessExits(p) \/ ForeignStarts(p)
    \/ PlaneCrashes \/ Recovery

LauncherSpec == LauncherInit /\ [][LauncherNext]_launcherVars

-----------------------------------------------------------------------------
(* Properties *)

InFlightCall(s, p) == \E c \in Callers : call[c].on = s /\ call[c].pid = p

(* Whatever agent runs while the control plane serves can be found again   *)
(* after a crash: the file names its pid, unless a start has not come to   *)
(* write it, a stop has already forgotten it, or an earlier crash lost it. *)
AgentsAreRecorded ==
    plane = "serving" =>
        \A p \in Pids : process[p] \in Agents =>
            \/ saved[process[p]] = p
            \/ InFlightCall(process[p], p)
            \/ process[p] \in adrift

(* Once cleaned up, the control plane knows every agent that runs, but for *)
(* those the file did not name when it crashed.                            *)
NoStrayAgents ==
    plane = "serving" =>
        \A p \in Pids : process[p] \in Agents =>
            \/ entry[process[p]] = [state |-> "live", pid |-> p]
            \/ InFlightCall(process[p], p)
            \/ process[p] \in adrift

(* A retained corpse has no process, however many stops of it overlap.     *)
CorpseHasNoProcess ==
    \A s \in Agents : entry[s].state = "dead" => ~ \E p \in Pids : process[p] = s

(* Every agent process is accounted for, through crashes, overlapping      *)
(* stops and pids that are used again: in the file, in the table, or by    *)
(* the call that is about to write them.                                   *)
AgentsAccounted == AgentsAreRecorded /\ NoStrayAgents /\ CorpseHasNoProcess
=============================================================================
