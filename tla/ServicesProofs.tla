----------------------------- MODULE ServicesProofs -----------------------------
(***************************************************************************)
(* Theorems about the parts that MCServices puts side by side: the process *)
(* launcher for every set of sessions, pids and callers, under crashes,    *)
(* foreign processes and pids that are used again; the event buffer for    *)
(* every length, limit and number of events; the sweep of the diagnostics  *)
(* store for every number of sessions and sizes; and the types of all four *)
(***************************************************************************)
EXTENDS MCServices, SequenceTheorems, FiniteSetTheorems, WellFoundedInduction, TLAPS

(***************************************************************************)
(* The process launcher (ProcessLauncher): what holds in its states        *)
(***************************************************************************)

(* The process of s, if it has one, is under pid p. *)
OnlyUnder(s, p) == \A q \in Pids : process[q] = s => q = p
NoProcess(s) == \A q \in Pids : process[q] # s

(* An identifier start was not called for has left no trace. *)
UnbegunIsUnknown ==
    \A s \in Agents : s \notin begun =>
        /\ NoProcess(s)
        /\ entry[s] = NoEntry
        /\ \A c \in Callers : call[c].on # s

(* The call that starts an agent is alone with it, and there is one        *)
(* process at most, the one it spawned.                                    *)
StartsAlone ==
    \A c \in Callers : call[c].at \in {"spawning", "spawned"} =>
        /\ call[c].on \in Agents
        /\ entry[call[c].on] = NoEntry
        /\ call[c].at = "spawning" => NoProcess(call[c].on)
        /\ \A b \in Callers : call[b].on = call[c].on => b = c

(* A call that is about to write a pid holds the only one the agent has. *)
CallsKnowThePid ==
    \A c \in Callers :
        /\ call[c].at = "idle" => call[c] = NoCall
        /\ call[c].at \in {"spawned", "stopping", "retaining"} =>
              call[c].on \in Agents /\ OnlyUnder(call[c].on, call[c].pid)

EntriesKnowThePid ==
    \A s \in Agents :
        /\ entry[s].state = "live" => OnlyUnder(s, entry[s].pid)
        /\ entry[s].state = "dead" => NoProcess(s)

(* While the plane does not serve it knows nothing but its file, and what  *)
(* runs is in the file or lost; what is in the file is still to be killed. *)
FileIsEnough ==
    plane # "serving" =>
        /\ \A s \in Agents : entry[s] = NoEntry
        /\ \A c \in Callers : call[c] = NoCall
        /\ \A p \in Pids : process[p] \in Agents \ adrift =>
              saved[process[p]] = p /\ (plane = "cleaning" => p \in victims)

LauncherInv ==
    /\ LauncherTypeOK
    /\ UnbegunIsUnknown /\ StartsAlone /\ CallsKnowThePid /\ EntriesKnowThePid
    /\ FileIsEnough
    /\ AgentsAccounted

(***************************************************************************)
(* Steps: one lemma for each action                                        *)
(***************************************************************************)

(* A start takes an identifier nobody used.                                *)
LEMMA StartAgentKeeps ==
    ASSUME LauncherInv, NEW c \in Callers, NEW s \in Agents, StartAgent(c, s)
    PROVE  LauncherInv'
<1>1. LauncherTypeOK'
  BY DEF LauncherInv, LauncherTypeOK, StartAgent, Calls
<1>2. UnbegunIsUnknown'
  BY DEF LauncherInv, LauncherTypeOK, UnbegunIsUnknown, NoProcess, StartAgent,
      Calls
<1>3. StartsAlone'
  BY DEF LauncherInv, LauncherTypeOK, StartsAlone, UnbegunIsUnknown, NoProcess,
      StartAgent, Calls
<1>4. CallsKnowThePid'
  BY DEF LauncherInv, LauncherTypeOK, CallsKnowThePid, OnlyUnder, StartAgent,
      Calls
<1>5. EntriesKnowThePid'
  BY DEF LauncherInv, LauncherTypeOK, EntriesKnowThePid, OnlyUnder, NoProcess,
      StartAgent, Calls
<1>6. FileIsEnough'
  BY DEF LauncherInv, LauncherTypeOK, FileIsEnough, StartAgent, Calls
<1>7. NoStrayAgents'
  BY AgentAssumption DEF LauncherInv, LauncherTypeOK, NoStrayAgents,
      CallsKnowThePid, AgentsAccounted, NoCall, InFlightCall, StartAgent, Calls
<1>8. AgentsAreRecorded'
  BY AgentAssumption DEF LauncherInv, LauncherTypeOK, AgentsAreRecorded,
      CallsKnowThePid, NoStrayAgents, AgentsAccounted, NoCall, InFlightCall,
      StartAgent, Calls
<1>9. CorpseHasNoProcess'
  BY <1>5 DEF EntriesKnowThePid, NoProcess, CorpseHasNoProcess
<1> QED
  BY <1>1, <1>2, <1>3, <1>4, <1>5, <1>6, <1>7, <1>8, <1>9 DEF LauncherInv,
      AgentsAccounted

(* The pid was free, and the agent had no process.                         *)
LEMMA SpawnKeeps ==
    ASSUME LauncherInv, NEW c \in Callers, NEW p \in Pids, Spawn(c, p)
    PROVE  LauncherInv'
<1>1. LauncherTypeOK'
  BY DEF LauncherInv, LauncherTypeOK, Spawn, Calls
<1>2. UnbegunIsUnknown'
  BY DEF LauncherInv, LauncherTypeOK, UnbegunIsUnknown, NoProcess, Spawn, Calls
<1>3. StartsAlone'
  BY DEF LauncherInv, LauncherTypeOK, StartsAlone, NoProcess, Spawn, Calls
<1>4. CallsKnowThePid'
  BY DEF LauncherInv, LauncherTypeOK, CallsKnowThePid, StartsAlone, OnlyUnder,
      NoProcess, Spawn, Calls
<1>5. EntriesKnowThePid'
  BY DEF LauncherInv, LauncherTypeOK, EntriesKnowThePid, StartsAlone, OnlyUnder,
      NoProcess, NoEntry, Spawn, Calls
<1>6. FileIsEnough'
  BY DEF LauncherInv, LauncherTypeOK, FileIsEnough, NoCall, Spawn, Calls
<1>7. NoStrayAgents'
  BY DEF LauncherInv, LauncherTypeOK, NoStrayAgents, StartsAlone, FileIsEnough,
      AgentsAccounted, NoProcess, InFlightCall, Spawn, Calls
<1>8. AgentsAreRecorded'
  BY DEF LauncherInv, LauncherTypeOK, AgentsAreRecorded, StartsAlone,
      NoStrayAgents, AgentsAccounted, NoProcess, InFlightCall, Spawn, Calls
<1>9. CorpseHasNoProcess'
  BY <1>5 DEF EntriesKnowThePid, NoProcess, CorpseHasNoProcess
<1> QED
  BY <1>1, <1>2, <1>3, <1>4, <1>5, <1>6, <1>7, <1>8, <1>9 DEF LauncherInv,
      AgentsAccounted

(* From here on the table knows the pid, and the file with it.             *)
LEMMA AgentStartedKeeps ==
    ASSUME LauncherInv, NEW c \in Callers, AgentStarted(c)
    PROVE  LauncherInv'
<1>1. LauncherTypeOK'
  BY DEF LauncherInv, LauncherTypeOK, NoCall, AgentStarted, SaveState, Returns
<1>2. UnbegunIsUnknown'
  BY AgentAssumption DEF LauncherInv, LauncherTypeOK, UnbegunIsUnknown,
      NoProcess, NoCall, AgentStarted, SaveState, Returns
<1>3. StartsAlone'
  BY AgentAssumption DEF LauncherInv, LauncherTypeOK, StartsAlone, NoProcess,
      NoCall, AgentStarted, SaveState, Returns
<1>4. CallsKnowThePid'
  BY DEF LauncherInv, LauncherTypeOK, CallsKnowThePid, OnlyUnder, NoCall,
      AgentStarted, SaveState, Returns
<1>5. EntriesKnowThePid'
  BY DEF LauncherInv, LauncherTypeOK, EntriesKnowThePid, CallsKnowThePid,
      OnlyUnder, NoProcess, AgentStarted, SaveState, Returns
<1>6. FileIsEnough'
  BY DEF LauncherInv, LauncherTypeOK, FileIsEnough, NoCall, AgentStarted,
      SaveState, Returns
<1>7. NoStrayAgents'
  BY DEF LauncherInv, LauncherTypeOK, NoStrayAgents, CallsKnowThePid,
      AgentsAccounted, OnlyUnder, InFlightCall, AgentStarted, SaveState, Returns
<1>8. AgentsAreRecorded'
  <2>1. \A s \in Agents : saved'[s] = entry'[s].pid
    BY DEF AgentStarted, SaveState
  <2> QED
    BY <1>1, <1>7, <2>1 DEF LauncherTypeOK, NoStrayAgents, AgentsAreRecorded
<1>9. CorpseHasNoProcess'
  BY <1>5 DEF EntriesKnowThePid, NoProcess, CorpseHasNoProcess
<1> QED
  BY <1>1, <1>2, <1>3, <1>4, <1>5, <1>6, <1>7, <1>8, <1>9 DEF LauncherInv,
      AgentsAccounted

(* The pid the entry loses goes into the call, unless nothing runs under it. *)
LEMMA StopAgentKeeps ==
    ASSUME LauncherInv, NEW c \in Callers, NEW s \in Agents, NEW r \in BOOLEAN,
           StopAgent(c, s, r)
    PROVE  LauncherInv'
<1>1. /\ plane = "serving" /\ call[c] = NoCall /\ entry[s].state # "absent"
      /\ UNCHANGED <<plane, process, begun, saved, victims, adrift>>
  BY DEF LauncherInv, CallsKnowThePid, StopAgent, NoEntry
<1>2. entry' = entry \/ entry' = [entry EXCEPT ![s] = NoEntry]
  BY DEF StopAgent
<1>3. \/ UNCHANGED call /\ ~Runs(s, entry[s].pid)
      \/ \E place \in {"stopping", "retaining"} :
            /\ Runs(s, entry[s].pid)
            /\ call' = [call EXCEPT ![c] = [at |-> place, on |-> s, pid |-> entry[s].pid]]
  BY DEF StopAgent, Calls
<1>4. Runs(s, entry[s].pid) => entry[s].pid \in Pids /\ OnlyUnder(s, entry[s].pid)
  BY <1>1 DEF LauncherInv, LauncherTypeOK, EntriesKnowThePid, Runs, NoProcess
<1>5. s \in begun /\ \A b \in Callers : call[b].at \in {"spawning", "spawned"} => call[b].on # s
  BY <1>1 DEF LauncherInv, UnbegunIsUnknown, StartsAlone, NoEntry
<1>6. \A b \in Callers : \/ call'[b] = call[b]
                           \/ /\ b = c /\ Runs(s, entry[s].pid)
                              /\ call'[b].at \in {"stopping", "retaining"}
                              /\ call'[b].on = s /\ call'[b].pid = entry[s].pid
  BY <1>3 DEF LauncherInv, LauncherTypeOK
<1>7. LauncherTypeOK'
  BY <1>1, <1>2, <1>3, <1>4 DEF LauncherInv, LauncherTypeOK, NoEntry
<1>8. UnbegunIsUnknown'
  BY <1>1, <1>2, <1>5, <1>6 DEF LauncherInv, LauncherTypeOK, UnbegunIsUnknown, NoProcess
<1>9. StartsAlone'
  BY <1>1, <1>2, <1>5, <1>6 DEF LauncherInv, LauncherTypeOK, StartsAlone, NoProcess
<1>10. CallsKnowThePid'
  BY <1>1, <1>4, <1>6 DEF LauncherInv, CallsKnowThePid, OnlyUnder, NoCall
<1>11. EntriesKnowThePid'
  BY <1>1, <1>2 DEF LauncherInv, LauncherTypeOK, EntriesKnowThePid, OnlyUnder, NoProcess, NoEntry
<1>12. FileIsEnough'
  BY <1>1 DEF FileIsEnough
<1>13. \A p \in Pids : process[p] \in Agents /\ InFlightCall(process[p], p)
           => InFlightCall(process[p], p)'
  BY <1>1, <1>6, AgentAssumption DEF InFlightCall, NoCall
<1>14. AgentsAreRecorded'
  BY <1>1, <1>13 DEF LauncherInv, AgentsAccounted, AgentsAreRecorded
<1>15. NoStrayAgents'
  <2>. SUFFICES ASSUME NEW p \in Pids, process[p] \in Agents
                PROVE  \/ entry'[process[p]] = [state |-> "live", pid |-> p]
                       \/ InFlightCall(process[p], p)'
                       \/ process[p] \in adrift
    BY <1>1 DEF NoStrayAgents
  <2>1. \/ entry[process[p]] = [state |-> "live", pid |-> p]
        \/ InFlightCall(process[p], p)
        \/ process[p] \in adrift
    BY <1>1 DEF LauncherInv, AgentsAccounted, NoStrayAgents
  <2>2. InFlightCall(process[p], p) => InFlightCall(process[p], p)'
    BY <1>13
  <2>3. CASE process[p] = s /\ entry[s] = [state |-> "live", pid |-> p]
    <3>1. Runs(s, entry[s].pid)
      BY <2>3, PidAssumption DEF Runs
    <3>2. InFlightCall(s, p)'
      BY <1>3, <2>3, <3>1 DEF InFlightCall, LauncherInv, LauncherTypeOK, Runs
    <3> QED
      BY <1>1, <2>3, <3>2
  <2>4. CASE process[p] # s /\ entry[process[p]] = [state |-> "live", pid |-> p]
    BY <1>2, <2>4 DEF LauncherInv, LauncherTypeOK
  <2> QED
    BY <2>1, <2>2, <2>3, <2>4
<1>16. CorpseHasNoProcess'
  BY <1>11 DEF EntriesKnowThePid, NoProcess, CorpseHasNoProcess
<1> QED
  BY <1>7, <1>8, <1>9, <1>10, <1>11, <1>12, <1>14, <1>15, <1>16 DEF LauncherInv, AgentsAccounted

(* Only the process of the call's own agent ends, the one under its pid.   *)
LEMMA AgentStoppedKeepsNoStrayAgents ==
    ASSUME LauncherInv, NEW c \in Callers, AgentStopped(c)
    PROVE  NoStrayAgents'
<1>. SUFFICES ASSUME NEW p \in Pids, plane = "serving", process'[p] \in Agents
              PROVE  \/ entry'[process'[p]] = [state |-> "live", pid |-> p]
                     \/ InFlightCall(process[p], p)'
                     \/ process'[p] \in adrift
  BY DEF NoStrayAgents, AgentStopped
<1>1. process'[p] = process[p] /\ ~ (p = call[c].pid /\ process[p] = call[c].on)
  BY AgentAssumption DEF AgentStopped, LauncherInv, LauncherTypeOK
<1>2. process[p] # call[c].on
  BY <1>1 DEF AgentStopped, LauncherInv, CallsKnowThePid, OnlyUnder
<1>3. \/ entry[process[p]] = [state |-> "live", pid |-> p]
      \/ InFlightCall(process[p], p)
      \/ process[p] \in adrift
  BY <1>1 DEF LauncherInv, AgentsAccounted, NoStrayAgents
<1>4. entry'[process[p]] = entry[process[p]]
  BY <1>1, <1>2 DEF AgentStopped, LauncherInv, LauncherTypeOK
<1>5. InFlightCall(process[p], p) => InFlightCall(process[p], p)'
  BY <1>1, <1>2 DEF AgentStopped, Returns, InFlightCall, LauncherInv, LauncherTypeOK
<1> QED
  BY <1>1, <1>3, <1>4, <1>5

(* Whatever else the call forgets has no process any more.                 *)
LEMMA AgentStoppedKeeps ==
    ASSUME LauncherInv, NEW c \in Callers, AgentStopped(c)
    PROVE  LauncherInv'
<1>1. LauncherTypeOK'
  BY DEF LauncherInv, LauncherTypeOK, NoCall, AgentStopped, SaveState, Returns
<1>2. UnbegunIsUnknown'
  BY AgentAssumption DEF LauncherInv, LauncherTypeOK, UnbegunIsUnknown,
      NoProcess, NoCall, AgentStopped, SaveState, Returns
<1>3. StartsAlone'
  BY AgentAssumption DEF LauncherInv, LauncherTypeOK, StartsAlone, NoProcess,
      NoCall, AgentStopped, SaveState, Returns
<1>4. CallsKnowThePid'
  BY AgentAssumption DEF LauncherInv, LauncherTypeOK, CallsKnowThePid,
      OnlyUnder, NoCall, AgentStopped, SaveState, Returns
<1>5. EntriesKnowThePid'
  BY AgentAssumption DEF LauncherInv, LauncherTypeOK, EntriesKnowThePid,
      CallsKnowThePid, OnlyUnder, NoProcess, AgentStopped, SaveState, Returns
<1>6. FileIsEnough'
  BY DEF LauncherInv, LauncherTypeOK, FileIsEnough, NoCall, AgentStopped,
      SaveState, Returns
<1>7. NoStrayAgents'
  BY AgentStoppedKeepsNoStrayAgents
<1>8. AgentsAreRecorded'
  <2>1. \A s \in Agents : saved'[s] = entry'[s].pid
    BY DEF AgentStopped, SaveState
  <2> QED
    BY <1>1, <1>7, <2>1 DEF LauncherTypeOK, NoStrayAgents, AgentsAreRecorded
<1>9. CorpseHasNoProcess'
  BY <1>5 DEF EntriesKnowThePid, NoProcess, CorpseHasNoProcess
<1> QED
  BY <1>1, <1>2, <1>3, <1>4, <1>5, <1>6, <1>7, <1>8, <1>9 DEF LauncherInv,
      AgentsAccounted

(* What is dead has no process.                                            *)
LEMMA PurgeAgentKeeps ==
    ASSUME LauncherInv, NEW s \in Agents, PurgeAgent(s)
    PROVE  LauncherInv'
<1>1. LauncherTypeOK'
  BY DEF LauncherInv, LauncherTypeOK, NoEntry, PurgeAgent, SaveState
<1>2. UnbegunIsUnknown'
  BY DEF LauncherInv, LauncherTypeOK, UnbegunIsUnknown, NoProcess, PurgeAgent,
      SaveState
<1>3. StartsAlone'
  BY DEF LauncherInv, LauncherTypeOK, StartsAlone, NoProcess, PurgeAgent,
      SaveState
<1>4. CallsKnowThePid'
  BY DEF LauncherInv, LauncherTypeOK, CallsKnowThePid, OnlyUnder, PurgeAgent,
      SaveState
<1>5. EntriesKnowThePid'
  BY DEF LauncherInv, LauncherTypeOK, EntriesKnowThePid, OnlyUnder, NoProcess,
      PurgeAgent, SaveState
<1>6. FileIsEnough'
  BY DEF LauncherInv, LauncherTypeOK, FileIsEnough, PurgeAgent, SaveState
<1>7. NoStrayAgents'
  BY DEF LauncherInv, LauncherTypeOK, NoStrayAgents, AgentsAccounted,
      InFlightCall, PurgeAgent, SaveState
<1>8. AgentsAreRecorded'
  <2>1. \A a \in Agents : saved'[a] = entry'[a].pid
    BY DEF PurgeAgent, SaveState
  <2> QED
    BY <1>1, <1>7, <2>1 DEF LauncherTypeOK, NoStrayAgents, AgentsAreRecorded
<1>9. CorpseHasNoProcess'
  BY <1>5 DEF EntriesKnowThePid, NoProcess, CorpseHasNoProcess
<1> QED
  BY <1>1, <1>2, <1>3, <1>4, <1>5, <1>6, <1>7, <1>8, <1>9 DEF LauncherInv,
      AgentsAccounted

(* A process that ends leaves nothing to account for.                      *)
LEMMA ProcessExitsKeeps ==
    ASSUME LauncherInv, NEW p \in Pids, ProcessExits(p)
    PROVE  LauncherInv'
<1>1. LauncherTypeOK'
  BY DEF LauncherInv, LauncherTypeOK, ProcessExits
<1>2. UnbegunIsUnknown'
  BY AgentAssumption DEF LauncherInv, LauncherTypeOK, UnbegunIsUnknown,
      NoProcess, ProcessExits
<1>3. StartsAlone'
  BY AgentAssumption DEF LauncherInv, LauncherTypeOK, StartsAlone, NoProcess,
      ProcessExits
<1>4. CallsKnowThePid'
  BY AgentAssumption DEF LauncherInv, LauncherTypeOK, CallsKnowThePid,
      OnlyUnder, ProcessExits
<1>5. EntriesKnowThePid'
  BY AgentAssumption DEF LauncherInv, LauncherTypeOK, EntriesKnowThePid,
      OnlyUnder, NoProcess, ProcessExits
<1>6. FileIsEnough'
  BY AgentAssumption DEF LauncherInv, LauncherTypeOK, FileIsEnough, ProcessExits
<1>7. NoStrayAgents'
  BY AgentAssumption DEF LauncherInv, LauncherTypeOK, NoStrayAgents,
      AgentsAccounted, InFlightCall, ProcessExits
<1>8. AgentsAreRecorded'
  BY AgentAssumption DEF LauncherInv, LauncherTypeOK, AgentsAreRecorded,
      NoStrayAgents, AgentsAccounted, InFlightCall, ProcessExits
<1>9. CorpseHasNoProcess'
  BY <1>5 DEF EntriesKnowThePid, NoProcess, CorpseHasNoProcess
<1> QED
  BY <1>1, <1>2, <1>3, <1>4, <1>5, <1>6, <1>7, <1>8, <1>9 DEF LauncherInv,
      AgentsAccounted

(* A foreign process is not an agent, and takes only a free pid.           *)
LEMMA ForeignStartsKeeps ==
    ASSUME LauncherInv, NEW p \in Pids, ForeignStarts(p)
    PROVE  LauncherInv'
<1>1. LauncherTypeOK'
  BY DEF LauncherInv, LauncherTypeOK, ForeignStarts
<1>2. UnbegunIsUnknown'
  BY AgentAssumption DEF LauncherInv, LauncherTypeOK, UnbegunIsUnknown,
      NoProcess, ForeignStarts
<1>3. StartsAlone'
  BY AgentAssumption DEF LauncherInv, LauncherTypeOK, StartsAlone, NoProcess,
      ForeignStarts
<1>4. CallsKnowThePid'
  BY AgentAssumption DEF LauncherInv, LauncherTypeOK, CallsKnowThePid,
      OnlyUnder, ForeignStarts
<1>5. EntriesKnowThePid'
  BY AgentAssumption DEF LauncherInv, LauncherTypeOK, EntriesKnowThePid,
      OnlyUnder, NoProcess, ForeignStarts
<1>6. FileIsEnough'
  BY AgentAssumption DEF LauncherInv, LauncherTypeOK, FileIsEnough,
      ForeignStarts
<1>7. NoStrayAgents'
  BY AgentAssumption DEF LauncherInv, LauncherTypeOK, NoStrayAgents,
      AgentsAccounted, InFlightCall, ForeignStarts
<1>8. AgentsAreRecorded'
  BY AgentAssumption DEF LauncherInv, LauncherTypeOK, AgentsAreRecorded,
      NoStrayAgents, AgentsAccounted, InFlightCall, ForeignStarts
<1>9. CorpseHasNoProcess'
  BY <1>5 DEF EntriesKnowThePid, NoProcess, CorpseHasNoProcess
<1> QED
  BY <1>1, <1>2, <1>3, <1>4, <1>5, <1>6, <1>7, <1>8, <1>9 DEF LauncherInv,
      AgentsAccounted

(* The running agents that the file does not name are those adrift.        *)
LEMMA PlaneCrashesKeeps ==
    ASSUME LauncherInv, PlaneCrashes
    PROVE  LauncherInv'
<1>1. LauncherTypeOK'
  BY DEF LauncherInv, LauncherTypeOK, NoEntry, NoCall, PlaneCrashes
<1>2. UnbegunIsUnknown'
  BY AgentAssumption DEF LauncherInv, LauncherTypeOK, UnbegunIsUnknown,
      NoProcess, NoCall, PlaneCrashes
<1>3. StartsAlone'
  BY DEF LauncherInv, LauncherTypeOK, StartsAlone, NoCall, PlaneCrashes
<1>4. CallsKnowThePid'
  BY DEF LauncherInv, LauncherTypeOK, CallsKnowThePid, NoCall, PlaneCrashes
<1>5. EntriesKnowThePid'
  BY DEF LauncherInv, LauncherTypeOK, EntriesKnowThePid, NoEntry, PlaneCrashes
<1>6. FileIsEnough'
  BY DEF LauncherInv, LauncherTypeOK, FileIsEnough, PlaneCrashes
<1>7. NoStrayAgents'
  BY DEF LauncherInv, LauncherTypeOK, NoStrayAgents, AgentsAccounted,
      InFlightCall, PlaneCrashes
<1>8. AgentsAreRecorded'
  BY DEF LauncherInv, LauncherTypeOK, AgentsAreRecorded, AgentsAccounted,
      InFlightCall, PlaneCrashes
<1>9. CorpseHasNoProcess'
  BY <1>5 DEF EntriesKnowThePid, NoProcess, CorpseHasNoProcess
<1> QED
  BY <1>1, <1>2, <1>3, <1>4, <1>5, <1>6, <1>7, <1>8, <1>9 DEF LauncherInv,
      AgentsAccounted

(* Every pid of the file becomes a victim.                                 *)
LEMMA CleanupBeginsKeeps ==
    ASSUME LauncherInv, CleanupBegins
    PROVE  LauncherInv'
<1>1. LauncherTypeOK'
  BY DEF LauncherInv, LauncherTypeOK, CleanupBegins
<1>2. UnbegunIsUnknown'
  BY DEF LauncherInv, LauncherTypeOK, UnbegunIsUnknown, NoProcess, CleanupBegins
<1>3. StartsAlone'
  BY DEF LauncherInv, LauncherTypeOK, StartsAlone, NoProcess, CleanupBegins
<1>4. CallsKnowThePid'
  BY DEF LauncherInv, LauncherTypeOK, CallsKnowThePid, OnlyUnder, CleanupBegins
<1>5. EntriesKnowThePid'
  BY DEF LauncherInv, LauncherTypeOK, EntriesKnowThePid, OnlyUnder, NoProcess,
      CleanupBegins
<1>6. FileIsEnough'
  BY PidAssumption DEF LauncherInv, LauncherTypeOK, FileIsEnough, CleanupBegins
<1>7. NoStrayAgents'
  BY DEF LauncherInv, LauncherTypeOK, NoStrayAgents, AgentsAccounted,
      InFlightCall, CleanupBegins
<1>8. AgentsAreRecorded'
  BY DEF LauncherInv, LauncherTypeOK, AgentsAreRecorded, AgentsAccounted,
      InFlightCall, CleanupBegins
<1>9. CorpseHasNoProcess'
  BY <1>5 DEF EntriesKnowThePid, NoProcess, CorpseHasNoProcess
<1> QED
  BY <1>1, <1>2, <1>3, <1>4, <1>5, <1>6, <1>7, <1>8, <1>9 DEF LauncherInv,
      AgentsAccounted

(* A victim that is passed over is not an agent.                           *)
LEMMA KillOrphanKeeps ==
    ASSUME LauncherInv, NEW p \in Pids, KillOrphan(p)
    PROVE  LauncherInv'
<1>1. LauncherTypeOK'
  BY DEF LauncherInv, LauncherTypeOK, KillOrphan
<1>2. UnbegunIsUnknown'
  BY AgentAssumption DEF LauncherInv, LauncherTypeOK, UnbegunIsUnknown,
      NoProcess, KillOrphan
<1>3. StartsAlone'
  BY AgentAssumption DEF LauncherInv, LauncherTypeOK, StartsAlone, NoProcess,
      KillOrphan
<1>4. CallsKnowThePid'
  BY AgentAssumption DEF LauncherInv, LauncherTypeOK, CallsKnowThePid,
      OnlyUnder, KillOrphan
<1>5. EntriesKnowThePid'
  BY AgentAssumption DEF LauncherInv, LauncherTypeOK, EntriesKnowThePid,
      OnlyUnder, NoProcess, KillOrphan
<1>6. FileIsEnough'
  BY AgentAssumption DEF LauncherInv, LauncherTypeOK, FileIsEnough, KillOrphan
<1>7. NoStrayAgents'
  BY DEF LauncherInv, LauncherTypeOK, NoStrayAgents, AgentsAccounted,
      InFlightCall, KillOrphan
<1>8. AgentsAreRecorded'
  BY DEF LauncherInv, LauncherTypeOK, AgentsAreRecorded, AgentsAccounted,
      InFlightCall, KillOrphan
<1>9. CorpseHasNoProcess'
  BY <1>5 DEF EntriesKnowThePid, NoProcess, CorpseHasNoProcess
<1> QED
  BY <1>1, <1>2, <1>3, <1>4, <1>5, <1>6, <1>7, <1>8, <1>9 DEF LauncherInv,
      AgentsAccounted

(* With no victim left, only agents adrift run.                            *)
LEMMA CleanupEndsKeeps ==
    ASSUME LauncherInv, CleanupEnds
    PROVE  LauncherInv'
<1>1. LauncherTypeOK'
  BY DEF LauncherInv, LauncherTypeOK, CleanupEnds, SaveState
<1>2. UnbegunIsUnknown'
  BY DEF LauncherInv, LauncherTypeOK, UnbegunIsUnknown, NoProcess, CleanupEnds,
      SaveState
<1>3. StartsAlone'
  BY DEF LauncherInv, LauncherTypeOK, StartsAlone, NoProcess, CleanupEnds,
      SaveState
<1>4. CallsKnowThePid'
  BY DEF LauncherInv, LauncherTypeOK, CallsKnowThePid, OnlyUnder, CleanupEnds,
      SaveState
<1>5. EntriesKnowThePid'
  BY DEF LauncherInv, LauncherTypeOK, EntriesKnowThePid, OnlyUnder, NoProcess,
      CleanupEnds, SaveState
<1>6. FileIsEnough'
  BY DEF LauncherInv, LauncherTypeOK, FileIsEnough, CleanupEnds, SaveState
<1>7. NoStrayAgents'
  BY DEF LauncherInv, LauncherTypeOK, NoStrayAgents, FileIsEnough,
      AgentsAccounted, CleanupEnds, SaveState
<1>8. AgentsAreRecorded'
  BY <1>1, <1>7 DEF LauncherTypeOK, AgentsAreRecorded, NoStrayAgents,
      InFlightCall, SaveState, CleanupEnds
<1>9. CorpseHasNoProcess'
  BY <1>5 DEF EntriesKnowThePid, NoProcess, CorpseHasNoProcess
<1> QED
  BY <1>1, <1>2, <1>3, <1>4, <1>5, <1>6, <1>7, <1>8, <1>9 DEF LauncherInv,
      AgentsAccounted

(***************************************************************************)
(* The theorem                                                             *)
(***************************************************************************)

LEMMA LauncherStarts ==
    ASSUME LauncherInit
    PROVE  LauncherInv
<1>1. LauncherTypeOK
  BY DEF LauncherInit, LauncherTypeOK, NoEntry, NoCall
<1>2. UnbegunIsUnknown /\ StartsAlone /\ CallsKnowThePid /\ EntriesKnowThePid /\ FileIsEnough
  BY AgentAssumption DEF LauncherInit, UnbegunIsUnknown, StartsAlone, CallsKnowThePid,
     EntriesKnowThePid, FileIsEnough, NoProcess, NoEntry, NoCall
<1>3. AgentsAccounted
  BY AgentAssumption DEF LauncherInit, AgentsAccounted, AgentsAreRecorded, NoStrayAgents,
     CorpseHasNoProcess, NoEntry
<1> QED
  BY <1>1, <1>2, <1>3 DEF LauncherInv

LEMMA LauncherSteps ==
    ASSUME LauncherInv, [LauncherNext]_launcherVars
    PROVE  LauncherInv'
<1>1. CASE UNCHANGED launcherVars
  BY <1>1 DEF launcherVars, LauncherInv, LauncherTypeOK, UnbegunIsUnknown, StartsAlone,
     CallsKnowThePid, EntriesKnowThePid, FileIsEnough, AgentsAccounted, AgentsAreRecorded,
     NoStrayAgents, CorpseHasNoProcess, InFlightCall, OnlyUnder, NoProcess
<1>2. CASE \E c \in Callers, s \in Agents : StartAgent(c, s)
  BY <1>2, StartAgentKeeps
<1>3. CASE \E c \in Callers, s \in Agents, r \in BOOLEAN : StopAgent(c, s, r)
  BY <1>3, StopAgentKeeps
<1>4. CASE \E c \in Callers, p \in Pids : Spawn(c, p)
  BY <1>4, SpawnKeeps
<1>5. CASE \E c \in Callers : AgentStarted(c) \/ AgentStopped(c)
  BY <1>5, AgentStartedKeeps, AgentStoppedKeeps
<1>6. CASE \E s \in Agents : PurgeAgent(s)
  BY <1>6, PurgeAgentKeeps
<1>7. CASE \E p \in Pids : ProcessExits(p) \/ ForeignStarts(p)
  BY <1>7, ProcessExitsKeeps, ForeignStartsKeeps
<1>8. CASE PlaneCrashes
  BY <1>8, PlaneCrashesKeeps
<1>9. CASE Recovery
  BY <1>9, CleanupBeginsKeeps, KillOrphanKeeps, CleanupEndsKeeps DEF Recovery
<1> QED
  BY <1>1, <1>2, <1>3, <1>4, <1>5, <1>6, <1>7, <1>8, <1>9 DEF LauncherNext

(* Every agent process is accounted for: through crashes of the control    *)
(* plane, stops that overlap, processes that end by themselves and pids    *)
(* the system gives to others, each agent that runs is named by the file,  *)
(* known to the table, about to be written by a call, or was already lost  *)
(* at an earlier crash; and no retained corpse has a process.              *)
THEOREM AgentsKept == LauncherSpec => []AgentsAccounted
<1>1. LauncherInit => LauncherInv
  BY LauncherStarts
<1>2. LauncherInv /\ [LauncherNext]_launcherVars => LauncherInv'
  BY LauncherSteps
<1>3. LauncherInv => AgentsAccounted
  BY DEF LauncherInv
<1> QED
  BY <1>1, <1>2, <1>3, PTL DEF LauncherSpec

(***************************************************************************)
(* The event buffer (EventBuffer)                                          *)
(***************************************************************************)

Streams ==
    [at : {"closed", "subscribed", "reading", "scanning", "live"}, from : 0 .. NumEvents,
     scan : Seq(Written), queue : Seq(Written)]
Polls ==
    [at : {"idle", "scanning"}, cursor : 0 .. NumEvents, device : Devices, scan : Seq(Written)]

BufferTyped ==
    /\ next \in 0 .. NumEvents
    /\ events \in Seq(Written) /\ Len(events) <= MaxLen
    /\ writer \in [at : {"idle", "stored"}, event : Written]
    /\ handler \in [on : BOOLEAN, previous : [Loggers -> BOOLEAN]]
    /\ propagate \in [Loggers -> BOOLEAN]
    /\ stream \in Streams
    /\ poll \in Polls
    /\ sent \subseteq 0 .. NumEvents - 1
    /\ polled \subseteq 0 .. NumEvents - 1

(* The buffer holds the last events, numbered one after the other. *)
EndsAtHead ==
    /\ Len(events) <= next /\ (next > 0 => Len(events) > 0)
    /\ \A i \in DOMAIN events : events[i].seq = next - Len(events) + i - 1

(* The thread stands between the buffer and the queues with the newest     *)
(* event: the others were given to the queues.                             *)
WriterHasNewest == writer.at = "stored" => next > 0 /\ writer.event.seq = next - 1
Delivered == IF writer.at = "stored" THEN next - 1 ELSE next

(* A reader is given numbers that were handed out. *)
ReadersAreBehind == poll.cursor <= next /\ stream.from <= next

(* Before its history is read, a stream's queue has what was delivered     *)
(* since it subscribed, which was not behind the head it took.             *)
QueueFollows ==
    /\ stream.at = "closed" => stream.queue = <<>>
    /\ stream.at \in {"subscribed", "reading", "scanning"} =>
          /\ sent = {}
          /\ \E a \in 0 .. Delivered :
                /\ Seqs(stream.queue) = a .. Delivered - 1
                /\ stream.at # "subscribed" => a <= stream.from

(* Afterwards what was yielded and what is queued ends with the newest     *)
(* event, or with the one before while the thread still holds that.        *)
LiveFollows ==
    stream.at = "live" =>
        LET reached == sent \cup Seqs(stream.queue)
        IN  /\ next = 0 => reached = {}
            /\ next > 0 => \E first \in 0 .. next - 1 :
                  \/ reached = first .. next - 1
                  \/ writer.at = "stored" /\ reached = first .. next - 2

LoggersKept ==
    /\ handler.on => handler.previous = [l \in Loggers |-> TRUE]
    /\ PropagationRestored

BufferInv ==
    /\ BufferTyped /\ EndsAtHead /\ WriterHasNewest /\ ReadersAreBehind
    /\ QueueFollows /\ LiveFollows /\ PollMissesNothing /\ LoggersKept

LEMMA BufferInvHolds == BufferInv => BufferTypeOK /\ CaptureIsWhole
<1> SUFFICES ASSUME BufferInv
             PROVE  BufferTypeOK /\ CaptureIsWhole
  OBVIOUS
<1>1. BufferTypeOK
  BY DEF BufferInv, BufferTyped, BufferTypeOK, Streams, Polls
<1>2. StreamHasNoGap
  <2> SUFFICES ASSUME stream.at = "live", writer.at = "idle", next > 0
               PROVE  \E first \in 0 .. next - 1 : sent \cup Seqs(stream.queue) = first .. next - 1
    BY DEF StreamHasNoGap
  <2> QED
    BY DEF BufferInv, LiveFollows
<1> QED
  BY <1>1, <1>2 DEF BufferInv, LoggersKept, CaptureIsWhole

LEMMA LastOrBefore == \A n \in Nat : \A i \in 1 .. n : i = n \/ (i \in 1 .. n - 1 /\ i + 1 \in 1 .. n)
  OBVIOUS

LEMMA FirstOrAfter ==
    \A n \in Nat : \A i \in 1 .. n : i = 1 \/ (i - 1 \in 1 .. n - 1 /\ (i - 1) + 1 = i)
  OBVIOUS

(* The numbers of a list that is taken from, or added to.                  *)
LEMMA SeqsOfAppend ==
    ASSUME NEW list \in Seq(Written), NEW e \in Written
    PROVE  Seqs(Append(list, e)) = Seqs(list) \cup {e.seq}
<1>1. /\ Append(list, e) \in Seq(Written)
      /\ Len(Append(list, e)) = Len(list) + 1 /\ Len(list) \in Nat
      /\ \A i \in 1 .. Len(list) : Append(list, e)[i] = list[i]
      /\ Append(list, e)[Len(list) + 1] = e
      /\ DOMAIN list = 1 .. Len(list) /\ DOMAIN Append(list, e) = 1 .. Len(list) + 1
  BY AppendProperties, LenProperties
<1>2. \A i \in 1 .. Len(list) + 1 : i \in 1 .. Len(list) \/ i = Len(list) + 1
  BY <1>1
<1>3. Seqs(Append(list, e)) \subseteq Seqs(list) \cup {e.seq}
  BY <1>1, <1>2 DEF Seqs
<1>4. Seqs(list) \cup {e.seq} \subseteq Seqs(Append(list, e))
  BY <1>1 DEF Seqs
<1> QED
  BY <1>3, <1>4

LEMMA SeqsOfTail ==
    ASSUME NEW list \in Seq(Written), list # <<>>
    PROVE  /\ Tail(list) \in Seq(Written) /\ Head(list) \in Written
           /\ Seqs(list) = Seqs(Tail(list)) \cup {Head(list).seq}
<1>1. /\ Tail(list) \in Seq(Written) /\ Head(list) = list[1] /\ list[1] \in Written
      /\ Len(list) \in Nat /\ Len(list) > 0 /\ Len(Tail(list)) = Len(list) - 1
      /\ \A i \in 1 .. Len(list) - 1 : Tail(list)[i] = list[i + 1]
      /\ DOMAIN list = 1 .. Len(list) /\ DOMAIN Tail(list) = 1 .. Len(list) - 1
  BY HeadTailProperties, LenProperties, EmptySeq, ElementOfSeq
<1>2. \A i \in 1 .. Len(list) : i = 1 \/ (i - 1 \in 1 .. Len(list) - 1 /\ Tail(list)[i - 1] = list[i])
  BY <1>1, FirstOrAfter
<1>3. Seqs(list) \subseteq Seqs(Tail(list)) \cup {Head(list).seq}
  <2> SUFFICES ASSUME NEW i \in 1 .. Len(list)
               PROVE  list[i].seq \in Seqs(Tail(list)) \cup {Head(list).seq}
    BY <1>1 DEF Seqs
  <2> QED
    BY <1>1, <1>2 DEF Seqs
<1>4. Seqs(Tail(list)) \cup {Head(list).seq} \subseteq Seqs(list)
  <2>1. \A i \in 1 .. Len(list) - 1 : i + 1 \in 1 .. Len(list) /\ Tail(list)[i].seq = list[i + 1].seq
    BY <1>1
  <2> QED
    BY <1>1, <2>1 DEF Seqs
<1> QED
  BY <1>1, <1>3, <1>4

(* A number is that of a buffered event exactly when it is one of the last *)
LEMMA SeqsOfEvents ==
    ASSUME BufferTyped, EndsAtHead
    PROVE  Seqs(events) = next - Len(events) .. next - 1 /\ Len(events) \in Nat
           /\ DOMAIN events = 1 .. Len(events)
<1>1. Len(events) \in Nat /\ DOMAIN events = 1 .. Len(events) /\ next \in Nat
  BY LenProperties DEF BufferTyped
<1>2. \A n \in next - Len(events) .. next - 1 :
         n - next + Len(events) + 1 \in 1 .. Len(events) /\ events[n - next + Len(events) + 1].seq = n
  BY <1>1 DEF EndsAtHead
<1>3. next - Len(events) .. next - 1 \subseteq Seqs(events)
  BY <1>1, <1>2 DEF Seqs
<1>4. Seqs(events) \subseteq next - Len(events) .. next - 1
  BY <1>1 DEF Seqs, EndsAtHead
<1> QED
  BY <1>1, <1>3, <1>4

(* Pushing an event keeps at most MaxLen of the last events.               *)
LEMMA PushKeepsLast ==
    ASSUME BufferTyped, EndsAtHead, NEW e \in Written, e.seq = next,
           NEW list, list = Push(events, e)
    PROVE  /\ list \in Seq(Written) /\ Len(list) \in 1 .. MaxLen /\ Len(list) <= next + 1
           /\ DOMAIN list = 1 .. Len(list)
           /\ \A i \in 1 .. Len(list) :
                 /\ list[i].seq = next + 1 - Len(list) + i - 1
                 /\ list[i] = e \/ \E j \in DOMAIN events : list[i] = events[j]
<1>1. /\ Len(events) \in Nat /\ DOMAIN events = 1 .. Len(events) /\ events \in Seq(Written)
      /\ \A i \in 1 .. Len(events) : events[i].seq = next - Len(events) + i - 1
  BY LenProperties DEF BufferTyped, EndsAtHead
<1>5. /\ Len(events) \in Nat /\ next \in Nat /\ MaxLen \in Nat /\ MaxLen > 0
      /\ Len(events) <= MaxLen /\ Len(events) <= next
  BY <1>1, BufferAssumption DEF BufferTyped, EndsAtHead
<1>2. ASSUME NEW old \in Seq(Written), list = Append(old, e)
      PROVE  /\ list \in Seq(Written) /\ Len(list) = Len(old) + 1 /\ Len(old) \in Nat
             /\ DOMAIN list = 1 .. Len(list)
             /\ \A i \in 1 .. Len(list) - 1 : list[i] = old[i]
             /\ list[Len(list)] = e
  BY <1>2, AppendProperties, LenProperties
<1>3. CASE Len(events) < MaxLen
  <2>1. list = Append(events, e)
    BY <1>3 DEF Push
  <2>2. /\ list \in Seq(Written) /\ Len(list) = Len(events) + 1
        /\ DOMAIN list = 1 .. Len(list)
        /\ \A i \in 1 .. Len(list) - 1 : list[i] = events[i] /\ i \in 1 .. Len(events)
        /\ list[Len(list)] = e
    BY <1>1, <1>2, <2>1
  <2>3. Len(list) \in 1 .. MaxLen /\ Len(list) <= next + 1 /\ Len(list) \in Nat
    BY <1>5, <1>3, <2>2
  <2>4. ASSUME NEW i \in 1 .. Len(list)
        PROVE  /\ list[i].seq = next + 1 - Len(list) + i - 1
               /\ list[i] = e \/ \E j \in DOMAIN events : list[i] = events[j]
    <3>1. CASE i = Len(list)
      BY <1>1, <1>5, <2>2, <2>3, <3>1
    <3>2. CASE i \in 1 .. Len(list) - 1
      BY <1>1, <1>5, <2>2, <2>3, <3>2
    <3> QED
      BY <2>3, <3>1, <3>2, LastOrBefore
  <2> QED
    BY <2>2, <2>3, <2>4
<1>4. CASE Len(events) >= MaxLen
  <2>1. Len(events) = MaxLen /\ events # <<>>
    <3>1. Len(events) = MaxLen /\ Len(events) > 0
      BY <1>5, <1>4
    <3>2. events = <<>> => Len(events) = 0
      BY EmptySeq
    <3> QED
      BY <3>1, <3>2
  <2>2. list = Append(Tail(events), e)
    BY <2>1 DEF Push
  <2>3. /\ Tail(events) \in Seq(Written) /\ Len(Tail(events)) = Len(events) - 1
        /\ \A i \in 1 .. Len(events) - 1 : Tail(events)[i] = events[i + 1]
    BY <1>1, <2>1, HeadTailProperties
  <2>4. /\ list \in Seq(Written) /\ Len(list) = Len(events)
        /\ DOMAIN list = 1 .. Len(list)
        /\ \A i \in 1 .. Len(list) - 1 : list[i] = events[i + 1] /\ i + 1 \in 1 .. Len(events)
        /\ list[Len(list)] = e
    <3>1. /\ list \in Seq(Written) /\ Len(list) = Len(events)
          /\ DOMAIN list = 1 .. Len(list) /\ list[Len(list)] = e
          /\ \A i \in 1 .. Len(list) - 1 : list[i] = Tail(events)[i]
      <4>1. Len(Tail(events)) + 1 = Len(events)
        BY <1>5, <2>3
      <4> QED
        BY <4>1, <1>2, <2>2, <2>3
    <3>2. \A i \in 1 .. Len(events) - 1 : i + 1 \in 1 .. Len(events)
      BY <1>5
    <3> QED
      BY <2>3, <3>1, <3>2
  <2>5. Len(list) \in 1 .. MaxLen /\ Len(list) <= next + 1 /\ Len(list) \in Nat
    BY <1>5, <2>1, <2>4
  <2>6. ASSUME NEW i \in 1 .. Len(list)
        PROVE  /\ list[i].seq = next + 1 - Len(list) + i - 1
               /\ list[i] = e \/ \E j \in DOMAIN events : list[i] = events[j]
    <3>1. CASE i = Len(list)
      BY <1>1, <1>5, <2>4, <2>5, <3>1
    <3>2. CASE i \in 1 .. Len(list) - 1
      BY <1>1, <1>5, <2>4, <2>5, <3>2
    <3> QED
      BY <2>5, <3>1, <3>2, LastOrBefore
  <2> QED
    BY <2>4, <2>5, <2>6
<1> QED
  BY <1>5, <1>3, <1>4

(***************************************************************************)
(* The steps of the buffer keep its invariant                              *)
(***************************************************************************)

(* The capture is installed or uninstalled.                                *)
LEMMA CaptureKeeps ==
    ASSUME BufferInv, Install \/ Uninstall
    PROVE  BufferInv'
<1> USE DEF Loggers
<1>1. UNCHANGED <<next, events, writer, stream, sent, poll, polled>>
  BY DEF Install, Uninstall
<1>2. /\ handler' \in [on : BOOLEAN, previous : [Loggers -> BOOLEAN]]
      /\ propagate' \in [Loggers -> BOOLEAN] /\ LoggersKept'
  <2>1. CASE Install /\ handler.on
    BY <2>1 DEF Install, BufferInv, BufferTyped, LoggersKept, PropagationRestored
  <2>2. CASE Install /\ ~handler.on
    <3>1. handler' = [on |-> TRUE, previous |-> propagate] /\ propagate = [l \in Loggers |-> TRUE]
      BY <2>2 DEF Install, BufferInv, LoggersKept, PropagationRestored
    <3>2. handler'.on /\ handler'.previous = propagate
      BY <3>1
    <3> QED
      BY <2>2, <3>1, <3>2 DEF Install, BufferInv, BufferTyped, LoggersKept, PropagationRestored
  <2>3. CASE Uninstall
    <3>1. /\ handler' = [handler EXCEPT !.on = FALSE]
          /\ propagate' = [l \in Loggers |-> TRUE]
      BY <2>3 DEF Uninstall, BufferInv, LoggersKept, PropagationRestored
    <3>2. handler' \in [on : BOOLEAN, previous : [Loggers -> BOOLEAN]] /\ ~handler'.on
      BY <3>1 DEF BufferInv, BufferTyped
    <3> QED
      BY <3>1, <3>2 DEF LoggersKept, PropagationRestored
  <2> QED
    BY <2>1, <2>2, <2>3
<1>3. BufferTyped'
  BY <1>1, <1>2 DEF BufferInv, BufferTyped
<1> QED
  BY <1>1, <1>2, <1>3
  DEF BufferInv, EndsAtHead, WriterHasNewest, ReadersAreBehind, QueueFollows, LiveFollows,
      PollMissesNothing, Delivered

(* The thread stores an event.                                             *)
LEMMA EventStoredKeeps ==
    ASSUME BufferInv, NEW d \in Devices, EventStored(d)
    PROVE  BufferInv'
<1> DEFINE e == Event(next, d)
<1>1. /\ e \in Written /\ e.seq = next /\ next' = next + 1 /\ next \in Nat /\ next' \in 0 .. NumEvents
      /\ writer.at = "idle" /\ NumEvents \in Nat
      /\ UNCHANGED <<handler, propagate, stream, sent, poll, polled>>
  BY BufferAssumption DEF BufferInv, BufferTyped, EventStored, Event, Written
<1>2. writer' \in [at : {"idle", "stored"}, event : Written] /\ writer'.at = "stored" /\ writer'.event = e
  BY <1>1 DEF EventStored
<1>3. events' = Push(events, e)
  BY DEF EventStored
<1> HIDE DEF e
<1>4. /\ events' \in Seq(Written) /\ Len(events') \in 1 .. MaxLen /\ Len(events') <= next'
      /\ DOMAIN events' = 1 .. Len(events')
      /\ \A i \in 1 .. Len(events') :
            /\ events'[i].seq = next' - Len(events') + i - 1
            /\ events'[i] = e \/ \E j \in DOMAIN events : events'[i] = events[j]
  <2>1. BufferTyped /\ EndsAtHead
    BY DEF BufferInv
  <2>2. /\ events' \in Seq(Written) /\ Len(events') \in 1 .. MaxLen /\ Len(events') <= next + 1
        /\ DOMAIN events' = 1 .. Len(events')
        /\ \A i \in 1 .. Len(events') :
              /\ events'[i].seq = next + 1 - Len(events') + i - 1
              /\ events'[i] = e \/ \E j \in DOMAIN events : events'[i] = events[j]
    BY <1>1, <1>3, <2>1, PushKeepsLast
  <2> QED
    BY <1>1, <2>2
<1>5. BufferTyped' /\ EndsAtHead' /\ WriterHasNewest' /\ ReadersAreBehind'
  <2>1. Len(events') <= MaxLen /\ Len(events') > 0
    BY <1>4, BufferAssumption
  <2>2. BufferTyped'
    BY <1>1, <1>2, <1>4, <2>1 DEF BufferInv, BufferTyped
  <2>3. EndsAtHead'
    BY <1>4, <2>1 DEF EndsAtHead
  <2>4. WriterHasNewest' /\ ReadersAreBehind'
    BY <1>1, <1>2 DEF BufferInv, BufferTyped, WriterHasNewest, ReadersAreBehind, Polls, Streams
  <2> QED
    BY <2>2, <2>3, <2>4
<1>6. QueueFollows'
  <2>1. Delivered' = Delivered
    BY <1>1, <1>2 DEF Delivered
  <2> QED
    BY <1>1, <2>1 DEF BufferInv, QueueFollows
<1>7. LiveFollows'
  <2> SUFFICES ASSUME stream.at = "live"
               PROVE  \E first \in 0 .. next : sent \cup Seqs(stream.queue) = first .. next - 1
    BY <1>1, <1>2 DEF LiveFollows
  <2>1. CASE next = 0
    <3>1. sent \cup Seqs(stream.queue) = 0 .. next - 1
      BY <2>1 DEF BufferInv, LiveFollows
    <3> QED
      BY <3>1, <1>1
  <2>2. CASE next > 0
    <3>1. PICK first \in 0 .. next - 1 : sent \cup Seqs(stream.queue) = first .. next - 1
      BY <1>1, <2>2 DEF BufferInv, LiveFollows
    <3> QED
      BY <3>1, <1>1
  <2> QED
    BY <1>1, <2>1, <2>2
<1>8. PollMissesNothing'
  <2> SUFFICES ASSUME NEW i \in 1 .. Len(events'), events'[i].device = poll.device,
                      events'[i].seq < poll.cursor
               PROVE  events'[i].seq \in polled
    BY <1>1, <1>4 DEF PollMissesNothing
  <2>1. events'[i] # e
    BY <1>1 DEF BufferInv, BufferTyped, Polls, ReadersAreBehind
  <2>2. PICK j \in DOMAIN events : events'[i] = events[j]
    BY <1>4, <2>1
  <2> QED
    BY <2>2 DEF BufferInv, PollMissesNothing
<1> QED
  BY <1>1, <1>5, <1>6, <1>7, <1>8 DEF BufferInv, LoggersKept, PropagationRestored

(* The queue of the stream gets it.                                        *)
LEMMA EventQueuedKeeps ==
    ASSUME BufferInv, EventQueued
    PROVE  BufferInv'
<1>1. /\ writer.at = "stored" /\ writer' = Quiet /\ writer.event \in Written
      /\ next \in Nat /\ next > 0 /\ writer.event.seq = next - 1
      /\ UNCHANGED <<next, events, handler, propagate, sent, poll, polled>>
  BY DEF BufferInv, BufferTyped, WriterHasNewest, EventQueued
<1>2. writer' \in [at : {"idle", "stored"}, event : Written] /\ writer'.at = "idle"
  <2>1. (CHOOSE d \in Devices : TRUE) \in Devices
    BY DEF BufferInv, BufferTyped, Polls
  <2>2. Event(0, CHOOSE d \in Devices : TRUE) \in Written
    BY <1>1, <2>1, BufferAssumption DEF Event, Written
  <2> QED
    BY <1>1, <2>2 DEF Quiet
<1>3. /\ stream' \in Streams /\ stream'.at = stream.at /\ stream'.from = stream.from
      /\ stream.at = "closed" => stream' = stream
      /\ stream.at # "closed" => Seqs(stream'.queue) = Seqs(stream.queue) \cup {next - 1}
  <2>1. CASE stream.at = "closed"
    <3>1. stream' = stream
      BY <2>1 DEF EventQueued
    <3> QED
      BY <2>1, <3>1 DEF BufferInv, BufferTyped
  <2>2. CASE stream.at # "closed"
    <3>1. stream.queue \in Seq(Written)
      BY DEF BufferInv, BufferTyped, Streams
    <3>2. Append(stream.queue, writer.event) \in Seq(Written)
      BY <1>1, <3>1, AppendProperties
    <3>3. stream' = [stream EXCEPT !.queue = Append(stream.queue, writer.event)]
      BY <2>2 DEF EventQueued
    <3>4. /\ stream' \in Streams /\ stream'.at = stream.at /\ stream'.from = stream.from
          /\ stream'.queue = Append(stream.queue, writer.event)
      BY <3>2, <3>3 DEF BufferInv, BufferTyped, Streams
    <3>5. Seqs(stream'.queue) = Seqs(stream.queue) \cup {next - 1}
      BY <1>1, <3>1, <3>4, SeqsOfAppend
    <3> QED
      BY <2>2, <3>4, <3>5
  <2> QED
    BY <2>1, <2>2
<1>4. BufferTyped' /\ EndsAtHead' /\ WriterHasNewest' /\ ReadersAreBehind' /\ PollMissesNothing' /\ LoggersKept'
  BY <1>1, <1>2, <1>3
  DEF BufferInv, BufferTyped, EndsAtHead, WriterHasNewest, ReadersAreBehind, PollMissesNothing,
      LoggersKept, PropagationRestored
<1>5. QueueFollows'
  <2> SUFFICES ASSUME stream.at \in {"subscribed", "reading", "scanning"}
               PROVE  /\ sent = {}
                      /\ \E a \in 0 .. next :
                            /\ Seqs(stream'.queue) = a .. next - 1
                            /\ stream.at # "subscribed" => a <= stream.from
    BY <1>1, <1>2, <1>3 DEF BufferInv, QueueFollows, Delivered
  <2>1. PICK a \in 0 .. next - 1 : /\ Seqs(stream.queue) = a .. next - 2
                                   /\ stream.at # "subscribed" => a <= stream.from
    BY <1>1 DEF BufferInv, QueueFollows, Delivered
  <2>2. Seqs(stream'.queue) = a .. next - 1
    <3>1. a .. next - 1 = (a .. next - 2) \cup {next - 1}
      BY <1>1
    <3> QED
      BY <1>3, <2>1, <3>1
  <2> QED
    BY <1>1, <2>1, <2>2 DEF BufferInv, QueueFollows
<1>6. LiveFollows'
  <2> SUFFICES ASSUME stream.at = "live"
               PROVE  \E first \in 0 .. next - 1 : sent \cup Seqs(stream'.queue) = first .. next - 1
    BY <1>1, <1>3 DEF LiveFollows
  <2>1. PICK first \in 0 .. next - 1 :
           \/ sent \cup Seqs(stream.queue) = first .. next - 1
           \/ sent \cup Seqs(stream.queue) = first .. next - 2
    BY <1>1 DEF BufferInv, LiveFollows
  <2>2. first .. next - 1 = (first .. next - 2) \cup {next - 1}
    BY <1>1
  <2>3. sent \cup Seqs(stream'.queue) = first .. next - 1
    BY <1>3, <2>1, <2>2
  <2> QED
    BY <2>3
<1> QED
  BY <1>4, <1>5, <1>6 DEF BufferInv

(* A client's poll begins.                                                 *)
LEMMA PollBeginsKeeps ==
    ASSUME BufferInv, PollBegins
    PROVE  BufferInv'
<1>1. /\ poll' \in Polls /\ poll'.cursor = poll.cursor /\ poll'.device = poll.device
      /\ UNCHANGED <<next, events, writer, handler, propagate, stream, sent, polled>>
  BY DEF BufferInv, BufferTyped, PollBegins, Polls
<1> QED
  BY <1>1 DEF BufferInv, BufferTyped, EndsAtHead, WriterHasNewest, ReadersAreBehind, QueueFollows, LiveFollows,
      PollMissesNothing, Delivered, LoggersKept, PropagationRestored

(* A poll ends: what it returns is everything of its device that is        *)
(* numbered between the old cursor and the new one.                        *)
LEMMA PollEndsKeeps ==
    ASSUME BufferInv, PollEnds
    PROVE  BufferInv'
<1>1. UNCHANGED <<next, events, writer, handler, propagate, stream, sent>>
  BY DEF PollEnds
<1>2. ASSUME NEW n \in 0 .. next, PollResumesAt(n)
      PROVE  poll' \in Polls /\ poll'.cursor = n /\ poll'.device = poll.device
  <2>1. n \in 0 .. NumEvents /\ <<>> \in Seq(Written)
    BY BufferAssumption, EmptySeq DEF BufferInv, BufferTyped
  <2> QED
    BY <1>2, <2>1 DEF PollResumesAt, BufferInv, BufferTyped, Polls
<1>3. poll.cursor \in 0 .. next /\ next \in Nat /\ next <= NumEvents /\ NumEvents \in Nat
  BY BufferAssumption DEF BufferInv, BufferTyped, Polls, ReadersAreBehind
<1>4. CASE events # poll.scan
  <2>1. PollResumesAt(poll.cursor) /\ UNCHANGED polled
    BY <1>4 DEF PollEnds
  <2>2. poll' \in Polls /\ poll'.cursor = poll.cursor /\ poll'.device = poll.device
    BY <1>2, <1>3, <2>1
  <2> QED
    BY <1>1, <2>1, <2>2
    DEF BufferInv, BufferTyped, EndsAtHead, WriterHasNewest, ReadersAreBehind, QueueFollows, LiveFollows,
        PollMissesNothing, Delivered, LoggersKept, PropagationRestored
<1>5. CASE events = poll.scan
  <2>1. /\ Found \subseteq 0 .. next - 1 /\ IsFiniteSet(Found)
        /\ \A i \in DOMAIN events :
              events[i].device = poll.device /\ events[i].seq >= poll.cursor => events[i].seq \in Found
    <3>1. Seqs(events) = next - Len(events) .. next - 1 /\ Len(events) \in Nat
          /\ DOMAIN events = 1 .. Len(events)
      BY SeqsOfEvents DEF BufferInv
    <3>2. Len(events) <= next
      BY DEF BufferInv, EndsAtHead
    <3>3. Range(poll.scan) = {events[i] : i \in DOMAIN events}
      BY <1>5 DEF Range
    <3>4. Found \subseteq Seqs(events)
      BY <3>3 DEF Found, Seqs
    <3>5. Found \subseteq 0 .. next - 1
      BY <1>3, <3>1, <3>2, <3>4
    <3>6. IsFiniteSet(Found)
      <4>1. IsFiniteSet(0 .. next - 1)
        BY <1>3, FS_Interval
      <4> QED
        BY <3>5, <4>1, FS_Subset
    <3> QED
      BY <3>3, <3>5, <3>6 DEF Found
  <2>2. PICK n \in poll.cursor .. next :
           /\ PollResumesAt(n)
           /\ \A m \in Found : m < n => m \in Page
    <3>1. CASE Cardinality(Found) < Limit
      <4>1. PollResumesAt(next)
        BY <1>5, <3>1 DEF PollEnds
      <4>2. ASSUME NEW m \in Found
            PROVE  m \in Page
        <5>1. Cardinality({k \in Found : k <= m}) <= Cardinality(Found)
          BY <2>1, FS_Subset
        <5>2. Cardinality({k \in Found : k <= m}) \in Nat /\ Cardinality(Found) \in Nat
          BY <2>1, FS_Subset, FS_CardinalityType
        <5> QED
          BY <3>1, <5>1, <5>2, BufferAssumption DEF Page
      <4> QED
        BY <1>3, <4>1, <4>2
    <3>2. CASE ~(Cardinality(Found) < Limit)
      <4>1. PICK last \in Page : (\A n \in Page : n <= last) /\ PollResumesAt(last + 1)
        BY <1>5, <3>2 DEF PollEnds
      <4>2. last \in Found /\ Cardinality({k \in Found : k <= last}) <= Limit
        BY <4>1 DEF Page
      <4>3. last + 1 \in poll.cursor .. next /\ last \in Nat
        BY <1>3, <2>1, <4>2 DEF Found
      <4>4. ASSUME NEW m \in Found, m < last + 1
            PROVE  m \in Page
        <5>1. {k \in Found : k <= m} \subseteq {k \in Found : k <= last}
          <6>1. m \in Nat /\ last \in Nat /\ m <= last /\ \A k \in Found : k \in Nat
            BY <1>3, <2>1, <4>2, <4>3, <4>4
          <6>2. ASSUME NEW k \in Found, k <= m
                PROVE  k <= last
            BY <6>1, <6>2
          <6> QED
            BY <6>2
        <5>2. IsFiniteSet({k \in Found : k <= last})
          BY <2>1, FS_Subset
        <5>3. Cardinality({k \in Found : k <= m}) <= Cardinality({k \in Found : k <= last})
          BY <5>1, <5>2, FS_Subset
        <5>4. Cardinality({k \in Found : k <= m}) \in Nat /\ Cardinality({k \in Found : k <= last}) \in Nat
          BY <5>1, <5>2, FS_Subset, FS_CardinalityType
        <5> QED
          BY <4>2, <5>3, <5>4, BufferAssumption DEF Page
      <4> QED
        BY <4>1, <4>3, <4>4
    <3> QED
      BY <3>1, <3>2
  <2>3. polled' = polled \cup Page /\ Page \subseteq 0 .. NumEvents - 1
    <3>1. polled' = polled \cup Page
      BY <1>5 DEF PollEnds
    <3>2. Page \subseteq Found
      BY DEF Page
    <3> QED
      BY <1>3, <2>1, <3>1, <3>2
  <2>4. poll' \in Polls /\ poll'.cursor = n /\ poll'.device = poll.device
    BY <1>2, <1>3, <2>2
  <2>5. PollMissesNothing'
    <3> SUFFICES ASSUME NEW i \in DOMAIN events, events[i].device = poll.device, events[i].seq < n
                 PROVE  events[i].seq \in polled \cup Page
      BY <1>1, <2>3, <2>4 DEF PollMissesNothing
    <3>1. events[i].seq \in Nat
      <4>1. events[i] \in Written
        BY ElementOfSeq, LenProperties DEF BufferInv, BufferTyped
      <4> QED
        BY <1>3, <4>1 DEF Written
    <3>2. CASE events[i].seq < poll.cursor
      BY <3>2 DEF BufferInv, PollMissesNothing
    <3>3. CASE events[i].seq >= poll.cursor
      BY <3>3, <2>1, <2>2
    <3> QED
      BY <1>3, <3>1, <3>2, <3>3
  <2>6. BufferTyped' /\ ReadersAreBehind'
    BY <1>1, <1>3, <2>2, <2>3, <2>4 DEF BufferInv, BufferTyped, ReadersAreBehind
  <2> QED
    BY <1>1, <2>5, <2>6
    DEF BufferInv, EndsAtHead, WriterHasNewest, QueueFollows, LiveFollows, Delivered, LoggersKept,
        PropagationRestored
<1> QED
  BY <1>4, <1>5

(* The stream subscribes, takes the head, and begins to read its history.  *)
LEMMA StreamOpensKeeps ==
    ASSUME BufferInv, StreamSubscribed \/ HeadTaken \/ HistoryBegins
    PROVE  BufferInv'
<1>1. UNCHANGED <<next, events, writer, handler, propagate, sent, poll, polled>>
  BY DEF StreamSubscribed, HeadTaken, HistoryBegins
<1>2. /\ stream' \in Streams /\ stream'.from <= next
      /\ stream'.at \in {"subscribed", "reading", "scanning"}
      /\ stream'.queue = stream.queue
  <2> USE DEF BufferInv, BufferTyped, ReadersAreBehind, Streams
  <2>1. CASE StreamSubscribed
    BY <2>1 DEF StreamSubscribed
  <2>2. CASE HeadTaken
    <3>1. stream' = [stream EXCEPT !.at = "reading", !.from = next] /\ next \in 0 .. NumEvents /\ next <= next
      BY <2>2, BufferAssumption DEF HeadTaken
    <3> QED
      BY <3>1
  <2>3. CASE HistoryBegins
    <3>1. stream' = [stream EXCEPT !.at = "scanning", !.scan = events] /\ events \in Seq(Written)
      BY <2>3 DEF HistoryBegins
    <3> QED
      BY <3>1
  <2> QED
    BY <2>1, <2>2, <2>3
<1>3. Delivered' = Delivered /\ Delivered \in 0 .. next /\ next \in Nat
  BY <1>1, BufferAssumption DEF BufferInv, BufferTyped, Delivered, WriterHasNewest
<1>4. QueueFollows'
  <2> SUFFICES /\ sent = {}
               /\ \E a \in 0 .. Delivered :
                     /\ Seqs(stream.queue) = a .. Delivered - 1
                     /\ stream'.at # "subscribed" => a <= stream'.from
    BY <1>1, <1>2, <1>3 DEF QueueFollows
  <2>1. CASE StreamSubscribed
    <3>1. Seqs(<<>>) = Delivered .. Delivered - 1
      BY <1>3 DEF Seqs
    <3> QED
      BY <2>1, <3>1, <1>2, <1>3 DEF StreamSubscribed, BufferInv, QueueFollows
  <2>2. CASE HeadTaken
    <3>1. stream'.from = next /\ stream.at = "subscribed"
      BY <2>2 DEF HeadTaken, BufferInv, BufferTyped, Streams
    <3> QED
      BY <3>1, <1>3 DEF BufferInv, QueueFollows
  <2>3. CASE HistoryBegins
    <3>1. stream'.from = stream.from /\ stream.at = "reading"
      BY <2>3 DEF HistoryBegins, BufferInv, BufferTyped, Streams
    <3> QED
      BY <3>1 DEF BufferInv, QueueFollows
  <2> QED
    BY <2>1, <2>2, <2>3
<1> QED
  BY <1>1, <1>2, <1>4
  DEF BufferInv, BufferTyped, EndsAtHead, WriterHasNewest, ReadersAreBehind, LiveFollows,
      PollMissesNothing, LoggersKept, PropagationRestored

(* The history is read: what is before the head has been yielded, what was *)
(* delivered since is queued.                                              *)
LEMMA HistoryReadKeeps ==
    ASSUME BufferInv, HistoryRead
    PROVE  BufferInv'
<1>1. UNCHANGED <<next, events, writer, handler, propagate, poll, polled>>
  BY DEF HistoryRead
<1>2. CASE events # stream.scan
  <2>1. stream' = Closed /\ sent' = sent
    BY <1>2 DEF HistoryRead
  <2>2. stream' \in Streams /\ stream'.at = "closed" /\ stream'.queue = <<>> /\ stream'.from = 0
    <3>1. <<>> \in Seq(Written) /\ 0 \in 0 .. NumEvents
      BY EmptySeq, BufferAssumption
    <3> QED
      BY <2>1, <3>1 DEF Closed, Streams
  <2> QED
    BY <1>1, <2>1, <2>2
    DEF BufferInv, BufferTyped, EndsAtHead, WriterHasNewest, ReadersAreBehind, QueueFollows, LiveFollows,
        PollMissesNothing, LoggersKept, PropagationRestored
<1>3. CASE events = stream.scan
  <2>1. /\ stream.at = "scanning" /\ stream' = [stream EXCEPT !.at = "live", !.scan = <<>>]
        /\ sent' = {n \in Seqs(events) : n < stream.from}
    BY <1>3 DEF HistoryRead
  <2>2. stream' \in Streams /\ stream'.at = "live" /\ stream'.queue = stream.queue /\ stream'.from = stream.from
    <3>1. <<>> \in Seq(Written)
      BY EmptySeq
    <3> QED
      BY <2>1, <3>1 DEF BufferInv, BufferTyped, Streams
  <2>3. PICK a \in 0 .. Delivered : Seqs(stream.queue) = a .. Delivered - 1 /\ a <= stream.from
    BY <2>1 DEF BufferInv, QueueFollows
  <2>4. /\ next \in Nat /\ stream.from \in 0 .. next /\ NumEvents \in Nat /\ next <= NumEvents
        /\ Len(events) \in 0 .. next /\ (next > 0 => Len(events) > 0)
        /\ Seqs(events) = next - Len(events) .. next - 1
        /\ Delivered \in Nat
        /\ \/ Delivered = next
           \/ Delivered = next - 1 /\ writer.at = "stored" /\ next > 0
    BY SeqsOfEvents, BufferAssumption
    DEF BufferInv, BufferTyped, EndsAtHead, ReadersAreBehind, WriterHasNewest, Delivered, Streams
  <2>5. sent' = next - Len(events) .. stream.from - 1
    BY <2>1, <2>4
  <2>6. sent' \subseteq 0 .. NumEvents - 1
    BY <2>4, <2>5
  <2>7. LiveFollows'
    <3>1. CASE next = 0
      BY <1>1, <2>2, <2>3, <2>4, <2>5, <3>1 DEF LiveFollows
    <3>2. CASE next > 0
      <4> DEFINE reached == sent' \cup Seqs(stream.queue)
      <4>1. CASE a < next - Len(events) \/ stream.from <= next - Len(events)
        <5>1. reached = a .. next - 1 \/ (writer.at = "stored" /\ reached = a .. next - 2)
          BY <2>3, <2>4, <2>5, <3>2, <4>1
        <5>2. a <= next - 1
          BY <2>3, <2>4, <3>2, <4>1
        <5> QED
          BY <1>1, <2>2, <2>3, <2>4, <3>2, <5>1, <5>2 DEF LiveFollows
      <4>2. CASE next - Len(events) <= a /\ stream.from > next - Len(events)
        <5>1. reached = next - Len(events) .. next - 1
              \/ (writer.at = "stored" /\ reached = next - Len(events) .. next - 2)
          BY <2>3, <2>4, <2>5, <3>2, <4>2
        <5>2. next - Len(events) \in 0 .. next - 1
          BY <2>4, <3>2
        <5> QED
          BY <1>1, <2>2, <3>2, <5>1, <5>2 DEF LiveFollows
      <4> QED
        BY <2>3, <2>4, <4>1, <4>2
    <3> QED
      BY <2>4, <3>1, <3>2
  <2> QED
    BY <1>1, <2>2, <2>6, <2>7
    DEF BufferInv, BufferTyped, EndsAtHead, WriterHasNewest, ReadersAreBehind, QueueFollows,
        PollMissesNothing, LoggersKept, PropagationRestored
<1> QED
  BY <1>2, <1>3

(* An event goes from the queue to the client.                             *)
LEMMA EventYieldedKeeps ==
    ASSUME BufferInv, EventYielded
    PROVE  BufferInv'
<1>1. /\ UNCHANGED <<next, events, writer, handler, propagate, poll, polled>>
      /\ stream.at = "live" /\ stream.queue \in Seq(Written) /\ stream.queue # <<>>
      /\ stream' = [stream EXCEPT !.queue = Tail(stream.queue)]
      /\ sent' = sent \cup {Head(stream.queue).seq}
  BY DEF EventYielded, BufferInv, BufferTyped, Streams
<1>2. /\ Tail(stream.queue) \in Seq(Written) /\ Head(stream.queue) \in Written
      /\ Seqs(stream.queue) = Seqs(Tail(stream.queue)) \cup {Head(stream.queue).seq}
  BY <1>1, SeqsOfTail
<1>3. /\ stream' \in Streams /\ stream'.at = "live" /\ stream'.from = stream.from
      /\ stream'.queue = Tail(stream.queue)
  BY <1>1, <1>2 DEF BufferInv, BufferTyped, Streams
<1>4. Head(stream.queue).seq \in 0 .. NumEvents - 1
  BY <1>2 DEF Written
<1>5. sent' \cup Seqs(stream'.queue) = sent \cup Seqs(stream.queue)
  BY <1>1, <1>2, <1>3
<1>6. LiveFollows'
  BY <1>1, <1>3, <1>5 DEF BufferInv, LiveFollows
<1> QED
  BY <1>1, <1>3, <1>4, <1>6
  DEF BufferInv, BufferTyped, EndsAtHead, WriterHasNewest, ReadersAreBehind, QueueFollows,
      PollMissesNothing, LoggersKept, PropagationRestored

LEMMA BufferStarts == BufferInit => BufferInv
<1> SUFFICES ASSUME BufferInit
             PROVE  BufferInv
  OBVIOUS
<1>1. /\ <<>> \in Seq(Written) /\ Len(<<>>) = 0 /\ DOMAIN <<>> = {} /\ Seqs(<<>>) = {}
      /\ NumEvents \in Nat /\ NumEvents > 0 /\ MaxLen \in Nat
  BY EmptySeq, BufferAssumption DEF Seqs
<1>2. poll \in Polls /\ poll.cursor = 0 /\ poll.device \in Devices
  <2>1. poll \in [at : {"idle"}, cursor : {0}, device : Devices, scan : {<<>>}]
    BY DEF BufferInit
  <2>2. 0 \in 0 .. NumEvents /\ \A scan \in {<<>>} : scan \in Seq(Written)
    BY <1>1
  <2> QED
    BY <2>1, <2>2 DEF Polls
<1>3. writer \in [at : {"idle", "stored"}, event : Written] /\ writer.at = "idle"
  <2>1. (CHOOSE d \in Devices : TRUE) \in Devices
    BY <1>2
  <2>2. Event(0, CHOOSE d \in Devices : TRUE) \in Written
    BY <1>1, <2>1 DEF Event, Written
  <2> QED
    BY <2>2 DEF BufferInit, Quiet
<1>4. stream \in Streams /\ stream.at = "closed" /\ stream.queue = <<>> /\ stream.from = 0
  BY <1>1 DEF BufferInit, Closed, Streams
<1>5. /\ handler \in [on : BOOLEAN, previous : [Loggers -> BOOLEAN]]
      /\ propagate \in [Loggers -> BOOLEAN] /\ LoggersKept
  <2>1. handler = [on |-> FALSE, previous |-> [l \in Loggers |-> TRUE]]
        /\ propagate = [l \in Loggers |-> TRUE]
    BY DEF BufferInit
  <2>2. ~handler.on
    BY <2>1
  <2> QED
    BY <2>1, <2>2 DEF LoggersKept, PropagationRestored
<1> QED
  BY <1>1, <1>2, <1>3, <1>4, <1>5
  DEF BufferInit, BufferInv, BufferTyped, EndsAtHead, WriterHasNewest, ReadersAreBehind, QueueFollows,
      LiveFollows, PollMissesNothing

LEMMA BufferSteps ==
    ASSUME BufferInv, [BufferNext]_bufferVars
    PROVE  BufferInv'
<1>1. CASE UNCHANGED bufferVars
  BY <1>1 DEF bufferVars, BufferInv, BufferTyped, EndsAtHead, WriterHasNewest, ReadersAreBehind,
     QueueFollows, LiveFollows, PollMissesNothing, Delivered, LoggersKept, PropagationRestored
<1>2. CASE BufferNext
  BY <1>2, CaptureKeeps, EventStoredKeeps, EventQueuedKeeps, PollBeginsKeeps, PollEndsKeeps,
     StreamOpensKeeps, HistoryReadKeeps, EventYieldedKeeps
  DEF BufferNext, WriterSteps, StreamSteps
<1> QED
  BY <1>1, <1>2

(* No reader misses an event, and the loggers are put back: for every      *)
(* number of events, size of the buffer, limit and set of devices.         *)
THEOREM NothingIsMissed == BufferSpec => []CaptureIsWhole
<1>1. BufferInit => BufferInv
  BY BufferStarts
<1>2. BufferInv /\ [BufferNext]_bufferVars => BufferInv'
  BY BufferSteps
<1>3. BufferInv => CaptureIsWhole
  BY BufferInvHolds
<1> QED
  BY <1>1, <1>2, <1>3, PTL DEF BufferSpec

(***************************************************************************)
(* The types of the store and of the proxy                                 *)
(***************************************************************************)

LEMMA StoreStepTyped ==
    ASSUME StoreTypeOK, [StoreNext]_storeVars
    PROVE  StoreTypeOK'
<1> DEFINE Clock == 0 .. MaxClock
           Entry == [there : BOOLEAN, ended : Clock \cup {Undated}, bytes : BundleSizes \cup {NoBundle}]
           Places == {"new", "starting", "live", "dead", "gone"}
<1>1. /\ clock \in Clock /\ MaxClock \in Nat /\ MaxFailures \in Nat
      /\ listed \in [Stored -> Places] /\ died \in [Stored -> Clock]
      /\ kept \in [Stored -> Entry] /\ failures \in 0 .. MaxFailures
      /\ pass \in [at : {"asleep", "purging"}, now : Clock, corpses : SUBSET Stored]
  BY LimitAssumption DEF StoreTypeOK
<1>2. ASSUME NEW i \in Stored, NEW ended \in Clock \cup {Undated}
      PROVE  WriteMeta(i, ended) \in [Stored -> Entry]
  <2>1. kept \in [Stored -> Entry] /\ TRUE \in BOOLEAN
    BY <1>1
  <2> QED
    BY <2>1 DEF WriteMeta
<1>3. ASSUME NEW table \in [Stored -> Entry], NEW i \in Stored, NEW size \in BundleSizes \cup {NoBundle}
      PROVE  WriteBundle(table, i, size) \in [Stored -> Entry]
  <2>1. TRUE \in BOOLEAN
    OBVIOUS
  <2> QED
    BY <2>1 DEF WriteBundle
<1>4. ASSUME NEW ids \in SUBSET Stored
      PROVE  Delete(ids) \in [Stored -> Entry]
  BY <1>1 DEF Delete, Nothing
<1>5. Resting \in [at : {"asleep", "purging"}, now : Clock, corpses : SUBSET Stored]
  BY <1>1 DEF Resting
<1> USE DEF StoreTypeOK
<1>6. ASSUME NEW i \in Stored, NEW place \in Places, Relist(i, place)
      PROVE  listed' \in [Stored -> Places]
  BY <1>1, <1>6 DEF Relist
<1>7. CASE UNCHANGED storeVars
  BY <1>1, <1>7 DEF storeVars
<1>8. ASSUME NEW i \in Stored,
             SessionStarts(i) \/ SessionAdded(i) \/ StartRaises(i) \/ SessionEnds(i)
             \/ SnapshotStored(i) \/ BundleServed(i) \/ CorpseDeleted(i)
      PROVE  StoreTypeOK'
  <2> HIDE DEF Clock, Entry, Places
  <2>1. Undated \in Clock \cup {Undated} /\ clock \in Clock \cup {Undated}
        /\ {"new", "starting", "live", "dead", "gone"} \subseteq Places
        /\ BundleSizes \subseteq BundleSizes \cup {NoBundle} /\ kept[i].bytes \in BundleSizes \cup {NoBundle}
    BY <1>1 DEF Places, Entry
  <2>2. listed' \in [Stored -> Places] /\ died' \in [Stored -> Clock] /\ kept' \in [Stored -> Entry]
        /\ clock' = clock /\ pass' = pass /\ failures' = failures
    <3>1. CASE SessionStarts(i)
      BY <1>1, <1>2, <1>6, <2>1, <3>1 DEF SessionStarts
    <3>2. CASE SessionAdded(i)
      BY <1>1, <1>6, <2>1, <3>2 DEF SessionAdded
    <3>3. CASE StartRaises(i)
      BY <1>1, <1>6, <2>1, <3>3 DEF StartRaises
    <3>4. CASE SessionEnds(i)
      <4>1. PICK retain \in BOOLEAN, size \in BundleSizes \cup {kept[i].bytes} :
               /\ Relist(i, IF retain \/ listed[i] = "starting" THEN "dead" ELSE "gone")
               /\ kept' = WriteBundle(WriteMeta(i, clock), i, size)
        BY <3>4 DEF SessionEnds
      <4>2. (IF retain \/ listed[i] = "starting" THEN "dead" ELSE "gone") \in Places
        BY <2>1
      <4>3. size \in BundleSizes \cup {NoBundle}
        BY <2>1
      <4>4. listed' \in [Stored -> Places]
        BY <1>6, <4>1, <4>2
      <4>5. kept' \in [Stored -> Entry]
        BY <1>2, <1>3, <2>1, <4>1, <4>3
      <4>6. died' \in [Stored -> Clock] /\ UNCHANGED <<clock, pass, failures>>
        BY <1>1, <3>4 DEF SessionEnds
      <4> QED
        BY <4>4, <4>5, <4>6
    <3>5. CASE SnapshotStored(i)
      <4>1. PICK size \in BundleSizes : kept' = WriteBundle(WriteMeta(i, clock), i, size)
        BY <3>5 DEF SnapshotStored
      <4>2. kept' \in [Stored -> Entry]
        BY <1>2, <1>3, <2>1, <4>1
      <4> QED
        BY <1>1, <3>5, <4>2 DEF SnapshotStored
    <3>6. CASE BundleServed(i)
      BY <1>1, <1>3, <2>1, <3>6 DEF BundleServed
    <3>7. CASE CorpseDeleted(i)
      BY <1>1, <1>4, <1>6, <2>1, <3>7 DEF CorpseDeleted
    <3> QED
      BY <1>8, <3>1, <3>2, <3>3, <3>4, <3>5, <3>6, <3>7
  <2> QED
    BY <1>1, <2>2 DEF Clock, Entry, Places
<1>9. CASE PassBegins
  BY <1>1, <1>9 DEF PassBegins
<1>10. ASSUME NEW i \in Stored, CorpsePurged(i)
       PROVE  StoreTypeOK'
  <2>1. listed' \in [Stored -> Places]
    BY <1>1, <1>6, <1>10 DEF CorpsePurged
  <2>2. pass' \in [at : {"asleep", "purging"}, now : Clock, corpses : SUBSET Stored]
    BY <1>1, <1>5, <1>10 DEF CorpsePurged
  <2>3. failures' \in 0 .. MaxFailures /\ UNCHANGED <<clock, died, kept>>
    BY <1>1, <1>10 DEF CorpsePurged
  <2> QED
    BY <1>1, <2>1, <2>2, <2>3
<1>11. CASE StoreSwept
  <2>1. PICK ids \in SUBSET Stored : kept' = Delete(ids)
    BY <1>11 DEF StoreSwept, Expired, Evicted, Sweepable, Entries
  <2> QED
    BY <1>1, <1>4, <1>5, <1>11, <2>1 DEF StoreSwept
<1>12. CASE Tick
  BY <1>1, <1>12 DEF Tick
<1> QED
  BY <1>7, <1>8, <1>9, <1>10, <1>11, <1>12 DEF StoreNext, ReaperSteps

LEMMA StoreStarts == StoreInit => StoreTypeOK
  BY LimitAssumption DEF StoreInit, StoreTypeOK, Nothing, Resting

(***************************************************************************)
(* DiagnosticsStore: the bytes of the store, as sums                       *)
(***************************************************************************)

LEMMA LeastNumber ==
    ASSUME NEW T, T \subseteq Nat, T # {}
    PROVE  \E m \in T : \A k \in T : m <= k
<1>1. PICK m \in T : \A k \in T : ~ (<<k, m>> \in OpToRel(<, Nat))
  BY NatLessThanWellFounded, WFMin
<1>2. \A k \in T : ~ (k < m)
  BY <1>1 DEF OpToRel
<1>3. \A k \in T : m \in Nat /\ k \in Nat
  OBVIOUS
<1>4. \A k \in T : m <= k
  BY <1>2, <1>3
<1> QED
  BY <1>4

(* Induction for a set of numbers, by its least counterexample. *)
LEMMA SetInduction ==
    ASSUME NEW T, 0 \in T, \A n \in Nat : n \in T => n + 1 \in T
    PROVE  Nat \subseteq T
<1> SUFFICES ASSUME Nat \ T # {} PROVE FALSE
  OBVIOUS
<1>1. PICK m \in Nat \ T : \A k \in Nat \ T : m <= k
  BY LeastNumber
<1>2. m \in Nat /\ m # 0
  BY <1>1
<1>3. m - 1 \in Nat /\ m - 1 + 1 = m /\ ~ (m <= m - 1)
  BY <1>2
<1>4. m - 1 \in T
  BY <1>1, <1>3
<1> QED
  BY <1>1, <1>3, <1>4

IsSum(g, w) ==
    /\ g \in [0 .. NumStored -> Int] /\ g[0] = 0
    /\ \A n \in 1 .. NumStored : g[n] = g[n - 1] + w[n]

LEMMA NumStoredIsNat == NumStored \in Nat
  BY LimitAssumption

(* There are sums up to each number, though the prover knows no recursion. *)
LEMMA SumExists ==
    ASSUME NEW w \in [Stored -> Nat]
    PROVE  \E g : IsSum(g, w)
<1> DEFINE Upto(g, m) == /\ g \in [0 .. NumStored -> Int] /\ g[0] = 0
                         /\ \A n \in 1 .. NumStored : n <= m => g[n] = g[n - 1] + w[n]
           T == {m \in Nat : m <= NumStored => \E g : Upto(g, m)}
<1>1. 0 \in T
  <2>1. Upto([n \in 0 .. NumStored |-> 0], 0)
    BY NumStoredIsNat
  <2> QED
    BY <2>1
<1>2. ASSUME NEW m \in Nat, m \in T PROVE m + 1 \in T
  <2> SUFFICES ASSUME m + 1 <= NumStored PROVE \E g : Upto(g, m + 1)
    BY <1>2
  <2>1. PICK g : Upto(g, m)
    BY <1>2, NumStoredIsNat
  <2> DEFINE h == [n \in 0 .. NumStored |-> IF n = m + 1 THEN g[m] + w[m + 1] ELSE g[n]]
  <2>2. m + 1 \in 1 .. NumStored /\ m \in 0 .. NumStored /\ w[m + 1] \in Nat /\ g[m] \in Int
    BY <2>1, NumStoredIsNat DEF Stored
  <2>3. h \in [0 .. NumStored -> Int] /\ h[0] = 0
    BY <2>1, <2>2, NumStoredIsNat
  <2>4. ASSUME NEW n \in 1 .. NumStored, n <= m + 1 PROVE h[n] = h[n - 1] + w[n]
    <3>1. n - 1 \in 0 .. NumStored /\ n \in 0 .. NumStored /\ n - 1 # m + 1
      BY <2>4, NumStoredIsNat
    <3>2. CASE n = m + 1
      BY <2>2, <3>1, <3>2
    <3>3. CASE n # m + 1
      <4>1. n <= m
        BY <2>4, <3>3, NumStoredIsNat
      <4> QED
        BY <2>1, <3>1, <3>3, <4>1
    <3> QED
      BY <3>2, <3>3
  <2> QED
    BY <2>3, <2>4
<1> HIDE DEF T
<1>3. NumStored \in T
  BY <1>1, <1>2, SetInduction, NumStoredIsNat
<1>4. PICK g : Upto(g, NumStored)
  BY <1>3, NumStoredIsNat DEF T
<1>5. IsSum(g, w)
  BY <1>4, NumStoredIsNat DEF IsSum
<1> QED
  BY <1>5

LEMMA TotalIsSum ==
    ASSUME NEW w \in [Stored -> Nat]
    PROVE  \E g : IsSum(g, w) /\ Total(w) = g[NumStored]
<1> DEFINE Def(f) == [n \in 0 .. NumStored |-> IF n = 0 THEN 0 ELSE f[n - 1] + w[n]]
           upto == CHOOSE f : f = Def(f)
<1>1. PICK g : IsSum(g, w)
  BY SumExists
<1>2. g = Def(g)
  <2>1. \A n \in 0 .. NumStored : g[n] = Def(g)[n]
    BY <1>1, NumStoredIsNat DEF IsSum
  <2>2. g \in [0 .. NumStored -> Int]
    BY <1>1 DEF IsSum
  <2> QED
    BY <2>1, <2>2
<1>3. upto = Def(upto)
  BY <1>2
<1>4. Total(w) = upto[NumStored]
  BY DEF Total
<1> HIDE DEF upto
<1>5. IsSum(upto, w)
  <2>1. DOMAIN upto = 0 .. NumStored
    BY <1>3
  <2>2. \A n \in 0 .. NumStored : upto[n] = IF n = 0 THEN 0 ELSE upto[n - 1] + w[n]
    BY <1>3
  <2> DEFINE T == {m \in Nat : m <= NumStored => upto[m] \in Int}
  <2>3. 0 \in T
    BY <2>2, NumStoredIsNat
  <2>4. ASSUME NEW m \in Nat, m \in T PROVE m + 1 \in T
    <3> SUFFICES ASSUME m + 1 <= NumStored PROVE upto[m + 1] \in Int
      OBVIOUS
    <3>1. m + 1 \in Stored /\ m + 1 \in 0 .. NumStored /\ m + 1 # 0 /\ m + 1 - 1 = m
      BY NumStoredIsNat DEF Stored
    <3>2. upto[m] \in Int
      BY <2>4, NumStoredIsNat
    <3>3. upto[m + 1] = upto[m] + w[m + 1]
      BY <2>2, <3>1
    <3>4. w[m + 1] \in Nat
      BY <3>1
    <3> QED
      BY <3>2, <3>3, <3>4
  <2>5. \A m \in Nat : m \in T
    <3> HIDE DEF T
    <3> QED
      BY <2>3, <2>4, SetInduction
  <2>6. upto \in [0 .. NumStored -> Int]
    <3>1. upto = [n \in 0 .. NumStored |-> upto[n]]
      BY <1>3, <2>1
    <3>2. \A n \in 0 .. NumStored : upto[n] \in Int
      BY <2>5, NumStoredIsNat
    <3> QED
      BY <3>1, <3>2
  <2> QED
    BY <2>2, <2>6, NumStoredIsNat DEF IsSum
<1> QED
  BY <1>4, <1>5

LEMMA TotalIsNat ==
    ASSUME NEW w \in [Stored -> Nat]
    PROVE  Total(w) \in Nat
<1>1. PICK g : IsSum(g, w) /\ Total(w) = g[NumStored]
  BY TotalIsSum
<1> DEFINE T == {m \in Nat : m <= NumStored => g[m] \in Nat}
<1>2. 0 \in T
  BY <1>1 DEF IsSum
<1>3. ASSUME NEW m \in Nat, m \in T PROVE m + 1 \in T
  <2> SUFFICES ASSUME m + 1 <= NumStored PROVE g[m + 1] \in Nat
    OBVIOUS
  <2>1. m + 1 \in 1 .. NumStored /\ m + 1 - 1 = m /\ m <= NumStored
    BY NumStoredIsNat
  <2>2. g[m + 1] = g[m] + w[m + 1] /\ w[m + 1] \in Nat /\ g[m] \in Nat
    BY <1>1, <1>3, <2>1 DEF IsSum, Stored
  <2> QED
    BY <2>2
<1> HIDE DEF T
<1>4. NumStored \in T
  BY <1>2, <1>3, SetInduction, NumStoredIsNat
<1> QED
  BY <1>1, <1>4, NumStoredIsNat DEF T

LEMMA TotalIsMonotone ==
    ASSUME NEW w \in [Stored -> Nat], NEW v \in [Stored -> Nat],
           \A i \in Stored : w[i] <= v[i]
    PROVE  Total(w) <= Total(v)
<1>1. PICK g : IsSum(g, w) /\ Total(w) = g[NumStored]
  BY TotalIsSum
<1>2. PICK h : IsSum(h, v) /\ Total(v) = h[NumStored]
  BY TotalIsSum
<1> DEFINE T == {m \in Nat : m <= NumStored => g[m] <= h[m]}
<1>3. 0 \in T
  BY <1>1, <1>2 DEF IsSum
<1>4. ASSUME NEW m \in Nat, m \in T PROVE m + 1 \in T
  <2> SUFFICES ASSUME m + 1 <= NumStored PROVE g[m + 1] <= h[m + 1]
    OBVIOUS
  <2>1. m + 1 \in 1 .. NumStored /\ m + 1 - 1 = m /\ m \in 0 .. NumStored
    BY NumStoredIsNat
  <2>2. /\ g[m + 1] = g[m] + w[m + 1] /\ h[m + 1] = h[m] + v[m + 1]
        /\ w[m + 1] \in Nat /\ v[m + 1] \in Nat /\ g[m] \in Int /\ h[m] \in Int
        /\ w[m + 1] <= v[m + 1]
    BY <1>1, <1>2, <2>1 DEF IsSum, Stored
  <2>3. g[m] <= h[m]
    BY <1>4, <2>1
  <2> QED
    BY <2>2, <2>3
<1> HIDE DEF T
<1>5. NumStored \in T
  BY <1>3, <1>4, SetInduction, NumStoredIsNat
<1> QED
  BY <1>1, <1>2, <1>5, NumStoredIsNat DEF T

(* Without one of them, the others make that much less. *)
LEMMA TotalWithout ==
    ASSUME NEW w \in [Stored -> Nat], NEW v \in [Stored -> Nat], NEW x \in Stored,
           v[x] = 0, \A i \in Stored \ {x} : v[i] = w[i]
    PROVE  Total(w) = Total(v) + w[x]
<1>1. PICK g : IsSum(g, w) /\ Total(w) = g[NumStored]
  BY TotalIsSum
<1>2. PICK h : IsSum(h, v) /\ Total(v) = h[NumStored]
  BY TotalIsSum
<1>3. x \in Nat /\ 1 <= x /\ x <= NumStored /\ w[x] \in Nat
  BY NumStoredIsNat DEF Stored
<1> DEFINE T == {m \in Nat : m <= NumStored => g[m] = h[m] + (IF x <= m THEN w[x] ELSE 0)}
<1>4. 0 \in T
  BY <1>1, <1>2, <1>3 DEF IsSum
<1>5. ASSUME NEW m \in Nat, m \in T PROVE m + 1 \in T
  <2> SUFFICES ASSUME m + 1 <= NumStored
               PROVE  g[m + 1] = h[m + 1] + (IF x <= m + 1 THEN w[x] ELSE 0)
    OBVIOUS
  <2>1. m + 1 \in 1 .. NumStored /\ m + 1 - 1 = m /\ m \in 0 .. NumStored
    BY NumStoredIsNat
  <2>2. /\ g[m + 1] = g[m] + w[m + 1] /\ h[m + 1] = h[m] + v[m + 1]
        /\ w[m + 1] \in Nat /\ v[m + 1] \in Nat /\ g[m] \in Int /\ h[m] \in Int
        /\ m + 1 # x => v[m + 1] = w[m + 1]
        /\ m + 1 = x => v[m + 1] = 0
    BY <1>1, <1>2, <2>1 DEF IsSum, Stored
  <2>3. g[m] = h[m] + (IF x <= m THEN w[x] ELSE 0)
    BY <1>5, <2>1
  <2>4. CASE m + 1 = x
    BY <1>3, <2>2, <2>3, <2>4
  <2>5. CASE m + 1 # x
    <3>1. (x <= m + 1) <=> (x <= m)
      BY <1>3, <2>5
    <3> QED
      BY <1>3, <2>2, <2>3, <2>5, <3>1
  <2> QED
    BY <2>4, <2>5
<1> HIDE DEF T
<1>6. NumStored \in T
  BY <1>4, <1>5, SetInduction, NumStoredIsNat
<1> QED
  BY <1>1, <1>2, <1>3, <1>6, NumStoredIsNat DEF T

(***************************************************************************)
(* DiagnosticsStore: what a sweep takes                                    *)
(***************************************************************************)

(* An entry that is not there takes no room, and one whose session is      *)
(* being started has no date.                                              *)
StoreInv ==
    /\ StoreTypeOK
    /\ \A i \in Stored : ~kept[i].there => kept[i].bytes = 0
    /\ \A i \in Stored : listed[i] = "starting" => kept[i].ended = Undated

LEMMA BytesAreNat ==
    ASSUME StoreTypeOK, NEW i \in Stored
    PROVE  kept[i].bytes \in Nat
<1>1. kept[i].bytes \in BundleSizes \cup {NoBundle}
  BY DEF StoreTypeOK
<1>2. BundleSizes \cup {NoBundle} \subseteq Nat
  BY SizeAssumption DEF NoBundle
<1> QED
  BY <1>1, <1>2

LEMMA BytesGrow ==
    ASSUME StoreTypeOK, NEW ids, NEW more, ids \subseteq more
    PROVE  /\ BytesOf(ids) \in Nat /\ BytesOf(more) \in Nat
           /\ BytesOf(ids) <= BytesOf(more)
<1> DEFINE w == [i \in Stored |-> IF i \in ids THEN kept[i].bytes ELSE 0]
           v == [i \in Stored |-> IF i \in more THEN kept[i].bytes ELSE 0]
<1>1. w \in [Stored -> Nat] /\ v \in [Stored -> Nat]
  BY BytesAreNat
<1>2. \A i \in Stored : w[i] <= v[i]
  <2> SUFFICES ASSUME NEW i \in Stored PROVE w[i] <= v[i]
    OBVIOUS
  <2>1. kept[i].bytes \in Nat
    BY BytesAreNat
  <2> QED
    BY <2>1
<1>3. BytesOf(ids) = Total(w) /\ BytesOf(more) = Total(v)
  BY DEF BytesOf
<1> HIDE DEF w, v
<1> QED
  BY <1>1, <1>2, <1>3, TotalIsNat, TotalIsMonotone

LEMMA BytesWithout ==
    ASSUME StoreTypeOK, NEW ids, NEW x \in Stored, x \in ids
    PROVE  BytesOf(ids) = BytesOf(ids \ {x}) + kept[x].bytes
<1> DEFINE w == [i \in Stored |-> IF i \in ids THEN kept[i].bytes ELSE 0]
           v == [i \in Stored |-> IF i \in ids \ {x} THEN kept[i].bytes ELSE 0]
<1>1. w \in [Stored -> Nat] /\ v \in [Stored -> Nat]
  BY BytesAreNat
<1>2. v[x] = 0 /\ w[x] = kept[x].bytes /\ \A i \in Stored \ {x} : v[i] = w[i]
  OBVIOUS
<1>3. BytesOf(ids) = Total(w) /\ BytesOf(ids \ {x}) = Total(v)
  BY DEF BytesOf
<1> HIDE DEF w, v
<1> QED
  BY <1>1, <1>2, <1>3, TotalWithout

(* The candidates of a sweep have dates, and one comes before the other.   *)
LEMMA OlderIsOrder ==
    ASSUME StoreTypeOK
    PROVE  /\ \A i \in Sweepable : kept[i].ended \in Nat /\ i \in Nat /\ i \in Stored
           /\ \A i, j \in Sweepable : i = j \/ Older(i, j) \/ Older(j, i)
           /\ \A i \in Sweepable : ~Older(i, i)
           /\ \A i, j, k \in Sweepable : Older(i, j) /\ Older(j, k) => Older(i, k)
<1>1. ASSUME NEW i \in Sweepable
      PROVE  kept[i].ended \in Nat /\ i \in Nat /\ i \in Stored
  <2>1. i \in Stored /\ kept[i].ended \in (0 .. MaxClock) \cup {Undated} /\ kept[i].ended # Undated
    BY DEF StoreTypeOK, Sweepable, Entries
  <2> QED
    BY <2>1, LimitAssumption DEF Stored
<1>2. \A i, j \in Sweepable : i = j \/ Older(i, j) \/ Older(j, i)
  BY <1>1 DEF Older
<1>3. \A i \in Sweepable : ~Older(i, i)
  BY <1>1 DEF Older
<1>4. \A i, j, k \in Sweepable : Older(i, j) /\ Older(j, k) => Older(i, k)
  BY <1>1 DEF Older
<1> QED
  BY <1>1, <1>2, <1>3, <1>4

LEMMA SomeIsOldest ==
    ASSUME StoreTypeOK, NEW S, S \subseteq Sweepable, S # {}
    PROVE  \E i \in S : \A j \in S \ {i} : Older(i, j)
<1> USE OlderIsOrder
<1> DEFINE T == {kept[i].ended : i \in S}
<1>1. PICK e \in T : \A k \in T : e <= k
  <2>1. T \subseteq Nat /\ T # {}
    OBVIOUS
  <2> HIDE DEF T
  <2> QED
    BY <2>1, LeastNumber
<1> DEFINE U == {i \in S : kept[i].ended = e}
<1>2. PICK i \in U : \A k \in U : i <= k
  <2>1. U \subseteq Nat /\ U # {}
    BY <1>1
  <2> HIDE DEF U
  <2> QED
    BY <2>1, LeastNumber
<1>3. i \in S /\ kept[i].ended = e
  BY <1>2
<1>4. ASSUME NEW j \in S \ {i} PROVE Older(i, j)
  <2>1. j \in S /\ j # i /\ kept[j].ended \in Nat /\ kept[i].ended \in Nat /\ i \in Nat /\ j \in Nat
    BY <1>3, <1>4
  <2>2. kept[i].ended <= kept[j].ended
    BY <1>1, <1>3, <2>1
  <2>3. kept[i].ended = kept[j].ended => i <= j
    BY <1>2, <1>3, <2>1
  <2> QED
    BY <2>1, <2>2, <2>3 DEF Older
<1> QED
  BY <1>3, <1>4

(* In the eviction among the entries in rest. *)
Before(rest, i) == {j \in rest \cap Sweepable : Older(j, i)}

LEMMA EvictionIsDownward ==
    ASSUME StoreTypeOK, NEW rest, NEW i \in Evicted(rest), NEW j \in rest \cap Sweepable, Older(j, i)
    PROVE  j \in Evicted(rest)
<1>1. i \in Sweepable /\ BytesOf(rest \ Before(rest, i)) > MaxBytes
  BY DEF Evicted, Before
<1>2. Before(rest, j) \subseteq Before(rest, i)
  BY <1>1, OlderIsOrder DEF Before
<1>3. rest \ Before(rest, i) \subseteq rest \ Before(rest, j)
  BY <1>2
<1>4. /\ BytesOf(rest \ Before(rest, i)) \in Nat /\ BytesOf(rest \ Before(rest, j)) \in Nat
      /\ BytesOf(rest \ Before(rest, i)) <= BytesOf(rest \ Before(rest, j))
  BY <1>3, BytesGrow
<1>5. BytesOf(rest \ Before(rest, j)) > MaxBytes
  BY <1>1, <1>4, LimitAssumption
<1> QED
  BY <1>5 DEF Evicted, Before

(* The eviction ends below the cap, or with nothing left that may go. *)
LEMMA EvictionMeetsCap ==
    ASSUME StoreTypeOK, NEW rest,
           (rest \cap Sweepable) \ Evicted(rest) # {}
    PROVE  BytesOf(rest \ Evicted(rest)) <= MaxBytes
<1> DEFINE S == (rest \cap Sweepable) \ Evicted(rest)
<1>1. PICK i \in S : \A j \in S \ {i} : Older(i, j)
  BY SomeIsOldest
<1>2. i \in rest \cap Sweepable /\ i \notin Evicted(rest)
  BY <1>1
<1>3. Before(rest, i) \subseteq Evicted(rest)
  <2> SUFFICES ASSUME NEW j \in Before(rest, i), j \notin Evicted(rest) PROVE FALSE
    OBVIOUS
  <2>1. j \in Sweepable /\ i \in Sweepable /\ Older(j, i)
    BY <1>2 DEF Before
  <2>2. j \in S
    BY DEF Before
  <2>3. j = i \/ Older(i, j)
    BY <1>1, <2>2
  <2> QED
    BY <2>1, <2>3, OlderIsOrder
<1>4. rest \ Evicted(rest) \subseteq rest \ Before(rest, i)
  BY <1>3
<1>5. /\ BytesOf(rest \ Evicted(rest)) \in Nat /\ BytesOf(rest \ Before(rest, i)) \in Nat
      /\ BytesOf(rest \ Evicted(rest)) <= BytesOf(rest \ Before(rest, i))
  BY <1>4, BytesGrow
<1>6. ~ (BytesOf(rest \ Before(rest, i)) > MaxBytes)
  BY <1>2 DEF Evicted, Before
<1> QED
  BY <1>5, <1>6, LimitAssumption

(* The youngest that went had to go. *)
LEMMA EvictionIsNeeded ==
    ASSUME StoreTypeOK, NEW rest, NEW i \in Evicted(rest),
           \A j \in Evicted(rest) : ~Older(i, j)
    PROVE  BytesOf(rest \ Evicted(rest)) + kept[i].bytes > MaxBytes
<1>1. /\ i \in rest /\ i \in Sweepable /\ i \in Stored
      /\ BytesOf(rest \ Before(rest, i)) > MaxBytes
  BY OlderIsOrder DEF Evicted, Before
<1>2. Evicted(rest) = Before(rest, i) \cup {i}
  <2>1. ASSUME NEW j \in Evicted(rest) PROVE j \in Before(rest, i) \cup {i}
    <3>1. j \in rest \cap Sweepable
      BY DEF Evicted
    <3> QED
      BY <1>1, <3>1, OlderIsOrder DEF Before
  <2>2. ASSUME NEW j \in Before(rest, i) PROVE j \in Evicted(rest)
    BY EvictionIsDownward DEF Before
  <2> QED
    BY <2>1, <2>2
<1>3. i \in rest \ Before(rest, i) /\ (rest \ Before(rest, i)) \ {i} = rest \ Evicted(rest)
  BY <1>1, <1>2, OlderIsOrder DEF Before
<1>4. BytesOf(rest \ Before(rest, i)) = BytesOf(rest \ Evicted(rest)) + kept[i].bytes
  BY <1>1, <1>3, BytesWithout
<1> QED
  BY <1>1, <1>4

LEMMA SweptBytes ==
    ASSUME StoreInv, NEW ids, kept' = Delete(ids)
    PROVE  BytesLeft = BytesOf(Entries \ ids)
<1>1. ASSUME NEW i \in Stored
      PROVE  kept'[i].bytes = IF i \in Entries \ ids THEN kept[i].bytes ELSE 0
  <2>1. kept'[i] = IF i \in ids THEN Nothing ELSE kept[i]
    BY DEF Delete
  <2>2. Nothing.bytes = 0
    BY DEF Nothing, NoBundle
  <2>3. i \notin Entries => kept[i].bytes = 0
    BY DEF StoreInv, Entries
  <2> QED
    BY <2>1, <2>2, <2>3
<1>2. [i \in Stored |-> kept'[i].bytes] = [i \in Stored |-> IF i \in Entries \ ids THEN kept[i].bytes ELSE 0]
  BY <1>1
<1> QED
  BY <1>2 DEF BytesLeft, BytesOf

LEMMA OnlySweepsEnd ==
    ASSUME [StoreNext]_storeVars, SweepEnds
    PROVE  StoreSwept
<1>1. pass.at = "purging" /\ pass.corpses = {} /\ pass'.at = "asleep" /\ pass' # pass
  BY DEF SweepEnds
<1>2. ~ UNCHANGED storeVars /\ ~ Tick
  BY <1>1 DEF storeVars, Tick
<1>3. ASSUME NEW i \in Stored
      PROVE  ~ (\/ SessionStarts(i) \/ SessionAdded(i) \/ StartRaises(i) \/ SessionEnds(i)
                \/ SnapshotStored(i) \/ BundleServed(i) \/ CorpseDeleted(i))
  BY <1>1 DEF SessionStarts, SessionAdded, StartRaises, SessionEnds, SnapshotStored,
              BundleServed, CorpseDeleted
<1>4. ~ PassBegins /\ \A i \in Stored : ~ CorpsePurged(i)
  BY <1>1 DEF PassBegins, CorpsePurged
<1> QED
  BY <1>2, <1>3, <1>4 DEF StoreNext, ReaperSteps

LEMMA SweepTakesWhatItShould ==
    ASSUME StoreInv, [StoreNext]_storeVars
    PROVE  SparesRunning /\ MeetsCap /\ EvictsOldestOnly
<1>1. CASE ~ SweepEnds
  BY <1>1 DEF SparesRunning, MeetsCap, EvictsOldestOnly, Swept
<1>2. CASE SweepEnds
  <2> DEFINE expired == Expired(pass.now)
             rest == Entries \ expired
             evicted == Evicted(rest)
  <2>1. kept' = Delete(expired \cup evicted)
    BY <1>2, OnlySweepsEnd DEF StoreSwept
  <2>2. /\ expired \subseteq Sweepable /\ evicted \subseteq rest \cap Sweepable
        /\ Sweepable \subseteq Entries /\ Entries \subseteq Stored
    BY DEF Expired, Evicted, Sweepable, Entries
  <2>3. Entries \ (expired \cup evicted) = rest \ evicted
    OBVIOUS
  <2>4. BytesLeft = BytesOf(rest \ evicted)
    BY <2>1, <2>3, SweptBytes
  <2>5. \A i \in Stored : /\ Swept(i) => i \in expired \cup evicted
                          /\ Swept(i) /\ ~Outdated(i) => i \in evicted
                          /\ i \in evicted => Swept(i) /\ ~Outdated(i)
    <3> SUFFICES ASSUME NEW i \in Stored
                 PROVE  /\ Swept(i) => i \in expired \cup evicted
                        /\ Swept(i) /\ ~Outdated(i) => i \in evicted
                        /\ i \in evicted => Swept(i) /\ ~Outdated(i)
      OBVIOUS
    <3>1. kept'[i] = IF i \in expired \cup evicted THEN Nothing ELSE kept[i]
      BY <2>1 DEF Delete
    <3>2. ~Nothing.there
      BY DEF Nothing
    <3>3. i \in expired => Outdated(i)
      BY DEF Expired, Outdated
    <3>4. i \in evicted => kept[i].there /\ ~Outdated(i)
      BY <2>2 DEF Expired, Outdated, Entries
    <3> QED
      BY <1>2, <3>1, <3>2, <3>3, <3>4 DEF Swept
  <2>6. \A i \in Sweepable : ~kept'[i].there <=> i \in expired \cup evicted
    <3> SUFFICES ASSUME NEW i \in Sweepable
                 PROVE  ~kept'[i].there <=> i \in expired \cup evicted
      OBVIOUS
    <3>1. i \in Stored /\ kept[i].there
      BY <2>2 DEF Entries
    <3>2. kept'[i] = IF i \in expired \cup evicted THEN Nothing ELSE kept[i]
      BY <2>1, <3>1 DEF Delete
    <3>3. ~Nothing.there
      BY DEF Nothing
    <3> QED
      BY <3>1, <3>2, <3>3
  <2> HIDE DEF expired, rest, evicted
  <2>7. SparesRunning
    <3> SUFFICES ASSUME NEW i \in Stored, Swept(i) PROVE listed[i] \notin {"starting", "live"}
      BY DEF SparesRunning
    <3>1. i \in Sweepable
      BY <2>2, <2>5
    <3> QED
      BY <3>1 DEF StoreInv, Sweepable
  <2>8. MeetsCap
    <3>1. CASE (rest \cap Sweepable) \ evicted # {}
      BY <2>4, <3>1, EvictionMeetsCap DEF StoreInv, MeetsCap, evicted
    <3>2. CASE (rest \cap Sweepable) \ evicted = {}
      <4>1. \A i \in Sweepable : i \in expired \cup evicted
        BY <2>2, <3>2 DEF rest
      <4> QED
        BY <2>6, <4>1 DEF MeetsCap
    <3> QED
      BY <3>1, <3>2
  <2>9. EvictsOldestOnly
    <3> SUFFICES ASSUME NEW i \in Stored, Swept(i), ~Outdated(i)
                 PROVE  /\ \A j \in Sweepable : kept'[j].there => Older(i, j)
                        /\ \/ BytesLeft + kept[i].bytes > MaxBytes
                           \/ \E j \in Stored : Swept(j) /\ ~Outdated(j) /\ Older(i, j)
      BY DEF EvictsOldestOnly
    <3>1. i \in evicted /\ i \in Sweepable
      BY <2>2, <2>5
    <3>2. ASSUME NEW j \in Sweepable, kept'[j].there PROVE Older(i, j)
      <4>1. j \notin expired /\ j \notin evicted
        BY <2>6, <3>2
      <4>2. j \in rest \cap Sweepable
        BY <2>2, <4>1 DEF rest
      <4>3. ~ Older(j, i)
        BY <3>1, <4>1, <4>2, EvictionIsDownward DEF StoreInv, evicted
      <4> QED
        BY <3>1, <4>1, <4>3, OlderIsOrder DEF StoreInv
    <3>3. CASE \E j \in evicted : Older(i, j)
      <4>1. \E j \in Stored : Swept(j) /\ ~Outdated(j) /\ Older(i, j)
        BY <2>2, <2>5, <3>3
      <4> QED
        BY <3>2, <4>1
    <3>4. CASE \A j \in evicted : ~Older(i, j)
      <4>1. BytesOf(rest \ evicted) + kept[i].bytes > MaxBytes
        BY <3>1, <3>4, EvictionIsNeeded DEF StoreInv, evicted
      <4> QED
        BY <2>4, <3>2, <4>1
    <3> QED
      BY <3>3, <3>4
  <2> QED
    BY <2>7, <2>8, <2>9
<1> QED
  BY <1>1, <1>2

(* What is written is there, and what is deleted takes no room. *)
LEMMA WritesPlace ==
    ASSUME StoreTypeOK, NEW i \in Stored, NEW j \in Stored, NEW ended, NEW size
    PROVE  /\ WriteMeta(i, ended)[i].there /\ WriteMeta(i, ended)[i].ended = ended
           /\ WriteBundle(kept, i, size)[i].there
           /\ WriteBundle(WriteMeta(i, ended), i, size)[i].there
           /\ i # j => /\ WriteMeta(i, ended)[j] = kept[j]
                       /\ WriteBundle(kept, i, size)[j] = kept[j]
                       /\ WriteBundle(WriteMeta(i, ended), i, size)[j] = kept[j]
<1>1. DOMAIN kept = Stored /\ DOMAIN WriteMeta(i, ended) = Stored
  BY DEF StoreTypeOK, WriteMeta
<1>2. /\ kept[i].there \in BOOLEAN
      /\ DOMAIN kept[i] = {"there", "ended", "bytes"}
  BY DEF StoreTypeOK
<1>3. /\ WriteMeta(i, ended)[i] = [kept[i] EXCEPT !.there = TRUE, !.ended = ended]
      /\ i # j => WriteMeta(i, ended)[j] = kept[j]
  BY <1>1 DEF WriteMeta
<1>4. ASSUME NEW table, DOMAIN table = Stored
      PROVE  /\ WriteBundle(table, i, size)[i] = [table[i] EXCEPT !.there = TRUE, !.bytes = size]
             /\ i # j => WriteBundle(table, i, size)[j] = table[j]
  BY <1>4 DEF WriteBundle
<1>5. ASSUME NEW item, DOMAIN item = {"there", "ended", "bytes"}, NEW value
      PROVE  /\ [item EXCEPT !.there = TRUE, !.bytes = value].there
             /\ [item EXCEPT !.there = TRUE, !.ended = value].there
             /\ [item EXCEPT !.there = TRUE, !.ended = value].ended = value
             /\ DOMAIN [item EXCEPT !.there = TRUE, !.ended = value] = {"there", "ended", "bytes"}
  BY <1>5
<1>6. /\ DOMAIN WriteMeta(i, ended)[i] = {"there", "ended", "bytes"}
      /\ WriteMeta(i, ended)[i].there
      /\ WriteMeta(i, ended)[i].ended = ended
  BY <1>2, <1>3, <1>5, Zenon
<1>7. WriteBundle(kept, i, size)[i].there
  <2>1. WriteBundle(kept, i, size)[i] = [kept[i] EXCEPT !.there = TRUE, !.bytes = size]
    BY <1>1, <1>4, Zenon
  <2> QED
    BY <1>2, <1>5, <2>1, Zenon
<1>8. WriteBundle(WriteMeta(i, ended), i, size)[i].there
  <2> DEFINE table == WriteMeta(i, ended)
  <2>1. WriteBundle(table, i, size)[i] = [table[i] EXCEPT !.there = TRUE, !.bytes = size]
    BY <1>1, <1>4, Zenon
  <2> QED
    BY <1>5, <1>6, <2>1, Zenon
<1>9. i # j => /\ WriteMeta(i, ended)[j] = kept[j]
               /\ WriteBundle(kept, i, size)[j] = kept[j]
               /\ WriteBundle(WriteMeta(i, ended), i, size)[j] = kept[j]
  BY <1>1, <1>3, <1>4, Zenon
<1> QED
  BY <1>6, <1>7, <1>8, <1>9, Zenon

LEMMA StoreStep ==
    ASSUME StoreInv, [StoreNext]_storeVars
    PROVE  StoreInv'
<1>1. StoreTypeOK' /\ StoreTypeOK
  BY StoreStepTyped DEF StoreInv
<1> DEFINE Sound(j) == /\ ~kept[j].there => kept[j].bytes = 0
                       /\ listed[j] = "starting" => kept[j].ended = Undated
<1>2. SUFFICES ASSUME NEW j \in Stored
               PROVE  Sound(j)'
  BY <1>1 DEF StoreInv
<1>3. Sound(j)
  BY DEF StoreInv
<1>4. CASE kept'[j] = kept[j] /\ listed'[j] # "starting"
  BY <1>3, <1>4
<1>5. CASE kept'[j] = kept[j] /\ listed'[j] = listed[j]
  BY <1>3, <1>5
<1>6. CASE kept'[j] = Nothing
  BY <1>6 DEF Nothing, NoBundle
<1>7. CASE kept'[j].there /\ listed'[j] # "starting"
  BY <1>7
<1>8. CASE kept'[j].there /\ kept'[j].ended = Undated
  BY <1>8
<1>9. ASSUME NEW i \in Stored, NEW place, Relist(i, place)
      PROVE  listed'[i] = place /\ (i # j => listed'[j] = listed[j])
  BY <1>1, <1>9 DEF Relist, StoreTypeOK
<1>10. CASE UNCHANGED <<kept, listed>>
  BY <1>5, <1>10
<1>11. ASSUME NEW i \in Stored, SessionStarts(i)
       PROVE  Sound(j)'
  BY <1>1, <1>5, <1>8, <1>9, <1>11, WritesPlace DEF SessionStarts
<1>12. ASSUME NEW i \in Stored, SessionAdded(i) \/ StartRaises(i) \/ CorpsePurged(i)
       PROVE  Sound(j)'
  BY <1>4, <1>5, <1>9, <1>12 DEF SessionAdded, StartRaises, CorpsePurged
<1>13. ASSUME NEW i \in Stored, SessionEnds(i)
       PROVE  Sound(j)'
  <2>1. PICK place \in {"dead", "gone"}, size \in BundleSizes \cup {kept[i].bytes} :
            Relist(i, place) /\ kept' = WriteBundle(WriteMeta(i, clock), i, size)
    BY <1>13 DEF SessionEnds
  <2> QED
    BY <1>1, <1>5, <1>7, <1>9, <2>1, WritesPlace
<1>14. ASSUME NEW i \in Stored, SnapshotStored(i) \/ BundleServed(i)
       PROVE  Sound(j)'
  <2>1. PICK size : kept' \in {WriteBundle(WriteMeta(i, clock), i, size), WriteBundle(kept, i, size)}
    BY <1>14 DEF SnapshotStored, BundleServed
  <2>2. listed' = listed /\ listed[i] # "starting"
    BY <1>14 DEF SnapshotStored, BundleServed
  <2> QED
    BY <1>1, <1>5, <1>7, <2>1, <2>2, WritesPlace
<1>15. ASSUME NEW ids, kept' = Delete(ids)
       PROVE  kept'[j] \in {Nothing, kept[j]}
  BY <1>15 DEF Delete
<1>16. ASSUME NEW i \in Stored, CorpseDeleted(i)
       PROVE  Sound(j)'
  <2>1. kept'[j] = Nothing \/ (i # j /\ kept'[j] = kept[j])
    BY <1>16 DEF CorpseDeleted, Delete
  <2> QED
    BY <1>5, <1>6, <1>9, <1>16, <2>1 DEF CorpseDeleted
<1>17. CASE StoreSwept
  BY <1>5, <1>6, <1>15, <1>17 DEF StoreSwept
<1>18. CASE PassBegins \/ Tick \/ UNCHANGED storeVars
  BY <1>10, <1>18 DEF PassBegins, Tick, storeVars
<1> QED
  BY <1>11, <1>12, <1>13, <1>14, <1>16, <1>17, <1>18 DEF StoreNext, ReaperSteps

(* A sweep takes only what has expired or what the byte cap asks for, the  *)
(* oldest first and nothing more, ends below the cap unless nothing is     *)
(* left that may go, and takes nothing from a session that runs or is      *)
(* being started: for any number of sessions, sizes, dates and limits, and *)
(* whatever requests come between the reading of the clock and the sweep.  *)
THEOREM SweepsAreExact == StoreSpec => SweepIsExact
<1>1. StoreInit => StoreInv
  BY StoreStarts DEF StoreInit, StoreInv, Nothing, NoBundle
<1>2. StoreInv /\ [StoreNext]_storeVars => StoreInv'
  BY StoreStep
<1>3. StoreInv /\ [StoreNext]_storeVars => [SparesRunning /\ MeetsCap /\ EvictsOldestOnly]_storeVars
  BY SweepTakesWhatItShould
<1> QED
  BY <1>1, <1>2, <1>3, PTL DEF StoreSpec, SweepIsExact

(* A request that is under way is for a session.                           *)
ProxyInv ==
    /\ ProxyTypeOK
    /\ \A c \in Clients : request[c].at # "idle" => request[c].host \in Hosted

LEMMA ProxyStepTyped ==
    ASSUME ProxyInv, [ProxyNext]_proxyVars
    PROVE  ProxyInv'
<1> DEFINE Request == [at : {"idle", "reading", "sent", "forwarding"}, kind : Kinds, host : Hosted \cup {NoHost}]
           Reply == [status : {"none", "200", "404", "500", "502", "unreachable"},
                     body : {"none", "whole", "truncated", "error_frame"}]
<1>1. /\ known \subseteq Hosted /\ activity \subseteq Hosted
      /\ agent \in [Hosted -> {"answers", "hangs", "gone"}]
      /\ request \in [Clients -> Request] /\ reply \in [Clients -> Reply]
      /\ \A c \in Clients : request[c].at # "idle" => request[c].host \in Hosted
  BY DEF ProxyInv, ProxyTypeOK
<1>2. ASSUME NEW c \in Clients, NEW place \in {"idle", "reading", "sent", "forwarding"}, request[c].at # "idle", Goes(c, place)
      PROVE  request' \in [Clients -> Request]
             /\ \A d \in Clients : request'[d].at # "idle" => request'[d].host \in Hosted
  BY <1>1, <1>2 DEF Goes
<1>3. ASSUME NEW c \in Clients, NEW status \in {"none", "200", "404", "500", "502", "unreachable"},
             NEW body \in {"none", "whole", "truncated", "error_frame"}, Replies(c, status, body)
      PROVE  /\ request' \in [Clients -> Request] /\ reply' \in [Clients -> Reply]
             /\ \A d \in Clients : request'[d].at # "idle" => request'[d].host \in Hosted
  BY <1>1, <1>3 DEF Replies
<1> USE DEF ProxyInv, ProxyTypeOK
<1> HIDE DEF Request, Reply
<1>4. CASE UNCHANGED proxyVars
  BY <1>1, <1>4 DEF proxyVars, Request, Reply
<1>5. ASSUME NEW c \in Clients, NEW s \in Hosted, NEW k \in Kinds, Requested(c, s, k)
      PROVE  ProxyInv'
  <2>1. [at |-> "reading", kind |-> k, host |-> s] \in Request /\ NoReply \in Reply
    BY DEF Request, Reply, NoReply
  <2>2. /\ request' \in [Clients -> Request] /\ reply' \in [Clients -> Reply] /\ activity' \subseteq Hosted
        /\ \A d \in Clients : request'[d].at # "idle" => request'[d].host \in Hosted
    <3>1. CASE s \in known
      BY <1>1, <1>5, <2>1, <3>1 DEF Requested
    <3>2. CASE s \notin known
      BY <1>1, <1>3, <1>5, <3>2 DEF Requested
    <3> QED
      BY <3>1, <3>2
  <2> QED
    BY <1>1, <1>5, <2>2 DEF Requested, Request, Reply
<1>6. ASSUME NEW c \in Clients, NEW s \in Hosted, ListingBegins(c, s)
      PROVE  ProxyInv'
  <2>1. [at |-> "sent", kind |-> "listing", host |-> s] \in Request /\ NoReply \in Reply
    BY DEF Request, Reply, NoReply, Kinds
  <2>2. /\ request' \in [Clients -> Request] /\ reply' \in [Clients -> Reply]
        /\ \A d \in Clients : request'[d].at # "idle" => request'[d].host \in Hosted
    BY <1>1, <1>6, <2>1 DEF ListingBegins
  <2> QED
    BY <1>1, <1>6, <2>2 DEF ListingBegins, Request, Reply
<1>7. ASSUME NEW c \in Clients, RequestSteps(c)
      PROVE  ProxyInv'
  <2>1. /\ request' \in [Clients -> Request] /\ reply' \in [Clients -> Reply]
        /\ \A d \in Clients : request'[d].at # "idle" => request'[d].host \in Hosted
        /\ known' = known /\ agent' = agent
    <3>1. CASE Forwarded(c) \/ Answered(c)
      BY <1>1, <1>2, <3>1 DEF Forwarded, Answered, At
    <3>2. CASE Unreachable(c) \/ SendRaises(c) \/ ProbeFails(c)
      BY <1>1, <1>3, <3>2 DEF Unreachable, SendRaises, ProbeFails
    <3>3. CASE BodyForwarded(c) \/ Probed(c)
      BY <1>1, <1>3, <3>3 DEF BodyForwarded, Probed
    <3>4. CASE BodyBreaks(c)
      BY <1>1, <1>3, <3>4 DEF BodyBreaks
    <3> QED
      BY <1>7, <3>1, <3>2, <3>3, <3>4 DEF RequestSteps
  <2>2. activity' \subseteq Hosted
    <3>1. Probed(c) => HostOf(c) \in Hosted
      BY <1>1 DEF Probed, At, HostOf
    <3> QED
      BY <1>1, <1>7, <3>1
      DEF RequestSteps, Forwarded, Answered, Unreachable, SendRaises, ProbeFails, BodyForwarded, Probed, BodyBreaks
  <2> QED
    BY <1>1, <2>1, <2>2 DEF Request, Reply
<1>8. ASSUME NEW s \in Hosted, AgentChanges(s) \/ SessionRemoved(s)
      PROVE  ProxyInv'
  <2>1. agent' \in [Hosted -> {"answers", "hangs", "gone"}]
    BY <1>1, <1>8 DEF AgentChanges, SessionRemoved
  <2> QED
    BY <1>1, <1>8, <2>1 DEF AgentChanges, SessionRemoved, Request, Reply
<1> QED
  BY <1>4, <1>5, <1>6, <1>7, <1>8 DEF ProxyNext

LEMMA ProxyStarts == ProxyInit => ProxyInv
  BY DEF ProxyInit, ProxyInv, ProxyTypeOK, NoRequest, NoReply, Kinds

(***************************************************************************)
(* All parts                                                               *)
(***************************************************************************)

ServicesInv == LauncherInv /\ StoreTypeOK /\ ProxyInv /\ BufferInv

(* Every variable of the four parts keeps its type, and no part changes a  *)
(* variable of another.                                                    *)
THEOREM ServicesTyped == ServicesSpec => []ServicesTypeOK
<1>1. ServicesInit => ServicesInv
  BY LauncherStarts, StoreStarts, ProxyStarts, BufferStarts DEF ServicesInit, ServicesInv
<1>2. ServicesInv /\ [ServicesNext]_serviceVars => ServicesInv'
  <2> SUFFICES ASSUME ServicesInv, [ServicesNext]_serviceVars
               PROVE  ServicesInv'
    OBVIOUS
  <2>1. /\ [LauncherNext]_launcherVars /\ [StoreNext]_storeVars
        /\ [ProxyNext]_proxyVars /\ [BufferNext]_bufferVars
    BY DEF ServicesNext, serviceVars
  <2> QED
    BY <2>1, LauncherSteps, StoreStepTyped, ProxyStepTyped, BufferSteps DEF ServicesInv
<1>3. ServicesInv => ServicesTypeOK
  BY BufferInvHolds DEF ServicesInv, LauncherInv, ProxyInv, ServicesTypeOK
<1> QED
  BY <1>1, <1>2, <1>3, PTL DEF ServicesSpec
=============================================================================
