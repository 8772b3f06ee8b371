--------------------------- MODULE DiagnosticsStore ---------------------------
(***************************************************************************)
(* The diagnostics store and the reaper's pass over it                     *)
(* (src/boardfarm3_control/store.py, reaper.py): what is kept of each      *)
(* session, when it is swept by age, and what is evicted to bring the      *)
(* store back under its byte cap.  A pass reads the clock and the corpses  *)
(* once; requests go on while it awaits the launcher.                      *)
(***************************************************************************)
EXTENDS Naturals

CONSTANTS
    NumStored,      \* sessions 1 .. NumStored, named in the order of their ids
    MaxClock,       \* a bound of the model: the clock stops there
    CorpseTTL, BundleTTL, MaxBytes,
    BundleSizes,    \* the sizes a bundle can have
    MaxFailures,    \* a bound of the model: how often a purge raises
    Undated         \* the ended_at of an entry that has none

ASSUME SizeAssumption == BundleSizes \subseteq Nat
ASSUME LimitAssumption == {NumStored, MaxClock, CorpseTTL, BundleTTL, MaxBytes, MaxFailures} \subseteq Nat
ASSUME UndatedAssumption == Undated \notin Nat

Stored == 1 .. NumStored

VARIABLES
    clock,
    listed,     \* the registry: "new", "starting", "live", "dead", "gone"
    died,       \* ended_at in the registry
    kept,       \* the entry of each session in the store
    pass,       \* the reaper: its stage, its clock and the corpses to purge
    failures    \* how often a purge raised

storeVars == <<clock, listed, died, kept, pass, failures>>

NoBundle == 0
Nothing == [there |-> FALSE, ended |-> Undated, bytes |-> NoBundle]
Resting == [at |-> "asleep", now |-> 0, corpses |-> {}]

StoreTypeOK ==
    /\ clock \in 0 .. MaxClock
    /\ listed \in [Stored -> {"new", "starting", "live", "dead", "gone"}]
    /\ died \in [Stored -> 0 .. MaxClock]
    /\ kept \in [Stored -> [there : BOOLEAN, ended : 0 .. MaxClock \cup {Undated},
                            bytes : BundleSizes \cup {NoBundle}]]
    /\ pass \in [at : {"asleep", "purging"}, now : 0 .. MaxClock,
                 corpses : SUBSET Stored]
    /\ failures \in 0 .. MaxFailures

StoreInit ==
    /\ clock = 0 /\ failures = 0
    /\ listed = [i \in Stored |-> "new"]
    /\ died = [i \in Stored |-> 0]
    /\ kept = [i \in Stored |-> Nothing]
    /\ pass = Resting

-----------------------------------------------------------------------------
(* DiagnosticsStore *)

WriteMeta(i, ended) == [kept EXCEPT ![i].there = TRUE, ![i].ended = ended]
WriteBundle(table, i, size) == [table EXCEPT ![i].there = TRUE, ![i].bytes = size]
Delete(ids) == [i \in Stored |-> IF i \in ids THEN Nothing ELSE kept[i]]
Entries == {i \in Stored : kept[i].there}

Total(bytes) ==
    LET upto[n \in 0 .. NumStored] == IF n = 0 THEN 0 ELSE upto[n - 1] + bytes[n]
    IN  upto[NumStored]
BytesOf(ids) == Total([i \in Stored |-> IF i \in ids THEN kept[i].bytes ELSE 0])

-----------------------------------------------------------------------------
(* Requests *)

Relist(i, place) == listed' = [listed EXCEPT ![i] = place]

(* ProcessLauncher.start writes a meta.json without ended_at.              *)
SessionStarts(i) ==
    /\ listed[i] = "new"
    /\ Relist(i, "starting")
    /\ kept' = WriteMeta(i, Undated)
    /\ UNCHANGED <<clock, died, pass, failures>>

SessionAdded(i) ==
    /\ listed[i] = "starting"
    /\ Relist(i, "live")
    /\ UNCHANGED <<clock, died, kept, pass, failures>>

(* A start that raises leaves the entry as it is. *)
StartRaises(i) ==
    /\ listed[i] = "starting"
    /\ Relist(i, "gone")
    /\ UNCHANGED <<clock, died, kept, pass, failures>>

(* Whether or not there is a bundle to archive, the meta is dated.  A      *)
(* session whose creation is unwound is retained.                          *)
SessionEnds(i) ==
    /\ listed[i] \in {"starting", "live"}
    /\ \E retain \in BOOLEAN, size \in BundleSizes \cup {kept[i].bytes} :
          /\ Relist(i, IF retain \/ listed[i] = "starting" THEN "dead" ELSE "gone")
          /\ kept' = WriteBundle(WriteMeta(i, clock), i, size)
    /\ died' = [died EXCEPT ![i] = clock]
    /\ UNCHANGED <<clock, pass, failures>>

(* POST diagnostics/snapshot, of a live session or of a corpse.            *)
SnapshotStored(i) ==
    /\ listed[i] \in {"live", "dead"}
    /\ \E size \in BundleSizes : kept' = WriteBundle(WriteMeta(i, clock), i, size)
    /\ UNCHANGED <<clock, listed, died, pass, failures>>

(* GET diagnostics archives a bundle where there is none, and no meta.     *)
BundleServed(i) ==
    /\ listed[i] \in {"live", "dead"}
    /\ kept[i].bytes = NoBundle
    /\ \E size \in BundleSizes : kept' = WriteBundle(kept, i, size)
    /\ UNCHANGED <<clock, listed, died, pass, failures>>

CorpseDeleted(i) ==
    /\ listed[i] = "dead"
    /\ Relist(i, "gone")
    /\ kept' = Delete({i})
    /\ UNCHANGED <<clock, died, pass, failures>>

-----------------------------------------------------------------------------
(* The reaper *)

Defect_PassBegins ==
    /\ pass.at = "asleep"
    /\ pass' = [at |-> "purging", now |-> pass.now,
                corpses |-> {i \in Stored : listed[i] = "dead" /\ clock > died[i] + CorpseTTL}]
    /\ UNCHANGED <<clock, listed, died, kept, failures>>

PassBegins ==
    /\ pass.at = "asleep"
    /\ pass' = [at |-> "purging", now |-> clock,
                corpses |-> {i \in Stored : listed[i] = "dead" /\ clock > died[i] + CorpseTTL}]
    /\ UNCHANGED <<clock, listed, died, kept, failures>>

(* A purge that raises ends the pass: what is behind it waits for the next *)
CorpsePurged(i) ==
    /\ pass.at = "purging" /\ i \in pass.corpses
    /\ \/ /\ Relist(i, "gone")
          /\ pass' = [pass EXCEPT !.corpses = @ \ {i}]
          /\ UNCHANGED failures
       \/ /\ failures < MaxFailures /\ failures' = failures + 1
          /\ pass' = Resting
          /\ UNCHANGED listed
    /\ UNCHANGED <<clock, died, kept>>

(* Not of a live session, and dated.                                       *)
Sweepable == {i \in Entries : listed[i] # "live" /\ kept[i].ended # Undated}

(* _reap_aged_bundles.                                                     *)
Expired(now) == {i \in Sweepable : now > kept[i].ended + BundleTTL}

Older(i, j) ==
    \/ kept[i].ended < kept[j].ended
    \/ kept[i].ended = kept[j].ended /\ i < j

Defect_Evicted(rest) == {i \in rest \cap Sweepable : BytesOf(rest) > MaxBytes}
(* _evict_over_cap: oldest first, while the store exceeds the cap.         *)
Evicted(rest) ==
    {i \in rest \cap Sweepable :
        BytesOf(rest \ {j \in rest \cap Sweepable : Older(j, i)}) > MaxBytes}

(* The sweep has no await: it is one step.                                 *)
StoreSwept ==
    /\ pass.at = "purging" /\ pass.corpses = {}
    /\ LET expired == Expired(pass.now)
       IN  kept' = Delete(expired \cup Evicted(Entries \ expired))
    /\ pass' = Resting
    /\ UNCHANGED <<clock, listed, died, failures>>

-----------------------------------------------------------------------------
Tick ==
    /\ clock < MaxClock
    /\ clock' = clock + 1
    /\ UNCHANGED <<listed, died, kept, pass, failures>>

ReaperSteps == PassBegins \/ (\E i \in Stored : CorpsePurged(i)) \/ StoreSwept

StoreNext ==
    \/ \E i \in Stored :
          \/ SessionStarts(i) \/ SessionAdded(i) \/ StartRaises(i) \/ SessionEnds(i)
          \/ SnapshotStored(i) \/ BundleServed(i) \/ CorpseDeleted(i)
    \/ ReaperSteps \/ Tick

(* run_reaper is a loop of its own and survives whatever a pass raises.    *)
StoreSpec == StoreInit /\ [][StoreNext]_storeVars /\ WF_storeVars(ReaperSteps)

-----------------------------------------------------------------------------
(* Properties *)

SweepEnds == pass.at = "purging" /\ pass.corpses = {} /\ pass'.at = "asleep"
Swept(i) == SweepEnds /\ kept[i].there /\ ~kept'[i].there
Outdated(i) == pass.now > kept[i].ended + BundleTTL
BytesLeft == Total([i \in Stored |-> kept'[i].bytes])

(* A sweep takes nothing from a session that runs or is being started,     *)
(* whatever snapshots were taken of it.                                    *)
SparesRunning == \A i \in Stored : Swept(i) => listed[i] \notin {"starting", "live"}

(* When a sweep ends the store fits its cap, or all that is left is of     *)
(* sessions that live or has no date.                                      *)
MeetsCap ==
    SweepEnds =>
        \/ BytesLeft <= MaxBytes
        \/ \A i \in Sweepable : ~kept'[i].there

(* What has not expired is evicted after all that is older, and the last   *)
(* to go had to go: with it the store would still exceed its cap.          *)
EvictsOldestOnly ==
    \A i \in Stored : Swept(i) /\ ~Outdated(i) =>
        /\ \A j \in Sweepable : kept'[j].there => Older(i, j)
        /\ \/ BytesLeft + kept[i].bytes > MaxBytes
           \/ \E j \in Stored : Swept(j) /\ ~Outdated(j) /\ Older(i, j)

(* A sweep takes what it should and no more, although it works on a date   *)
(* and a list of corpses that requests have outrun.                        *)
SweepIsExact == [][SparesRunning /\ MeetsCap /\ EvictsOldestOnly]_storeVars

(* A dated entry of a session that is over does not outlive its TTL for    *)
(* ever, although a purge that raises keeps a pass from reaching the store *)
EntryExpires ==
    \A i \in Stored :
        i \in Expired(clock) ~> i \notin Expired(clock)

=============================================================================
