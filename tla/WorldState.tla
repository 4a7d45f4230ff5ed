------------------------------ MODULE WorldState ------------------------------
(***************************************************************************)
(* phionyx_core/world: the timeline of one attribute of one entity kept by *)
(* TemporalTracker, and the versions of the world kept by StateVersioning. *)
(* Both are bounded histories that are asked about the past.               *)
(***************************************************************************)
EXTENDS Integers, Sequences

CONSTANTS
    WorldValues,   \* values of the attribute, states of the world
    MaxHistory,    \* max_history_per_entity
    MaxVersions,   \* max_versions
    MaxTurn,       \* bound: turns
    MaxUpdatesSeen, \* bound: updates of the attribute
    MaxSnapshots   \* bound: versions made

ASSUME WorldAssumption ==
    MaxHistory \in Nat \ {0} /\ MaxVersions \in Nat \ {0}

VARIABLES
    states,      \* EntityTimeline.states, with the turn of each
    worldTurn,   \* TemporalTracker._current_turn
    seenUpdates, \* number of updates
    snapshots,   \* StateVersioning._snapshots
    version,     \* StateVersioning._current_version
    told,        \* history: the value of the last update
    current,     \* history: for each turn, the value told last at its end
    made         \* history: the state each version was made with

wvars == <<states, worldTurn, seenUpdates, snapshots, version, told, current, made>>
tracker == <<states, worldTurn, seenUpdates, told, current>>
versions == <<snapshots, version, made>>

NoValue == "no value"

WorldInit ==
    /\ states = <<>> /\ worldTurn = 0 /\ seenUpdates = 0
    /\ snapshots = <<>> /\ version = 0
    /\ told = NoValue /\ current = <<>>
    /\ made = <<>>

\* The last n elements.
LastOf(s, n) == IF Len(s) > n THEN SubSeq(s, Len(s) - n + 1, Len(s)) ELSE s

AdvanceTurn ==
    /\ worldTurn < MaxTurn
    /\ worldTurn' = worldTurn + 1
    /\ current' = Append(current, told)
    /\ UNCHANGED <<states, seenUpdates, told, versions>>

\* Mutant of Kept: the timeline is cut at its end.
BugKept(s) == IF Len(s) > MaxHistory THEN SubSeq(s, 1, MaxHistory) ELSE s

Kept(s) == LastOf(s, MaxHistory)

\* update: a conflict is resolved on record only; the new state is appended
\* whichever value the resolution keeps.
Update(v) ==
    /\ seenUpdates < MaxUpdatesSeen
    /\ seenUpdates' = seenUpdates + 1
    /\ states' = Kept(Append(states, [value |-> v, turn |-> worldTurn]))
    /\ told' = v
    /\ UNCHANGED <<worldTurn, current, versions>>

\* query(at_turn): the last state of a turn that is not later.
Query(atTurn) ==
    LET known == {i \in DOMAIN states : states[i].turn <= atTurn}
    IN  IF known = {} THEN NoValue
        ELSE states[CHOOSE i \in known : \A j \in known : j <= i].value

-----------------------------------------------------------------------------

\* snapshot
Snapshot(s) ==
    /\ version < MaxSnapshots
    /\ version' = version + 1
    /\ snapshots' = LastOf(Append(snapshots, [version |-> version + 1, state |-> s]), MaxVersions)
    /\ made' = Append(made, s)
    /\ UNCHANGED tracker

\* Mutant of RollBackTo: the versions after the target are dropped and their
\* numbers used again.
BugRollBackTo(target) ==
    /\ \E i \in DOMAIN snapshots : snapshots[i].version = target
    /\ version' = target
    /\ snapshots' = SelectSeq(snapshots, LAMBDA s : s.version <= target)
    /\ UNCHANGED <<made, tracker>>

\* rollback makes a new version with the old state.
RollBackTo(target) ==
    \E i \in DOMAIN snapshots :
        snapshots[i].version = target /\ Snapshot(snapshots[i].state)

WorldNext ==
    \/ AdvanceTurn
    \/ \E v \in WorldValues : Update(v) \/ Snapshot(v)
    \/ \E target \in 1 .. version : RollBackTo(target)

WorldSpec == WorldInit /\ [][WorldNext]_wvars

-----------------------------------------------------------------------------
(***************************************************************************)
(* Asked about a past turn, the tracker answers with the value it was told *)
(* last before the turn ended, or with  nothing if it has forgotten that   *)
(* far back; never with a value of another time.                           *)
(* temporal_tracker.py:160-164, 193-211.                                   *)
(***************************************************************************)
QueriesAreHistory ==
    \A t \in 1 .. worldTurn :
        LET asked == Query(t - 1)
        IN  \/ asked = current[t]
            \/ asked = NoValue /\ Len(states) = MaxHistory /\ states[1].turn >= t

(***************************************************************************)
(* A version number names one state for ever, through rollbacks and after  *)
(* old versions were dropped, and the current version is one that can be   *)
(* looked up.  state_versioning.py:107-126, 172-191.                       *)
(***************************************************************************)
VersionsKeepTheirState ==
    /\ \A i \in DOMAIN snapshots : snapshots[i].state = made[snapshots[i].version]
    /\ version > 0 => snapshots[Len(snapshots)].version = version
=============================================================================
