--------------------------- MODULE RollbackManager ---------------------------
(***************************************************************************)
(* Snapshots and rollback, phionyx_core/orchestrator/rollback_manager.py,  *)
(* as operators on a record that stands for the RollbackManager object:    *)
(* snapshots is the list of [block, context] and floor the time floor.     *)
(*                                                                         *)
(* A context is a record with a field time, the monotonic time keys of its *)
(* metadata taken together; NoTime means that they are absent.             *)
(***************************************************************************)
EXTENDS Integers, Sequences, SequencesExt

NoTime == -1

FreshManager == [snapshots |-> << >>, floor |-> NoTime]

Higher(a, b) == IF a > b THEN a ELSE b

\* create_checkpoint: a deep copy of the context, and the floor follows its
\* time keys upwards.  When the metadata cannot be copied the exception is
\* swallowed, with neither a snapshot nor a floor.
CreateCheckpoint(rb, b, context, copied) ==
    IF ~copied THEN rb
    ELSE [snapshots |-> Append(rb.snapshots, [block |-> b, context |-> context]),
          floor     |-> Higher(rb.floor, context.time)]

BugPopsTwo(snapshots, b) ==
    IF \E i \in 1 .. Len(snapshots) : snapshots[i].block = b
    THEN Len(snapshots) ELSE Higher(Len(snapshots) - 2, 0)

(***************************************************************************)
(* How many snapshots the search leaves when block b failed.  While the    *)
(* newest snapshot is of another block: cut at the newest snapshot of b;   *)
(* when there is none, drop one snapshot and stop.                         *)
(***************************************************************************)
Kept(snapshots, b) ==
    LET keep[k \in 0 .. Len(snapshots)] ==
          IF k = 0 \/ snapshots[k].block = b THEN k
          ELSE IF \E i \in 1 .. k : snapshots[i].block = b
               THEN keep[(CHOOSE i \in 1 .. k :
                            /\ snapshots[i].block = b
                            /\ \A j \in i + 1 .. k : snapshots[j].block # b) - 1]
               ELSE k - 1
    IN  keep[Len(snapshots)]

BugNoFloor(floor, context) == context

\* _enforce_time_floor looks only at keys the restored metadata has.
EnforceTimeFloor(floor, context) ==
    IF context.time # NoTime /\ context.time < floor
    THEN [context EXCEPT !.time = floor]
    ELSE context

\* rollback_to_checkpoint: the manager afterwards and the context restored;
\* with no snapshot left the context stays as the failed block left it.
RollbackToCheckpoint(rb, b, context) ==
    LET k == Kept(rb.snapshots, b)
    IN  [manager |-> [rb EXCEPT !.snapshots = SubSeq(@, 1, k)],
         context |-> IF k = 0 THEN context
                     ELSE EnforceTimeFloor(rb.floor, rb.snapshots[k].context)]
=============================================================================
