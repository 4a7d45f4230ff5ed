--------------------------- MODULE ExecutionGuard ---------------------------
(***************************************************************************)
(* The loop guard of phionyx_core/orchestrator/execution_guard.py, as      *)
(* operators on a record that stands for the ExecutionGuard object.  The   *)
(* orchestrator owns one object and every pipeline run uses it.            *)
(*                                                                         *)
(* Every check both judges and records, so it returns the next record with *)
(* the verdict in its field ok; safe is self.is_safe, which only reset()   *)
(* makes TRUE again.                                                       *)
(***************************************************************************)
EXTENDS Integers, Sequences, SequencesExt

CONSTANTS MaxIterations,        \* self.max_iterations
          MaxBlockExecutions,   \* self.max_block_executions
          MaxRepeatedSequence   \* self.max_repeated_sequence

\* The ranges that profiles/schema.py, ExecutionGuardConfig, accepts.
ASSUME GuardAssumption ==
    /\ MaxIterations \in Nat \ {0}
    /\ MaxBlockExecutions \in Nat \ {0}
    /\ MaxRepeatedSequence \in Nat \ {0, 1}

NoBlock == "no block"

\* The object after reset(), for a set of block ids.
FreshGuard(ids) ==
    [iterations |-> 0,
     count      |-> [b \in ids |-> 0],
     sequence   |-> << >>,
     lastBlock  |-> NoBlock,
     repeats    |-> 0,
     safe       |-> TRUE]

Judged(g, ok) == [guard |-> [g EXCEPT !.safe = @ /\ ok], ok |-> ok]

RecordIteration(g) == [g EXCEPT !.iterations = @ + 1]

CheckIterationLimit(g) == Judged(g, g.iterations <= MaxIterations)

\* The call counts as an execution of the block, whoever makes it.  The
\* repetition of the last block is looked at only below the limit.
CheckBlockExecutionLimit(g, b) ==
    LET counted == [g EXCEPT !.count[b] = @ + 1]
        again   == [counted EXCEPT !.repeats = @ + 1]
        other   == [counted EXCEPT !.repeats = 0, !.lastBlock = b]
    IN  IF counted.count[b] > MaxBlockExecutions THEN Judged(counted, FALSE)
        ELSE IF b = g.lastBlock THEN Judged(again, again.repeats < 2)
        ELSE Judged(other, TRUE)

\* late: the wall clock is past max_execution_time since reset().
CheckTimeout(g, late) == Judged(g, ~late)

\* Append the block, keep the last 2N, and compare the two halves of length N.
CheckCircularSequence(g, b) ==
    LET N    == MaxRepeatedSequence
        all  == Append(g.sequence, b)
        kept == IF Len(all) > 2 * N THEN SubSeq(all, Len(all) - 2 * N + 1, Len(all))
                                    ELSE all
        twin == Len(kept) = 2 * N /\ \A i \in 1 .. N : kept[i] = kept[i + N]
    IN  Judged([g EXCEPT !.sequence = kept], ~twin)

CheckBlockIndexStall(g, stall, length) == Judged(g, stall <= length)

\* should_abort: all five checks run, with their effects, before any verdict
\* is looked at.
ShouldAbort(g, b, stall, length, late) ==
    LET c1 == CheckIterationLimit(g)
        c2 == CheckBlockExecutionLimit(c1.guard, b)
        c3 == CheckTimeout(c2.guard, late)
        c4 == CheckCircularSequence(c3.guard, b)
        c5 == CheckBlockIndexStall(c4.guard, stall, length)
    IN  [guard |-> c5.guard, abort |-> ~(c1.ok /\ c2.ok /\ c3.ok /\ c4.ok /\ c5.ok)]

\* The orchestrator takes a refused count back.
RevertCount(g, b) == [g EXCEPT !.count[b] = @ - 1]
=============================================================================
