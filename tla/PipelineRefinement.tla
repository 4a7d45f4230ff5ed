------------------------- MODULE PipelineRefinement -------------------------
(* The refinement mapping from the orchestrator to what a turn promises. *)
EXTENDS Pipeline

PhaseOf(at) ==
    CASE at = "ready" -> "ready"
      [] at = "block" -> "called"
      [] at = "retry" -> "again"
      [] at = "done"  -> "closed"
      [] OTHER        -> "open"

Contract == INSTANCE TurnContract WITH
    phase   <- [r \in Runs |-> PhaseOf(run[r].at)],
    place   <- [r \in Runs |-> run[r].index],
    calls   <- executions,
    answers <- results,
    exited  <- [r \in Runs |-> run[r].earlyExit]

(***************************************************************************)
(* With parallel groups off, every step of the orchestrator's loop, its    *)
(* failures, rollbacks, skips, exits and retries, is a step the promise of *)
(* a turn allows, or one that it does not see.                             *)
(* echo_orchestrator.py:479-500 and 664-1015.                              *)
(***************************************************************************)
ImplementsTurnContract == Contract!ContractSpec
=============================================================================
