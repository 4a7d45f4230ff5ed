---------------------------- MODULE MCCanonical ----------------------------
(* Pipeline on the canonical blocks, for its runs. *)
EXTENDS Pipeline, CanonicalContract

\* Blocks that a deployment without their service passes over, on which no
\* block of the floor depends.
Unserved == {"cep_evaluation", "ukf_predict"}

\* The floor with what its blocks depend on.
FloorClosure ==
    CanonicalFloor \cup
      {"state_update_physics", "narrative_layer", "initialize_unified_state",
       "create_scenario_frame", "cognitive_layer"}

\* When no profile bypasses a block, nothing bypasses the floor.
ASSUME FloorAssumption == ActiveBlocks = CanonicalBlocks => ClosesFloor(FloorClosure)

\* Without intent groups no group takes in a block whose place is behind.  The
\* order does put some blocks before something they need.
ASSUME GroupsAssumption == IntentGroups = << >> => GroupsStayAhead

ASSUME NeedsAssumption == IntentGroups = << >> =>
    Blocks \ Followers =
        {"cep_evaluation", "narrative_layer", "unified_state_update_esc",
         "phi_publish", "entropy_amplitude_post_gate",
         "neurotransmitter_memory_growth"}
          \cup (IF Parallel THEN {} ELSE {"entropy_amplitude_pre_gate"})

\* The gate, its retry and response_build stand as the theorems about one
\* turn after the other want them.
ASSUME GateAssumption ==
    /\ RevisionGate \notin ExitBlocks \cup AlwaysOn
    /\ Pos(ResponseBuild) = Pos(RevisionGate) + 1
    /\ RetryEndsAtTheGate

NoGroups == << >>

\* The parallel_groups of the intent "conversation", which skips nothing.
ConversationGroups ==
    << {"intent_classification", "input_safety_gate"},
       {"context_retrieval_rag", "ukf_predict"},
       {"neurotransmitter_memory_growth", "emotion_estimation"},
       {"phi_computation", "entropy_computation"} >>

OneSession == [r \in Runs |-> "s"]
=============================================================================
