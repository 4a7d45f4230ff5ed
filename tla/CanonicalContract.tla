------------------------- MODULE CanonicalContract -------------------------
(***************************************************************************)
(* The data the orchestrator of contract v3.8.0 works on: the 46 canonical *)
(* blocks in their order, the dependency graph, and the sets and lists the *)
(* code names.                                                             *)
(***************************************************************************)
EXTENDS Sequences, SequencesExt

CanonicalOrder ==
    << "kill_switch_gate", "time_update_sot", "input_safety_gate",
       "intent_classification", "context_retrieval_rag",
       "perceptual_frame_emit", "create_scenario_frame",
       "initialize_unified_state", "goal_evaluation", "goal_decomposition",
       "ukf_predict", "entropy_amplitude_pre_gate", "cognitive_layer",
       "self_model_assessment", "knowledge_boundary_check",
       "trust_evaluation", "ethics_pre_response", "deliberative_ethics_gate",
       "cep_evaluation", "narrative_layer", "ethics_post_response",
       "action_intent_gate", "behavioral_drift_detection",
       "workspace_broadcast", "unified_state_update_esc", "phi_publish",
       "entropy_amplitude_post_gate", "neurotransmitter_memory_growth",
       "emotion_estimation", "state_update_physics", "causal_graph_update",
       "causal_intervention", "counterfactual_analysis",
       "root_cause_analysis", "causal_simulation", "world_state_snapshot",
       "phi_computation", "entropy_computation", "confidence_fusion",
       "arbitration_resolve", "response_revision_gate", "response_build",
       "memory_consolidation", "audit_layer", "outcome_feedback",
       "learning_gate" >>

CanonicalBlocks == {CanonicalOrder[i] : i \in DOMAIN CanonicalOrder}

\* Two of the ids named here are not canonical blocks, and two blocks name
\* themselves.
CanonicalDependencies ==
    [b \in CanonicalBlocks |->
       CASE b = "initialize_unified_state" ->
            {"create_scenario_frame"}
         [] b = "ukf_predict" ->
            {"initialize_unified_state"}
         [] b = "entropy_amplitude_pre_gate" ->
            {"echo_ontology_transformation", "cognitive_layer",
             "initialize_unified_state"}
         [] b = "cognitive_layer" ->
            {"create_scenario_frame"}
         [] b = "ethics_pre_response" ->
            {"cognitive_layer", "create_scenario_frame"}
         [] b = "cep_evaluation" ->
            {"cognitive_layer", "narrative_layer", "create_scenario_frame"}
         [] b = "narrative_layer" ->
            {"echo_ontology_transformation", "state_update_physics",
             "cognitive_layer", "create_scenario_frame"}
         [] b = "ethics_post_response" ->
            {"cognitive_layer", "narrative_layer", "create_scenario_frame"}
         [] b = "unified_state_update_esc" ->
            {"state_update_physics", "initialize_unified_state"}
         [] b = "phi_publish" ->
            {"phi_computation", "phi_publish", "initialize_unified_state"}
         [] b = "entropy_amplitude_post_gate" ->
            {"state_update_physics"}
         [] b = "neurotransmitter_memory_growth" ->
            {"state_update_physics", "narrative_layer"}
         [] b = "state_update_physics" ->
            {"low_input_gate", "state_update_physics",
             "initialize_unified_state"}
         [] b = "phi_computation" ->
            {"state_update_physics"}
         [] b = "entropy_computation" ->
            {"narrative_layer"}
         [] b = "response_build" ->
            {"narrative_layer", "cep_evaluation", "low_input_gate",
             "echo_ontology_transformation", "initialize_unified_state",
             "cognitive_layer", "state_update_physics",
             "create_scenario_frame"}
         [] b = "audit_layer" ->
            {"state_update_physics", "narrative_layer",
             "initialize_unified_state", "create_scenario_frame"}
         [] OTHER -> {}]

CanonicalAlwaysOn == {"response_build", "phi_computation", "entropy_computation"}
CanonicalFloor == {"kill_switch_gate", "input_safety_gate", "audit_layer"}
CanonicalExit == {"kill_switch_gate", "input_safety_gate",
                  "knowledge_boundary_check", "deliberative_ethics_gate",
                  "behavioral_drift_detection"}
CanonicalState == {"unified_state_update_esc", "state_update_physics",
                   "neurotransmitter_memory_growth", "emotion_estimation"}
CanonicalRetryOrder ==
    << "narrative_layer", "ethics_post_response", "action_intent_gate",
       "behavioral_drift_detection", "entropy_amplitude_post_gate",
       "phi_computation", "entropy_computation", "confidence_fusion",
       "arbitration_resolve", "response_revision_gate" >>
CanonicalRetry == {CanonicalRetryOrder[i] : i \in DOMAIN CanonicalRetryOrder}

\* The blocks to skip after a short circuit, without those to preserve.
NoShortCircuit == [b \in CanonicalBlocks |-> {}]
CanonicalShortCircuit ==
    [NoShortCircuit EXCEPT
        !["intent_classification"] =
            {"cognitive_layer", "context_retrieval_rag", "ukf_predict",
             "entropy_amplitude_pre_gate", "ethics_pre_response",
             "neurotransmitter_memory_growth", "emotion_estimation",
             "unified_state_update_esc"},
        !["input_safety_gate"] =
            {"intent_classification", "context_retrieval_rag",
             "create_scenario_frame", "initialize_unified_state",
             "ukf_predict", "cognitive_layer", "narrative_layer"},
        !["narrative_layer"] = {"cognitive_layer", "context_retrieval_rag"}]

\* The active blocks of the profile "evidence", runtime_profiles.py, with the
\* floor and the always-on blocks that _resolve_runtime_profile adds.
EvidenceProfile ==
    {"kill_switch_gate", "input_safety_gate", "intent_classification",
     "knowledge_boundary_check", "confidence_fusion", "trust_evaluation",
     "response_revision_gate", "response_build", "phi_computation",
     "entropy_computation", "audit_layer", "outcome_feedback", "learning_gate"}
=============================================================================
