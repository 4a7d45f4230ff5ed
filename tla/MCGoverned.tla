---------------------------- MODULE MCGoverned ----------------------------
(* GovernedTurn on a few deployments, for its runs. *)
EXTENDS GovernedTurn

Collaborators ==
    {"kill_switch", "time_manager", "safety", "frame_creator", "initializer",
     "predictor", "processor", "cep", "updater", "growth", "emotion", "ethics",
     "drift", "breaker", "causality", "self_model", "goals", "learning",
     "consolidator", "phi_computer"}

\* Everything but what takes the place of a built-in; with templates, an
\* entropy computer and no drift detection or clock; what the factory builds
\* when little is injected.
Deployments ==
    {Collaborators,
     (Collaborators \ {"drift", "breaker", "phi_computer", "time_manager"})
       \cup {"templates", "amplitude_gate", "entropy_computer"},
     {"kill_switch", "frame_creator", "processor"}}
Complete == {Collaborators}

\* What each criterion may read besides Pass: the worst that the gate asks
\* for.  The readings of coherence are the texts'.
Worst ==
    [c \in Criteria |->
       CASE c \in {"entropy", "ethics", "conflict"} -> {Pass, Reject}
         [] c \in {"phi", "confidence"} -> {Pass, Regenerate}
         [] c \in {"drift", "cep"} -> {Pass, Rewrite}
         [] c = "coherence" -> {Pass}]

\* One block of each kind of failure: swallowed, declined, rolled back, and
\* the three always-on ones.
Fragile ==
    {"time_update_sot", "create_scenario_frame", "intent_classification",
     "input_safety_gate", "ethics_pre_response", "narrative_layer",
     "ethics_post_response", "action_intent_gate", "behavioral_drift_detection",
     "phi_computation", "entropy_computation", "confidence_fusion",
     "response_revision_gate", "response_build", "memory_consolidation",
     "audit_layer"}
=============================================================================
