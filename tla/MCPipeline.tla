----------------------------- MODULE MCPipeline -----------------------------
(* Pipeline on nine blocks that play every named part, for its runs. *)
EXTENDS PipelineRefinement

SmallOrder == << "kill_switch_gate", "time_update_sot", "create_scenario_frame",
                 "initialize_unified_state", "narrative_layer",
                 "state_update_physics", "phi_computation",
                 "response_revision_gate", "response_build" >>

SmallBlocks == {SmallOrder[i] : i \in DOMAIN SmallOrder}

\* block_dependencies.json, restricted to these blocks.
SmallDependencies ==
    [b \in SmallBlocks |->
       CASE b = "initialize_unified_state" -> {"create_scenario_frame"}
         [] b = "narrative_layer" -> {"create_scenario_frame"}
         [] b = "state_update_physics" ->
              {"state_update_physics", "initialize_unified_state"}
         [] b = "phi_computation" -> {"state_update_physics"}
         [] b = "response_build" -> {"narrative_layer", "initialize_unified_state"}
         [] OTHER -> {}]

SmallAlwaysOn == {"phi_computation", "response_build"}
SmallFloor == {"kill_switch_gate"}
SmallRetry == {"narrative_layer", "phi_computation", "response_revision_gate"}
SmallState == {"state_update_physics"}
SmallExit == {"kill_switch_gate"}
SmallProfile == SmallBlocks \ {"narrative_layer"}
NoShortCircuit == [b \in SmallBlocks |-> {}]
GateShortCircuit ==
    [b \in SmallBlocks |->
       IF b = "kill_switch_gate" THEN {"create_scenario_frame", "narrative_layer"}
       ELSE {}]
SmallRegistered == SmallBlocks \ {"narrative_layer"}
NoGroups == << >>
SmallGroups == << {"response_build"}, {"kill_switch_gate", "time_update_sot"} >>

\* No group of these takes in a block whose place is behind.
ASSUME GroupsAssumption == GroupsStayAhead

\* Nor do groups and order put anything before what it needs.
ASSUME NeedsAssumption == Followers = Blocks

\* The gate, its retry and response_build stand as the theorems about one
\* turn after the other want them.
ASSUME GateAssumption ==
    /\ RevisionGate \notin ExitBlocks \cup AlwaysOn
    /\ Pos(ResponseBuild) = Pos(RevisionGate) + 1
    /\ RetryEndsAtTheGate

OneSession == [r \in Runs |-> "s"]
OwnSession == [r \in Runs |-> r]
=============================================================================
