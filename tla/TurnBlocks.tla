----------------------------- MODULE TurnBlocks -----------------------------
(***************************************************************************)
(* The 46 blocks of a turn, phionyx_core/pipeline/blocks/*.py, each as the *)
(* set of outcomes its execute() can have in a context.                    *)
(*                                                                         *)
(* A context is a record of what the blocks tell each other through        *)
(* BlockContext and its metadata.  The eight criteria of the revision gate *)
(* are signals: a severity, the rank of the directive that the reading     *)
(* asks for, and the version of the narrative that it judges.  Texts,      *)
(* prompts, vectors and records for the reader of a trace are left out.    *)
(***************************************************************************)
EXTENDS Integers

CONSTANTS
    GatesFailClosed,    \* PHIONYX_SAFETY_FAIL_CLOSED
    AbstainFailClosed,  \* PHIONYX_ABSTAIN_FAIL_CLOSED
    Severe              \* [Criteria -> severities a reading may have]

Criteria == {"entropy", "coherence", "phi", "ethics", "conflict", "confidence",
             "drift", "cep"}

\* _severity_rank; NoDirective when the gate has not spoken.
Pass == 0
Damp == 1
Rewrite == 2
Regenerate == 3
Reject == 4
NoDirective == -1

\* A reading asks for one of the directives.
ASSUME ReadingsAssumption == \A c \in Criteria : Severe[c] \subseteq Pass .. Reject

NotMeasured == -1
Absent == [sev |-> NotMeasured, of |-> 0, enforced |-> FALSE]

\* Narratives: the version counts the calls of the narrator; the kind says
\* how much of the text matches the patterns of coherence_qa, and matches how
\* many of them: four or more are many.
NoText == [version |-> 0, kind |-> "clean", matches |-> "few"]
Kinds == {"clean", "partial", "whole"}
Matches == {"few", "many"}
Leaks(text) == text.kind # "clean"

\* What response_build hands to the user.
Nothing == [what |-> "nothing", text |-> NoText]

FreshContext(services, legacy, short, trouble, carried) ==
    [services |-> services,   \* the collaborators injected into the blocks
     legacy   |-> legacy,     \* pipeline_version < "3.0.0"
     short    |-> short,      \* fewer than min_input_length characters
     trouble  |-> trouble,    \* the criteria that may read badly in this turn
     time     |-> -1,         \* t_now and turn_index
     intent   |-> FALSE,      \* metadata["intent"] holds a classification
     frame    |-> FALSE,      \* metadata["frame"]
     unified  |-> FALSE,      \* metadata["unified_state"]
     physics  |-> FALSE,      \* metadata["physics_state"] is not empty
     question |-> FALSE,      \* metadata["clarifying_question"]
     text     |-> NoText,     \* metadata["narrative_text"]
     qa       |-> NoText,     \* the text metadata["coherence_qa_result"] is about
     ethics   |-> Absent,     \* metadata["ethics_result"]
     cep      |-> Absent,     \* metadata["cep_flags"]
     drift    |-> Absent,     \* metadata["drift_score"]
     phi      |-> Absent,     \* metadata["phi"]
     statePhi |-> Absent,     \* physics_state["phi"]
     entropy  |-> Absent,     \* metadata["entropy"]
     stateEntropy |-> Absent, \* physics_state["entropy"]
     carried  |-> carried,    \* context.current_entropy
     confidence |-> Absent,   \* metadata["w_final"]
     conflict |-> Absent,     \* metadata["conflict_score"]
     payload  |-> FALSE,      \* context.v4_confidence
     override |-> FALSE,      \* resolution_strategy = "safety_override"
     directive |-> NoDirective,
     attempts |-> 0,          \* _regen_attempts
     audit    |-> FALSE,      \* metadata["audit_result"]
     response |-> Nothing]

-----------------------------------------------------------------------------
(* Outcomes *)

\* context is what the block and the merge of its data leave; settled what
\* _apply_post_block_state_updates makes of it, which a retry does not call.
Outcome(status, c) ==
    [status |-> status, exit |-> FALSE, cut |-> FALSE, fault |-> FALSE,
     context |-> c, settled |-> c]

Ran(c) == Outcome("ok", c)
Exits(c) == [Ran(c) EXCEPT !.exit = TRUE]
Declined(c) == Outcome("skipped", c)
Refused(c) == Outcome("error", c)       \* an error without an exception
Raised(status, c) == [Outcome(status, c) EXCEPT !.fault = TRUE]

Has(c, service) == service \in c.services

\* The readings of a criterion taken now.
ReadingsOf(c, criterion, version) ==
    {[sev |-> s, of |-> version, enforced |-> FALSE] :
        s \in IF criterion \in c.trouble THEN Severe[criterion] ELSE {Pass}}

Read(c, criterion) == ReadingsOf(c, criterion, c.text.version)

\* What an ethics processor answers: enforcement alone asks for damping.
EthicsOf(c, version) ==
    {[reading EXCEPT !.enforced = e] :
        reading \in ReadingsOf(c, "ethics", version), e \in BOOLEAN}
      \ {[sev |-> Pass, of |-> version, enforced |-> TRUE],
         [sev |-> Damp, of |-> version, enforced |-> FALSE]}

\* Blocks that report every exception as ok and leave no trace a block reads.
Quiet(c) == {Ran(c), Raised("ok", c)}

\* Blocks whose collaborator is optional: without it they decline.
Optional(c, service) ==
    IF Has(c, service) THEN {Ran(c), Raised("error", c)} ELSE {Declined(c)}

\* Each block's should_skip.
Legacy == {"perceptual_frame_emit", "goal_evaluation", "action_intent_gate",
           "workspace_broadcast", "world_state_snapshot", "arbitration_resolve",
           "learning_gate"}

ShouldSkip(b, c) ==
    \/ b \in Legacy /\ c.legacy
    \/ b = "time_update_sot" /\ ~Has(c, "time_manager")
    \/ b = "create_scenario_frame" /\ ~Has(c, "frame_creator")
    \/ b = "initialize_unified_state" /\ ~Has(c, "initializer")
    \/ b = "ukf_predict" /\ ~Has(c, "predictor")
    \/ b \in {"cognitive_layer", "narrative_layer"} /\ ~Has(c, "processor")
    \/ b = "cep_evaluation" /\ ~Has(c, "cep")
    \/ b = "unified_state_update_esc" /\ ~(Has(c, "updater") /\ c.unified)
    \/ b = "phi_publish" /\ ~c.unified
    \/ b = "neurotransmitter_memory_growth" /\ ~Has(c, "growth")
    \/ b = "emotion_estimation" /\ ~Has(c, "emotion")
    \/ b = "state_update_physics" /\ ~c.physics /\ ~c.unified

-----------------------------------------------------------------------------
(* The gates before the narrative *)

\* The factory fails closed when there is no switch; evaluate() does not raise.
KillSwitchGate(c, triggered) ==
    {IF triggered \/ ~Has(c, "kill_switch") THEN Exits(c) ELSE Ran(c)}

TimeUpdate(c) == {Ran([c EXCEPT !.time = 0]), Raised("error", c)}

\* An input that nothing could check passes, or is blocked when failing closed.
Unchecked(c) ==
    IF GatesFailClosed
    THEN [Exits([c EXCEPT !.question = TRUE]) EXCEPT !.cut = TRUE]
    ELSE Ran(c)

InputSafetyGate(c) ==
    IF c.short THEN {Exits([c EXCEPT !.question = TRUE])}
    ELSE IF ~Has(c, "safety") \/ ~c.frame THEN {Unchecked(c)}
    ELSE {Ran(c), [Exits(c) EXCEPT !.cut = TRUE],
          [Unchecked(c) EXCEPT !.fault = TRUE]}

\* Retrieved memories, frames, goals, predictions and mirrors of the state are
\* for the prompt and the trace.
ContextRetrieval(c) == Quiet(c)
PerceptualFrameEmit(c) == Quiet(c)
GoalEvaluation(c) == Quiet(c)
GoalDecomposition(c) == Optional(c, "goals")
UkfPredict(c) == Quiet(c)
SelfModelAssessment(c) == Optional(c, "self_model")

\* A classification that failed leaves a record without an intent.
IntentClassification(c) ==
    {Ran([c EXCEPT !.intent = TRUE]), Raised("ok", [c EXCEPT !.intent = FALSE])}

CreateScenarioFrame(c) == {Ran([c EXCEPT !.frame = TRUE]), Raised("error", c)}

InitializeUnifiedState(c) ==
    IF ~c.frame THEN {Refused(c)}
    ELSE {Ran([c EXCEPT !.unified = TRUE]), Raised("error", c)}

\* Without a gate of its own, the block publishes the entropy of the turn
\* before under the key of this turn's.
EntropyPreGate(c) ==
    {IF Has(c, "amplitude_gate") THEN Ran(c)
     ELSE Ran([c EXCEPT !.entropy = c.carried]),
     Raised("skipped", c)}

CognitiveLayer(c) ==
    IF ~c.frame THEN {Refused(c)} ELSE {Ran(c), Raised("error", c)}

\* An abstention is only advice unless it fails closed.
KnowledgeBoundary(c) ==
    {Ran(c), Raised("error", c)} \cup (IF AbstainFailClosed THEN {Exits(c)} ELSE {})

\* t_meta comes from confidence_result, which no block writes, so it is the
\* default 1.0 and the sender is trusted.
TrustEvaluation(c) == {Ran(c), Raised("error", c)}

EthicsPreResponse(c) ==
    IF ~c.frame \/ ~Has(c, "ethics") THEN {Ran([c EXCEPT !.ethics = Absent])}
    ELSE {Ran([c EXCEPT !.ethics = e]) : e \in EthicsOf(c, 0)}
           \cup {Raised("skipped", [c EXCEPT !.ethics = Absent])}

\* The frameworks are asked when some risk reaches 0.3, and may deny; below
\* 0.6 the revision gate does not mind the same risk.
DeliberativeEthicsGate(c) ==
    {Ran(c)}
      \cup (IF \/ c.ethics.sev >= Rewrite
               \/ "ethics" \in c.trouble /\ c.ethics # Absent
            THEN {Exits(c)} ELSE {})
      \cup {[Outcome("ok", c) EXCEPT !.fault = TRUE, !.exit = GatesFailClosed]}

\* Flags that are not a mapping are lost in the merge.  The block precedes the
\* narrative, so what it reads is the input.
CepEvaluation(c) ==
    IF ~c.frame THEN {Ran([c EXCEPT !.cep = Absent])}
    ELSE {Ran([c EXCEPT !.cep = r]) : r \in {c.cep} \cup Read(c, "cep")}
           \cup {Raised("skipped", [c EXCEPT !.cep = Absent])}

-----------------------------------------------------------------------------
(* The narrative and its judges *)

Narrated(c, kind, matches) ==
    [c EXCEPT !.text = [version |-> c.attempts + 1, kind |-> kind, matches |-> matches]]

\* What the narrator may tell: when coherence is in trouble, also a leak.
Narratives(c) ==
    {Narrated(c, "clean", "few")}
      \cup (IF "coherence" \in c.trouble
            THEN {Narrated(c, k, m) : k \in Kinds \ {"clean"}, m \in Matches} ELSE {})

\* A template answers for a classified intent before the processor is asked.
\* A narrative_result that is None makes the early-exit optimizer raise after
\* the text was merged, which the loop takes for a failure of the block.
NarrativeLayer(c) ==
    IF ~c.frame THEN {Refused(c)}
    ELSE (IF Has(c, "templates") /\ c.intent
          THEN {[Ran(Narrated(c, "clean", "few")) EXCEPT !.cut = TRUE]} ELSE {})
         \cup (IF ~Has(c, "processor") THEN {Refused(c)}
               ELSE {Ran(t) : t \in Narratives(c)}
                      \cup {Raised("error", t) : t \in {c} \cup Narratives(c)})

BugQaOnce(c) == IF c.qa = NoText THEN c.text ELSE c.qa

\* assess_coherence runs first; an empty text has no assessment.
Assessed(c) == c.text

EthicsPostResponse(c) ==
    LET judged == [c EXCEPT !.qa = Assessed(c)]
        kept   == IF c.text = NoText THEN c ELSE judged
    IN  IF ~c.frame \/ ~Has(c, "ethics")
        THEN {Ran([judged EXCEPT !.ethics = Absent])}
        ELSE {Ran([judged EXCEPT !.ethics = e]) : e \in EthicsOf(c, c.text.version)}
               \cup {Raised("skipped", [kept EXCEPT !.ethics = Absent])}

\* The action intent, cleared or not, goes into an attribute no block reads.
ActionIntentGate(c) == {Ran(c), Raised("skipped", c)}

\* The breaker may refuse before the detection, with nothing measured, or
\* after it; without a baseline there is no score and the last one stays.
BehavioralDrift(c) ==
    IF ~Has(c, "drift") \/ c.text = NoText THEN {Ran(c)}
    ELSE LET scored == {[c EXCEPT !.drift = r] : r \in Read(c, "drift")}
         IN  {Ran(d) : d \in {c} \cup scored}
               \cup (IF Has(c, "breaker") /\ "drift" \in c.trouble
                     THEN {Exits(d) : d \in {c} \cup scored} ELSE {})
               \cup {Raised("error", c)}

\* An ethics_result that is None has no get(): the events of the turn are lost.
WorkspaceBroadcast(c) == Quiet(c)

-----------------------------------------------------------------------------
(* State, physics and causality *)

\* Between 0.8 and 0.85 a high entropy only damps: the flag is nondeterministic.
EntropyPostGate(c) ==
    {Ran(c), Raised("skipped", c)}
      \cup (IF c.physics /\ ~Has(c, "amplitude_gate") /\ c.stateEntropy.sev >= Damp
            THEN {Ran([c EXCEPT !.entropy = c.stateEntropy])} ELSE {})

\* Estimated, cached or default, the emotion always reaches the physics state.
EmotionEstimation(c) ==
    {[o EXCEPT !.settled.physics = TRUE] : o \in Quiet(c)}

\* The physics state takes phi and entropy over from the unified state.
TakenOver(c, phi, entropy) ==
    [c EXCEPT !.physics = TRUE, !.statePhi = phi, !.stateEntropy = entropy]

StateUpdatePhysics(c) ==
    IF ~c.unified THEN Quiet(c)
    ELSE {Ran(TakenOver(c, p, e)) :
             p \in ReadingsOf(c, "phi", 0), e \in ReadingsOf(c, "entropy", 0)}
           \cup {Raised("ok", c)}

UnifiedStateUpdate(c) == Quiet(c)
PhiPublish(c) == Quiet(c)
MemoryGrowth(c) == Quiet(c)
WorldStateSnapshot(c) == Quiet(c)
CausalGraphUpdate(c) == Optional(c, "causality")
CausalIntervention(c) == Optional(c, "causality")
RootCauseAnalysis(c) == Optional(c, "causality")
CausalSimulation(c) == Optional(c, "causality")

\* The drift_result it asks for is a key no block writes: it never runs.
CounterfactualAnalysis(c) == Optional(c, "causality")

\* phi comes from a computer, or from the formula when entropy and stability
\* are known; the entropy is the one carried over until this turn's is known.
PhiComputation(c) ==
    LET known == IF c.stateEntropy = Absent THEN c.carried ELSE c.stateEntropy
        taken == IF c.physics THEN [c EXCEPT !.stateEntropy = known] ELSE c
    IN  IF Has(c, "phi_computer") \/ (c.unified /\ c.physics /\ known # Absent)
        THEN {Ran([taken EXCEPT !.phi = r]) : r \in Read(c, "phi")}
               \cup {Raised("ok", c)}
        ELSE {Ran(taken)}

\* An injected computer that gives no entropy is ok and leaves the keys as
\* they were, as an exception does; the formula of the block always gives one.
EntropyComputation(c) ==
    {[Ran([c EXCEPT !.entropy = r, !.carried = r]) EXCEPT
        !.settled = [c EXCEPT !.entropy = r, !.carried = r,
                              !.stateEntropy = r, !.physics = TRUE]] :
        r \in Read(c, "entropy")}
      \cup (IF Has(c, "entropy_computer") THEN {Ran(c)} ELSE {})
      \cup {Raised("ok", c)}

-----------------------------------------------------------------------------
(* The decision and the response *)

\* Before 3.0.0 the inputs have defaults; since, phi or the ethics risk must
\* have been measured.  The block writes conflict_score before the arbiter.
Fused(c, confidence, conflict) ==
    [c EXCEPT !.confidence = confidence, !.conflict = conflict, !.payload = TRUE]

ConfidenceFusion(c) ==
    IF c.legacy
    THEN {Ran([c EXCEPT !.confidence = r]) : r \in Read(c, "confidence")}
    ELSE {Raised("skipped", c)}
           \cup (IF c.statePhi = Absent /\ c.ethics = Absent THEN {Ran(c)}
                 ELSE {Ran(Fused(c, r, q)) :
                         r \in Read(c, "confidence"), q \in Read(c, "conflict")})

\* Over the threshold the strategy is the safety override if ethics enforced.
\* The threshold lies below the severities of the revision gate.
ArbitrationResolve(c) ==
    IF ~c.payload THEN {Ran(c)}
    ELSE {Ran([c EXCEPT !.override = o]) :
             o \in {c.ethics.enforced, c.ethics.enforced /\ c.conflict.sev > Pass}}
           \cup {Raised("skipped", c)}

\* _extract_state prefers the metadata to the physics state to the context.
PhiSignal(c) == IF c.phi # Absent THEN c.phi ELSE c.statePhi
EntropySignal(c) ==
    IF c.entropy # Absent THEN c.entropy
    ELSE IF c.stateEntropy # Absent THEN c.stateEntropy ELSE c.carried

\* A leak asks for a rewrite by itself.  Each pattern that matches costs 0.1
\* and the first one 0.3 more: four leave 0.3, which asks to reject.
CoherenceSeverity(c) ==
    IF ~Leaks(c.qa) THEN Pass ELSE IF c.qa.matches = "many" THEN Reject ELSE Rewrite

Severities(c) ==
    {PhiSignal(c).sev, EntropySignal(c).sev, c.ethics.sev, c.conflict.sev,
     c.confidence.sev, c.drift.sev, c.cep.sev, CoherenceSeverity(c)}
      \cup {IF c.override /\ c.conflict # Absent THEN Damp ELSE Pass}

BugLastReason(c) ==
    IF c.cep.sev > Pass THEN c.cep.sev
    ELSE IF c.drift.sev > Pass THEN c.drift.sev
    ELSE IF c.confidence.sev > Pass THEN c.confidence.sev
    ELSE CHOOSE s \in Severities(c) : \A q \in Severities(c) : q <= s

\* _decide: escalate() keeps the most severe candidate.
Decide(c) == CHOOSE s \in Severities(c) : \A q \in Severities(c) : q <= s

ResponseRevisionGate(c) ==
    {Ran([c EXCEPT !.directive = Decide(c)]), Raised("skipped", c)}

BugNoFallback(c) == {Raised("error", c)}

\* An exception in the builder is answered with the holding message.
HoldingMessage(c) ==
    {Raised("ok", [c EXCEPT !.response = [what |-> "holding", text |-> NoText]])}

\* The redacted text stands in for the narrative unless nothing is left of it;
\* rejection and regeneration replace both; an empty answer is a holding one.
Respond(c) ==
    LET redacted == c.qa.kind = "partial"
        text == IF redacted THEN c.qa ELSE c.text
    IN  CASE c.directive = Reject -> [what |-> "refusal", text |-> NoText]
          [] c.directive = Regenerate -> [what |-> "clarification", text |-> NoText]
          [] c.directive \notin {Reject, Regenerate} ->
               IF text = NoText /\ c.directive # Rewrite
               THEN [what |-> "holding", text |-> NoText]
               ELSE [what |-> IF redacted THEN "redacted" ELSE "narrative",
                     text |-> text]

\* early_exit_triggered is a key no block writes: the clarifying question is
\* not delivered.
ResponseBuild(c) ==
    {Ran([c EXCEPT !.response = Respond(c)])} \cup HoldingMessage(c)

AuditLayer(c) ==
    IF ~c.frame THEN {Declined([c EXCEPT !.audit = FALSE])}
    ELSE {Ran([c EXCEPT !.audit = TRUE]),
          Raised("skipped", [c EXCEPT !.audit = FALSE])}

MemoryConsolidation(c) == Optional(c, "consolidator")

\* Without an audit result nothing is recorded.
OutcomeFeedback(c) ==
    IF Has(c, "self_model") /\ ~c.audit THEN {Ran(c)}
    ELSE Optional(c, "self_model")

LearningGate(c) ==
    IF Has(c, "learning") THEN {Ran(c), Raised("error", c)} ELSE {Ran(c)}

\* The outcomes of block b; triggered is the answer of the kill switch.
Execute(b, c, triggered) ==
    CASE b = "kill_switch_gate" -> KillSwitchGate(c, triggered)
      [] b = "time_update_sot" -> TimeUpdate(c)
      [] b = "input_safety_gate" -> InputSafetyGate(c)
      [] b = "intent_classification" -> IntentClassification(c)
      [] b = "context_retrieval_rag" -> ContextRetrieval(c)
      [] b = "perceptual_frame_emit" -> PerceptualFrameEmit(c)
      [] b = "goal_evaluation" -> GoalEvaluation(c)
      [] b = "ukf_predict" -> UkfPredict(c)
      [] b = "unified_state_update_esc" -> UnifiedStateUpdate(c)
      [] b = "phi_publish" -> PhiPublish(c)
      [] b = "neurotransmitter_memory_growth" -> MemoryGrowth(c)
      [] b = "world_state_snapshot" -> WorldStateSnapshot(c)
      [] b = "create_scenario_frame" -> CreateScenarioFrame(c)
      [] b = "initialize_unified_state" -> InitializeUnifiedState(c)
      [] b = "goal_decomposition" -> GoalDecomposition(c)
      [] b = "entropy_amplitude_pre_gate" -> EntropyPreGate(c)
      [] b = "cognitive_layer" -> CognitiveLayer(c)
      [] b = "self_model_assessment" -> SelfModelAssessment(c)
      [] b = "knowledge_boundary_check" -> KnowledgeBoundary(c)
      [] b = "trust_evaluation" -> TrustEvaluation(c)
      [] b = "ethics_pre_response" -> EthicsPreResponse(c)
      [] b = "deliberative_ethics_gate" -> DeliberativeEthicsGate(c)
      [] b = "cep_evaluation" -> CepEvaluation(c)
      [] b = "narrative_layer" -> NarrativeLayer(c)
      [] b = "ethics_post_response" -> EthicsPostResponse(c)
      [] b = "action_intent_gate" -> ActionIntentGate(c)
      [] b = "behavioral_drift_detection" -> BehavioralDrift(c)
      [] b = "workspace_broadcast" -> WorkspaceBroadcast(c)
      [] b = "entropy_amplitude_post_gate" -> EntropyPostGate(c)
      [] b = "emotion_estimation" -> EmotionEstimation(c)
      [] b = "state_update_physics" -> StateUpdatePhysics(c)
      [] b = "counterfactual_analysis" -> CounterfactualAnalysis(c)
      [] b = "causal_graph_update" -> CausalGraphUpdate(c)
      [] b = "causal_intervention" -> CausalIntervention(c)
      [] b = "root_cause_analysis" -> RootCauseAnalysis(c)
      [] b = "causal_simulation" -> CausalSimulation(c)
      [] b = "phi_computation" -> PhiComputation(c)
      [] b = "entropy_computation" -> EntropyComputation(c)
      [] b = "confidence_fusion" -> ConfidenceFusion(c)
      [] b = "arbitration_resolve" -> ArbitrationResolve(c)
      [] b = "response_revision_gate" -> ResponseRevisionGate(c)
      [] b = "response_build" -> ResponseBuild(c)
      [] b = "memory_consolidation" -> MemoryConsolidation(c)
      [] b = "audit_layer" -> AuditLayer(c)
      [] b = "outcome_feedback" -> OutcomeFeedback(c)
      [] b = "learning_gate" -> LearningGate(c)
=============================================================================
