------------------------ MODULE GovernedTurn_proofs ------------------------
(***************************************************************************)
(* Proofs about GovernedTurn for every deployment, every set of readings   *)
(* and every bound: what a turn of the 46 blocks hands to the user, and    *)
(* that its turns use the switch as KillSwitch says it may be used.        *)
(***************************************************************************)
EXTENDS GovernedTurn, KillSwitch_proofs

Search == INSTANCE RollbackManager_proofs

-----------------------------------------------------------------------------
(* What a block may do to the context *)

Fields ==
    {"services", "legacy", "short", "trouble", "time", "intent", "frame", "unified",
     "physics", "question", "text", "qa", "ethics", "cep", "drift", "phi", "statePhi",
     "entropy", "stateEntropy", "carried", "confidence", "conflict", "payload",
     "override", "directive", "attempts", "audit", "response"}

Signals == {"ethics", "cep", "drift", "phi", "statePhi", "entropy", "stateEntropy",
            "carried", "confidence", "conflict"}

Sevs == NotMeasured .. Reject

Contextual(c) ==
    /\ DOMAIN c = Fields
    /\ {c.text, c.qa, c.response.text} \subseteq Texts
    /\ c.directive \in NoDirective .. Reject
    /\ c.attempts \in 0 .. RegenMaxAttempts
    /\ \A f \in Signals : c[f].sev \in Sevs

(* The keys by which a text is judged and delivered. *)
Telling == {"text", "qa", "directive", "ethics", "entropy", "attempts", "services"}

(* d is a context that differs from c in what tells only by the keys W. *)
Changed(c, d, W) ==
    Contextual(d) /\ \A f \in Telling \ W : d[f] = c[f]

(* The telling keys that the blocks write. *)
Writes(b) ==
    CASE b = "narrative_layer" -> {"text"}
      [] b = "ethics_pre_response" -> {"ethics"}
      [] b = "ethics_post_response" -> {"qa", "ethics"}
      [] b \in {"entropy_amplitude_pre_gate", "entropy_amplitude_post_gate",
                "entropy_computation"} -> {"entropy"}
      [] b = "response_revision_gate" -> {"directive"}
      [] OTHER -> {}

(* The blocks that may end a turn before it has a text, and those that     *)
(* answer with an error although nothing was raised.                       *)
Gates == {"kill_switch_gate", "input_safety_gate", "knowledge_boundary_check",
          "deliberative_ethics_gate"}
Refusers == {"initialize_unified_state", "cognitive_layer", "narrative_layer"}

(* What the loop may rely on whatever block it calls. *)
Tame(b, c, o) ==
    /\ Changed(c, o.context, Writes(b))
    /\ Changed(c, o.settled, Writes(b))
    /\ o.exit => o.status = "ok" /\ (c.text = NoText => b \in Gates)
    /\ o.status = "error" => o.fault \/ b \in Refusers
    /\ o.cut => \/ b = "input_safety_gate" /\ o.exit
                \/ b = "narrative_layer"

LEMMA RanIs ==
    ASSUME NEW d, NEW o, o = Ran(d)
    PROVE  /\ o.context = d /\ o.settled = d /\ o.status = "ok"
           /\ o.exit = FALSE /\ o.cut = FALSE /\ o.fault = FALSE
BY DEF Ran, Outcome

LEMMA ExitsIs ==
    ASSUME NEW d, NEW o, o = Exits(d)
    PROVE  /\ o.context = d /\ o.settled = d /\ o.status = "ok"
           /\ o.exit = TRUE /\ o.cut = FALSE /\ o.fault = FALSE
BY DEF Exits, Ran, Outcome

LEMMA RaisedIs ==
    ASSUME NEW d, NEW s, NEW o, o = Raised(s, d)
    PROVE  /\ o.context = d /\ o.settled = d /\ o.status = s
           /\ o.exit = FALSE /\ o.cut = FALSE /\ o.fault = TRUE
BY DEF Raised, Outcome

LEMMA DeclinedIs ==
    ASSUME NEW d, NEW o, o = Declined(d)
    PROVE  /\ o.context = d /\ o.settled = d /\ o.status = "skipped"
           /\ o.exit = FALSE /\ o.cut = FALSE /\ o.fault = FALSE
BY DEF Declined, Outcome

LEMMA RefusedIs ==
    ASSUME NEW d, NEW o, o = Refused(d)
    PROVE  /\ o.context = d /\ o.settled = d /\ o.status = "error"
           /\ o.exit = FALSE /\ o.cut = FALSE /\ o.fault = FALSE
BY DEF Refused, Outcome

(* A context unchanged, or changed in a key that does not tell. *)
LEMMA NothingChanged == ASSUME NEW c, Contextual(c), NEW W PROVE Changed(c, c, W)
BY DEF Changed

LEMMA FlagChanged ==
    ASSUME NEW c, Contextual(c), NEW v, NEW W
    PROVE  /\ Changed(c, [c EXCEPT !.time = v], W)
           /\ Changed(c, [c EXCEPT !.intent = v], W)
           /\ Changed(c, [c EXCEPT !.frame = v], W)
           /\ Changed(c, [c EXCEPT !.unified = v], W)
           /\ Changed(c, [c EXCEPT !.physics = v], W)
           /\ Changed(c, [c EXCEPT !.question = v], W)
           /\ Changed(c, [c EXCEPT !.override = v], W)
           /\ Changed(c, [c EXCEPT !.audit = v], W)
BY DEF Contextual, Changed, Telling, Fields, Signals

(* The readings of a criterion. *)
LEMMA ReadingsAre ==
    ASSUME NEW c, NEW criterion \in Criteria, NEW version,
           NEW r \in ReadingsOf(c, criterion, version)
    PROVE  r.sev \in Pass .. Reject /\ r.sev \in Sevs /\ r.of = version
<1>1. Pass .. Reject \subseteq Sevs /\ Pass \in Pass .. Reject
  BY DEF Pass, Reject, Sevs, NotMeasured
<1>2. r.sev \in Severe[criterion] \cup {Pass} /\ r.of = version
  BY DEF ReadingsOf
<1> QED
  BY <1>1, <1>2, ReadingsAssumption

LEMMA EthicsAre ==
    ASSUME NEW c, NEW version, NEW e \in EthicsOf(c, version)
    PROVE  e.sev \in Sevs /\ e.of = version
<1>1. PICK r \in ReadingsOf(c, "ethics", version), f \in BOOLEAN :
         e = [r EXCEPT !.enforced = f]
  BY DEF EthicsOf
<1>2. PICK s : r = [sev |-> s, of |-> version, enforced |-> FALSE]
  BY DEF ReadingsOf
<1>3. e.sev = r.sev /\ e.of = r.of
  BY <1>1, <1>2
<1> QED
  BY <1>1, <1>3, ReadingsAre DEF Criteria

LEMMA AbsentIs == Absent.sev \in Sevs /\ Absent.of = 0
BY DEF Absent, Sevs, NotMeasured, Reject

LEMMA SignalChanged ==
    ASSUME NEW c, Contextual(c), NEW r, r.sev \in Sevs, NEW W
    PROVE  /\ Changed(c, [c EXCEPT !.cep = r], W)
           /\ Changed(c, [c EXCEPT !.drift = r], W)
           /\ Changed(c, [c EXCEPT !.phi = r], W)
           /\ Changed(c, [c EXCEPT !.stateEntropy = r], W)
           /\ Changed(c, [c EXCEPT !.confidence = r], W)
           /\ "ethics" \in W => Changed(c, [c EXCEPT !.ethics = r], W)
           /\ "entropy" \in W => Changed(c, [c EXCEPT !.entropy = r], W)
BY DEF Contextual, Changed, Telling, Fields, Signals

(* An outcome whose context is changed in the keys of the block.           *)
LEMMA PlainIsTame ==
    ASSUME NEW b, NEW c, NEW d, Changed(c, d, Writes(b)), NEW s, NEW o,
           \/ o = Ran(d) \/ o = Declined(d) \/ o = Raised(s, d)
           \/ o = Exits(d) /\ (c.text = NoText => b \in Gates)
           \/ o = Refused(d) /\ b \in Refusers
    PROVE  Tame(b, c, o)
<1>1. CASE o = Ran(d)
  BY <1>1, RanIs DEF Tame
<1>2. CASE o = Declined(d)
  BY <1>2, DeclinedIs DEF Tame
<1>3. CASE o = Raised(s, d)
  <2>1. /\ o.context = d /\ o.settled = d /\ o.exit = FALSE /\ o.cut = FALSE
        /\ o.fault = TRUE
    BY <1>3 DEF Raised, Outcome
  <2> QED
    BY <2>1 DEF Tame
<1>4. CASE o = Exits(d) /\ (c.text = NoText => b \in Gates)
  BY <1>4, ExitsIs DEF Tame
<1>5. CASE o = Refused(d) /\ b \in Refusers
  BY <1>5, RefusedIs DEF Tame
<1> QED
  BY <1>1, <1>2, <1>3, <1>4, <1>5

(* Blocks that leave the context as it is.                                 *)
Answering ==
    {"context_retrieval_rag", "perceptual_frame_emit", "goal_evaluation",
     "ukf_predict", "unified_state_update_esc", "phi_publish",
     "neurotransmitter_memory_growth", "world_state_snapshot", "workspace_broadcast",
     "goal_decomposition", "self_model_assessment", "causal_graph_update",
     "causal_intervention", "root_cause_analysis", "causal_simulation",
     "counterfactual_analysis", "memory_consolidation", "outcome_feedback",
     "learning_gate", "trust_evaluation", "action_intent_gate"}

LEMMA AnsweringIsTame ==
    ASSUME NEW b \in Answering, NEW c, Contextual(c), NEW t, NEW o \in Execute(b, c, t)
    PROVE  Tame(b, c, o)
<1>1. CASE b \in {"context_retrieval_rag", "perceptual_frame_emit", "goal_evaluation",
                  "ukf_predict", "unified_state_update_esc", "phi_publish",
                  "neurotransmitter_memory_growth", "world_state_snapshot",
                  "workspace_broadcast"}
  <2>1. o \in Quiet(c)
    BY <1>1 DEF Execute, ContextRetrieval, PerceptualFrameEmit, GoalEvaluation,
                UkfPredict, UnifiedStateUpdate, PhiPublish, MemoryGrowth,
                WorldStateSnapshot, WorkspaceBroadcast
  <2>2. o = Ran(c) \/ o = Raised("ok", c)
    BY <2>1 DEF Quiet
  <2> QED
    BY <2>2, NothingChanged, PlainIsTame
<1>2. CASE b \in {"goal_decomposition", "self_model_assessment", "causal_graph_update",
                  "causal_intervention", "root_cause_analysis", "causal_simulation",
                  "counterfactual_analysis", "memory_consolidation", "outcome_feedback"}
  <2>1. o = Ran(c) \/ \E service : o \in Optional(c, service)
    BY <1>2 DEF Execute, GoalDecomposition, SelfModelAssessment, CausalGraphUpdate,
                CausalIntervention, RootCauseAnalysis, CausalSimulation,
                CounterfactualAnalysis, MemoryConsolidation, OutcomeFeedback
  <2>2. o = Ran(c) \/ o = Declined(c) \/ o = Raised("error", c)
    BY <2>1 DEF Optional
  <2> QED
    BY <2>2, NothingChanged, PlainIsTame
<1>3. CASE b \in {"learning_gate", "trust_evaluation", "action_intent_gate"}
  <2>1. o = Ran(c) \/ o = Raised("error", c) \/ o = Raised("skipped", c)
    BY <1>3 DEF Execute, LearningGate, TrustEvaluation, ActionIntentGate
  <2> QED
    BY <2>1, NothingChanged, PlainIsTame
<1> QED
  BY <1>1, <1>2, <1>3 DEF Answering

-----------------------------------------------------------------------------
(* The gates before the narrative *)

LEMMA KillSwitchGateIsTame ==
    ASSUME NEW c, Contextual(c), NEW t, NEW o \in KillSwitchGate(c, t)
    PROVE  Tame("kill_switch_gate", c, o)
<1>1. o = Exits(c) \/ o = Ran(c)
  BY DEF KillSwitchGate
<1> QED
  BY <1>1, NothingChanged, PlainIsTame DEF Gates

LEMMA TimeUpdateIsTame ==
    ASSUME NEW c, Contextual(c), NEW o \in TimeUpdate(c)
    PROVE  Tame("time_update_sot", c, o)
<1>1. o = Ran([c EXCEPT !.time = 0]) \/ o = Raised("error", c)
  BY DEF TimeUpdate
<1> QED
  BY <1>1, NothingChanged, FlagChanged, PlainIsTame

LEMMA InputSafetyGateIsTame ==
    ASSUME NEW c, Contextual(c), NEW o \in InputSafetyGate(c)
    PROVE  Tame("input_safety_gate", c, o)
<1> DEFINE b == "input_safety_gate"
           q == [c EXCEPT !.question = TRUE]
<1>1. Changed(c, q, Writes(b)) /\ Changed(c, c, Writes(b))
  BY FlagChanged, NothingChanged
<1>2. \/ o \in {Ran(c), Exits(q), [Exits(c) EXCEPT !.cut = TRUE]}
      \/ o \in {Unchecked(c), [Unchecked(c) EXCEPT !.fault = TRUE]}
  BY DEF InputSafetyGate
<1> HIDE DEF q
<1>3. CASE o \in {Ran(c), Exits(q)}
  BY <1>1, <1>3, PlainIsTame DEF Gates
<1>4. CASE o = [Exits(c) EXCEPT !.cut = TRUE]
  <2>1. /\ o.context = c /\ o.settled = c /\ o.exit /\ o.status = "ok"
    BY <1>4 DEF Exits, Ran, Outcome
  <2> QED
    BY <1>1, <2>1 DEF Tame, Gates
<1>5. CASE o \in {Unchecked(c), [Unchecked(c) EXCEPT !.fault = TRUE]}
  <2>1. CASE GatesFailClosed
    <3>1. Unchecked(c) = [Exits(q) EXCEPT !.cut = TRUE]
      BY <2>1 DEF Unchecked, q
    <3>2. o.context = q /\ o.settled = q /\ o.exit /\ o.status = "ok"
      BY <1>5, <3>1 DEF Exits, Ran, Outcome
    <3> QED
      BY <1>1, <3>2 DEF Tame, Gates
  <2>2. CASE ~GatesFailClosed
    <3>1. Unchecked(c) = Ran(c)
      BY <2>2 DEF Unchecked
    <3>2. o.context = c /\ o.settled = c /\ o.exit = FALSE /\ o.cut = FALSE
          /\ o.status = "ok"
      BY <1>5, <3>1 DEF Ran, Outcome
    <3> QED
      BY <1>1, <3>2 DEF Tame
  <2> QED
    BY <2>1, <2>2
<1> QED
  BY <1>2, <1>3, <1>4, <1>5

LEMMA FlagBlocksAreTame ==
    ASSUME NEW c, Contextual(c), NEW o
    PROVE  /\ o \in IntentClassification(c) => Tame("intent_classification", c, o)
           /\ o \in CreateScenarioFrame(c) => Tame("create_scenario_frame", c, o)
           /\ o \in InitializeUnifiedState(c) => Tame("initialize_unified_state", c, o)
           /\ o \in AuditLayer(c) => Tame("audit_layer", c, o)
           /\ o \in ArbitrationResolve(c) => Tame("arbitration_resolve", c, o)
<1>1. ASSUME o \in IntentClassification(c) PROVE Tame("intent_classification", c, o)
  <2>1. \/ o = Ran([c EXCEPT !.intent = TRUE])
        \/ o = Raised("ok", [c EXCEPT !.intent = FALSE])
    BY <1>1 DEF IntentClassification
  <2> QED
    BY <2>1, FlagChanged, PlainIsTame
<1>2. ASSUME o \in CreateScenarioFrame(c) PROVE Tame("create_scenario_frame", c, o)
  <2>1. o = Ran([c EXCEPT !.frame = TRUE]) \/ o = Raised("error", c)
    BY <1>2 DEF CreateScenarioFrame
  <2> QED
    BY <2>1, NothingChanged, FlagChanged, PlainIsTame
<1>3. ASSUME o \in InitializeUnifiedState(c)
      PROVE  Tame("initialize_unified_state", c, o)
  <2>1. o = Refused(c) \/ o = Ran([c EXCEPT !.unified = TRUE]) \/ o = Raised("error", c)
    BY <1>3 DEF InitializeUnifiedState
  <2> QED
    BY <2>1, NothingChanged, FlagChanged, PlainIsTame DEF Refusers
<1>4. ASSUME o \in AuditLayer(c) PROVE Tame("audit_layer", c, o)
  <2>1. \/ o = Declined([c EXCEPT !.audit = FALSE])
        \/ o = Ran([c EXCEPT !.audit = TRUE])
        \/ o = Raised("skipped", [c EXCEPT !.audit = FALSE])
    BY <1>4 DEF AuditLayer
  <2> QED
    BY <2>1, FlagChanged, PlainIsTame
<1>5. ASSUME o \in ArbitrationResolve(c) PROVE Tame("arbitration_resolve", c, o)
  <2>1. \/ o = Ran(c) \/ o = Raised("skipped", c)
        \/ \E v : o = Ran([c EXCEPT !.override = v])
    BY <1>5 DEF ArbitrationResolve
  <2> QED
    BY <2>1, NothingChanged, FlagChanged, PlainIsTame
<1> QED
  BY <1>1, <1>2, <1>3, <1>4, <1>5

LEMMA CognitiveLayerIsTame ==
    ASSUME NEW c, Contextual(c), NEW o \in CognitiveLayer(c)
    PROVE  Tame("cognitive_layer", c, o)
<1>1. o = Refused(c) \/ o = Ran(c) \/ o = Raised("error", c)
  BY DEF CognitiveLayer
<1> QED
  BY <1>1, NothingChanged, PlainIsTame DEF Refusers

LEMMA KnowledgeBoundaryIsTame ==
    ASSUME NEW c, Contextual(c), NEW o \in KnowledgeBoundary(c)
    PROVE  Tame("knowledge_boundary_check", c, o)
<1>1. o = Ran(c) \/ o = Raised("error", c) \/ o = Exits(c)
  BY DEF KnowledgeBoundary
<1> QED
  BY <1>1, NothingChanged, PlainIsTame DEF Gates

LEMMA DeliberativeEthicsGateIsTame ==
    ASSUME NEW c, Contextual(c), NEW o \in DeliberativeEthicsGate(c)
    PROVE  Tame("deliberative_ethics_gate", c, o)
<1>1. \/ o = Ran(c) \/ o = Exits(c)
      \/ o = [Outcome("ok", c) EXCEPT !.fault = TRUE, !.exit = GatesFailClosed]
  BY DEF DeliberativeEthicsGate
<1>2. CASE o = [Outcome("ok", c) EXCEPT !.fault = TRUE, !.exit = GatesFailClosed]
  <2>1. o.context = c /\ o.settled = c /\ o.status = "ok" /\ o.cut = FALSE
    BY <1>2 DEF Outcome
  <2> QED
    BY <2>1, NothingChanged DEF Tame, Gates
<1> QED
  BY <1>1, <1>2, NothingChanged, PlainIsTame DEF Gates

LEMMA EntropyPreGateIsTame ==
    ASSUME NEW c, Contextual(c), NEW o \in EntropyPreGate(c)
    PROVE  Tame("entropy_amplitude_pre_gate", c, o)
<1>1. o = Ran(c) \/ o = Ran([c EXCEPT !.entropy = c.carried]) \/ o = Raised("skipped", c)
  BY DEF EntropyPreGate
<1>2. c.carried.sev \in Sevs
  BY DEF Contextual, Signals
<1>3. "entropy" \in Writes("entropy_amplitude_pre_gate")
  BY DEF Writes
<1> QED
  BY <1>1, <1>2, <1>3, NothingChanged, SignalChanged, PlainIsTame

(* The reading before the narrative is of no text.                         *)
LEMMA EthicsPreResponseIsTame ==
    ASSUME NEW c, Contextual(c), NEW o \in EthicsPreResponse(c)
    PROVE  Tame("ethics_pre_response", c, o) /\ o.context.ethics.of = 0
           /\ o.settled = o.context
<1>1. PICK e \in EthicsOf(c, 0) \cup {Absent} :
         \/ o = Ran([c EXCEPT !.ethics = e]) \/ o = Raised("skipped", [c EXCEPT !.ethics = e])
  BY DEF EthicsPreResponse
<1>2. e.sev \in Sevs /\ e.of = 0
  BY EthicsAre, AbsentIs
<1> DEFINE d == [c EXCEPT !.ethics = e]
<1>3. Changed(c, d, Writes("ethics_pre_response"))
  <2>1. "ethics" \in Writes("ethics_pre_response")
    BY DEF Writes
  <2> QED
    BY <1>2, <2>1, SignalChanged
<1>4. d.ethics.of = 0
  BY <1>2 DEF Contextual, Fields
<1> HIDE DEF d
<1>5. o = Ran(d) \/ o = Raised("skipped", d)
  BY <1>1 DEF d
<1>6. o.context = d /\ o.settled = d
  BY <1>5 DEF Ran, Raised, Outcome
<1>7. Tame("ethics_pre_response", c, o)
  BY <1>3, <1>5, PlainIsTame
<1> QED
  BY <1>4, <1>6, <1>7

LEMMA CepEvaluationIsTame ==
    ASSUME NEW c, Contextual(c), NEW o \in CepEvaluation(c)
    PROVE  Tame("cep_evaluation", c, o)
<1>1. PICK r \in {Absent, c.cep} \cup Read(c, "cep") :
         \/ o = Ran([c EXCEPT !.cep = r]) \/ o = Raised("skipped", [c EXCEPT !.cep = r])
  BY DEF CepEvaluation
<1>2. r.sev \in Sevs
  BY AbsentIs, ReadingsAre DEF Read, Criteria, Contextual, Signals
<1> QED
  BY <1>1, <1>2, SignalChanged, PlainIsTame

-----------------------------------------------------------------------------
(* The narrative and its judges *)

LEMMA NarratedIs ==
    ASSUME NEW c, Contextual(c), NEW k \in Kinds, NEW m \in Matches
    PROVE  Changed(c, Narrated(c, k, m), {"text"})
<1> DEFINE text == [version |-> c.attempts + 1, kind |-> k, matches |-> m]
<1>1. text \in Texts
  BY DEF Contextual, Texts, RegenMaxAttempts
<1> HIDE DEF text
<1>2. Changed(c, [c EXCEPT !.text = text], {"text"})
  BY <1>1 DEF Contextual, Changed, Telling, Fields, Signals
<1> QED
  BY <1>2 DEF Narrated, text

LEMMA NarrativeLayerIsTame ==
    ASSUME NEW c, Contextual(c), NEW o \in NarrativeLayer(c)
    PROVE  Tame("narrative_layer", c, o)
<1> DEFINE Spoken(d) == \E k \in Kinds, m \in Matches : d = Narrated(c, k, m)
<1>1. Spoken(Narrated(c, "clean", "few")) /\ \A d \in Narratives(c) : Spoken(d)
  <2>1. "clean" \in Kinds /\ "few" \in Matches
    BY DEF Kinds, Matches
  <2>2. Spoken(Narrated(c, "clean", "few"))
    BY <2>1
  <2>3. ASSUME NEW d \in Narratives(c) PROVE Spoken(d)
    BY <2>2 DEF Narratives
  <2> QED
    BY <2>2, <2>3
<1>2. ASSUME NEW d, Spoken(d) PROVE Changed(c, d, Writes("narrative_layer"))
  <2>1. Writes("narrative_layer") = {"text"}
    BY DEF Writes
  <2> QED
    BY <1>2, <2>1, NarratedIs
<1> HIDE DEF Spoken
<1> DEFINE With(d) == \/ o = [Ran(d) EXCEPT !.cut = TRUE]
                      \/ o \in {Ran(d), Raised("error", d)}
<1>3. o \in {Refused(c), Raised("error", c)} \/ \E d : Spoken(d) /\ With(d)
  BY <1>1 DEF NarrativeLayer
<1>4. CASE o \in {Refused(c), Raised("error", c)}
  BY <1>4, NothingChanged, PlainIsTame DEF Refusers
<1>5. ASSUME NEW d, Spoken(d), With(d) PROVE Tame("narrative_layer", c, o)
  <2>1. Changed(c, d, Writes("narrative_layer"))
    BY <1>2, <1>5
  <2>2. CASE o = [Ran(d) EXCEPT !.cut = TRUE]
    <3>1. o.context = d /\ o.settled = d /\ o.exit = FALSE /\ o.status = "ok"
      BY <2>2 DEF Ran, Outcome
    <3> QED
      BY <2>1, <3>1 DEF Tame
  <2> QED
    BY <1>5, <2>1, <2>2, PlainIsTame
<1> HIDE DEF With
<1> QED
  BY <1>3, <1>4, <1>5

(* Without a fault what is judged is the text that stands.                 *)
LEMMA EthicsPostResponseIsTame ==
    ASSUME NEW c, Contextual(c), NEW o \in EthicsPostResponse(c)
    PROVE  /\ Tame("ethics_post_response", c, o)
           /\ ~o.fault =>
                 /\ o.context.qa = c.text /\ o.settled = o.context
                 /\ o.context.ethics # Absent => o.context.ethics.of = c.text.version
<1> DEFINE W == Writes("ethics_post_response")
           judged == [c EXCEPT !.qa = Assessed(c)]
           kept == IF c.text = NoText THEN c ELSE judged
<1>1. W = {"qa", "ethics"}
  BY DEF Writes
<1> HIDE DEF W
<1>2. Changed(c, judged, W) /\ judged.qa = c.text
  BY <1>1 DEF Assessed, Contextual, Changed, Telling, Fields, Signals
<1>3. Changed(c, kept, W)
  BY <1>2, NothingChanged
<1>4. \/ \E e \in EthicsOf(c, c.text.version) \cup {Absent} :
            o = Ran([judged EXCEPT !.ethics = e])
      \/ o = Raised("skipped", [kept EXCEPT !.ethics = Absent])
  BY DEF EthicsPostResponse
<1> HIDE DEF judged, kept
<1>5. ASSUME NEW d, Changed(c, d, W), NEW e, e.sev \in Sevs
      PROVE  /\ Changed(c, [d EXCEPT !.ethics = e], W)
             /\ [d EXCEPT !.ethics = e].qa = d.qa
             /\ [d EXCEPT !.ethics = e].ethics = e
  BY <1>1, <1>5 DEF Contextual, Changed, Telling, Fields, Signals
<1>6. ASSUME NEW e \in EthicsOf(c, c.text.version) \cup {Absent},
             o = Ran([judged EXCEPT !.ethics = e])
      PROVE  /\ Tame("ethics_post_response", c, o)
             /\ o.context.qa = c.text /\ o.settled = o.context
             /\ o.context.ethics # Absent => o.context.ethics.of = c.text.version
  <2> DEFINE d == [judged EXCEPT !.ethics = e]
  <2>1. e.sev \in Sevs /\ (e # Absent => e.of = c.text.version)
    BY EthicsAre, AbsentIs
  <2>2. Changed(c, d, W) /\ d.qa = c.text /\ d.ethics = e
    BY <1>2, <1>5, <2>1
  <2> HIDE DEF d
  <2>3. o = Ran(d)
    BY <1>6 DEF d
  <2>4. Tame("ethics_post_response", c, o)
    BY <2>2, <2>3, PlainIsTame DEF W
  <2>5. o.context = d /\ o.settled = d
    BY <2>3, RanIs
  <2> QED
    BY <2>1, <2>2, <2>4, <2>5
<1>7. CASE o = Raised("skipped", [kept EXCEPT !.ethics = Absent])
  <2> DEFINE d == [kept EXCEPT !.ethics = Absent]
  <2>1. Changed(c, d, W)
    BY <1>3, <1>5, AbsentIs
  <2> HIDE DEF d
  <2>2. o = Raised("skipped", d)
    BY <1>7 DEF d
  <2>3. o.fault = TRUE
    BY <2>2 DEF Raised, Outcome
  <2> QED
    BY <2>1, <2>2, <2>3, PlainIsTame DEF W
<1> QED
  BY <1>4, <1>6, <1>7

(* Drift is only found in a text.                                          *)
LEMMA BehavioralDriftIsTame ==
    ASSUME NEW c, Contextual(c), NEW o \in BehavioralDrift(c)
    PROVE  Tame("behavioral_drift_detection", c, o)
<1>1. \/ o = Raised("error", c)
      \/ \E d \in {c} \cup {[c EXCEPT !.drift = r] : r \in Read(c, "drift")} :
            o = Ran(d) \/ (o = Exits(d) /\ c.text # NoText)
  BY DEF BehavioralDrift
<1>2. ASSUME NEW d \in {c} \cup {[c EXCEPT !.drift = r] : r \in Read(c, "drift")}
      PROVE  Changed(c, d, Writes("behavioral_drift_detection"))
  <2>1. ASSUME NEW r \in Read(c, "drift")
        PROVE  Changed(c, [c EXCEPT !.drift = r], Writes("behavioral_drift_detection"))
    <3>1. r.sev \in Sevs
      BY ReadingsAre DEF Read, Criteria
    <3> QED
      BY <3>1, SignalChanged
  <2> QED
    BY <2>1, NothingChanged
<1>3. CASE o = Raised("error", c)
  BY <1>3, NothingChanged, PlainIsTame
<1>4. ASSUME NEW d \in {c} \cup {[c EXCEPT !.drift = r] : r \in Read(c, "drift")},
             o = Ran(d) \/ (o = Exits(d) /\ c.text # NoText)
      PROVE  Tame("behavioral_drift_detection", c, o)
  BY <1>2, <1>4, PlainIsTame
<1> QED
  BY <1>1, <1>3, <1>4

-----------------------------------------------------------------------------
(* State, physics and confidence *)

LEMMA EntropyPostGateIsTame ==
    ASSUME NEW c, Contextual(c), NEW o \in EntropyPostGate(c)
    PROVE  Tame("entropy_amplitude_post_gate", c, o)
<1>1. \/ o = Ran(c) \/ o = Raised("skipped", c)
      \/ o = Ran([c EXCEPT !.entropy = c.stateEntropy])
  BY DEF EntropyPostGate
<1>2. c.stateEntropy.sev \in Sevs
  BY DEF Contextual, Signals
<1>3. "entropy" \in Writes("entropy_amplitude_post_gate")
  BY DEF Writes
<1> QED
  BY <1>1, <1>2, <1>3, NothingChanged, SignalChanged, PlainIsTame

LEMMA EmotionEstimationIsTame ==
    ASSUME NEW c, Contextual(c), NEW o \in EmotionEstimation(c)
    PROVE  Tame("emotion_estimation", c, o)
<1>1. PICK p \in Quiet(c) : o = [p EXCEPT !.settled.physics = TRUE]
  BY DEF EmotionEstimation
<1>2. p = Ran(c) \/ p = Raised("ok", c)
  BY DEF Quiet
<1> DEFINE d == [c EXCEPT !.physics = TRUE]
<1>3. /\ p.context = c /\ p.settled = c /\ p.exit = FALSE /\ p.cut = FALSE
      /\ p.status = "ok"
      /\ DOMAIN p = {"status", "exit", "cut", "fault", "context", "settled"}
  <2>1. CASE p = Ran(c)
    BY <2>1 DEF Ran, Outcome
  <2>2. CASE p = Raised("ok", c)
    BY <2>2 DEF Raised, Outcome
  <2> QED
    BY <1>2, <2>1, <2>2
<1>4. /\ o.context = c /\ o.settled = d
      /\ o.exit = FALSE /\ o.cut = FALSE /\ o.status = "ok"
  <2>1. o = [p EXCEPT !.settled = [p.settled EXCEPT !.physics = TRUE]]
    BY <1>1, <1>3
  <2>2. o = [p EXCEPT !.settled = d]
    BY <1>3, <2>1
  <2> HIDE DEF d
  <2> QED
    BY <1>3, <2>2
<1>5. Changed(c, d, Writes("emotion_estimation"))
  BY FlagChanged
<1> HIDE DEF d
<1> QED
  BY <1>4, <1>5, NothingChanged DEF Tame

LEMMA StateUpdatePhysicsIsTame ==
    ASSUME NEW c, Contextual(c), NEW o \in StateUpdatePhysics(c)
    PROVE  Tame("state_update_physics", c, o)
<1>1. \/ o = Ran(c) \/ o = Raised("ok", c)
      \/ \E p \in ReadingsOf(c, "phi", 0), e \in ReadingsOf(c, "entropy", 0) :
            o = Ran(TakenOver(c, p, e))
  BY DEF StateUpdatePhysics, Quiet
<1>2. ASSUME NEW p \in ReadingsOf(c, "phi", 0), NEW e \in ReadingsOf(c, "entropy", 0)
      PROVE  Changed(c, TakenOver(c, p, e), Writes("state_update_physics"))
  <2>1. p.sev \in Sevs /\ e.sev \in Sevs
    BY ReadingsAre DEF Criteria
  <2> QED
    BY <2>1 DEF TakenOver, Contextual, Changed, Telling, Fields, Signals
<1> QED
  BY <1>1, <1>2, NothingChanged, PlainIsTame

LEMMA PhiComputationIsTame ==
    ASSUME NEW c, Contextual(c), NEW o \in PhiComputation(c)
    PROVE  Tame("phi_computation", c, o)
<1> DEFINE known == IF c.stateEntropy = Absent THEN c.carried ELSE c.stateEntropy
           taken == IF c.physics THEN [c EXCEPT !.stateEntropy = known] ELSE c
           W == Writes("phi_computation")
<1>1. \/ o = Ran(taken) \/ o = Raised("ok", c)
      \/ \E r \in Read(c, "phi") : o = Ran([taken EXCEPT !.phi = r])
  BY DEF PhiComputation
<1>2. known.sev \in Sevs
  BY DEF Contextual, Signals
<1> HIDE DEF known, W
<1>3. Changed(c, taken, W)
  BY <1>2, NothingChanged, SignalChanged
<1> HIDE DEF taken
<1>4. ASSUME NEW r \in Read(c, "phi") PROVE Changed(c, [taken EXCEPT !.phi = r], W)
  <2>1. r.sev \in Sevs
    BY ReadingsAre DEF Read, Criteria
  <2> QED
    BY <1>3, <2>1 DEF Contextual, Changed, Telling, Fields, Signals
<1> QED
  BY <1>1, <1>3, <1>4, NothingChanged, PlainIsTame DEF W

(* Without a fault the entropy is that of the text that stands, unless an  *)
(* injected computer gave none.                                            *)
LEMMA EntropyComputationIsTame ==
    ASSUME NEW c, Contextual(c), NEW o \in EntropyComputation(c)
    PROVE  /\ Tame("entropy_computation", c, o)
           /\ ~o.fault /\ ~Has(c, "entropy_computer") =>
                 /\ o.context.entropy.of = c.text.version
                 /\ o.settled.entropy.of = c.text.version
<1>1. \/ o = Raised("ok", c)
      \/ o = Ran(c) /\ Has(c, "entropy_computer")
      \/ \E r \in Read(c, "entropy") :
            o = [Ran([c EXCEPT !.entropy = r, !.carried = r]) EXCEPT
                   !.settled = [c EXCEPT !.entropy = r, !.carried = r,
                                         !.stateEntropy = r, !.physics = TRUE]]
  BY DEF EntropyComputation
<1>2. CASE o = Raised("ok", c)
  BY <1>2, NothingChanged, PlainIsTame, RaisedIs
<1>3. CASE o = Ran(c) /\ Has(c, "entropy_computer")
  BY <1>3, NothingChanged, PlainIsTame
<1>4. ASSUME NEW r \in Read(c, "entropy"),
             o = [Ran([c EXCEPT !.entropy = r, !.carried = r]) EXCEPT
                    !.settled = [c EXCEPT !.entropy = r, !.carried = r,
                                          !.stateEntropy = r, !.physics = TRUE]]
      PROVE  /\ Tame("entropy_computation", c, o)
             /\ o.context.entropy.of = c.text.version
             /\ o.settled.entropy.of = c.text.version
  <2> DEFINE d == [c EXCEPT !.entropy = r, !.carried = r]
             s == [c EXCEPT !.entropy = r, !.carried = r, !.stateEntropy = r,
                            !.physics = TRUE]
             W == Writes("entropy_computation")
  <2>1. r.sev \in Sevs /\ r.of = c.text.version
    BY ReadingsAre DEF Read, Criteria
  <2>2. W = {"entropy"}
    BY DEF Writes
  <2> HIDE DEF W
  <2>3. Changed(c, d, W) /\ d.entropy = r
    BY <2>1, <2>2 DEF Contextual, Changed, Telling, Fields, Signals
  <2>4. Changed(c, s, W) /\ s.entropy = r
    BY <2>1, <2>2 DEF Contextual, Changed, Telling, Fields, Signals
  <2>5. /\ o.context = d /\ o.settled = s
        /\ o.exit = FALSE /\ o.cut = FALSE /\ o.status = "ok"
    BY <1>4 DEF Ran, Outcome
  <2> HIDE DEF d, s
  <2> QED
    BY <2>1, <2>3, <2>4, <2>5 DEF Tame, W
<1> QED
  BY <1>1, <1>2, <1>3, <1>4

LEMMA ConfidenceFusionIsTame ==
    ASSUME NEW c, Contextual(c), NEW o \in ConfidenceFusion(c)
    PROVE  Tame("confidence_fusion", c, o)
<1> DEFINE W == Writes("confidence_fusion")
           Read1(r) == [c EXCEPT !.confidence = r]
<1>1. \/ o = Ran(c) \/ o = Raised("skipped", c)
      \/ \E r \in Read(c, "confidence") : o = Ran(Read1(r))
      \/ \E r \in Read(c, "confidence"), q \in Read(c, "conflict") :
            o = Ran(Fused(c, r, q))
  BY DEF ConfidenceFusion
<1>2. ASSUME NEW r \in Read(c, "confidence") PROVE Changed(c, Read1(r), W)
  <2>1. r.sev \in Sevs
    BY ReadingsAre DEF Read, Criteria
  <2> QED
    BY <2>1, SignalChanged
<1>3. ASSUME NEW r \in Read(c, "confidence"), NEW q \in Read(c, "conflict")
      PROVE  Changed(c, Fused(c, r, q), W)
  <2>1. r.sev \in Sevs /\ q.sev \in Sevs
    BY ReadingsAre DEF Read, Criteria
  <2> QED
    BY <2>1 DEF Fused, Contextual, Changed, Telling, Fields, Signals
<1> HIDE DEF Read1
<1> QED
  BY <1>1, <1>2, <1>3, NothingChanged, PlainIsTame

-----------------------------------------------------------------------------
(* The revision gate and the response *)

(* What the gate reads. *)
Judging == {"phi", "statePhi", "entropy", "stateEntropy", "carried", "ethics",
            "conflict", "confidence", "drift", "cep", "qa", "override"}

LEMMA SameSeverities ==
    ASSUME NEW c, NEW d, \A f \in Judging : d[f] = c[f]
    PROVE  Severities(d) = Severities(c) /\ Decide(d) = Decide(c)
<1>1. /\ d.phi = c.phi /\ d.statePhi = c.statePhi /\ d.entropy = c.entropy
      /\ d.stateEntropy = c.stateEntropy /\ d.carried = c.carried
      /\ d.ethics = c.ethics /\ d.conflict = c.conflict
      /\ d.confidence = c.confidence /\ d.drift = c.drift /\ d.cep = c.cep
      /\ d.qa = c.qa /\ d.override = c.override
  BY DEF Judging
<1>2. /\ PhiSignal(d) = PhiSignal(c) /\ EntropySignal(d) = EntropySignal(c)
      /\ CoherenceSeverity(d) = CoherenceSeverity(c)
  BY <1>1 DEF PhiSignal, EntropySignal, CoherenceSeverity
<1>3. Severities(d) = Severities(c)
  BY <1>1, <1>2 DEF Severities
<1> QED
  BY <1>3 DEF Decide

LEMMA SeveritiesAre ==
    ASSUME NEW c, Contextual(c)
    PROVE  Severities(c) \subseteq Sevs /\ \E s \in Severities(c) : s >= Pass
<1>1. \A f \in Signals : c[f].sev \in Sevs
  BY DEF Contextual
<1>2. /\ c.ethics.sev \in Sevs /\ c.conflict.sev \in Sevs /\ c.confidence.sev \in Sevs
      /\ c.drift.sev \in Sevs /\ c.cep.sev \in Sevs
      /\ c.phi.sev \in Sevs /\ c.statePhi.sev \in Sevs
      /\ c.entropy.sev \in Sevs /\ c.stateEntropy.sev \in Sevs /\ c.carried.sev \in Sevs
  BY <1>1 DEF Signals
<1>3. PhiSignal(c).sev \in Sevs /\ EntropySignal(c).sev \in Sevs
  BY <1>2 DEF PhiSignal, EntropySignal
<1>4. /\ {Pass, Damp, Rewrite, Reject} \subseteq Sevs
      /\ Pass >= Pass /\ Rewrite >= Pass /\ Reject >= Pass
  BY DEF Pass, Damp, Rewrite, Reject, Sevs, NotMeasured
<1>5. CoherenceSeverity(c) \in {Pass, Rewrite, Reject}
  BY DEF CoherenceSeverity
<1>6. CoherenceSeverity(c) \in Severities(c)
  BY DEF Severities
<1>7. ASSUME NEW s \in Severities(c) PROVE s \in Sevs
  <2>1. \/ s \in {PhiSignal(c).sev, EntropySignal(c).sev, c.ethics.sev, c.conflict.sev,
                  c.confidence.sev, c.drift.sev, c.cep.sev, CoherenceSeverity(c)}
        \/ s \in {Pass, Damp}
    BY DEF Severities
  <2> QED
    BY <1>2, <1>3, <1>4, <1>5, <2>1
<1> QED
  BY <1>4, <1>5, <1>6, <1>7

(* A set of severities that is not empty has a most severe one.            *)
LEMMA MostSevere ==
    ASSUME NEW S, S \subseteq Sevs, S # {}
    PROVE  \E s \in S : \A q \in S : q <= s
<1>1. \A q \in S : q \in {-1, 0, 1, 2, 3, 4}
  BY DEF Sevs, NotMeasured, Reject
<1>2. CASE 4 \in S
  BY <1>1, <1>2
<1>3. CASE 4 \notin S /\ 3 \in S
  BY <1>1, <1>3
<1>4. CASE 4 \notin S /\ 3 \notin S /\ 2 \in S
  BY <1>1, <1>4
<1>5. CASE 4 \notin S /\ 3 \notin S /\ 2 \notin S /\ 1 \in S
  BY <1>1, <1>5
<1>6. CASE 4 \notin S /\ 3 \notin S /\ 2 \notin S /\ 1 \notin S /\ 0 \in S
  BY <1>1, <1>6
<1>7. CASE 4 \notin S /\ 3 \notin S /\ 2 \notin S /\ 1 \notin S /\ 0 \notin S
  BY <1>1, <1>7
<1> QED
  BY <1>2, <1>3, <1>4, <1>5, <1>6, <1>7

(***************************************************************************)
(* escalate() keeps the most severe candidate whatever the signals are.    *)
(* response_revision_gate.py:395-469.                                      *)
(***************************************************************************)
LEMMA DecideIs ==
    ASSUME NEW c, Contextual(c)
    PROVE  /\ Decide(c) \in Pass .. Reject
           /\ \A q \in Severities(c) : q \in Sevs /\ q <= Decide(c)
<1>1. Severities(c) \subseteq Sevs
  BY SeveritiesAre
<1>2. PICK p \in Severities(c) : p >= Pass
  BY SeveritiesAre
<1>3. \E s \in Severities(c) : \A q \in Severities(c) : q <= s
  BY <1>1, <1>2, MostSevere
<1>4. Decide(c) \in Severities(c) /\ \A q \in Severities(c) : q <= Decide(c)
  BY <1>3 DEF Decide
<1>5. Decide(c) \in Sevs /\ p \in Sevs /\ p <= Decide(c)
  BY <1>1, <1>4
<1> QED
  BY <1>1, <1>2, <1>4, <1>5 DEF Sevs, NotMeasured, Pass, Reject

(* What the gate leaves: its decision, or an exception that leaves nothing.*)
LEMMA GateIsTame ==
    ASSUME NEW c, Contextual(c), NEW o \in ResponseRevisionGate(c)
    PROVE  /\ Tame("response_revision_gate", c, o) /\ o.status # "error" /\ ~o.exit
           /\ o.status = "ok" => /\ o.settled.directive = Decide(o.settled)
                                 /\ o.context.directive = Decide(o.context)
           /\ o.status # "ok" => o.settled = c /\ o.context = c
<1> DEFINE d == [c EXCEPT !.directive = Decide(c)]
<1>1. o = Ran(d) \/ o = Raised("skipped", c)
  BY DEF ResponseRevisionGate
<1>2. Decide(c) \in NoDirective .. Reject
  BY DecideIs DEF NoDirective, Pass, Reject
<1>3. Writes("response_revision_gate") = {"directive"}
  BY DEF Writes
<1>4. Changed(c, d, {"directive"}) /\ d.directive = Decide(c)
  BY <1>2 DEF Contextual, Changed, Telling, Fields, Signals
<1>5. \A f \in Judging : d[f] = c[f]
  BY DEF Contextual, Fields, Judging
<1>6. Decide(d) = Decide(c)
  BY <1>5, SameSeverities
<1> HIDE DEF d
<1>7. CASE o = Ran(d)
  <2>1. o.context = d /\ o.settled = d /\ o.status = "ok" /\ ~o.exit
    BY <1>7, RanIs
  <2> QED
    BY <1>3, <1>4, <1>6, <1>7, <2>1, PlainIsTame
<1>8. CASE o = Raised("skipped", c)
  <2>1. o.context = c /\ o.settled = c /\ o.status = "skipped" /\ ~o.exit
    BY <1>8 DEF Raised, Outcome
  <2> QED
    BY <1>8, <2>1, NothingChanged, PlainIsTame
<1> QED
  BY <1>1, <1>7, <1>8

(***************************************************************************)
(* What is delivered is the narrative, or its redaction where the          *)
(* assessment asked for one, and never against the directive.              *)
(* response_build.py:124-170.                                              *)
(***************************************************************************)
LEMMA RespondIs ==
    ASSUME NEW c, Contextual(c)
    PROVE  /\ Respond(c).what # "nothing" /\ Respond(c).text \in Texts
           /\ Respond(c).what \in {"narrative", "redacted"} =>
                 /\ c.directive \notin {Reject, Regenerate}
                 /\ Respond(c).text \in {c.text, c.qa}
                 /\ c.directive = Rewrite \/ Respond(c).text # NoText
<1> DEFINE redacted == c.qa.kind = "partial"
           text == IF redacted THEN c.qa ELSE c.text
<1>1. text \in {c.text, c.qa} /\ NoText \in Texts /\ {c.text, c.qa} \subseteq Texts
  BY DEF Contextual, NoText, Texts, Kinds, Matches, RegenMaxAttempts
<1>2. CASE c.directive = Reject
  <2>1. Respond(c) = [what |-> "refusal", text |-> NoText]
    BY <1>2 DEF Respond, Reject, Regenerate
  <2> QED
    BY <1>1, <2>1
<1>3. CASE c.directive = Regenerate
  <2>1. Respond(c) = [what |-> "clarification", text |-> NoText]
    BY <1>3 DEF Respond, Reject, Regenerate
  <2> QED
    BY <1>1, <2>1
<1>4. CASE c.directive \notin {Reject, Regenerate}
  <2> DEFINE kind == IF redacted THEN "redacted" ELSE "narrative"
  <2>1. Respond(c) = IF text = NoText /\ c.directive # Rewrite
                     THEN [what |-> "holding", text |-> NoText]
                     ELSE [what |-> kind, text |-> text]
    BY <1>4 DEF Respond
  <2>2. kind # "nothing"
    OBVIOUS
  <2> HIDE DEF kind, text
  <2> QED
    BY <1>1, <1>4, <2>1, <2>2
<1> QED
  BY <1>2, <1>3, <1>4

(* The context with an answer in it.                                       *)
Answered(c, d) == /\ DOMAIN d = DOMAIN c /\ d.response.what # "nothing"
                  /\ \A f \in Fields \ {"response"} : d[f] = c[f]

LEMMA ResponseBuildIsTame ==
    ASSUME NEW c, Contextual(c), NEW o \in ResponseBuild(c)
    PROVE  /\ Tame("response_build", c, o) /\ ~o.exit
           /\ Answered(c, o.context) /\ Answered(c, o.settled)
           /\ o.context.response.what \in {"narrative", "redacted"} =>
                 o.context.response = Respond(c)
           /\ ~o.fault => o.context.response = Respond(c)
<1> DEFINE holding == [what |-> "holding", text |-> NoText]
           With(r) == [c EXCEPT !.response = r]
<1>1. o = Ran(With(Respond(c))) \/ o = Raised("ok", With(holding))
  BY DEF ResponseBuild, HoldingMessage
<1>2. NoText \in Texts
  BY DEF NoText, Texts, Kinds, Matches, RegenMaxAttempts
<1>3. ASSUME NEW r, r.what # "nothing", r.text \in Texts
      PROVE  /\ Changed(c, With(r), {}) /\ Answered(c, With(r))
             /\ With(r).response = r
  BY <1>3 DEF Contextual, Changed, Answered, Telling, Fields, Signals
<1>4. Writes("response_build") = {}
  BY DEF Writes
<1> HIDE DEF With
<1>5. CASE o = Ran(With(Respond(c)))
  <2>1. o.context = With(Respond(c)) /\ o.settled = With(Respond(c)) /\ ~o.exit
    BY <1>5, RanIs
  <2>2. /\ Changed(c, With(Respond(c)), {}) /\ Answered(c, With(Respond(c)))
        /\ With(Respond(c)).response = Respond(c)
    BY <1>3, RespondIs
  <2> QED
    BY <1>4, <1>5, <2>1, <2>2, PlainIsTame
<1>6. CASE o = Raised("ok", With(holding))
  <2>1. o.context = With(holding) /\ o.settled = With(holding) /\ ~o.exit /\ o.fault
    BY <1>6 DEF Raised, Outcome
  <2>2. holding.what = "holding" /\ holding.text \in Texts
    BY <1>2
  <2>3. /\ Changed(c, With(holding), {}) /\ Answered(c, With(holding))
        /\ With(holding).response = holding
    BY <1>3, <2>2
  <2> HIDE DEF holding
  <2> QED
    BY <1>4, <1>6, <2>1, <2>2, <2>3, PlainIsTame
<1> QED
  BY <1>1, <1>5, <1>6

-----------------------------------------------------------------------------
(* Every block *)

(***************************************************************************)
(* Whatever a context, no block of the 46 does more to it than its keys,   *)
(* ends a turn that has no text unless it is one of the four gates before  *)
(* the narrative, or fails without an exception except for want of a frame.*)
(***************************************************************************)
LEMMA BlockIsTame ==
    ASSUME NEW b \in Contract!CanonicalBlocks, NEW c, Contextual(c), NEW t,
           NEW o \in Execute(b, c, t)
    PROVE  Tame(b, c, o)
<1>1. CASE b \in Answering
  BY <1>1, AnsweringIsTame
<1>2. CASE b = "kill_switch_gate"
  <2>1. o \in KillSwitchGate(c, t)
    BY <1>2 DEF Execute
  <2> QED
    BY <1>2, <2>1, KillSwitchGateIsTame
<1>3. CASE b = "time_update_sot"
  <2>1. o \in TimeUpdate(c)
    BY <1>3 DEF Execute
  <2> QED
    BY <1>3, <2>1, TimeUpdateIsTame
<1>4. CASE b = "input_safety_gate"
  <2>1. o \in InputSafetyGate(c)
    BY <1>4 DEF Execute
  <2> QED
    BY <1>4, <2>1, InputSafetyGateIsTame
<1>5. CASE b = "cognitive_layer"
  <2>1. o \in CognitiveLayer(c)
    BY <1>5 DEF Execute
  <2> QED
    BY <1>5, <2>1, CognitiveLayerIsTame
<1>6. CASE b = "knowledge_boundary_check"
  <2>1. o \in KnowledgeBoundary(c)
    BY <1>6 DEF Execute
  <2> QED
    BY <1>6, <2>1, KnowledgeBoundaryIsTame
<1>7. CASE b = "deliberative_ethics_gate"
  <2>1. o \in DeliberativeEthicsGate(c)
    BY <1>7 DEF Execute
  <2> QED
    BY <1>7, <2>1, DeliberativeEthicsGateIsTame
<1>8. CASE b = "entropy_amplitude_pre_gate"
  <2>1. o \in EntropyPreGate(c)
    BY <1>8 DEF Execute
  <2> QED
    BY <1>8, <2>1, EntropyPreGateIsTame
<1>9. CASE b = "ethics_pre_response"
  <2>1. o \in EthicsPreResponse(c)
    BY <1>9 DEF Execute
  <2> QED
    BY <1>9, <2>1, EthicsPreResponseIsTame
<1>10. CASE b = "cep_evaluation"
  <2>1. o \in CepEvaluation(c)
    BY <1>10 DEF Execute
  <2> QED
    BY <1>10, <2>1, CepEvaluationIsTame
<1>11. CASE b = "narrative_layer"
  <2>1. o \in NarrativeLayer(c)
    BY <1>11 DEF Execute
  <2> QED
    BY <1>11, <2>1, NarrativeLayerIsTame
<1>12. CASE b = "ethics_post_response"
  <2>1. o \in EthicsPostResponse(c)
    BY <1>12 DEF Execute
  <2> QED
    BY <1>12, <2>1, EthicsPostResponseIsTame
<1>13. CASE b = "behavioral_drift_detection"
  <2>1. o \in BehavioralDrift(c)
    BY <1>13 DEF Execute
  <2> QED
    BY <1>13, <2>1, BehavioralDriftIsTame
<1>14. CASE b = "entropy_amplitude_post_gate"
  <2>1. o \in EntropyPostGate(c)
    BY <1>14 DEF Execute
  <2> QED
    BY <1>14, <2>1, EntropyPostGateIsTame
<1>15. CASE b = "emotion_estimation"
  <2>1. o \in EmotionEstimation(c)
    BY <1>15 DEF Execute
  <2> QED
    BY <1>15, <2>1, EmotionEstimationIsTame
<1>16. CASE b = "state_update_physics"
  <2>1. o \in StateUpdatePhysics(c)
    BY <1>16 DEF Execute
  <2> QED
    BY <1>16, <2>1, StateUpdatePhysicsIsTame
<1>17. CASE b = "phi_computation"
  <2>1. o \in PhiComputation(c)
    BY <1>17 DEF Execute
  <2> QED
    BY <1>17, <2>1, PhiComputationIsTame
<1>18. CASE b = "entropy_computation"
  <2>1. o \in EntropyComputation(c)
    BY <1>18 DEF Execute
  <2> QED
    BY <1>18, <2>1, EntropyComputationIsTame
<1>19. CASE b = "confidence_fusion"
  <2>1. o \in ConfidenceFusion(c)
    BY <1>19 DEF Execute
  <2> QED
    BY <1>19, <2>1, ConfidenceFusionIsTame
<1>20. CASE b = "response_build"
  <2>1. o \in ResponseBuild(c)
    BY <1>20 DEF Execute
  <2> QED
    BY <1>20, <2>1, ResponseBuildIsTame
<1>21. CASE b = "intent_classification"
  <2>1. o \in IntentClassification(c)
    BY <1>21 DEF Execute
  <2> QED
    BY <1>21, <2>1, FlagBlocksAreTame
<1>22. CASE b = "create_scenario_frame"
  <2>1. o \in CreateScenarioFrame(c)
    BY <1>22 DEF Execute
  <2> QED
    BY <1>22, <2>1, FlagBlocksAreTame
<1>23. CASE b = "initialize_unified_state"
  <2>1. o \in InitializeUnifiedState(c)
    BY <1>23 DEF Execute
  <2> QED
    BY <1>23, <2>1, FlagBlocksAreTame
<1>24. CASE b = "audit_layer"
  <2>1. o \in AuditLayer(c)
    BY <1>24 DEF Execute
  <2> QED
    BY <1>24, <2>1, FlagBlocksAreTame
<1>25. CASE b = "arbitration_resolve"
  <2>1. o \in ArbitrationResolve(c)
    BY <1>25 DEF Execute
  <2> QED
    BY <1>25, <2>1, FlagBlocksAreTame
<1>26. CASE b = "response_revision_gate"
  <2>1. o \in ResponseRevisionGate(c)
    BY <1>26 DEF Execute
  <2> QED
    BY <1>26, <2>1, GateIsTame
<1>27. b \in Answering \cup {"kill_switch_gate", "time_update_sot", "input_safety_gate",
                        "cognitive_layer", "knowledge_boundary_check",
                        "deliberative_ethics_gate", "entropy_amplitude_pre_gate",
                        "ethics_pre_response", "cep_evaluation", "narrative_layer",
                        "ethics_post_response", "behavioral_drift_detection",
                        "entropy_amplitude_post_gate", "emotion_estimation",
                        "state_update_physics", "phi_computation", "entropy_computation",
                        "confidence_fusion", "response_build", "intent_classification",
                        "create_scenario_frame", "initialize_unified_state",
                        "audit_layer", "arbitration_resolve", "response_revision_gate"}
  BY DEF Answering, Contract!CanonicalBlocks, Contract!CanonicalOrder
<1> QED
  BY <1>1, <1>2, <1>3, <1>4, <1>5, <1>6, <1>7, <1>8, <1>9, <1>10, <1>11,
     <1>12, <1>13, <1>14, <1>15, <1>16, <1>17, <1>18, <1>19, <1>20, <1>21,
     <1>22, <1>23, <1>24, <1>25, <1>26, <1>27

-----------------------------------------------------------------------------
(* The order of the blocks *)

LEMMA OrderIs ==
    /\ Len(Order) = 46
    /\ \A i \in 1 .. 46 :
          /\ Order[i] \in Contract!CanonicalBlocks
          /\ Order[i] = "input_safety_gate" <=> i = 3
          /\ Order[i] = "entropy_amplitude_pre_gate" <=> i = 12
          /\ Order[i] = "ethics_pre_response" <=> i = 17
          /\ Order[i] = "narrative_layer" <=> i = 20
          /\ Order[i] = "ethics_post_response" <=> i = 21
          /\ Order[i] = "entropy_amplitude_post_gate" <=> i = 27
          /\ Order[i] = "phi_computation" <=> i = 37
          /\ Order[i] = "entropy_computation" <=> i = 38
          /\ Order[i] = "response_revision_gate" <=> i = 41
          /\ Order[i] = "response_build" <=> i = 42
          /\ Order[i] \in Gates => i <= 18
          /\ Order[i] \in Refusers => i <= 20
BY DEF Order, Contract!CanonicalOrder, Contract!CanonicalBlocks, Gates, Refusers

(* The place of a block that the loop has come to.                         *)
LEMMA PlaceIs ==
    ASSUME NEW i \in 1 .. 46, NEW b, b = Order[i]
    PROVE  /\ b \in Contract!CanonicalBlocks
           /\ b = "input_safety_gate" <=> i = 3
           /\ b = "ethics_pre_response" <=> i = 17
           /\ b = "narrative_layer" <=> i = 20
           /\ b = "ethics_post_response" <=> i = 21
           /\ b = "phi_computation" <=> i = 37
           /\ b = "entropy_computation" <=> i = 38
           /\ b = "response_revision_gate" <=> i = 41
           /\ b = "response_build" <=> i = 42
           /\ b \in Gates => i <= 18
           /\ b \in Refusers => i <= 20
BY OrderIs

LEMMA RetryOrderIs ==
    /\ Len(RetryOrder) = 10
    /\ \A i \in 1 .. 10 :
          /\ RetryOrder[i] \in Contract!CanonicalBlocks
          /\ RetryOrder[i] = "narrative_layer" <=> i = 1
          /\ RetryOrder[i] = "ethics_post_response" <=> i = 2
          /\ RetryOrder[i] = "entropy_amplitude_post_gate" <=> i = 5
          /\ RetryOrder[i] = "entropy_computation" <=> i = 7
          /\ RetryOrder[i] = "response_revision_gate" <=> i = 10
          /\ RetryOrder[i] \notin {"response_build", "ethics_pre_response",
                                   "entropy_amplitude_pre_gate"}
<1> DEFINE Retried == {"narrative_layer", "ethics_post_response", "action_intent_gate",
                       "behavioral_drift_detection", "entropy_amplitude_post_gate",
                       "phi_computation", "entropy_computation", "confidence_fusion",
                       "arbitration_resolve", "response_revision_gate"}
<1>1. Retried \subseteq Contract!CanonicalBlocks
  BY DEF Contract!CanonicalBlocks, Contract!CanonicalOrder
<1>2. Len(RetryOrder) = 10 /\ \A i \in 1 .. 10 : RetryOrder[i] \in Retried
  BY DEF RetryOrder, Contract!CanonicalRetryOrder
<1>3. \A i \in 1 .. 10 :
          /\ RetryOrder[i] = "narrative_layer" <=> i = 1
          /\ RetryOrder[i] = "ethics_post_response" <=> i = 2
          /\ RetryOrder[i] = "entropy_amplitude_post_gate" <=> i = 5
          /\ RetryOrder[i] = "entropy_computation" <=> i = 7
          /\ RetryOrder[i] = "response_revision_gate" <=> i = 10
          /\ RetryOrder[i] \notin {"response_build", "ethics_pre_response",
                                   "entropy_amplitude_pre_gate"}
  BY DEF RetryOrder, Contract!CanonicalRetryOrder
<1> QED
  BY <1>1, <1>2, <1>3

LEMMA CutsAre ==
    /\ Contract!CanonicalShortCircuit["input_safety_gate"] \subseteq Contract!CanonicalBlocks
    /\ Contract!CanonicalShortCircuit["narrative_layer"] =
         {"cognitive_layer", "context_retrieval_rag"}
    /\ {"cognitive_layer", "context_retrieval_rag"} \subseteq Contract!CanonicalBlocks
<1>1. {"intent_classification", "context_retrieval_rag", "create_scenario_frame",
       "initialize_unified_state", "ukf_predict", "cognitive_layer",
       "narrative_layer", "input_safety_gate"} \subseteq Contract!CanonicalBlocks
  BY DEF Contract!CanonicalBlocks, Contract!CanonicalOrder
<1>2. DOMAIN Contract!NoShortCircuit = Contract!CanonicalBlocks
  BY DEF Contract!NoShortCircuit
<1>3. /\ Contract!CanonicalShortCircuit["input_safety_gate"] =
           {"intent_classification", "context_retrieval_rag",
             "create_scenario_frame", "initialize_unified_state",
             "ukf_predict", "cognitive_layer", "narrative_layer"}
      /\ Contract!CanonicalShortCircuit["narrative_layer"] =
           {"cognitive_layer", "context_retrieval_rag"}
  BY <1>1, <1>2 DEF Contract!CanonicalShortCircuit
<1> QED
  BY <1>1, <1>3

-----------------------------------------------------------------------------
(* The inductive invariant *)

Turns ==
    [at : {"idle", "block", "retry", "over"}, index : 1 .. 46, retry : 0 .. 10,
     skipped : SUBSET Contract!CanonicalBlocks, exited : BOOLEAN, silenced : BOOLEAN,
     gated : BOOLEAN, beyond : BOOLEAN, faults : Nat, count : Nat]

(* What a turn has not said before its narrative.                          *)
Unspoken(c) ==
    c.text = NoText /\ c.qa = NoText /\ c.directive = NoDirective /\ c.ethics.of = 0

Manager(m) ==
    /\ DOMAIN m = {"snapshots", "floor"}
    /\ \E S : m.snapshots \in Seq(S)
    /\ Len(m.snapshots) <= Depth
    /\ \A i \in 1 .. Len(m.snapshots) : Contextual(m.snapshots[i].context)

Typed ==
    /\ turn \in Turns
    /\ Contextual(context)
    /\ Contextual(built)
    /\ Manager(rollback)

(* Where the loop is when it is in the retry, or done.                     *)
Placed ==
    /\ turn.at = "retry" => /\ turn.index = 41 /\ turn.retry \in 1 .. 10
                            /\ ~turn.exited /\ context.directive = Regenerate
    /\ turn.at = "over" => turn.index = 46
    /\ turn.gated => turn.index > 41 \/ turn.at = "retry"

(* Before the narrative nothing is said, nor is it in a snapshot; and the  *)
(* narrative itself is only skipped at its turn.                           *)
Early ==
    /\ turn.index <= 20 =>
          /\ Unspoken(context)
          /\ \A i \in 1 .. Len(rollback.snapshots) :
                Unspoken(rollback.snapshots[i].context)
          /\ ~turn.exited => "narrative_layer" \notin turn.skipped
    /\ turn.index <= 21 => context.qa = NoText /\ context.ethics.of = 0

Silent ==
    turn.silenced => /\ turn.exited /\ turn.at # "retry"
                     /\ context.text = NoText /\ context.qa = NoText
                     /\ context.directive = NoDirective
                     /\ ~Delivered

Answers ==
    /\ turn.index <= 42 => built = NoContext
    /\ turn.index > 42 => response.what # "nothing"

(* What the gate decided stands until the answer is built.                 *)
Decided ==
    turn.gated =>
        /\ turn.index = 42 => context.directive \in {Regenerate, Decide(context)}
        /\ turn.index > 42 /\ Delivered => \A s \in Severities(built) : s < Regenerate

(* The turns whose text is judged to the end.                              *)
Unfailed == turn.faults = 0 /\ ~turn.exited /\ ~Template

Judged(c, version) ==
    /\ c.qa.version = version
    /\ c.ethics # Absent => c.ethics.of = version

(* An injected computer may leave the entropy as it was. *)
Measured(c, version) == ~Has(c, "entropy_computer") => c.entropy.of = version

Told ==
    Unfailed =>
        /\ turn.index = 21 /\ context.text # NoText =>
              turn.skipped \cap {"narrative_layer", "create_scenario_frame"} = {}
        /\ \/ turn.at = "block" /\ turn.index \in 22 .. 42
           \/ turn.at = "retry" /\ turn.retry > 2
           => Judged(context, context.text.version)
        /\ \/ turn.at = "block" /\ turn.index \in 39 .. 42
           \/ turn.at = "retry" /\ turn.retry > 7
           => Measured(context, context.text.version)
        /\ turn.index > 42 /\ Delivered =>
              /\ Judged(built, response.text.version)
              /\ Measured(built, response.text.version)

GovernedInv ==
    Typed /\ Placed /\ Early /\ Silent /\ Answers /\ Decided /\ Told

-----------------------------------------------------------------------------
(* Snapshots *)

LEMMA FloorKeeps ==
    ASSUME NEW c, Contextual(c), NEW f, NEW W
    PROVE  Changed(c, Rollback!EnforceTimeFloor(f, c), W)
BY FlagChanged, NothingChanged DEF Rollback!EnforceTimeFloor

(* d is a context of s, or the one given. *)
OneOf(d, s, c) == d = c \/ \E j \in 1 .. Len(s) : d = s[j].context

LEMMA CheckpointIs ==
    ASSUME Manager(rollback), NEW b, NEW c, Contextual(c), NEW m,
           m = Trimmed(Rollback!CreateCheckpoint(rollback, b, c, TRUE))
    PROVE  /\ Manager(m)
           /\ \A i \in 1 .. Len(m.snapshots) :
                 OneOf(m.snapshots[i].context, rollback.snapshots, c)
<1> DEFINE s == rollback.snapshots
           e == [block |-> b, context |-> c]
           a == Append(s, e)
           n == Rollback!CreateCheckpoint(rollback, b, c, TRUE)
<1>1. PICK S : s \in Seq(S)
  BY DEF Manager
<1>2. s \in Seq(S \cup {e}) /\ Len(s) \in Nat
  BY <1>1
<1>3. /\ a \in Seq(S \cup {e}) /\ Len(a) = Len(s) + 1
      /\ \A i \in 1 .. Len(a) : a[i] = e \/ (i \in 1 .. Len(s) /\ a[i] = s[i])
  BY <1>2
<1>4. n.snapshots = a /\ DOMAIN n = {"snapshots", "floor"}
  BY DEF Rollback!CreateCheckpoint
<1>5. e.context = c
  OBVIOUS
<1>6. \A i \in 1 .. Len(s) : Contextual(s[i].context)
  BY DEF Manager
<1> HIDE DEF e, n
<1>7. \A i \in 1 .. Len(a) : Contextual(a[i].context) /\ OneOf(a[i].context, s, c)
  BY <1>3, <1>5, <1>6 DEF OneOf
<1> HIDE DEF a, s
<1>8. CASE Len(a) > Depth
  <2> DEFINE t == SubSeq(a, Len(a) - Depth + 1, Len(a))
  <2>1. m = [n EXCEPT !.snapshots = t]
    BY <1>4, <1>8 DEF Trimmed, n, s
  <2>2. m.snapshots = t /\ DOMAIN m = {"snapshots", "floor"}
    BY <1>4, <2>1
  <2>3. /\ t \in Seq(S \cup {e}) /\ Len(t) = Depth
        /\ \A i \in 1 .. Len(t) : /\ Len(a) - Depth + i \in 1 .. Len(a)
                                  /\ t[i] = a[Len(a) - Depth + i]
    <3>1. /\ Len(a) \in Nat /\ Depth \in Nat /\ Len(a) \in 0 .. Len(a)
          /\ Len(a) - Depth + 1 \in 1 .. Len(a) + 1
          /\ Len(a) - (Len(a) - Depth + 1) + 1 = Depth
      BY <1>2, <1>3, <1>8, GovernedAssumption
    <3>2. t \in Seq(S \cup {e}) /\ Len(t) = Depth
      BY <1>3, <3>1
    <3>3. ASSUME NEW i \in 1 .. Depth
          PROVE  Len(a) - Depth + i \in 1 .. Len(a) /\ t[i] = a[Len(a) - Depth + i]
      <4>1. Len(a) - Depth + i \in 1 .. Len(a)
            /\ (Len(a) - Depth + 1) + i - 1 = Len(a) - Depth + i
        BY <1>8, <3>1
      <4> QED
        BY <1>3, <3>1, <4>1
    <3> QED
      BY <3>2, <3>3
  <2> HIDE DEF t
  <2>4. \A i \in 1 .. Len(t) : Contextual(t[i].context) /\ OneOf(t[i].context, s, c)
    BY <1>7, <2>3
  <2>5. Len(t) <= Depth
    BY <2>3, GovernedAssumption
  <2> QED
    BY <2>2, <2>3, <2>4, <2>5 DEF Manager, s
<1>9. CASE ~(Len(a) > Depth)
  <2>1. m = [n EXCEPT !.snapshots = a]
    BY <1>4, <1>9 DEF Trimmed, n, s
  <2>2. m.snapshots = a /\ DOMAIN m = {"snapshots", "floor"}
    BY <1>4, <2>1
  <2>3. Len(a) <= Depth
    BY <1>2, <1>3, <1>9, GovernedAssumption
  <2> QED
    BY <1>3, <1>7, <2>2, <2>3 DEF Manager, s
<1> QED
  BY <1>8, <1>9

(* A copy that fails leaves the manager as it was. *)
LEMMA NoCheckpointIs ==
    ASSUME Manager(rollback), NEW b, NEW c, NEW m,
           m = Trimmed(Rollback!CreateCheckpoint(rollback, b, c, FALSE))
    PROVE  /\ Manager(m)
           /\ \A i \in 1 .. Len(m.snapshots) :
                 OneOf(m.snapshots[i].context, rollback.snapshots, c)
<1> DEFINE s == rollback.snapshots
<1>1. Rollback!CreateCheckpoint(rollback, b, c, FALSE) = rollback
  BY DEF Rollback!CreateCheckpoint
<1>2. Len(s) \in Nat /\ Len(s) <= Depth /\ DOMAIN rollback = {"snapshots", "floor"}
  BY DEF Manager
<1>3. ~(Len(s) > Depth)
  BY <1>2, GovernedAssumption
<1>4. m = [rollback EXCEPT !.snapshots = s]
  BY <1>1, <1>3 DEF Trimmed
<1>5. m.snapshots = s /\ DOMAIN m = {"snapshots", "floor"}
  BY <1>2, <1>4
<1>6. Manager(m)
  BY <1>5 DEF Manager
<1> QED
  BY <1>5, <1>6 DEF OneOf

LEMMA RolledBackIs ==
    ASSUME Manager(rollback), NEW b, NEW c, Contextual(c), NEW r,
           r = Rollback!RollbackToCheckpoint(rollback, b, c)
    PROVE  /\ Manager(r.manager)
           /\ \A i \in 1 .. Len(r.manager.snapshots) :
                 OneOf(r.manager.snapshots[i].context, rollback.snapshots, c)
           /\ \/ r.context = c
              \/ \E j \in 1 .. Len(rollback.snapshots) :
                    Changed(rollback.snapshots[j].context, r.context, {})
<1> DEFINE s == rollback.snapshots
           k == Rollback!Kept(s, b)
           t == SubSeq(s, 1, k)
<1>1. PICK S : s \in Seq(S)
  BY DEF Manager
<1>2. k \in 0 .. Len(s) /\ Len(s) \in Nat
  <2>1. Search!Kept(s, b) \in 0 .. Len(s)
    BY <1>1, Search!KeptIsAPlace
  <2>2. Search!Kept(s, b) = Rollback!Kept(s, b)
    BY DEF Search!Kept, Rollback!Kept
  <2> QED
    BY <1>1, <2>1, <2>2
<1>3. /\ r.manager = [rollback EXCEPT !.snapshots = t]
      /\ r.context = IF k = 0 THEN c
                     ELSE Rollback!EnforceTimeFloor(rollback.floor, s[k].context)
  BY DEF Rollback!RollbackToCheckpoint
<1>4. /\ \A i \in 1 .. Len(s) : Contextual(s[i].context)
      /\ DOMAIN rollback = {"snapshots", "floor"} /\ Len(s) <= Depth
  BY DEF Manager
<1> HIDE DEF k
<1>5. /\ t \in Seq(S) /\ Len(t) = k
      /\ \A i \in 1 .. Len(t) : i \in 1 .. Len(s) /\ t[i] = s[i]
  BY <1>1, <1>2
<1>6. r.manager.snapshots = t /\ DOMAIN r.manager = {"snapshots", "floor"}
  BY <1>3, <1>4
<1> HIDE DEF t
<1>7. Manager(r.manager)
  BY <1>2, <1>4, <1>5, <1>6, GovernedAssumption DEF Manager
<1>8. \A i \in 1 .. Len(r.manager.snapshots) :
         OneOf(r.manager.snapshots[i].context, s, c)
  BY <1>5, <1>6 DEF OneOf
<1>9. ASSUME k # 0
      PROVE  Changed(s[k].context, r.context, {}) /\ k \in 1 .. Len(s)
  <2>1. k \in 1 .. Len(s) /\ Contextual(s[k].context)
    BY <1>2, <1>4, <1>9
  <2> QED
    BY <1>3, <1>9, <2>1, FloorKeeps
<1> QED
  BY <1>3, <1>7, <1>8, <1>9

(* What a block leaves of the context and of the snapshots.                *)
LEMMA SnapshotsAre ==
    ASSUME Manager(rollback), NEW b, NEW o, Contextual(o.settled), NEW a,
           NEW copied \in BOOLEAN, a = Snapshots(b, o, copied)
    PROVE  /\ Manager(a.manager)
           /\ \A i \in 1 .. Len(a.manager.snapshots) :
                 OneOf(a.manager.snapshots[i].context, rollback.snapshots, o.settled)
           /\ o.status # "error" \/ b \in AlwaysOn => a.context = o.settled
           /\ \/ a.context = o.settled
              \/ \E j \in 1 .. Len(rollback.snapshots) :
                    Changed(rollback.snapshots[j].context, a.context, {})
<1>1. CASE o.status = "ok"
  <2>1. /\ a.manager = Trimmed(Rollback!CreateCheckpoint(rollback, b, o.settled, copied))
        /\ a.context = o.settled
    BY <1>1 DEF Snapshots
  <2>2. copied = TRUE \/ copied = FALSE
    OBVIOUS
  <2> QED
    BY <2>1, <2>2, CheckpointIs, NoCheckpointIs
<1>2. CASE o.status = "error" /\ b \notin AlwaysOn
  <2>1. a = Rollback!RollbackToCheckpoint(rollback, b, o.settled)
    BY <1>2 DEF Snapshots
  <2> QED
    BY <1>2, <2>1, RolledBackIs
<1>3. CASE o.status # "ok" /\ ~(o.status = "error" /\ b \notin AlwaysOn)
  <2>1. a.manager = rollback /\ a.context = o.settled
    BY <1>3 DEF Snapshots
  <2> QED
    BY <2>1 DEF OneOf
<1> QED
  BY <1>1, <1>2, <1>3

-----------------------------------------------------------------------------
(* What a step of the loop does *)

Enters(b, o) == b = "response_revision_gate" /\ Regenerates(o.settled)

(* The locals of the loop after block b.                                   *)
Turned(b, o) ==
    /\ turn' \in Turns
    /\ turn'.exited <=> turn.exited \/ o.exit
    /\ turn'.silenced <=> turn.silenced \/ (o.exit /\ context.text = NoText)
    /\ turn'.skipped = turn.skipped \cup
                         (IF o.cut THEN Contract!CanonicalShortCircuit[b] ELSE {})
    /\ turn'.gated <=> turn.gated \/ (b = "response_revision_gate" /\ o.status = "ok")
    /\ turn'.faults = 0 => turn.faults = 0 /\ ~o.fault
    /\ Enters(b, o) => turn'.at = "retry" /\ turn'.retry = 1 /\ turn'.index = turn.index
    /\ ~Enters(b, o) =>
          /\ turn.index = 46 => turn'.at = "over" /\ turn'.index = 46
          /\ turn.index # 46 => turn'.at = "block" /\ turn'.index = turn.index + 1

(* The context, the snapshots and the answer after block b.                *)
Left(b, o) ==
    /\ Contextual(context') /\ Manager(rollback')
    /\ \A i \in 1 .. Len(rollback'.snapshots) :
          OneOf(rollback'.snapshots[i].context, rollback.snapshots, o.settled)
    /\ Enters(b, o) => /\ o.settled.directive = Regenerate
                       /\ Changed(o.settled, context', {"attempts"})
    /\ ~Enters(b, o) =>
          /\ o.status # "error" \/ b \in AlwaysOn => context' = o.settled
          /\ \/ context' = o.settled
             \/ \E j \in 1 .. Len(rollback.snapshots) :
                   Changed(rollback.snapshots[j].context, context', {})
    /\ built' = IF b = "response_build" THEN o.context ELSE built

BlockStep(b, o) ==
    /\ turn.at = "block" /\ b = Order[turn.index] /\ ~PassesOver(b)
    /\ b \in Contract!CanonicalBlocks
    /\ o \in Execute(b, context, state' = "triggered")
    /\ Tame(b, context, o)
    /\ Turned(b, o)
    /\ Left(b, o)

LEMMA AdvancedIs ==
    ASSUME NEW t \in Turns
    PROVE  /\ Advanced(t) \in Turns
           /\ \A f \in {"retry", "skipped", "exited", "silenced", "gated", "beyond",
                        "faults", "count"} : Advanced(t)[f] = t[f]
           /\ t.index = 46 => Advanced(t).at = "over" /\ Advanced(t).index = 46
           /\ t.index # 46 => Advanced(t).at = "block" /\ Advanced(t).index = t.index + 1
<1>1. CASE t.index = 46
  <2>1. Advanced(t) = [t EXCEPT !.at = "over"]
    BY <1>1, OrderIs DEF Advanced
  <2> QED
    BY <1>1, <2>1 DEF Turns
<1>2. CASE t.index # 46
  <2>1. Advanced(t) = [t EXCEPT !.at = "block", !.index = t.index + 1]
    BY <1>2, OrderIs DEF Advanced, Turns
  <2>2. t.index + 1 \in 1 .. 46
    BY <1>2 DEF Turns
  <2>3. Advanced(t) \in Turns
    BY <2>1, <2>2 DEF Turns
  <2>4. \A f \in {"retry", "skipped", "exited", "silenced", "gated", "beyond",
                 "faults", "count"} : Advanced(t)[f] = t[f]
    BY <2>1 DEF Turns
  <2>5. Advanced(t).at = "block" /\ Advanced(t).index = t.index + 1
    BY <2>1 DEF Turns
  <2> QED
    BY <1>2, <2>3, <2>4, <2>5
<1> QED
  BY <1>1, <1>2

LEMMA AfterBlockIs ==
    ASSUME turn \in Turns, NEW b \in Contract!CanonicalBlocks, NEW o,
           NEW copied \in BOOLEAN, Tame(b, context, o),
           turn' = AfterBlock(b, o, copied)
    PROVE  Turned(b, o)
<1> DEFINE cut == IF o.cut THEN Contract!CanonicalShortCircuit[b] ELSE {}
           silenced == turn.silenced \/ (o.exit /\ context.text = NoText)
           gated == turn.gated \/ (b = "response_revision_gate" /\ o.status = "ok")
           beyond == turn.beyond \/ (b = "ethics_pre_response"
                                       /\ o.context.ethics.sev = Reject)
           faults == IF o.fault \/ ~copied THEN turn.faults + 1 ELSE turn.faults
           exited == turn.exited \/ o.exit
           skipped == turn.skipped \cup cut
           told == [turn EXCEPT !.exited = exited, !.silenced = silenced,
                                !.skipped = skipped, !.gated = gated,
                                !.beyond = beyond, !.faults = faults]
<1>1. turn' = IF Enters(b, o) THEN [told EXCEPT !.at = "retry", !.retry = 1]
              ELSE Advanced(told)
  BY DEF AfterBlock, Enters
<1>2. cut \subseteq Contract!CanonicalBlocks
  BY CutsAre DEF Tame
<1>3. /\ skipped \in SUBSET Contract!CanonicalBlocks
      /\ silenced \in BOOLEAN /\ gated \in BOOLEAN /\ beyond \in BOOLEAN
      /\ exited \in BOOLEAN
  BY <1>2 DEF Turns
<1>4. faults \in Nat /\ (faults = 0 => turn.faults = 0 /\ ~o.fault)
  BY DEF Turns
<1> HIDE DEF silenced, gated, beyond, faults, exited, skipped
<1>5. /\ told \in Turns /\ told.index = turn.index
      /\ told.exited = exited /\ told.silenced = silenced /\ told.skipped = skipped
      /\ told.gated = gated /\ told.faults = faults
  <2>1. told \in Turns
    BY <1>3, <1>4 DEF Turns
  <2>2. /\ told.index = turn.index
        /\ told.exited = exited /\ told.silenced = silenced /\ told.skipped = skipped
        /\ told.gated = gated /\ told.faults = faults
    BY DEF Turns
  <2> QED
    BY <2>1, <2>2
<1> HIDE DEF told
<1>6. CASE Enters(b, o)
  <2>1. turn' = [told EXCEPT !.at = "retry", !.retry = 1]
    BY <1>1, <1>6
  <2> DEFINE t == [told EXCEPT !.at = "retry"]
  <2>2. t \in Turns /\ t.at = "retry" /\ t.index = turn.index
        /\ t.exited = exited /\ t.silenced = silenced
        /\ t.skipped = skipped /\ t.gated = gated /\ t.faults = faults
    BY <1>5 DEF Turns
  <2>3. turn' = [t EXCEPT !.retry = 1]
    BY <2>1
  <2> HIDE DEF t
  <2>4. /\ turn' \in Turns /\ turn'.at = "retry" /\ turn'.retry = 1
        /\ turn'.index = turn.index
        /\ turn'.exited = exited /\ turn'.silenced = silenced
        /\ turn'.skipped = skipped /\ turn'.gated = gated /\ turn'.faults = faults
    BY <2>2, <2>3 DEF Turns
  <2> QED
    BY <1>4, <1>6, <2>4 DEF Turned, exited, silenced, skipped, gated
<1>7. CASE ~Enters(b, o)
  <2>1. turn' = Advanced(told)
    BY <1>1, <1>7
  <2>2. /\ turn' \in Turns
        /\ turn'.exited = exited /\ turn'.silenced = silenced
        /\ turn'.skipped = skipped /\ turn'.gated = gated /\ turn'.faults = faults
        /\ turn.index = 46 => turn'.at = "over" /\ turn'.index = 46
        /\ turn.index # 46 => turn'.at = "block" /\ turn'.index = turn.index + 1
    BY <1>5, <2>1, AdvancedIs
  <2> QED
    BY <1>4, <1>7, <2>2 DEF Turned, exited, silenced, skipped, gated
<1> QED
  BY <1>6, <1>7

LEMMA RunBlockDoes ==
    ASSUME Typed, RunBlock
    PROVE  \E b, o : BlockStep(b, o)
<1> DEFINE b == Current
<1>1. turn \in Turns /\ Contextual(context) /\ Manager(rollback)
  BY DEF Typed
<1>2. turn.at = "block" /\ b = Order[turn.index] /\ ~PassesOver(b)
  BY DEF RunBlock, Current
<1>3. b \in Contract!CanonicalBlocks
  BY <1>1, <1>2, OrderIs DEF Turns
<1>4. PICK o \in Outcomes(b, state' = "triggered"), copied \in BOOLEAN :
         LET after == Snapshots(b, o, copied)
             enters == b = "response_revision_gate" /\ Regenerates(o.settled)
         IN  /\ turn' = AfterBlock(b, o, copied)
             /\ rollback' = after.manager
             /\ context' = IF enters THEN [after.context EXCEPT !.attempts = @ + 1]
                           ELSE after.context
             /\ built' = IF b = "response_build" THEN o.context ELSE built
  BY DEF RunBlock
<1> DEFINE a == Snapshots(b, o, copied)
<1>5. /\ turn' = AfterBlock(b, o, copied) /\ rollback' = a.manager
      /\ context' = IF Enters(b, o) THEN [a.context EXCEPT !.attempts = @ + 1]
                    ELSE a.context
      /\ built' = IF b = "response_build" THEN o.context ELSE built
  BY <1>4 DEF Enters
<1>6. o \in Execute(b, context, state' = "triggered")
  BY <1>4 DEF Outcomes
<1> HIDE DEF b
<1>7. Tame(b, context, o)
  BY <1>1, <1>3, <1>6, BlockIsTame
<1>8. Contextual(o.settled)
  BY <1>7 DEF Tame, Changed
<1>9. Turned(b, o)
  BY <1>1, <1>3, <1>5, <1>7, AfterBlockIs
<1>10. /\ Manager(a.manager)
       /\ \A i \in 1 .. Len(a.manager.snapshots) :
             OneOf(a.manager.snapshots[i].context, rollback.snapshots, o.settled)
       /\ o.status # "error" \/ b \in AlwaysOn => a.context = o.settled
       /\ \/ a.context = o.settled
          \/ \E j \in 1 .. Len(rollback.snapshots) :
                Changed(rollback.snapshots[j].context, a.context, {})
  BY <1>1, <1>8, SnapshotsAre
<1> HIDE DEF a
<1>11. ASSUME Enters(b, o)
       PROVE  o.settled.directive = Regenerate /\ Changed(o.settled, context', {"attempts"})
  <2>1. /\ b = "response_revision_gate" /\ o.settled.directive = Regenerate
        /\ o.settled.attempts < 1
    BY <1>11 DEF Enters, Regenerates, RegenMaxAttempts
  <2>2. o \in ResponseRevisionGate(context)
    BY <1>6, <2>1 DEF Execute
  <2>3. o.status # "error"
    BY <1>1, <2>2, GateIsTame
  <2>4. context' = [o.settled EXCEPT !.attempts = @ + 1]
    BY <1>5, <1>10, <1>11, <2>3
  <2>5. o.settled.attempts + 1 \in 0 .. RegenMaxAttempts
    BY <1>8, <2>1 DEF Contextual, RegenMaxAttempts
  <2>6. Changed(o.settled, context', {"attempts"})
    BY <1>8, <2>4, <2>5 DEF Contextual, Changed, Telling, Fields, Signals
  <2> QED
    BY <2>1, <2>6
<1>12. Contextual(context')
  <2>1. CASE Enters(b, o)
    BY <1>11, <2>1 DEF Changed
  <2>2. CASE ~Enters(b, o)
    BY <1>5, <1>8, <1>10, <2>2 DEF Changed
  <2> QED
    BY <2>1, <2>2
<1>13. Left(b, o)
  BY <1>5, <1>10, <1>11, <1>12 DEF Left
<1> QED
  BY <1>2, <1>3, <1>6, <1>7, <1>9, <1>13 DEF BlockStep

RetryStep(b, o) ==
    /\ turn.at = "retry" /\ turn.retry \in 1 .. 10 /\ b = RetryOrder[turn.retry]
    /\ o \in Execute(b, context, FALSE)
    /\ Tame(b, context, o)
    /\ Contextual(context') /\ context' = o.context
    /\ turn' \in Turns
    /\ \A f \in {"exited", "silenced", "skipped", "gated"} : turn'[f] = turn[f]
    /\ turn'.faults = 0 => turn.faults = 0 /\ ~o.fault
    /\ turn.retry = 10 => turn'.at = "block" /\ turn'.index = 42
    /\ turn.retry # 10 => /\ turn'.at = "retry" /\ turn'.retry = turn.retry + 1
                          /\ turn'.index = 41
    /\ UNCHANGED <<rollback, built>>

LEMMA RetryBlockDoes ==
    ASSUME Typed, Placed, RetryBlock
    PROVE  \E b, o : RetryStep(b, o)
<1> DEFINE b == Current
<1>1. turn \in Turns /\ Contextual(context)
  BY DEF Typed
<1>2. turn.at = "retry" /\ turn.retry \in 1 .. 10 /\ turn.index = 41
  BY DEF RetryBlock, Placed
<1>3. b = RetryOrder[turn.retry] /\ b \in Contract!CanonicalBlocks
  BY <1>2, RetryOrderIs DEF Current
<1>4. PICK o \in Outcomes(b, FALSE) :
         LET told == [turn EXCEPT !.faults = IF o.fault THEN @ + 1 ELSE @] IN
         /\ context' = o.context
         /\ turn' = IF turn.retry = Len(RetryOrder)
                    THEN Advanced([told EXCEPT !.retry = 0])
                    ELSE [told EXCEPT !.retry = @ + 1]
  BY DEF RetryBlock
<1> DEFINE faults == IF o.fault THEN turn.faults + 1 ELSE turn.faults
           told == [turn EXCEPT !.faults = faults]
<1>5. /\ context' = o.context
      /\ turn' = IF turn.retry = 10 THEN Advanced([told EXCEPT !.retry = 0])
                 ELSE [told EXCEPT !.retry = turn.retry + 1]
  BY <1>1, <1>4, RetryOrderIs DEF Turns
<1>6. o \in Execute(b, context, FALSE)
  BY <1>4 DEF Outcomes
<1> HIDE DEF b
<1>7. Tame(b, context, o)
  BY <1>1, <1>3, <1>6, BlockIsTame
<1>8. Contextual(context')
  BY <1>5, <1>7 DEF Tame, Changed
<1>9. faults \in Nat /\ (faults = 0 => turn.faults = 0 /\ ~o.fault)
  BY <1>1 DEF Turns
<1> HIDE DEF faults
<1>10. /\ told \in Turns /\ told.index = 41 /\ told.faults = faults
       /\ told.at = "retry"
       /\ \A f \in {"exited", "silenced", "skipped", "gated"} : told[f] = turn[f]
  BY <1>1, <1>2, <1>9 DEF Turns
<1> HIDE DEF told
<1>11. CASE turn.retry = 10
  <2> DEFINE t == [told EXCEPT !.retry = 0]
  <2>1. /\ t \in Turns /\ t.index = 41 /\ t.faults = faults
        /\ \A f \in {"exited", "silenced", "skipped", "gated"} : t[f] = turn[f]
    BY <1>10 DEF Turns
  <2> HIDE DEF t
  <2>2. turn' = Advanced(t)
    BY <1>5, <1>11 DEF t
  <2>3. /\ turn' \in Turns /\ turn'.at = "block" /\ turn'.index = 42
        /\ \A f \in {"exited", "silenced", "skipped", "gated", "faults"} : turn'[f] = t[f]
    BY <2>1, <2>2, AdvancedIs
  <2>4. /\ turn'.faults = faults
        /\ \A f \in {"exited", "silenced", "skipped", "gated"} : turn'[f] = turn[f]
    BY <2>1, <2>3
  <2> QED
    BY <1>2, <1>3, <1>5, <1>6, <1>7, <1>8, <1>9, <1>11, <2>3, <2>4
       DEF RetryStep, RetryBlock
<1>12. CASE turn.retry # 10
  <2>1. turn' = [told EXCEPT !.retry = turn.retry + 1]
    BY <1>5, <1>12
  <2>2. turn.retry + 1 \in 0 .. 10
    BY <1>2, <1>12
  <2>3. /\ turn' \in Turns /\ turn'.at = "retry" /\ turn'.retry = turn.retry + 1
        /\ turn'.index = 41 /\ turn'.faults = faults
        /\ \A f \in {"exited", "silenced", "skipped", "gated"} : turn'[f] = turn[f]
    BY <1>10, <2>1, <2>2 DEF Turns
  <2> QED
    BY <1>2, <1>3, <1>5, <1>6, <1>7, <1>8, <1>9, <1>12, <2>3
       DEF RetryStep, RetryBlock
<1> QED
  BY <1>11, <1>12

-----------------------------------------------------------------------------
(* A block of the sequence keeps the invariant *)

LEMMA Keeps ==
    ASSUME NEW c, NEW d, NEW W, Changed(c, d, W)
    PROVE  /\ Contextual(d)
           /\ "text" \notin W => d.text = c.text
           /\ "qa" \notin W => d.qa = c.qa
           /\ "directive" \notin W => d.directive = c.directive
           /\ "ethics" \notin W => d.ethics = c.ethics
           /\ "entropy" \notin W => d.entropy = c.entropy
           /\ "services" \notin W => d.services = c.services
BY DEF Changed, Telling

(* Who writes what, by the place of the block.                             *)
LEMMA WritersAre ==
    ASSUME NEW i \in 1 .. 46, NEW b, b = Order[i]
    PROVE  /\ "text" \in Writes(b) => i = 20
           /\ "qa" \in Writes(b) => i = 21
           /\ "ethics" \in Writes(b) => i \in {17, 21}
           /\ "entropy" \in Writes(b) => i \in {12, 27, 38}
           /\ "directive" \in Writes(b) => i = 41
           /\ "services" \notin Writes(b)
BY OrderIs DEF Writes

LEMMA RetryWritersAre ==
    ASSUME NEW i \in 1 .. 10, NEW b, b = RetryOrder[i]
    PROVE  /\ "text" \in Writes(b) => i = 1
           /\ "qa" \in Writes(b) => i = 2
           /\ "ethics" \in Writes(b) => i = 2
           /\ "entropy" \in Writes(b) => i \in {5, 7}
           /\ "directive" \in Writes(b) => i = 10
           /\ "services" \notin Writes(b)
BY RetryOrderIs DEF Writes

LEMMA NothingIsDelivered ==
    /\ NoContext.response = Nothing /\ Nothing.what = "nothing"
    /\ NoContext.text = NoText /\ NoContext.qa = NoText
    /\ NoContext.directive = NoDirective /\ NoContext.ethics.of = 0
    /\ Contextual(NoContext)
<1>1. /\ NoContext.response = Nothing /\ Nothing.what = "nothing"
      /\ NoContext.text = NoText /\ NoContext.qa = NoText
      /\ NoContext.directive = NoDirective /\ NoContext.ethics = Absent
      /\ Nothing.text = NoText
  BY DEF NoContext, FreshContext, Nothing
<1>2. NoText \in Texts /\ NoDirective \in NoDirective .. Reject
  BY DEF NoText, Texts, Kinds, Matches, RegenMaxAttempts, NoDirective, Reject
<1>3. \A f \in Signals : NoContext[f] = Absent
  BY DEF NoContext, FreshContext, Signals
<1>4. DOMAIN NoContext = Fields /\ NoContext.attempts = 0
  BY DEF NoContext, FreshContext, Fields
<1> QED
  BY <1>1, <1>2, <1>3, <1>4, AbsentIs DEF Contextual, RegenMaxAttempts

LEMMA RunBlockIsTyped ==
    ASSUME Typed, NEW b, NEW o, BlockStep(b, o)
    PROVE  Typed'
<1>1. Contextual(o.context)
  BY DEF BlockStep, Tame, Changed
<1>2. Contextual(built')
  BY <1>1 DEF BlockStep, Left, Typed
<1> QED
  BY <1>2 DEF BlockStep, Left, Turned, Typed

LEMMA RunBlockIsPlaced ==
    ASSUME Typed, Placed, NEW b, NEW o, BlockStep(b, o)
    PROVE  Placed'
<1>1. /\ turn.at = "block" /\ turn.index \in 1 .. 46 /\ b = Order[turn.index]
      /\ turn'.index \in 1 .. 46
  BY DEF Typed, Turns, BlockStep, Turned
<1>2. CASE Enters(b, o)
  <2>1. b = "response_revision_gate" /\ turn.index = 41
    BY <1>1, <1>2, PlaceIs DEF Enters
  <2>2. turn'.at = "retry" /\ turn'.retry = 1 /\ turn'.index = 41
    BY <1>2, <2>1 DEF BlockStep, Turned
  <2>3. ~turn.exited
    BY <2>1 DEF BlockStep, PassesOver, AlwaysOn, Contract!CanonicalAlwaysOn
  <2>4. o \in ResponseRevisionGate(context) /\ Contextual(context)
    BY <2>1 DEF BlockStep, Execute, Typed
  <2>5. ~o.exit
    BY <2>4, GateIsTame
  <2>6. ~turn'.exited
    BY <2>3, <2>5 DEF BlockStep, Turned
  <2>7. context'.directive = o.settled.directive /\ o.settled.directive = Regenerate
    BY <1>2, Keeps DEF BlockStep, Left
  <2> QED
    BY <2>2, <2>6, <2>7 DEF Placed
<1>3. CASE ~Enters(b, o)
  <2>1. /\ turn.index = 46 => turn'.at = "over" /\ turn'.index = 46
        /\ turn.index # 46 => turn'.at = "block" /\ turn'.index = turn.index + 1
    BY <1>3 DEF BlockStep, Turned
  <2>2. ASSUME turn'.gated PROVE turn'.index > 41
    <3>1. turn.gated \/ turn.index = 41
      BY <1>1, <2>2, PlaceIs DEF BlockStep, Turned
    <3>2. turn.index >= 41
      BY <1>1, <3>1 DEF Placed
    <3> QED
      BY <1>1, <2>1, <3>2
  <2> QED
    BY <1>1, <2>1, <2>2 DEF Placed
<1> QED
  BY <1>2, <1>3

(* Before the narrative a block says nothing.                              *)
LEMMA EarlyBlock ==
    ASSUME Typed, Early, NEW b, NEW o, BlockStep(b, o), turn.index <= 20
    PROVE  /\ o.settled.qa = NoText /\ o.settled.ethics.of = 0
           /\ turn.index <= 19 => Unspoken(o.settled)
           /\ ~Enters(b, o)
<1>1. turn.index \in 1 .. 46 /\ b = Order[turn.index] /\ Contextual(context)
  BY DEF Typed, Turns, BlockStep
<1>2. Unspoken(context)
  BY DEF Early
<1>3. Changed(context, o.settled, Writes(b))
  BY DEF BlockStep, Tame
<1>4. o.settled.qa = NoText
  BY <1>1, <1>2, <1>3, WritersAre, Keeps DEF Unspoken
<1>5. o.settled.ethics.of = 0
  <2>1. CASE turn.index = 17
    <3>1. b = "ethics_pre_response"
      BY <1>1, <2>1, PlaceIs
    <3>2. o \in EthicsPreResponse(context)
      BY <3>1 DEF BlockStep, Execute
    <3> QED
      BY <1>1, <3>2, EthicsPreResponseIsTame
  <2>2. CASE turn.index # 17
    BY <1>1, <1>2, <1>3, <2>2, WritersAre, Keeps DEF Unspoken
  <2> QED
    BY <2>1, <2>2
<1>6. ASSUME turn.index <= 19 PROVE Unspoken(o.settled)
  <2>1. "text" \notin Writes(b) /\ "directive" \notin Writes(b)
    BY <1>1, <1>6, WritersAre
  <2> QED
    BY <1>2, <1>3, <1>4, <1>5, <2>1, Keeps DEF Unspoken
<1>7. ~Enters(b, o)
  BY <1>1, PlaceIs DEF Enters
<1> QED
  BY <1>4, <1>5, <1>6, <1>7

LEMMA RunBlockIsEarly ==
    ASSUME Typed, Early, NEW b, NEW o, BlockStep(b, o)
    PROVE  Early'
<1>1. /\ turn.index \in 1 .. 46 /\ b = Order[turn.index] /\ turn'.index \in 1 .. 46
      /\ turn.at = "block" /\ turn.skipped \subseteq Contract!CanonicalBlocks
  BY DEF Typed, Turns, BlockStep, Turned
<1>2. turn'.index <= 21 =>
         ~Enters(b, o) /\ turn.index + 1 = turn'.index /\ turn.index <= 20
  <2>1. CASE Enters(b, o)
    <3>1. turn.index = 41
      BY <1>1, <2>1, PlaceIs DEF Enters
    <3>2. turn'.index = turn.index
      BY <2>1 DEF BlockStep, Turned
    <3> QED
      BY <3>1, <3>2
  <2>2. CASE ~Enters(b, o)
    <3>1. /\ turn.index = 46 => turn'.index = 46
          /\ turn.index # 46 => turn'.index = turn.index + 1
      BY <2>2 DEF BlockStep, Turned
    <3> QED
      BY <1>1, <2>2, <3>1
  <2> QED
    BY <2>1, <2>2
<1>21. turn'.index <= 20 => turn'.index <= 21 /\ turn.index <= 19 /\ turn.index <= 20
  BY <1>1, <1>2
<1>3. ASSUME turn'.index <= 21
      PROVE  /\ context'.qa = NoText /\ context'.ethics.of = 0
             /\ turn'.index <= 20 => Unspoken(context')
  <2>1. turn.index <= 20 /\ ~Enters(b, o) /\ turn.index + 1 = turn'.index
    BY <1>2, <1>3
  <2>2. /\ o.settled.qa = NoText /\ o.settled.ethics.of = 0
        /\ turn.index <= 19 => Unspoken(o.settled)
    BY <2>1, EarlyBlock
  <2>3. CASE context' = o.settled
    BY <1>1, <2>1, <2>2, <2>3
  <2>4. ASSUME NEW j \in 1 .. Len(rollback.snapshots),
               Changed(rollback.snapshots[j].context, context', {})
        PROVE  Unspoken(context')
    <3>1. Unspoken(rollback.snapshots[j].context)
      BY <2>1 DEF Early
    <3> QED
      BY <2>4, <3>1, Keeps DEF Unspoken
  <2> QED
    BY <2>1, <2>3, <2>4 DEF BlockStep, Left, Unspoken
<1>4. ASSUME turn'.index <= 20, NEW i \in 1 .. Len(rollback'.snapshots)
      PROVE  Unspoken(rollback'.snapshots[i].context)
  <2>1. turn.index <= 19 /\ turn.index <= 20
    BY <1>21, <1>4
  <2>2. Unspoken(o.settled)
    BY <2>1, EarlyBlock
  <2>3. \A j \in 1 .. Len(rollback.snapshots) : Unspoken(rollback.snapshots[j].context)
    BY <2>1 DEF Early
  <2>4. OneOf(rollback'.snapshots[i].context, rollback.snapshots, o.settled)
    BY DEF BlockStep, Left
  <2> QED
    BY <2>2, <2>3, <2>4 DEF OneOf
<1>5. ASSUME turn'.index <= 20, ~turn'.exited
      PROVE  "narrative_layer" \notin turn'.skipped
  <2>1. turn.index <= 19 /\ turn.index <= 20
    BY <1>21, <1>5
  <2>2. ~turn.exited /\ ~o.exit
    BY <1>5 DEF BlockStep, Turned
  <2>3. "narrative_layer" \notin turn.skipped
    BY <2>1, <2>2 DEF Early
  <2>4. b # "narrative_layer"
    BY <1>1, <2>1, PlaceIs
  <2>5. ~o.cut
    BY <2>2, <2>4 DEF BlockStep, Tame
  <2> QED
    BY <2>3, <2>5 DEF BlockStep, Turned
<1> QED
  BY <1>3, <1>4, <1>5, <1>21 DEF Early

(* An answer that has the same text as the block before it left.           *)
LEMMA AnswerIs ==
    ASSUME Typed, NEW b, NEW o, BlockStep(b, o), b = "response_build"
    PROVE  /\ built' = o.context /\ Answered(context, built')
           /\ Delivered' => /\ context.directive \notin {Reject, Regenerate}
                            /\ response'.text \in {context.text, context.qa}
                            /\ context.directive = Rewrite \/ response'.text # NoText
           /\ \A f \in Judging : built'[f] = context[f]
           /\ built'.text = context.text /\ built'.services = context.services
<1>1. Contextual(context) /\ o \in ResponseBuild(context)
  BY DEF Typed, BlockStep, Execute
<1>2. built' = o.context
  BY DEF BlockStep, Left
<1>3. /\ Answered(context, o.context)
      /\ o.context.response.what \in {"narrative", "redacted"} =>
            o.context.response = Respond(context)
  BY <1>1, ResponseBuildIsTame
<1>4. /\ Respond(context).what \in {"narrative", "redacted"} =>
            /\ context.directive \notin {Reject, Regenerate}
            /\ Respond(context).text \in {context.text, context.qa}
            /\ context.directive = Rewrite \/ Respond(context).text # NoText
  BY <1>1, RespondIs
<1>5. response' = o.context.response
  BY <1>2 DEF response
<1>6. Delivered' <=> o.context.response.what \in {"narrative", "redacted"}
  BY <1>5 DEF Delivered
<1>7. Judging \cup {"text", "services"} \subseteq Fields \ {"response"}
  BY DEF Judging, Fields
<1>8. \A f \in Judging \cup {"text", "services"} : built'[f] = context[f]
  BY <1>2, <1>3, <1>7 DEF Answered
<1> QED
  BY <1>2, <1>3, <1>4, <1>5, <1>6, <1>8

LEMMA AlwaysOnIs == AlwaysOn = {"response_build", "phi_computation", "entropy_computation"}
BY DEF AlwaysOn, Contract!CanonicalAlwaysOn

LEMMA RunBlockIsSilent ==
    ASSUME Typed, Placed, Early, Silent, Answers, NEW b, NEW o, BlockStep(b, o)
    PROVE  Silent'
<1>1. /\ turn.index \in 1 .. 46 /\ b = Order[turn.index] /\ Contextual(context)
      /\ turn.at = "block"
  BY DEF Typed, Turns, BlockStep
<1>2. Changed(context, o.settled, Writes(b))
  BY DEF BlockStep, Tame
<1>3. CASE turn.silenced
  <2>1. turn.exited /\ context.text = NoText /\ context.qa = NoText
        /\ context.directive = NoDirective /\ ~Delivered
    BY <1>3 DEF Silent
  <2>2. b \in {"response_build", "phi_computation", "entropy_computation"}
    BY <2>1, AlwaysOnIs DEF BlockStep, PassesOver
  <2>3. ~Enters(b, o) /\ b \in AlwaysOn
    BY <2>2, AlwaysOnIs DEF Enters
  <2>4. turn'.exited /\ turn'.at # "retry"
    BY <2>1, <2>3 DEF BlockStep, Turned
  <2>5. context' = o.settled
    BY <2>3 DEF BlockStep, Left
  <2>6. Writes(b) \subseteq {"entropy"}
    BY <2>2 DEF Writes
  <2>7. /\ context'.text = NoText /\ context'.qa = NoText
        /\ context'.directive = NoDirective
    BY <1>2, <2>1, <2>5, <2>6, Keeps
  <2>8. ~Delivered'
    <3>1. CASE b = "response_build"
      BY <2>1, <3>1, AnswerIs DEF NoDirective, Rewrite
    <3>2. CASE b # "response_build"
      <4>1. built' = built
        BY <3>2 DEF BlockStep, Left
      <4> QED
        BY <2>1, <4>1 DEF Delivered, response
    <3> QED
      BY <3>1, <3>2
  <2> QED
    BY <2>4, <2>7, <2>8 DEF Silent
<1>4. CASE ~turn.silenced /\ o.exit /\ context.text = NoText
  <2>1. b \in Gates /\ o.status = "ok"
    BY <1>4 DEF BlockStep, Tame
  <2>2. turn.index <= 18
    BY <1>1, <2>1, PlaceIs
  <2>3. turn.index <= 20 /\ turn.index <= 19 /\ turn.index <= 42
    BY <1>1, <2>2
  <2>4. Unspoken(o.settled) /\ ~Enters(b, o)
    BY <2>3, EarlyBlock
  <2>5. context' = o.settled
    BY <2>1, <2>4 DEF BlockStep, Left
  <2>6. turn'.exited /\ turn'.at # "retry"
    BY <1>4, <2>4 DEF BlockStep, Turned
  <2>7. built' = NoContext
    <3>1. built = NoContext /\ b # "response_build"
      BY <1>1, <2>2, <2>3, PlaceIs DEF Answers
    <3> QED
      BY <3>1 DEF BlockStep, Left
  <2>8. ~Delivered'
    BY <2>7, NothingIsDelivered DEF Delivered, response
  <2> QED
    BY <2>4, <2>5, <2>6, <2>8 DEF Silent, Unspoken
<1>5. CASE ~turn.silenced /\ ~(o.exit /\ context.text = NoText)
  BY <1>5 DEF BlockStep, Turned, Silent
<1> QED
  BY <1>3, <1>4, <1>5

(* Where the next block is.                                                *)
LEMMA NextPlace ==
    ASSUME Typed, NEW b, NEW o, BlockStep(b, o)
    PROVE  /\ turn.index \in 1 .. 46 /\ turn'.index \in 1 .. 46 /\ b = Order[turn.index]
           /\ turn.at = "block" /\ Contextual(context)
           /\ \/ Enters(b, o) /\ turn.index = 41 /\ turn'.index = 41
                  /\ turn'.at = "retry" /\ turn'.retry = 1
              \/ ~Enters(b, o) /\ turn.index = 46 /\ turn'.index = 46 /\ turn'.at = "over"
              \/ ~Enters(b, o) /\ turn.index # 46 /\ turn'.index = turn.index + 1
                   /\ turn'.at = "block"
<1>1. /\ turn.index \in 1 .. 46 /\ turn'.index \in 1 .. 46 /\ b = Order[turn.index]
      /\ turn.at = "block" /\ Contextual(context)
  BY DEF Typed, Turns, BlockStep, Turned
<1>2. CASE Enters(b, o)
  <2>1. turn.index = 41
    BY <1>1, <1>2, PlaceIs DEF Enters
  <2> QED
    BY <1>1, <1>2, <2>1 DEF BlockStep, Turned
<1>3. CASE ~Enters(b, o)
  BY <1>1, <1>3 DEF BlockStep, Turned
<1> QED
  BY <1>2, <1>3

LEMMA RunBlockIsAnswered ==
    ASSUME Typed, Answers, NEW b, NEW o, BlockStep(b, o)
    PROVE  Answers'
<1>1. /\ turn.index \in 1 .. 46 /\ turn'.index \in 1 .. 46 /\ b = Order[turn.index]
      /\ turn'.index <= 42 => turn.index <= 41
      /\ turn'.index > 42 => turn.index >= 42
  BY NextPlace
<1>2. CASE turn.index <= 41
  <2>1. b # "response_build" /\ turn.index <= 42
    BY <1>1, <1>2, PlaceIs
  <2>2. built' = built /\ built = NoContext
    BY <2>1 DEF BlockStep, Left, Answers
  <2>3. ~(turn'.index > 42)
    BY <1>1, <1>2
  <2> QED
    BY <2>2, <2>3 DEF Answers
<1>3. CASE turn.index = 42
  <2>1. b = "response_build"
    BY <1>1, <1>3, PlaceIs
  <2>2. response'.what # "nothing"
    BY <2>1, AnswerIs DEF Answered, response
  <2>3. ~(turn'.index <= 42)
    BY <1>1, <1>3
  <2> QED
    BY <2>2, <2>3 DEF Answers
<1>4. CASE turn.index > 42
  <2>1. b # "response_build"
    BY <1>1, <1>4, PlaceIs
  <2>2. built' = built
    BY <2>1 DEF BlockStep, Left
  <2>3. response'.what # "nothing" /\ ~(turn'.index <= 42)
    BY <1>1, <1>4, <2>2 DEF Answers, response
  <2> QED
    BY <2>3 DEF Answers
<1> QED
  BY <1>1, <1>2, <1>3, <1>4

LEMMA RunBlockIsDecided ==
    ASSUME Typed, Placed, Decided, NEW b, NEW o, BlockStep(b, o)
    PROVE  Decided'
<1> SUFFICES ASSUME turn'.gated PROVE
      /\ turn'.index = 42 => context'.directive \in {Regenerate, Decide(context')}
      /\ turn'.index > 42 /\ Delivered' => \A s \in Severities(built') : s < Regenerate
  BY DEF Decided
<1>1. /\ turn.index \in 1 .. 46 /\ turn'.index \in 1 .. 46 /\ b = Order[turn.index]
      /\ turn.at = "block" /\ Contextual(context)
      /\ turn'.index = 42 => turn.index = 41 /\ ~Enters(b, o)
      /\ turn'.index > 42 => turn.index >= 42
  BY NextPlace
<1>2. ASSUME turn'.index = 42
      PROVE  context'.directive \in {Regenerate, Decide(context')}
  <2>1. b = "response_revision_gate" /\ ~Enters(b, o) /\ turn.index = 41
    BY <1>1, <1>2, PlaceIs
  <2>2. ~turn.gated
    BY <1>1, <2>1 DEF Placed
  <2>3. o.status = "ok"
    BY <2>2 DEF BlockStep, Turned
  <2>4. o \in ResponseRevisionGate(context)
    BY <2>1 DEF BlockStep, Execute
  <2>5. o.settled.directive = Decide(o.settled) /\ o.status # "error"
    BY <1>1, <2>3, <2>4, GateIsTame
  <2>6. context' = o.settled
    BY <2>1, <2>5 DEF BlockStep, Left
  <2> QED
    BY <2>5, <2>6
<1>3. ASSUME turn'.index > 42, Delivered'
      PROVE  \A s \in Severities(built') : s < Regenerate
  <2>1. CASE turn.index = 42
    <3>1. b = "response_build"
      BY <1>1, <2>1, PlaceIs
    <3>2. turn.gated
      BY <3>1 DEF BlockStep, Turned
    <3>3. context.directive \in {Regenerate, Decide(context)}
      BY <2>1, <3>2 DEF Decided
    <3>4. /\ context.directive \notin {Reject, Regenerate}
          /\ \A f \in Judging : built'[f] = context[f]
      BY <1>3, <3>1, AnswerIs
    <3>5. Decide(context) \notin {Reject, Regenerate}
      BY <3>3, <3>4
    <3>6. /\ Decide(context) \in Pass .. Reject
          /\ \A q \in Severities(context) : q \in Sevs /\ q <= Decide(context)
      BY <1>1, DecideIs
    <3>7. \A q \in Severities(context) : q < Regenerate
      BY <3>5, <3>6 DEF Pass, Reject, Regenerate, Sevs, NotMeasured
    <3>8. Severities(built') = Severities(context)
      BY <3>4, SameSeverities
    <3> QED
      BY <3>7, <3>8
  <2>2. CASE turn.index > 42
    <3>1. b \notin {"response_build", "response_revision_gate"}
      BY <1>1, <2>2, PlaceIs
    <3>2. built' = built /\ turn.gated
      BY <3>1 DEF BlockStep, Left, Turned
    <3>3. Delivered
      BY <1>3, <3>2 DEF Delivered, response
    <3>4. \A s \in Severities(built) : s < Regenerate
      BY <2>2, <3>2, <3>3 DEF Decided
    <3> QED
      BY <3>2, <3>4
  <2> QED
    BY <1>1, <1>3, <2>1, <2>2
<1> QED
  BY <1>2, <1>3

(* What a turn that will not have failed has not had happen to it.         *)
LEMMA UnfailedStep ==
    ASSUME Typed, NEW b, NEW o, BlockStep(b, o), Unfailed'
    PROVE  /\ Unfailed /\ ~o.fault /\ turn'.skipped = turn.skipped
           /\ turn.index > 20 => o.status # "error"
<1>1. /\ turn.index \in 1 .. 46 /\ b = Order[turn.index]
      /\ turn.skipped \subseteq turn'.skipped
  BY DEF Typed, Turns, BlockStep, Turned
<1>2. ~turn'.exited /\ turn'.faults = 0 /\ "cognitive_layer" \notin turn'.skipped
  BY DEF Unfailed, Template
<1>3. ~turn.exited /\ ~o.exit /\ turn.faults = 0 /\ ~o.fault
  BY <1>2 DEF BlockStep, Turned
<1>4. Unfailed
  BY <1>1, <1>2, <1>3 DEF Unfailed, Template
<1>5. ~o.cut
  <2>1. CASE o.cut
    <3>1. b = "narrative_layer"
      BY <1>3, <2>1 DEF BlockStep, Tame
    <3>2. "cognitive_layer" \in turn'.skipped
      BY <2>1, <3>1, CutsAre DEF BlockStep, Turned
    <3> QED
      BY <1>2, <3>2
  <2> QED
    BY <2>1
<1>6. turn'.skipped = turn.skipped
  BY <1>5 DEF BlockStep, Turned
<1>7. o.status = "error" => turn.index <= 20
  BY <1>1, <1>3, PlaceIs DEF BlockStep, Tame
<1> QED
  BY <1>1, <1>3, <1>4, <1>6, <1>7

LEMMA NarrativeWaits ==
    {"cognitive_layer", "create_scenario_frame"}
      \subseteq Contract!CanonicalDependencies["narrative_layer"]
<1>1. "narrative_layer" \in Contract!CanonicalBlocks
  BY DEF Contract!CanonicalBlocks, Contract!CanonicalOrder
<1> QED
  BY <1>1 DEF Contract!CanonicalDependencies

LEMMA JudgesWait ==
    Contract!CanonicalDependencies["ethics_post_response"] =
      {"cognitive_layer", "narrative_layer", "create_scenario_frame"}
<1>1. "ethics_post_response" \in Contract!CanonicalBlocks
  BY DEF Contract!CanonicalBlocks, Contract!CanonicalOrder
<1> QED
  BY <1>1 DEF Contract!CanonicalDependencies

(* The judges after the narrative, at place i of the sequence or i of the  *)
(* retry: each is about the text that stands when it ends.                 *)
LEMMA JudgesAreTrue ==
    ASSUME NEW c, Contextual(c), NEW b, NEW t, NEW o \in Execute(b, c, t),
           Tame(b, c, o), ~o.fault
    PROVE  /\ b = "ethics_post_response" => /\ Judged(o.context, o.context.text.version)
                                            /\ Judged(o.settled, o.settled.text.version)
           /\ b = "entropy_computation" =>
                 /\ Measured(o.context, o.context.text.version)
                 /\ Measured(o.settled, o.settled.text.version)
<1>1. Changed(c, o.context, Writes(b)) /\ Changed(c, o.settled, Writes(b))
  BY DEF Tame
<1>2. ASSUME b = "ethics_post_response"
      PROVE  /\ Judged(o.context, o.context.text.version)
             /\ Judged(o.settled, o.settled.text.version)
  <2>1. o \in EthicsPostResponse(c)
    BY <1>2 DEF Execute
  <2>2. /\ o.context.qa = c.text /\ o.settled = o.context
        /\ o.context.ethics # Absent => o.context.ethics.of = c.text.version
    BY <2>1, EthicsPostResponseIsTame
  <2>3. Writes(b) = {"qa", "ethics"}
    BY <1>2 DEF Writes
  <2>4. o.context.text = c.text
    BY <1>1, <2>3, Keeps
  <2> QED
    BY <2>2, <2>4 DEF Judged
<1>3. ASSUME b = "entropy_computation"
      PROVE  /\ Measured(o.context, o.context.text.version)
             /\ Measured(o.settled, o.settled.text.version)
  <2>1. o \in EntropyComputation(c)
    BY <1>3 DEF Execute
  <2>2. ~Has(c, "entropy_computer") =>
           o.context.entropy.of = c.text.version /\ o.settled.entropy.of = c.text.version
    BY <2>1, EntropyComputationIsTame
  <2>3. Writes(b) = {"entropy"}
    BY <1>3 DEF Writes
  <2>4. /\ o.context.text = c.text /\ o.settled.text = c.text
        /\ o.context.services = c.services /\ o.settled.services = c.services
    BY <1>1, <2>3, Keeps
  <2> QED
    BY <2>2, <2>4 DEF Measured, Has
<1> QED
  BY <1>2, <1>3

LEMMA RunBlockIsTold ==
    ASSUME Typed, Early, Told, NEW b, NEW o, BlockStep(b, o)
    PROVE  Told'
<1> SUFFICES ASSUME Unfailed'
             PROVE  /\ turn'.index = 21 /\ context'.text # NoText =>
                          turn'.skipped \cap {"narrative_layer", "create_scenario_frame"} = {}
                    /\ \/ turn'.at = "block" /\ turn'.index \in 22 .. 42
                       \/ turn'.at = "retry" /\ turn'.retry > 2
                       => Judged(context', context'.text.version)
                    /\ \/ turn'.at = "block" /\ turn'.index \in 39 .. 42
                       \/ turn'.at = "retry" /\ turn'.retry > 7
                       => Measured(context', context'.text.version)
                    /\ turn'.index > 42 /\ Delivered' =>
                          /\ Judged(built', response'.text.version)
                          /\ Measured(built', response'.text.version)
  BY DEF Told, Judged
<1>1. /\ turn.index \in 1 .. 46 /\ turn'.index \in 1 .. 46 /\ b = Order[turn.index]
      /\ turn.at = "block" /\ Contextual(context)
      /\ turn'.index = 21 => turn.index = 20
      /\ turn'.at = "block" /\ turn'.index \in 22 .. 42 =>
            turn.index \in 21 .. 41 /\ ~Enters(b, o)
      /\ turn'.at = "block" /\ turn'.index \in 39 .. 42 =>
            turn.index \in 38 .. 41 /\ ~Enters(b, o)
      /\ turn'.at = "retry" => turn'.retry = 1
      /\ turn'.index > 42 => turn.index >= 42
  BY NextPlace
<1>2. /\ Unfailed /\ ~o.fault /\ turn'.skipped = turn.skipped
      /\ turn.index > 20 => o.status # "error"
  BY UnfailedStep
<1>3. Tame(b, context, o) /\ o \in Execute(b, context, state' = "triggered")
  BY DEF BlockStep
<1>4. Changed(context, o.settled, Writes(b))
  BY <1>3 DEF Tame
<1>5. ASSUME turn'.index = 21
      PROVE  turn'.skipped \cap {"narrative_layer", "create_scenario_frame"} = {}
  <2>1. turn.index = 20 /\ turn.index <= 20 /\ b = "narrative_layer"
    BY <1>1, <1>5, PlaceIs
  <2>2. ~turn.exited
    BY <1>2 DEF Unfailed
  <2>3. "narrative_layer" \notin turn.skipped
    BY <2>1, <2>2 DEF Early
  <2>4. Contract!CanonicalDependencies[b] \cap turn.skipped = {}
    BY <2>1, AlwaysOnIs DEF BlockStep, PassesOver
  <2>5. "create_scenario_frame" \notin turn.skipped
    BY <2>1, <2>4, NarrativeWaits
  <2> QED
    BY <1>2, <2>3, <2>5
<1>6. ASSUME turn'.at = "block", turn'.index \in 22 .. 42
      PROVE  Judged(context', context'.text.version)
  <2>1. turn.index \in 21 .. 41 /\ ~Enters(b, o) /\ o.status # "error"
    BY <1>1, <1>2, <1>6
  <2>2. context' = o.settled
    BY <2>1 DEF BlockStep, Left
  <2>3. CASE turn.index = 21
    <3>1. b = "ethics_post_response"
      BY <1>1, <2>3, PlaceIs
    <3> QED
      BY <1>1, <1>2, <1>3, <2>2, <3>1, JudgesAreTrue
  <2>4. CASE turn.index # 21
    <3>1. turn.index \in 22 .. 42
      BY <2>1, <2>4
    <3>2. Judged(context, context.text.version)
      BY <1>1, <1>2, <3>1 DEF Told
    <3>3. "text" \notin Writes(b) /\ "qa" \notin Writes(b) /\ "ethics" \notin Writes(b)
      BY <1>1, <2>1, <2>4, WritersAre
    <3> QED
      BY <1>4, <2>2, <3>2, <3>3, Keeps DEF Judged
  <2> QED
    BY <2>3, <2>4
<1>7. ASSUME turn'.at = "block", turn'.index \in 39 .. 42
      PROVE  Measured(context', context'.text.version)
  <2>1. turn.index \in 38 .. 41 /\ ~Enters(b, o) /\ o.status # "error"
    BY <1>1, <1>2, <1>7
  <2>2. context' = o.settled
    BY <2>1 DEF BlockStep, Left
  <2>3. CASE turn.index = 38
    <3>1. b = "entropy_computation"
      BY <1>1, <2>3, PlaceIs
    <3> QED
      BY <1>1, <1>2, <1>3, <2>2, <3>1, JudgesAreTrue
  <2>4. CASE turn.index # 38
    <3>1. turn.index \in 39 .. 42
      BY <2>1, <2>4
    <3>2. Measured(context, context.text.version)
      BY <1>1, <1>2, <3>1 DEF Told
    <3>3. {"text", "entropy", "services"} \cap Writes(b) = {}
      BY <1>1, <2>1, <2>4, WritersAre
    <3> QED
      BY <1>4, <2>2, <3>2, <3>3, Keeps DEF Measured, Has
  <2> QED
    BY <2>3, <2>4
<1>8. ASSUME turn'.index > 42, Delivered'
      PROVE  /\ Judged(built', response'.text.version)
             /\ Measured(built', response'.text.version)
  <2>1. CASE turn.index = 42
    <3>1. b = "response_build"
      BY <1>1, <2>1, PlaceIs
    <3>2. /\ response'.text \in {context.text, context.qa}
          /\ \A f \in Judging : built'[f] = context[f]
          /\ built'.services = context.services
      BY <1>8, <3>1, AnswerIs
    <3>3. /\ built'.qa = context.qa /\ built'.ethics = context.ethics
          /\ built'.entropy = context.entropy /\ built'.services = context.services
      BY <3>2 DEF Judging
    <3>4. turn.index \in 22 .. 42 /\ turn.index \in 39 .. 42
      BY <2>1
    <3>5. /\ Judged(context, context.text.version)
          /\ Measured(context, context.text.version)
      BY <1>1, <1>2, <3>4 DEF Told
    <3>6. response'.text.version = context.text.version
      BY <3>2, <3>5 DEF Judged
    <3> QED
      BY <3>3, <3>5, <3>6 DEF Judged, Measured, Has
  <2>2. CASE turn.index > 42
    <3>1. b # "response_build"
      BY <1>1, <2>2, PlaceIs
    <3>2. built' = built
      BY <3>1 DEF BlockStep, Left
    <3>3. Delivered /\ response' = response
      BY <1>8, <3>2 DEF Delivered, response
    <3>4. /\ Judged(built, response.text.version)
          /\ Measured(built, response.text.version)
      BY <1>2, <2>2, <3>3 DEF Told
    <3> QED
      BY <3>2, <3>3, <3>4
  <2> QED
    BY <1>1, <1>8, <2>1, <2>2
<1>9. turn'.at = "retry" => ~(turn'.retry > 2) /\ ~(turn'.retry > 7)
  BY <1>1
<1> QED
  BY <1>5, <1>6, <1>7, <1>8, <1>9

LEMMA RunBlockKeeps ==
    ASSUME GovernedInv, RunBlock
    PROVE  GovernedInv'
<1>1. Typed /\ Placed /\ Early /\ Silent /\ Answers /\ Decided /\ Told
  BY DEF GovernedInv
<1>2. PICK b, o : BlockStep(b, o)
  BY <1>1, RunBlockDoes
<1>3. Typed' /\ Placed' /\ Early'
  BY <1>1, <1>2, RunBlockIsTyped, RunBlockIsPlaced, RunBlockIsEarly
<1>4. Silent' /\ Answers'
  BY <1>1, <1>2, RunBlockIsSilent, RunBlockIsAnswered
<1>5. Decided' /\ Told'
  BY <1>1, <1>2, RunBlockIsDecided, RunBlockIsTold
<1> QED
  BY <1>3, <1>4, <1>5 DEF GovernedInv

-----------------------------------------------------------------------------
(* The other steps keep the invariant *)

(* The always-on blocks are never passed over.                             *)
LEMMA AlwaysOnRuns ==
    ASSUME NEW b, b \in {"response_build", "entropy_computation"}
    PROVE  ~PassesOver(b)
BY AlwaysOnIs DEF PassesOver, ShouldSkip, Legacy

LEMMA PassOverKeeps ==
    ASSUME GovernedInv, PassOver
    PROVE  GovernedInv'
<1> DEFINE b == Current
           skipped == turn.skipped \cup {b}
           told == [turn EXCEPT !.skipped = skipped]
<1>1. Typed /\ Placed /\ Early /\ Silent /\ Answers /\ Decided /\ Told
  BY DEF GovernedInv
<1>2. /\ turn \in Turns /\ turn.index \in 1 .. 46
      /\ turn.at = "block" /\ b = Order[turn.index] /\ PassesOver(b)
  BY <1>1 DEF Typed, Turns, PassOver, Current
<1>3. /\ turn' = Advanced(told)
      /\ UNCHANGED <<context, rollback, built>>
  BY <1>2 DEF PassOver, Turns
<1>4. b \in Contract!CanonicalBlocks
  BY <1>2, PlaceIs
<1> HIDE DEF b
<1>5. skipped \in SUBSET Contract!CanonicalBlocks /\ turn.skipped \subseteq skipped
      /\ b \in skipped
  BY <1>2, <1>4 DEF Turns
<1>51. \A s \in skipped : s \in turn.skipped \/ s = b
  OBVIOUS
<1> HIDE DEF skipped
<1>6. /\ told \in Turns /\ told.index = turn.index
      /\ told.skipped = skipped /\ told.retry = turn.retry /\ told.exited = turn.exited
      /\ told.silenced = turn.silenced /\ told.gated = turn.gated
      /\ told.faults = turn.faults
  BY <1>2, <1>5 DEF Turns
<1> HIDE DEF told
<1>7. /\ turn' \in Turns /\ turn'.skipped = skipped /\ turn'.exited = turn.exited
      /\ turn'.silenced = turn.silenced /\ turn'.gated = turn.gated
      /\ turn'.faults = turn.faults
      /\ turn.index = 46 => turn'.at = "over" /\ turn'.index = 46
      /\ turn.index # 46 => turn'.at = "block" /\ turn'.index = turn.index + 1
  BY <1>3, <1>6, AdvancedIs
<1>8. turn.index # 42 /\ turn.index # 38
  BY <1>2, PlaceIs, AlwaysOnRuns
<1>9. /\ turn'.index \in 1 .. 46 /\ turn'.at # "retry"
      /\ turn'.index <= 20 => turn.index <= 19 /\ turn.index <= 20
      /\ turn'.index <= 21 => turn.index <= 20 /\ turn.index <= 21
      /\ turn'.index = 21 => turn.index <= 20
      /\ turn'.index <= 42 => turn.index <= 41 /\ turn.index <= 42
      /\ turn'.index > 42 => turn.index > 42
      /\ turn'.index \in 22 .. 42 => turn.index = 21 \/ turn.index \in 22 .. 42
      /\ turn'.index \in 39 .. 42 => turn.index \in 39 .. 42
      /\ turn'.index = 42 => turn.index = 41
      /\ turn.index > 41 => turn'.index > 41
      /\ turn'.at = "over" => turn'.index = 46
  BY <1>2, <1>7, <1>8
<1>10. context' = context /\ rollback' = rollback /\ built' = built /\ response' = response
  BY <1>3 DEF response
<1>11. Delivered' <=> Delivered
  BY <1>10 DEF Delivered
<1>12. Typed'
  BY <1>1, <1>7, <1>10 DEF Typed
<1>13. Placed'
  BY <1>1, <1>2, <1>7, <1>9 DEF Placed
<1>14. Early'
  <2>1. ASSUME turn'.index <= 20, ~turn'.exited
        PROVE  "narrative_layer" \notin turn'.skipped
    <3>1. turn.index <= 19 /\ turn.index <= 20 /\ ~turn.exited
      BY <1>7, <1>9, <2>1
    <3>2. b # "narrative_layer"
      BY <1>2, <3>1, PlaceIs
    <3>3. "narrative_layer" \notin turn.skipped
      BY <1>1, <3>1 DEF Early
    <3> QED
      BY <1>51, <1>7, <3>2, <3>3
  <2>2. turn'.index <= 20 =>
          /\ Unspoken(context)
          /\ \A i \in 1 .. Len(rollback.snapshots) :
                Unspoken(rollback.snapshots[i].context)
    BY <1>1, <1>9 DEF Early
  <2>3. turn'.index <= 21 => context.qa = NoText /\ context.ethics.of = 0
    BY <1>1, <1>9 DEF Early
  <2> QED
    BY <1>10, <2>1, <2>2, <2>3 DEF Early
<1>15. Silent'
  BY <1>1, <1>7, <1>9, <1>10, <1>11 DEF Silent
<1>16. Answers'
  BY <1>1, <1>9, <1>10 DEF Answers
<1>17. Decided'
  <2>1. ASSUME turn'.gated, turn'.index = 42 PROVE FALSE
    BY <1>1, <1>2, <1>7, <1>9, <2>1 DEF Placed
  <2>2. ASSUME turn'.gated, turn'.index > 42, Delivered'
        PROVE  \A s \in Severities(built') : s < Regenerate
    BY <1>1, <1>7, <1>9, <1>10, <1>11, <2>2 DEF Decided
  <2> QED
    BY <2>1, <2>2 DEF Decided
<1>18. Told'
  <2> SUFFICES ASSUME Unfailed'
               PROVE  /\ turn'.index = 21 => context.text = NoText
                      /\ turn'.at = "block" /\ turn'.index \in 22 .. 42
                           => Judged(context, context.text.version)
                      /\ turn'.at = "block" /\ turn'.index \in 39 .. 42
                           => Measured(context, context.text.version)
                      /\ turn'.index > 42 /\ Delivered =>
                            /\ Judged(built, response.text.version)
                            /\ Measured(built, response.text.version)
    BY <1>9, <1>10, <1>11 DEF Told, Judged
  <2>1. Unfailed
    BY <1>5, <1>7 DEF Unfailed, Template
  <2>2. turn'.index = 21 => context.text = NoText
    BY <1>1, <1>9 DEF Early, Unspoken
  <2>3. ASSUME turn'.at = "block", turn'.index \in 22 .. 42
        PROVE  Judged(context, context.text.version)
    <3>1. CASE turn.index = 21
      <4>1. b = "ethics_post_response"
        BY <1>2, <3>1, PlaceIs
      <4>2. ~turn.exited /\ "cognitive_layer" \notin turn.skipped
        BY <2>1 DEF Unfailed, Template
      <4>3. ~ShouldSkip(b, context)
        BY <4>1 DEF ShouldSkip, Legacy
      <4>4. {"cognitive_layer", "narrative_layer", "create_scenario_frame"}
               \cap turn.skipped # {}
        BY <1>2, <4>1, <4>2, <4>3, JudgesWait DEF PassesOver
      <4>5. turn.skipped \cap {"narrative_layer", "create_scenario_frame"} # {}
        BY <4>2, <4>4
      <4>6. context.text = NoText
        BY <1>1, <2>1, <3>1, <4>5 DEF Told
      <4>7. context.qa = NoText /\ context.ethics.of = 0
        BY <1>1, <3>1 DEF Early
      <4>8. NoText.version = 0
        BY DEF NoText
      <4> QED
        BY <4>6, <4>7, <4>8 DEF Judged
    <3>2. CASE turn.index \in 22 .. 42
      BY <1>1, <1>2, <2>1, <3>2 DEF Told
    <3> QED
      BY <1>9, <2>3, <3>1, <3>2
  <2>4. ASSUME turn'.at = "block", turn'.index \in 39 .. 42
        PROVE  Measured(context, context.text.version)
    <3>1. turn.index \in 39 .. 42
      BY <1>9, <2>4
    <3> QED
      BY <1>1, <1>2, <2>1, <3>1 DEF Told
  <2>5. ASSUME turn'.index > 42, Delivered
        PROVE  Judged(built, response.text.version)
               /\ Measured(built, response.text.version)
    BY <1>1, <1>9, <2>1, <2>5 DEF Told
  <2> QED
    BY <2>2, <2>3, <2>4, <2>5
<1> QED
  BY <1>12, <1>13, <1>14, <1>15, <1>16, <1>17, <1>18 DEF GovernedInv

LEMMA RetryBlockKeeps ==
    ASSUME GovernedInv, RetryBlock
    PROVE  GovernedInv'
<1>1. Typed /\ Placed /\ Early /\ Silent /\ Answers /\ Decided /\ Told
  BY DEF GovernedInv
<1>2. PICK b, o : RetryStep(b, o)
  BY <1>1, RetryBlockDoes
<1>3. /\ turn \in Turns /\ Contextual(context) /\ turn' \in Turns
      /\ turn.at = "retry" /\ turn.retry \in 1 .. 10 /\ b = RetryOrder[turn.retry]
      /\ turn.index = 41 /\ ~turn.exited /\ context.directive = Regenerate
  BY <1>1, <1>2 DEF Typed, RetryStep, Placed
<1>4. Tame(b, context, o) /\ o \in Execute(b, context, FALSE)
  BY <1>2 DEF RetryStep
<1>5. Changed(context, context', Writes(b)) /\ context' = o.context
  BY <1>2, <1>4 DEF RetryStep, Tame
<1>6. /\ turn'.exited = turn.exited /\ turn'.silenced = turn.silenced
      /\ turn'.skipped = turn.skipped /\ turn'.gated = turn.gated
      /\ turn.retry = 10 => turn'.at = "block" /\ turn'.index = 42
      /\ turn.retry # 10 => /\ turn'.at = "retry" /\ turn'.retry = turn.retry + 1
                            /\ turn'.index = 41
      /\ turn'.faults = 0 => turn.faults = 0 /\ ~o.fault
      /\ rollback' = rollback /\ built' = built
  BY <1>2 DEF RetryStep
<1>7. turn'.index \in {41, 42} /\ turn'.retry \in 0 .. 10
  BY <1>3, <1>6 DEF Turns
<1>8. built' = NoContext
  BY <1>1, <1>3, <1>6 DEF Answers
<1>9. Typed'
  BY <1>1, <1>3, <1>5, <1>6, Keeps DEF Typed
<1>10. Placed'
  <2>1. CASE turn.retry = 10
    BY <1>6, <2>1 DEF Placed
  <2>2. CASE turn.retry # 10
    <3>1. "directive" \notin Writes(b)
      BY <1>3, <2>2, RetryWritersAre
    <3>2. context'.directive = Regenerate
      BY <1>3, <1>5, <3>1, Keeps
    <3>3. turn'.retry \in 1 .. 10
      BY <1>3, <1>6, <2>2
    <3> QED
      BY <1>3, <1>6, <2>2, <3>2, <3>3 DEF Placed
  <2> QED
    BY <2>1, <2>2
<1>11. Early'
  BY <1>7 DEF Early
<1>12. Silent'
  BY <1>1, <1>3, <1>6 DEF Silent
<1>13. Answers'
  BY <1>7, <1>8 DEF Answers
<1>14. Decided'
  <2>1. ASSUME turn'.index = 42
        PROVE  context'.directive \in {Regenerate, Decide(context')}
    <3>1. turn.retry = 10
      BY <1>6, <2>1
    <3>2. b = "response_revision_gate"
      BY <1>3, <3>1, RetryOrderIs
    <3>3. o \in ResponseRevisionGate(context)
      BY <1>4, <3>2 DEF Execute
    <3>4. CASE o.status = "ok"
      BY <1>3, <1>5, <3>3, <3>4, GateIsTame
    <3>5. CASE o.status # "ok"
      <4>1. o.context = context
        BY <1>3, <3>3, <3>5, GateIsTame
      <4> QED
        BY <1>3, <1>5, <4>1
    <3> QED
      BY <3>4, <3>5
  <2>2. ~(turn'.index > 42)
    BY <1>7
  <2> QED
    BY <2>1, <2>2 DEF Decided
<1>15. Told'
  <2>0. /\ ~(turn'.index = 21) /\ ~(turn'.index > 42)
        /\ \/ turn'.at = "block" /\ turn'.index \in 22 .. 42
           \/ turn'.at = "retry" /\ turn'.retry > 2
           => turn.retry >= 2
        /\ \/ turn'.at = "block" /\ turn'.index \in 39 .. 42
           \/ turn'.at = "retry" /\ turn'.retry > 7
           => turn.retry >= 7
    BY <1>3, <1>6, <1>7
  <2> SUFFICES ASSUME Unfailed'
               PROVE  /\ \/ turn'.at = "block" /\ turn'.index \in 22 .. 42
                         \/ turn'.at = "retry" /\ turn'.retry > 2
                         => Judged(context', context'.text.version)
                      /\ \/ turn'.at = "block" /\ turn'.index \in 39 .. 42
                         \/ turn'.at = "retry" /\ turn'.retry > 7
                         => Measured(context', context'.text.version)
    BY <2>0 DEF Told, Judged
  <2>1. Unfailed /\ ~o.fault
    BY <1>6 DEF Unfailed, Template
  <2>11. /\ b = "ethics_post_response" => Judged(o.context, o.context.text.version)
         /\ b = "entropy_computation" => Measured(o.context, o.context.text.version)
    <3>1. Contextual(context)
      BY <1>3
    <3> QED
      BY <1>4, <2>1, <3>1, JudgesAreTrue
  <2>2. ASSUME turn.retry >= 2 PROVE Judged(context', context'.text.version)
    <3>1. CASE turn.retry = 2
      <4>1. b = "ethics_post_response"
        BY <1>3, <3>1, RetryOrderIs
      <4> QED
        BY <1>5, <2>11, <4>1
    <3>2. CASE turn.retry # 2
      <4>1. turn.retry > 2 /\ turn.retry # 1
        BY <1>3, <2>2, <3>2
      <4>2. Judged(context, context.text.version)
        BY <1>1, <1>3, <2>1, <4>1 DEF Told
      <4>3. "text" \notin Writes(b) /\ "qa" \notin Writes(b) /\ "ethics" \notin Writes(b)
        BY <1>3, <3>2, <4>1, RetryWritersAre
      <4> QED
        BY <1>5, <4>2, <4>3, Keeps DEF Judged
    <3> QED
      BY <3>1, <3>2
  <2>3. ASSUME turn.retry >= 7 PROVE Measured(context', context'.text.version)
    <3>1. CASE turn.retry = 7
      <4>1. b = "entropy_computation"
        BY <1>3, <3>1, RetryOrderIs
      <4> QED
        BY <1>5, <2>11, <4>1
    <3>2. CASE turn.retry # 7
      <4>1. turn.retry > 7 /\ turn.retry \notin {1, 5, 7}
        BY <1>3, <2>3, <3>2
      <4>2. Measured(context, context.text.version)
        BY <1>1, <1>3, <2>1, <4>1 DEF Told
      <4>3. {"text", "entropy", "services"} \cap Writes(b) = {}
        BY <1>3, <4>1, RetryWritersAre
      <4> QED
        BY <1>5, <4>2, <4>3, Keeps DEF Measured, Has
    <3> QED
      BY <3>1, <3>2
  <2> QED
    BY <2>0, <2>2, <2>3
<1> QED
  BY <1>9, <1>10, <1>11, <1>12, <1>13, <1>14, <1>15 DEF GovernedInv

LEMMA FreshIs ==
    ASSUME NEW services, NEW legacy, NEW short, NEW trouble, NEW carried,
           carried.sev \in Sevs, NEW c,
           c = FreshContext(services, legacy, short, trouble, carried)
    PROVE  Contextual(c) /\ Unspoken(c)
<1>1. /\ c.text = NoText /\ c.qa = NoText /\ c.response.text = NoText
      /\ c.directive = NoDirective /\ c.attempts = 0 /\ c.ethics = Absent
      /\ c.carried = carried
  BY DEF FreshContext, Nothing
<1>2. \A f \in Signals \ {"carried"} : c[f] = Absent
  BY DEF FreshContext, Signals
<1>3. DOMAIN c = Fields
  BY DEF FreshContext, Fields
<1>4. NoText \in Texts /\ NoDirective \in NoDirective .. Reject
  BY DEF NoText, Texts, Kinds, Matches, RegenMaxAttempts, NoDirective, Reject
<1>5. \A f \in Signals : c[f].sev \in Sevs
  BY <1>1, <1>2, AbsentIs
<1> QED
  BY <1>1, <1>3, <1>4, <1>5, AbsentIs DEF Contextual, Unspoken, RegenMaxAttempts

LEMMA FreshManagerIs ==
    Manager(Rollback!FreshManager) /\ Len(Rollback!FreshManager.snapshots) = 0
<1>1. /\ Rollback!FreshManager.snapshots = << >>
      /\ DOMAIN Rollback!FreshManager = {"snapshots", "floor"}
  BY DEF Rollback!FreshManager
<1>2. << >> \in Seq({}) /\ Len(<< >>) = 0
  OBVIOUS
<1> QED
  BY <1>1, <1>2, GovernedAssumption DEF Manager

(* At the first block of a turn nothing has happened yet.                  *)
LEMMA Untouched ==
    ASSUME NEW t, t \in Turns, t.at \in {"idle", "block"}, t.index = 1, t.skipped = {},
           t.silenced = FALSE, t.gated = FALSE, NEW c, Contextual(c), Unspoken(c),
           turn' = t, context' = c, rollback' = Rollback!FreshManager, built' = NoContext
    PROVE  GovernedInv'
<1>1. Typed'
  BY NothingIsDelivered, FreshManagerIs DEF Typed
<1>2. Placed'
  BY DEF Placed
<1>3. Early'
  BY FreshManagerIs DEF Early, Unspoken
<1>4. Silent'
  BY DEF Silent
<1>5. Answers'
  BY DEF Answers
<1>6. Decided'
  BY DEF Decided
<1>7. Told'
  BY DEF Told
<1> QED
  BY <1>1, <1>2, <1>3, <1>4, <1>5, <1>6, <1>7 DEF GovernedInv

LEMMA BeginKeeps ==
    ASSUME GovernedInv, Begin
    PROVE  GovernedInv'
<1>1. turn \in Turns
  BY DEF GovernedInv, Typed
<1> DEFINE t == [Idle EXCEPT !.at = "block", !.count = turn.count + 1]
<1>2. /\ t \in Turns /\ t.at = "block" /\ t.index = 1 /\ t.skipped = {}
      /\ t.silenced = FALSE /\ t.gated = FALSE
  <2>1. turn.count + 1 \in Nat
    BY <1>1 DEF Turns
  <2>2. /\ Idle \in Turns /\ Idle.index = 1 /\ Idle.skipped = {}
        /\ Idle.silenced = FALSE /\ Idle.gated = FALSE
    BY DEF Idle, Turns
  <2> DEFINE s == [Idle EXCEPT !.at = "block"]
  <2>3. /\ s \in Turns /\ s.at = "block" /\ s.index = 1 /\ s.skipped = {}
        /\ s.silenced = FALSE /\ s.gated = FALSE
    BY <2>2 DEF Turns
  <2>4. t = [s EXCEPT !.count = turn.count + 1]
    OBVIOUS
  <2> HIDE DEF s, t
  <2> QED
    BY <2>1, <2>3, <2>4 DEF Turns
<1> HIDE DEF t
<1>3. PICK services \in Configurations, legacy \in BOOLEAN, short \in BOOLEAN,
           trouble \in SUBSET Criteria, sev \in Severe["entropy"] \cup {Pass} :
         context' = FreshContext(services, legacy, short, trouble,
                                 [Absent EXCEPT !.sev = sev])
  BY DEF Begin
<1>4. [Absent EXCEPT !.sev = sev].sev \in Sevs
  <2>1. "entropy" \in Criteria /\ Pass .. Reject \subseteq Sevs /\ Pass \in Sevs
    BY DEF Criteria, Pass, Reject, Sevs, NotMeasured
  <2>2. sev \in Sevs
    BY <2>1, ReadingsAssumption
  <2> QED
    BY <2>2 DEF Absent
<1>5. Contextual(context') /\ Unspoken(context')
  BY <1>3, <1>4, FreshIs
<1>6. turn' = t /\ rollback' = Rollback!FreshManager /\ built' = NoContext
  BY DEF Begin, t
<1> QED
  BY <1>2, <1>5, <1>6, Untouched

LEMMA GovernedStarts == GInit => GovernedInv
<1> SUFFICES ASSUME GInit PROVE GovernedInv
  OBVIOUS
<1>1. /\ turn = Idle /\ context = NoContext /\ rollback = Rollback!FreshManager
      /\ built = NoContext
  BY DEF GInit
<1>2. /\ turn \in Turns /\ turn.at = "idle" /\ turn.index = 1 /\ turn.skipped = {}
      /\ turn.silenced = FALSE /\ turn.gated = FALSE
  BY <1>1 DEF Idle, Turns
<1>3. Unspoken(context)
  BY <1>1, NothingIsDelivered DEF Unspoken
<1>4. Typed
  BY <1>1, <1>2, NothingIsDelivered, FreshManagerIs DEF Typed
<1>5. Placed /\ Silent /\ Answers /\ Decided
  BY <1>1, <1>2 DEF Placed, Silent, Answers, Decided
<1>6. Early
  BY <1>1, <1>2, <1>3, FreshManagerIs DEF Early, Unspoken
<1>7. Told
  BY <1>2 DEF Told
<1> QED
  BY <1>4, <1>5, <1>6, <1>7 DEF GovernedInv

(* The invariant is of the turn alone: the switch and the calls of its     *)
(* operator do not matter to it.                                           *)
LEMMA GovernedStays ==
    ASSUME GovernedInv, UNCHANGED <<turn, context, rollback, built>>
    PROVE  GovernedInv'
BY DEF GovernedInv, Typed, Placed, Early, Silent, Answers, Decided, Told, Unfailed,
       Template, Delivered, response

LEMMA GovernedKeeps == GovernedInv /\ [GNext]_gvars => GovernedInv'
<1> SUFFICES ASSUME GovernedInv, [GNext]_gvars PROVE GovernedInv'
  OBVIOUS
<1>1. CASE Begin
  BY <1>1, BeginKeeps
<1>2. CASE PassOver
  BY <1>2, PassOverKeeps
<1>3. CASE RunBlock
  BY <1>3, RunBlockKeeps
<1>4. CASE RetryBlock
  BY <1>4, RetryBlockKeeps
<1>5. CASE Operate
  BY <1>5, GovernedStays DEF Operate
<1>6. CASE Closed \/ UNCHANGED gvars
  BY <1>6, GovernedStays DEF Closed, gvars
<1> QED
  BY <1>1, <1>2, <1>3, <1>4, <1>5, <1>6 DEF GNext

(* The invariant that the promises of every turn follow from.              *)
THEOREM TurnsAreGoverned == GSpec => []GovernedInv
BY GovernedStarts, GovernedKeeps, PTL DEF GSpec

-----------------------------------------------------------------------------
(* What every turn promises *)

(***************************************************************************)
(* A turn that was stopped before its narrative delivers none, whatever    *)
(* the short circuits, the always-on blocks and the rollbacks do after it. *)
(* echo_orchestrator.py:687 and kill_switch_gate.py:36.                    *)
(***************************************************************************)
THEOREM StoppedTurnsAreSilent == GSpec => []ExitIsSilent
<1>1. GovernedInv => ExitIsSilent
  BY DEF GovernedInv, Silent, ExitIsSilent
<1> QED
  BY <1>1, TurnsAreGoverned, PTL

(***************************************************************************)
(* Whatever exits, declines, is skipped or fails, the turn has an answer:  *)
(* response_build is always on, and an exception in it is answered too.    *)
(***************************************************************************)
THEOREM TurnsAnswer == GSpec => []EveryTurnAnswers
<1>1. GovernedInv => EveryTurnAnswers
  <2> SUFFICES ASSUME GovernedInv, Over PROVE response.what # "nothing"
    BY DEF EveryTurnAnswers
  <2>1. turn.index = 46
    BY DEF GovernedInv, Placed, Over
  <2>2. turn.index > 42
    BY <2>1
  <2> QED
    BY <2>2 DEF GovernedInv, Answers
<1> QED
  BY <1>1, TurnsAreGoverned, PTL

(***************************************************************************)
(* No signal that asks to regenerate or reject, as it stands when the      *)
(* answer is built, is got around: neither by the retry, which reads       *)
(* again, nor by a second gate that fails.                                 *)
(* response_revision_gate.py:395-469, response_build.py:124-170.           *)
(***************************************************************************)
THEOREM TheSeverestWins == GSpec => []SeverestWins
<1>1. GovernedInv => SeverestWins
  <2> SUFFICES ASSUME GovernedInv, Over, turn.gated, Delivered
               PROVE  \A s \in Severities(built) : s < Regenerate
    BY DEF SeverestWins
  <2>1. turn.index = 46
    BY DEF GovernedInv, Placed, Over
  <2>2. turn.index > 42
    BY <2>1
  <2> QED
    BY <2>2 DEF GovernedInv, Decided
<1> QED
  BY <1>1, TurnsAreGoverned, PTL

(***************************************************************************)
(* The coherence, the ethics and the entropy the gate saw are of the text  *)
(* that is delivered, when no block failed and no template spoke, however  *)
(* often the narrative was told.  echo_orchestrator.py:231-242.            *)
(***************************************************************************)
THEOREM DeliveredIsJudged == GSpec => []JudgedAsDelivered
<1>1. GovernedInv => JudgedAsDelivered
  <2> SUFFICES ASSUME GovernedInv, Over, Delivered, Unfailed
               PROVE  /\ built.qa.version = response.text.version
                      /\ built.ethics # Absent => built.ethics.of = response.text.version
                      /\ built.entropy # Absent /\ ~Has(built, "entropy_computer") =>
                            built.entropy.of = response.text.version
    BY DEF JudgedAsDelivered, Unfailed
  <2>1. turn.index = 46
    BY DEF GovernedInv, Placed, Over
  <2>2. turn.index > 42
    BY <2>1
  <2> QED
    BY <2>2 DEF GovernedInv, Told, Judged, Measured
<1> QED
  BY <1>1, TurnsAreGoverned, PTL

-----------------------------------------------------------------------------
(* The switch under governed turns *)

(* No step of a turn does more to the switch than one evaluation. *)
LEMMA StepsOfTheSwitch == [GNext]_gvars => [Next]_vars
<1> SUFFICES ASSUME [GNext]_gvars PROVE [Next]_vars
  OBVIOUS
<1>1. CASE Begin
  BY <1>1 DEF Begin
<1>2. CASE PassOver
  BY <1>2 DEF PassOver
<1>3. CASE RunBlock
  <2>1. CASE Evaluate("fine", "fine", FALSE)
    BY <2>1 DEF Next, Readings
  <2>2. CASE UNCHANGED vars
    BY <2>2
  <2> QED
    BY <1>3, <2>1, <2>2 DEF RunBlock
<1>4. CASE RetryBlock
  BY <1>4 DEF RetryBlock
<1>5. CASE Operate
  BY <1>5 DEF Operate, Next
<1>6. CASE Closed \/ UNCHANGED gvars
  BY <1>6 DEF Closed, gvars
<1> QED
  BY <1>1, <1>2, <1>3, <1>4, <1>5, <1>6 DEF GNext

(***************************************************************************)
(* The switch under governed turns and their operator is a KillSwitch.     *)
(***************************************************************************)
THEOREM SwitchIsKept == GSpec => Spec
<1>1. GInit => Init
  BY DEF GInit
<1> QED
  BY <1>1, StepsOfTheSwitch, PTL DEF GSpec, Spec

(***************************************************************************)
(* So no turn, whatever its blocks do, releases a triggered switch; only   *)
(* an operator does, and it is on record.  kill_switch_gate.py:36.         *)
(***************************************************************************)
THEOREM NoTurnReleases == GSpec => ReleaseIsAudited
BY SwitchIsKept, OnlyOperatorsRelease

(***************************************************************************)
(* The audit trail that turns and operators leave together is a chain.     *)
(***************************************************************************)
THEOREM TurnsKeepTheTrail == GSpec => []AuditChain
BY SwitchIsKept, AuditTrailIsChained

(***************************************************************************)
(* The turn, its context, its answer and its snapshots are what the code   *)
(* takes them to be, at most Depth snapshots are kept, and no narrative is *)
(* told more than once more.                                               *)
(***************************************************************************)
THEOREM TurnsAreTyped == GSpec => []GTypeOK
<1>1. GovernedInv /\ TypeOK => GTypeOK
  <2> SUFFICES ASSUME GovernedInv, TypeOK PROVE GTypeOK
    OBVIOUS
  <2>1. turn \in Turns /\ Contextual(context) /\ Contextual(built) /\ Manager(rollback)
    BY DEF GovernedInv, Typed
  <2>2. /\ turn.index \in 1 .. Len(Order) /\ turn.retry \in 0 .. Len(RetryOrder)
        /\ turn.skipped \subseteq Contract!CanonicalBlocks
    BY <2>1, OrderIs, RetryOrderIs DEF Turns
  <2>3. {context.text, context.qa, built.text, response.text} \subseteq Texts
    BY <2>1 DEF Contextual, response
  <2>4. /\ context.directive \in NoDirective .. Reject
        /\ context.attempts \in 0 .. RegenMaxAttempts
    BY <2>1 DEF Contextual
  <2>5. Len(rollback.snapshots) <= Depth
    BY <2>1 DEF Manager
  <2> QED
    BY <2>2, <2>3, <2>4, <2>5 DEF GTypeOK
<1> QED
  BY <1>1, TurnsAreGoverned, SwitchIsKept, TypeCorrect, PTL

=============================================================================
