---------------------------- MODULE LearningLoop ----------------------------
(***************************************************************************)
(* How experiments become changes of a parameter: the OutcomeObserver of   *)
(* phionyx_core/research_engine/outcome_observer.py collects the records   *)
(* of one parameter and proposes an update; the block learning_gate has    *)
(* the LearningGateService of services/learning_gate_service.py judge the  *)
(* submitted updates and applies what it approves.  Other modules submit   *)
(* updates of their own, declared in any zone, with evidence and demands   *)
(* on it of their own, and with a delta that is what they state.           *)
(*                                                                         *)
(* Fractions are avoided: a change is too large when Fraction times it     *)
(* exceeds the current value.  Zero also stands for a current value that   *)
(* is no number: the gate bounds the change of neither.                    *)
(***************************************************************************)
EXTENDS Integers, Sequences, FiniteSets

LOCAL INSTANCE FiniteSetsExt

CONSTANTS
    ParameterValues, \* values of the parameter
    Gains,           \* measured changes of the quality score, in thresholds
    MinExperiments,  \* min_experiments, of the observer
    Demands,         \* what other modules demand of the evidence instead
    Fraction,        \* 1 / max_delta_fraction
    MaxRecords,      \* bound: experiments observed, or cited by an update
    MaxUpdates       \* bound: updates proposed

ASSUME LearningAssumption ==
    /\ ParameterValues \subseteq Int
    /\ Gains \subseteq Int
    /\ Demands \subseteq [experiments : Nat, gain : Nat]
    /\ MinExperiments \in Nat \ {0} /\ Fraction \in Nat \ {0}

VARIABLES
    registry,  \* the zone of the parameter in surfaces.yaml
    evidence,  \* _evidence: the experiments in the order observed
    proposed,  \* whether _proposed_params has the parameter
    updates,   \* the updates proposed so far, in order
    applied    \* _applied_updates: indices of updates

lvars == <<registry, evidence, proposed, updates, applied>>

Zones == {"adaptive", "gated", "immutable"}

\* An update may declare any string.
DeclaredZones == Zones \cup {"other"}

\* The experiments that were kept, by their places in the evidence.
Kept == {i \in DOMAIN evidence : evidence[i].keep}

Size(x) == IF x < 0 THEN -x ELSE x

\* What the gate reads off the experiments an update cites; the gain of some
\* was measured.
Evidence(experiments, cited, measured) ==
    [count    |-> Cardinality(cited),
     measured |-> Cardinality(measured),
     gain     |-> MapThenSumSet(LAMBDA i : experiments[i].gain, measured),
     agree    |-> \/ \A i \in measured : experiments[i].gain >= 0
                  \/ \A i \in measured : experiments[i].gain <= 0,
     clean    |-> \A i \in cited : experiments[i].clean]

Gathered == Evidence(evidence, Kept, Kept)

LearningInit ==
    /\ registry \in Zones
    /\ evidence = <<>>
    /\ proposed = FALSE
    /\ updates = <<>>
    /\ applied = {}

-----------------------------------------------------------------------------

\* observe takes the record of any experiment, kept or not.
Observe ==
    /\ Len(evidence) < MaxRecords
    /\ \E old, new \in ParameterValues, g \in Gains, keep, clean \in BOOLEAN :
         evidence' = Append(evidence, [old |-> old, new |-> new, gain |-> g,
                                       keep |-> keep, clean |-> clean])
    /\ UNCHANGED <<registry, proposed, updates, applied>>

\* _is_ready: enough kept experiments, of one direction, beyond the threshold.
Ready ==
    /\ Cardinality(Kept) >= MinExperiments
    /\ \/ \A i \in Kept : evidence[i].gain > 0
       \/ \A i \in Kept : evidence[i].gain <= 0
    /\ Size(Gathered.gain) >= Cardinality(Kept)
    /\ Gathered.clean

\* best_value: the first of the kept experiments with the largest gain.
BestValue ==
    evidence[CHOOSE i \in Kept :
                \A j \in Kept : \/ evidence[j].gain < evidence[i].gain
                                \/ evidence[j].gain = evidence[i].gain /\ i <= j].new

\* _create_update cuts the proposed value back to the largest step allowed,
\* from zero to any; the delta stays that of the value it replaced.
ObserverUpdate ==
    LET current == evidence[Len(evidence)].old
        best == BestValue
        step == Size(current) \div Fraction
    IN  [observed |-> TRUE,
         zone |-> registry,        \* both map the tier of the surface
         named |-> TRUE,
         current |-> current,
         proposed |-> CASE current = 0 \/ Fraction * Size(best - current) <= Size(current)
                             -> best
                        [] current # 0 /\ best > current -> current + step
                        [] OTHER -> current - step,
         stated |-> TRUE, delta |-> best - current,
         demand |-> [experiments |-> MinExperiments, gain |-> 1],
         evidence |-> Gathered,
         decision |-> "pending"]

\* propose_updates, at most once for a parameter.
Propose ==
    /\ ~proposed
    /\ Len(updates) < MaxUpdates
    /\ Ready
    /\ proposed' = TRUE
    /\ updates' = Append(updates, ObserverUpdate)
    /\ UNCHANGED <<registry, evidence, applied>>

\* reset.
ForgetEvidence ==
    /\ evidence # <<>>
    /\ evidence' = <<>>
    /\ proposed' = FALSE
    /\ UNCHANGED <<registry, updates, applied>>

\* Another module's update: it cites experiments of its own, measured or not,
\* and may state no delta, or that nothing changes.  Its target may be empty,
\* which is only looked at where "adaptive" is declared.
ProposeElsewhere ==
    /\ Len(updates) < MaxUpdates
    /\ \E zone \in DeclaredZones, named, stated \in BOOLEAN,
          current, value \in ParameterValues, demand \in Demands, n \in 0 .. MaxRecords :
       \E delta \in {0, value - current}, measured \in SUBSET (1 .. n),
          cited \in [1 .. n -> [gain : Gains, clean : BOOLEAN]] :
         /\ named \/ zone = "adaptive"
         /\ stated \/ delta = 0
         /\ updates' = Append(updates,
               [observed |-> FALSE, zone |-> zone, named |-> named,
                current |-> current, proposed |-> value,
                stated |-> stated, delta |-> delta, demand |-> demand,
                evidence |-> Evidence(cited, 1 .. n, measured), decision |-> "pending"])
    /\ UNCHANGED <<registry, evidence, proposed, applied>>

-----------------------------------------------------------------------------

\* Mutant of ResolvedZone: the zone an update declares is believed.
BugResolvedZone(u) == u.zone

\* evaluate_updates looks the zone up only where "adaptive" is declared of a
\* parameter that has a name.
ResolvedZone(u) == IF u.zone = "adaptive" /\ u.named THEN registry ELSE u.zone

\* _validate_evidence, by what the update itself demands.
EvidenceSuffices(u) ==
    /\ u.evidence.count >= u.demand.experiments
    /\ u.evidence.measured > 0 =>
          /\ Size(u.evidence.gain) >= u.demand.gain * u.evidence.measured
          /\ u.evidence.agree
    /\ u.evidence.clean

\* The delta that is stated against a current value other than zero.
TooLarge(u) ==
    u.stated /\ u.current # 0 /\ Fraction * Size(u.delta) > Size(u.current)

\* _evaluate_single: a gated update is queued for a human, and every zone
\* that is neither gated nor immutable is adaptive.
Judgement(u) ==
    CASE ResolvedZone(u) = "immutable" -> "rejected"
      [] ResolvedZone(u) = "gated" -> "pending"
      [] OTHER -> IF EvidenceSuffices(u) /\ ~TooLarge(u)
                  THEN "approved" ELSE "rejected"

\* The block in a turn: a caller may submit an update again, whatever became
\* of it.  What is approved is applied at once.
Gate ==
    /\ \E submitted \in (SUBSET DOMAIN updates) \ {{}} :
         LET judged == [i \in DOMAIN updates |->
                 IF i \in submitted
                 THEN [updates[i] EXCEPT !.zone = ResolvedZone(updates[i]),
                                         !.decision = Judgement(updates[i])]
                 ELSE updates[i]]
         IN  /\ updates' = judged
             /\ applied' = applied \cup
                    {i \in submitted : judged[i].decision = "approved"}
    /\ UNCHANGED <<registry, evidence, proposed>>

\* rollback_update.
RollBack ==
    /\ \E i \in applied :
         /\ applied' = applied \ {i}
         /\ updates' = [updates EXCEPT ![i].decision = "rejected"]
    /\ UNCHANGED <<registry, evidence, proposed>>

LearningNext ==
    Observe \/ Propose \/ ForgetEvidence \/ ProposeElsewhere \/ Gate \/ RollBack

LearningSpec == LearningInit /\ [][LearningNext]_lvars

-----------------------------------------------------------------------------
(***************************************************************************)
(* Nothing is learned without a reason, however often an update was        *)
(* submitted and taken back.  What the observer proposed and the gate      *)
(* applied is of an adaptive parameter, and rests on enough experiments    *)
(* that agree and broke no guardrail; and although the gate reads the      *)
(* delta alone, which the observer does not cut with the value, the        *)
(* parameter moves by no more than the fraction allowed, unless from zero. *)
(* What another module proposed is not gated or immutable, by the registry *)
(* if it declared itself adaptive, and satisfies the evidence it demands   *)
(* itself, with the delta it states.  learning_gate_service.py:70-75.      *)
(***************************************************************************)
AppliedIsJustified ==
    \A i \in applied : LET u == updates[i] IN
        /\ u.zone \notin {"gated", "immutable"}
        /\ u.zone = "adaptive" /\ u.named => registry = "adaptive"
        /\ u.evidence.count >= u.demand.experiments
        /\ u.evidence.measured > 0 => u.evidence.agree
        /\ u.evidence.clean
        /\ ~TooLarge(u)
        /\ u.observed =>
              /\ registry = "adaptive" /\ u.evidence.count >= MinExperiments
              /\ u.current # 0 =>
                    Fraction * Size(u.proposed - u.current) <= Size(u.current)
=============================================================================
