--------------------------- MODULE Services_proofs ---------------------------
(***************************************************************************)
(* Proofs about services beside the pipeline, for every value of their     *)
(* constants: the approval requests, the learning gate, the research loop  *)
(* and the circuit breaker.  Each has an inductive invariant of its own;   *)
(* they share no state.                                                    *)
(***************************************************************************)
EXTENDS HumanApproval, LearningLoop, ResearchLoop, CircuitBreaker, FiniteSetTheorems,
        SequenceTheorems, WellFoundedInduction, TLAPS

-----------------------------------------------------------------------------
(***************************************************************************)
(* The approval requests.                                                  *)
(***************************************************************************)
Request == [expires : Nat, decidedAt : Nat,
            status : {"pending", "approved", "rejected", "expired"}]

ApprovalInv == requests \in Seq(Request) /\ clock \in Nat /\ AnsweredInTime

(* Giving requests up answers none.                                        *)
LEMMA ExpiringAnswersNone ==
    ASSUME ApprovalInv, NEW indices
    PROVE  /\ Expired(indices) \in Seq(Request) /\ Len(Expired(indices)) = Len(requests)
           /\ \A i \in DOMAIN requests :
                 Expired(indices)[i].status \in {"approved", "rejected"} =>
                     Expired(indices)[i].decidedAt <= Expired(indices)[i].expires
<1> DEFINE e(i) == IF i \in indices THEN [requests[i] EXCEPT !.status = "expired"]
                   ELSE requests[i]
<1>1. DOMAIN requests = 1 .. Len(requests) /\ Len(requests) \in Nat
      /\ \A i \in 1 .. Len(requests) : requests[i] \in Request
  BY LenProperties, ElementOfSeq DEF ApprovalInv
<1>2. \A i \in 1 .. Len(requests) : e(i) \in Request
  BY <1>1 DEF Request
<1>3. Expired(indices) = [i \in 1 .. Len(requests) |-> e(i)]
  BY <1>1 DEF Expired
<1>4. ASSUME NEW i \in 1 .. Len(requests), e(i).status \in {"approved", "rejected"}
      PROVE  e(i).decidedAt <= e(i).expires
  BY <1>1, <1>4 DEF ApprovalInv, AnsweredInTime, Request
<1>5. Expired(indices) \in [1 .. Len(requests) -> Request]
  BY <1>2, <1>3
<1>6. Expired(indices) \in Seq(Request) /\ Len(Expired(indices)) = Len(requests)
  BY <1>1, <1>5
<1> QED
  BY <1>1, <1>3, <1>4, <1>6

LEMMA ApprovalStep == ApprovalInv /\ [ApprovalNext]_avars => ApprovalInv'
<1> SUFFICES ASSUME ApprovalInv, [ApprovalNext]_avars PROVE ApprovalInv'
  OBVIOUS
<1>1. DOMAIN requests = 1 .. Len(requests) /\ Len(requests) \in Nat
      /\ \A i \in 1 .. Len(requests) : requests[i] \in Request
  BY LenProperties, ElementOfSeq DEF ApprovalInv
<1>2. ASSUME NEW indices, requests' = Expired(indices), UNCHANGED clock PROVE ApprovalInv'
  <2>1. requests' \in Seq(Request) /\ DOMAIN requests' = DOMAIN requests
    BY <1>1, <1>2, ExpiringAnswersNone, LenProperties
  <2> QED
    BY <1>2, <2>1, ExpiringAnswersNone DEF ApprovalInv, AnsweredInTime
<1>3. ASSUME Create PROVE ApprovalInv'
  <2> DEFINE kept == Expired(IF Full THEN Oldest ELSE {})
             new == [expires |-> clock + ApprovalTimeout, status |-> "pending",
                     decidedAt |-> clock]
  <2>1. UNCHANGED clock /\ (requests' = Append(kept, new) \/ requests' = kept)
    BY <1>3 DEF Create
  <2>2. kept \in Seq(Request) /\ Len(kept) = Len(requests)
        /\ \A i \in DOMAIN requests :
              kept[i].status \in {"approved", "rejected"} => kept[i].decidedAt <= kept[i].expires
    BY ExpiringAnswersNone
  <2>3. new \in Request /\ new.status = "pending"
    BY ApprovalAssumption DEF ApprovalInv, Request
  <2> HIDE DEF kept, new
  <2>4. CASE requests' = Append(kept, new)
    <3>1. requests' \in Seq(Request) /\ DOMAIN requests' = 1 .. Len(requests) + 1
          /\ requests'[Len(requests) + 1] = new
          /\ \A i \in 1 .. Len(requests) : requests'[i] = kept[i]
      BY <1>1, <2>2, <2>3, <2>4
    <3> QED
      BY <1>1, <2>1, <2>2, <2>3, <3>1 DEF ApprovalInv, AnsweredInTime
  <2>5. CASE requests' = kept
    BY <2>1, <2>5, <1>2 DEF kept
  <2> QED
    BY <2>1, <2>4, <2>5
<1>4. ASSUME NEW decision \in {"approved", "rejected"}, Answer(decision) PROVE ApprovalInv'
  <2>1. PICK i \in DOMAIN requests :
           /\ IsPending(requests[i])
           /\ requests' = [requests EXCEPT ![i].status = decision, ![i].decidedAt = clock]
    BY <1>4 DEF Answer
  <2> DEFINE answered == [requests[i] EXCEPT !.status = decision, !.decidedAt = clock]
  <2>2. requests' = [requests EXCEPT ![i] = answered]
    BY <1>1, <2>1
  <2>3. answered \in Request /\ answered.decidedAt <= answered.expires
    BY <1>1, <2>1 DEF IsPending, Request, ApprovalInv
  <2> HIDE DEF answered
  <2>4. requests' \in Seq(Request) /\ DOMAIN requests' = DOMAIN requests
        /\ requests'[i] = answered
        /\ \A j \in DOMAIN requests : j # i => requests'[j] = requests[j]
    BY <1>1, <2>2, <2>3 DEF ApprovalInv
  <2> QED
    BY <1>4, <2>3, <2>4 DEF Answer, ApprovalInv, AnsweredInTime
<1>5. ASSUME Notice PROVE ApprovalInv'
  BY <1>2, <1>5 DEF Notice
<1>6. CASE PassTime \/ UNCHANGED avars
  BY <1>6 DEF PassTime, avars, ApprovalInv, AnsweredInTime
<1> QED
  BY <1>3, <1>4, <1>5, <1>6 DEF ApprovalNext, Approve, Reject

(***************************************************************************)
(* An answer counts only while the request is in time, whatever was        *)
(* created, evicted or noticed before, for every timeout and limit.        *)
(* human_approval.py:53-60, 158-215.                                       *)
(***************************************************************************)
THEOREM LateAnswersDoNotCount == ApprovalSpec => []AnsweredInTime
<1>1. ApprovalInit => ApprovalInv
  BY DEF ApprovalInit, ApprovalInv, AnsweredInTime
<1>2. ApprovalInv => AnsweredInTime
  BY DEF ApprovalInv
<1> QED
  BY <1>1, <1>2, ApprovalStep, PTL DEF ApprovalSpec

-----------------------------------------------------------------------------
(***************************************************************************)
(* The learning gate.  What the observer states of an update is true, or   *)
(* safe: it cuts a step that is too large and goes on stating the delta of *)
(* the whole one, which the gate then refuses.                             *)
(***************************************************************************)
IsUpdate(u) ==
    u \in [observed : BOOLEAN, zone : DeclaredZones, named : BOOLEAN,
           current : Int, proposed : Int, stated : BOOLEAN, delta : Int,
           demand : [experiments : Nat, gain : Nat],
           evidence : {u.evidence}, decision : {"pending", "approved", "rejected"}]

Moderate(u) ==
    u.current # 0 => Fraction * Size(u.proposed - u.current) <= Size(u.current)

StatedHonestly(tier, u) ==
    u.observed =>
        /\ u.zone = tier /\ u.named /\ u.stated
        /\ u.demand.experiments = MinExperiments
        /\ Moderate(u) \/ u.delta = u.proposed - u.current

\* Whoever proposed it.
Justified(tier, u) ==
    /\ u.zone \notin {"gated", "immutable"}
    /\ u.zone = "adaptive" /\ u.named => tier = "adaptive"
    /\ u.evidence.count >= u.demand.experiments
    /\ u.evidence.measured > 0 => u.evidence.agree
    /\ u.evidence.clean
    /\ ~TooLarge(u)

Experiment == [old : ParameterValues, new : ParameterValues, gain : Gains,
               keep : BOOLEAN, clean : BOOLEAN]

IsList(s) == Len(s) \in Nat /\ s = [i \in 1 .. Len(s) |-> s[i]]

LearningInv ==
    /\ registry \in Zones
    /\ evidence \in Seq(Experiment)
    /\ IsList(updates)
    /\ \A i \in DOMAIN updates : IsUpdate(updates[i]) /\ StatedHonestly(registry, updates[i])
    /\ applied \subseteq DOMAIN updates
    /\ \A i \in applied : Justified(registry, updates[i])

(* Lists that are changed in place or grow keep being lists.               *)
LEMMA ListOf ==
    ASSUME NEW n \in Nat, NEW f, f = [i \in 1 .. n |-> f[i]]
    PROVE  IsList(f) /\ Len(f) = n /\ DOMAIN f = 1 .. n
<1> DEFINE S == {f[i] : i \in 1 .. n}
<1>1. f \in [1 .. n -> S]
  OBVIOUS
<1>2. f \in Seq(S) /\ Len(f) = n /\ DOMAIN f = 1 .. n
  BY <1>1
<1> QED
  BY <1>2 DEF IsList

LEMMA ListGrows ==
    ASSUME NEW s, IsList(s), NEW u
    PROVE  /\ IsList(Append(s, u)) /\ DOMAIN Append(s, u) = 1 .. Len(s) + 1
           /\ Len(s) \in Nat /\ DOMAIN s = 1 .. Len(s)
           /\ Append(s, u)[Len(s) + 1] = u
           /\ \A i \in DOMAIN s : Append(s, u)[i] = s[i]
<1> DEFINE S == {s[i] : i \in 1 .. Len(s)} \cup {u}
<1>1. Len(s) \in Nat /\ s \in [1 .. Len(s) -> S] /\ u \in S
  BY DEF IsList
<1>2. s \in Seq(S)
  BY <1>1
<1> HIDE DEF S
<1>3. Append(s, u) \in Seq(S) /\ Len(Append(s, u)) = Len(s) + 1
      /\ Append(s, u)[Len(s) + 1] = u
      /\ \A i \in 1 .. Len(s) : Append(s, u)[i] = s[i]
  BY <1>1, <1>2
<1>4. Append(s, u) \in [1 .. Len(s) + 1 -> S]
  BY <1>3, LenProperties
<1>5. Append(s, u) = [i \in 1 .. Len(s) + 1 |-> Append(s, u)[i]]
  BY <1>4
<1>6. s = [i \in 1 .. Len(s) |-> s[i]]
  BY DEF IsList
<1> QED
  BY <1>1, <1>3, <1>5, <1>6 DEF IsList

(* The largest step allowed is moderate.                                   *)
LEMMA StepIsModerate ==
    ASSUME NEW c \in Int, NEW p,
           p = c + (Size(c) \div Fraction) \/ p = c - (Size(c) \div Fraction)
    PROVE  Fraction * Size(p - c) <= Size(c)
<1> DEFINE d == Size(c)
           q == d \div Fraction
<1>1. Fraction \in Nat \ {0}
  BY LearningAssumption
<1>2. d \in Nat
  BY DEF Size
<1> HIDE DEF d
<1>3. q \in Nat /\ Fraction * q <= d
  BY <1>1, <1>2
<1>4. p = c + q \/ p = c - q
  BY DEF d
<1> HIDE DEF q
<1>5. Size(p - c) = q
  BY <1>3, <1>4 DEF Size
<1>6. Fraction * Size(p - c) <= d
  BY <1>3, <1>5
<1> QED
  BY <1>6 DEF d

(* Among experiments there is a first one with the largest gain: the sets  *)
(* of those that are at least as good shrink, and have a smallest.         *)
LEMMA BestIsIn ==
    ASSUME LearningInv, Kept # {}
    PROVE  BestValue \in ParameterValues
<1> DEFINE gain(i) == evidence[i].gain
           AtLeast(j, i) == gain(i) < gain(j) \/ (gain(i) = gain(j) /\ j <= i)
           Above(i) == {j \in Kept : AtLeast(j, i)}
           T == {Above(i) : i \in Kept}
<1>1. Kept \subseteq 1 .. Len(evidence) /\ Len(evidence) \in Nat
      /\ \A i \in Kept : evidence[i] \in Experiment
  <2>1. Len(evidence) \in Nat /\ DOMAIN evidence = 1 .. Len(evidence)
    BY LenProperties DEF LearningInv
  <2>2. \A i \in 1 .. Len(evidence) : evidence[i] \in Experiment
    BY ElementOfSeq DEF LearningInv
  <2> QED
    BY <2>1, <2>2 DEF Kept
<1>2. \A i \in Kept : i \in Nat /\ gain(i) \in Int
  <2> SUFFICES ASSUME NEW i \in Kept PROVE i \in Nat /\ evidence[i].gain \in Int
    OBVIOUS
  <2>1. evidence[i].gain \in Gains
    BY <1>1 DEF Experiment
  <2>2. Gains \subseteq Int
    BY LearningAssumption
  <2>3. i \in 1 .. Len(evidence) /\ Len(evidence) \in Nat
    BY <1>1
  <2>4. evidence[i].gain \in Int
    BY <2>1, <2>2
  <2>5. i \in Nat
    BY <2>3
  <2> QED
    BY <2>4, <2>5
<1> HIDE DEF gain
<1>3. T \subseteq FiniteSubsetsOf(Nat) /\ T # {}
  <2>1. ASSUME NEW S \in SUBSET Kept PROVE S \in FiniteSubsetsOf(Nat)
    <3>1. IsFiniteSet(1 .. Len(evidence))
      BY <1>1, FS_Interval
    <3>2. IsFiniteSet(S)
      BY <1>1, <3>1, FS_Subset
    <3> QED
      BY <1>2, <3>2 DEF FiniteSubsetsOf
  <2>2. \A i \in Kept : Above(i) \in SUBSET Kept
    OBVIOUS
  <2> QED
    BY <2>1, <2>2
<1>4. PICK x \in T : \A y \in T : ~ (<<y, x>> \in StrictSubsetOrdering(Nat))
  BY <1>3, FS_StrictSubsetOrderingWellFounded, WFMin
<1>5. PICK i \in Kept : x = Above(i)
  OBVIOUS
<1>6. ASSUME NEW j \in Kept, ~(gain(j) < gain(i) \/ (gain(j) = gain(i) /\ i <= j)) PROVE FALSE
  <2>1. Above(j) \in T /\ Above(j) \subseteq Nat /\ x \subseteq Nat
    BY <1>2, <1>5
  <2>2. gain(i) < gain(j) \/ (gain(i) = gain(j) /\ j < i)
    BY <1>2, <1>6
  <2>3. Above(j) \subseteq x
    BY <1>2, <1>5, <2>2
  <2>4. i \in x /\ i \notin Above(j)
    BY <1>2, <1>5, <2>2
  <2>5. <<Above(j), x>> \in StrictSubsetOrdering(Nat)
    BY <2>1, <2>3, <2>4 DEF StrictSubsetOrdering
  <2> QED
    BY <1>4, <2>1, <2>5
<1> DEFINE best == CHOOSE k \in Kept : \A j \in Kept :
                       \/ evidence[j].gain < evidence[k].gain
                       \/ evidence[j].gain = evidence[k].gain /\ k <= j
<1>7. best \in Kept
  BY <1>6 DEF gain
<1> HIDE DEF best
<1>8. evidence[best].new \in ParameterValues
  BY <1>1, <1>7 DEF Experiment
<1> QED
  BY <1>8 DEF BestValue, best

(* What the observer proposes states its delta or is moderate.             *)
LEMMA ObserverIsHonest ==
    ASSUME LearningInv, Ready
    PROVE  IsUpdate(ObserverUpdate) /\ StatedHonestly(registry, ObserverUpdate)
<1> DEFINE current == evidence[Len(evidence)].old
           best == BestValue
           step == Size(current) \div Fraction
<1>1. evidence # <<>> /\ Kept # {}
  <2>1. Cardinality(Kept) >= MinExperiments
    BY DEF Ready
  <2>2. Kept # {}
    BY <2>1, FS_EmptySet, LearningAssumption
  <2> QED
    BY <2>2 DEF Kept
<1>2. current \in Int
  <2>1. Len(evidence) \in 1 .. Len(evidence)
    BY <1>1, LenProperties, EmptySeq DEF LearningInv
  <2>2. evidence[Len(evidence)] \in Experiment
    BY <2>1, ElementOfSeq DEF LearningInv
  <2> QED
    BY <2>2, LearningAssumption DEF Experiment
<1> DEFINE value == CASE current = 0 \/ Fraction * Size(best - current) <= Size(current)
                             -> best
                      [] current # 0 /\ best > current -> current + step
                      [] OTHER -> current - step
           gathered == Gathered
<1>3. \/ (current = 0 \/ Fraction * Size(best - current) <= Size(current)) /\ value = best
      \/ value = current + step \/ value = current - step
  OBVIOUS
<1>4. current # 0 => Fraction * Size(value - current) <= Size(current)
  <2>1. CASE value = current + step \/ value = current - step
    BY <1>2, <2>1, StepIsModerate
  <2> QED
    BY <1>3, <2>1
<1>5. best \in Int
  BY <1>1, BestIsIn, LearningAssumption
<1>6. best - current \in Int
  BY <1>2, <1>5
<1>7. ObserverUpdate = [observed |-> TRUE, zone |-> registry, named |-> TRUE,
                        current |-> current, proposed |-> value,
                        stated |-> TRUE, delta |-> best - current,
                        demand |-> [experiments |-> MinExperiments, gain |-> 1],
                        evidence |-> gathered, decision |-> "pending"]
  BY DEF ObserverUpdate
<1>8. value \in Int
  <2>1. Size(current) \in Int
    BY <1>2 DEF Size
  <2>2. step \in Int
    BY <2>1, LearningAssumption
  <2> QED
    BY <1>2, <1>3, <1>5, <2>2
<1>9. registry \in DeclaredZones
  BY DEF LearningInv, DeclaredZones
<1> HIDE DEF value, best, current, gathered
<1>10. /\ ObserverUpdate.proposed = value /\ ObserverUpdate.current = current
       /\ ObserverUpdate.zone = registry /\ ObserverUpdate.named /\ ObserverUpdate.stated
       /\ ObserverUpdate.demand.experiments = MinExperiments
  BY <1>7
<1>11. IsUpdate(ObserverUpdate)
  BY <1>2, <1>6, <1>7, <1>8, <1>9, LearningAssumption DEF IsUpdate
<1> QED
  BY <1>4, <1>10, <1>11 DEF StatedHonestly, Moderate

(* A judgement changes the zone and the decision of an update, and nothing *)
(* that makes it justified.                                                *)
SameReason(u, judged) ==
    /\ judged.observed = u.observed /\ judged.named = u.named
    /\ judged.current = u.current /\ judged.proposed = u.proposed
    /\ judged.stated = u.stated /\ judged.delta = u.delta
    /\ judged.demand = u.demand /\ judged.evidence = u.evidence

(* What the gate approves is justified, in the zone it was resolved to.    *)
LEMMA ApprovedIsJustified ==
    ASSUME LearningInv, NEW i \in DOMAIN updates, Judgement(updates[i]) = "approved",
           NEW judged, SameReason(updates[i], judged), judged.zone = ResolvedZone(updates[i])
    PROVE  Justified(registry, judged)
<1> DEFINE u == updates[i]
<1>1. ResolvedZone(u) # "immutable" /\ ResolvedZone(u) # "gated"
      /\ EvidenceSuffices(u) /\ ~TooLarge(u)
  BY DEF Judgement
<1>2. ResolvedZone(u) = "adaptive" /\ u.named => registry = "adaptive"
  BY DEF ResolvedZone
<1> QED
  BY <1>1, <1>2 DEF SameReason, Justified, EvidenceSuffices, TooLarge

LEMMA JudgingChangesNoReason ==
    ASSUME NEW u, NEW judged, SameReason(u, judged),
           judged.zone = u.zone \/ judged.zone = ResolvedZone(u)
    PROVE  /\ StatedHonestly(registry, u) => StatedHonestly(registry, judged)
           /\ Justified(registry, u) => Justified(registry, judged)
BY DEF SameReason, StatedHonestly, Justified, Moderate, TooLarge, ResolvedZone

LEMMA LearningStep == LearningInv /\ [LearningNext]_lvars => LearningInv'
<1> SUFFICES ASSUME LearningInv, [LearningNext]_lvars PROVE LearningInv'
  OBVIOUS
<1>0. Len(updates) \in Nat /\ DOMAIN updates = 1 .. Len(updates)
  BY DEF LearningInv, IsList
<1>1. ASSUME Observe PROVE LearningInv'
  BY <1>1 DEF Observe, LearningInv, Experiment
<1>2. ASSUME NEW u, IsUpdate(u), StatedHonestly(registry, u), updates' = Append(updates, u),
             UNCHANGED registry, evidence' \in Seq(Experiment), UNCHANGED applied
      PROVE  LearningInv'
  <2>1. IsList(updates') /\ DOMAIN updates' = 1 .. Len(updates) + 1
        /\ updates'[Len(updates) + 1] = u
        /\ \A i \in DOMAIN updates : updates'[i] = updates[i]
    BY <1>2, ListGrows DEF LearningInv
  <2>2. \A i \in DOMAIN updates' : IsUpdate(updates'[i]) /\ StatedHonestly(registry, updates'[i])
    BY <1>0, <1>2, <2>1 DEF LearningInv
  <2> QED
    BY <1>0, <1>2, <2>1, <2>2 DEF LearningInv
<1>3. ASSUME Propose PROVE LearningInv'
  BY <1>2, <1>3, ObserverIsHonest DEF Propose, LearningInv
<1>4. ASSUME ForgetEvidence PROVE LearningInv'
  BY <1>4 DEF ForgetEvidence, LearningInv
<1>5. ASSUME ProposeElsewhere PROVE LearningInv'
  <2>1. PICK zone \in DeclaredZones, named, stated \in BOOLEAN,
             current, value \in ParameterValues, demand \in Demands,
             n \in 0 .. MaxRecords :
        \E delta \in {0, value - current}, measured \in SUBSET (1 .. n),
           cited \in [1 .. n -> [gain : Gains, clean : BOOLEAN]] :
           /\ named \/ zone = "adaptive"
           /\ stated \/ delta = 0
           /\ updates' = Append(updates,
                 [observed |-> FALSE, zone |-> zone, named |-> named,
                  current |-> current, proposed |-> value,
                  stated |-> stated, delta |-> delta, demand |-> demand,
                  evidence |-> Evidence(cited, 1 .. n, measured), decision |-> "pending"])
    BY <1>5 DEF ProposeElsewhere
  <2>2. PICK delta \in {0, value - current}, measured \in SUBSET (1 .. n),
             cited \in [1 .. n -> [gain : Gains, clean : BOOLEAN]] :
           /\ named \/ zone = "adaptive"
           /\ stated \/ delta = 0
           /\ updates' = Append(updates,
                 [observed |-> FALSE, zone |-> zone, named |-> named,
                  current |-> current, proposed |-> value,
                  stated |-> stated, delta |-> delta, demand |-> demand,
                  evidence |-> Evidence(cited, 1 .. n, measured), decision |-> "pending"])
    BY <2>1
  <2> DEFINE gathered == Evidence(cited, 1 .. n, measured)
             u == [observed |-> FALSE, zone |-> zone, named |-> named,
                   current |-> current, proposed |-> value,
                   stated |-> stated, delta |-> delta, demand |-> demand,
                   evidence |-> gathered, decision |-> "pending"]
  <2>3. UNCHANGED <<registry, evidence, applied>> /\ updates' = Append(updates, u)
    BY <1>5, <2>2 DEF ProposeElsewhere
  <2> HIDE DEF gathered
  <2>4. current \in Int /\ value \in Int /\ delta \in Int
        /\ demand \in [experiments : Nat, gain : Nat]
    BY LearningAssumption
  <2>5. IsUpdate(u) /\ ~u.observed
    BY <2>4 DEF IsUpdate
  <2> HIDE DEF u
  <2> QED
    BY <1>2, <2>3, <2>5 DEF LearningInv, StatedHonestly
<1>6. ASSUME Gate PROVE LearningInv'
  <2> DEFINE judged(i) == [updates[i] EXCEPT !.zone = ResolvedZone(updates[i]),
                                             !.decision = Judgement(updates[i])]
  <2>1. PICK submitted \in (SUBSET DOMAIN updates) \ {{}} :
           LET all == [i \in DOMAIN updates |->
                          IF i \in submitted THEN judged(i) ELSE updates[i]]
           IN  /\ updates' = all
               /\ applied' = applied \cup {i \in submitted : all[i].decision = "approved"}
    BY <1>6 DEF Gate
  <2>2. \A i \in DOMAIN updates :
          /\ IsUpdate(updates[i]) /\ StatedHonestly(registry, updates[i])
          /\ ResolvedZone(updates[i]) \in DeclaredZones
          /\ Judgement(updates[i]) \in {"pending", "approved", "rejected"}
    BY DEF LearningInv, ResolvedZone, IsUpdate, Judgement, DeclaredZones
  <2>3. \A i \in DOMAIN updates :
          /\ IsUpdate(judged(i)) /\ judged(i).decision = Judgement(updates[i])
          /\ StatedHonestly(registry, judged(i))
          /\ Justified(registry, updates[i]) \/ Judgement(updates[i]) = "approved"
                => Justified(registry, judged(i))
    <3> SUFFICES ASSUME NEW i \in DOMAIN updates
                 PROVE  /\ IsUpdate(judged(i)) /\ judged(i).decision = Judgement(updates[i])
                        /\ StatedHonestly(registry, judged(i))
                        /\ Justified(registry, updates[i]) \/ Judgement(updates[i]) = "approved"
                              => Justified(registry, judged(i))
      OBVIOUS
    <3>1. IsUpdate(updates[i]) /\ StatedHonestly(registry, updates[i])
          /\ ResolvedZone(updates[i]) \in DeclaredZones
          /\ Judgement(updates[i]) \in {"pending", "approved", "rejected"}
      BY <2>2
    <3>2. IsUpdate(judged(i)) /\ judged(i).decision = Judgement(updates[i])
          /\ judged(i).zone = ResolvedZone(updates[i])
          /\ SameReason(updates[i], judged(i))
      BY <3>1 DEF IsUpdate, SameReason
    <3> HIDE DEF judged
    <3> QED
      BY <3>1, <3>2, JudgingChangesNoReason, ApprovedIsJustified
  <2> HIDE DEF judged
  <2>4. UNCHANGED <<registry, evidence>>
        /\ updates' = [i \in 1 .. Len(updates) |->
                          IF i \in submitted THEN judged(i) ELSE updates[i]]
        /\ applied' = applied \cup {i \in submitted : judged(i).decision = "approved"}
    BY <1>0, <1>6, <2>1 DEF Gate
  <2>5. updates' = [i \in 1 .. Len(updates) |-> updates'[i]]
    BY <2>4
  <2>6. IsList(updates') /\ DOMAIN updates' = DOMAIN updates
    BY <1>0, <2>5, ListOf
  <2>7. \A i \in DOMAIN updates : updates'[i] = judged(i) \/ updates'[i] = updates[i]
    BY <1>0, <2>4
  <2>8. \A i \in DOMAIN updates' : IsUpdate(updates'[i]) /\ StatedHonestly(registry, updates'[i])
    BY <2>2, <2>3, <2>6, <2>7
  <2>9. ASSUME NEW i \in applied' PROVE i \in DOMAIN updates /\ Justified(registry, updates'[i])
    <3>1. CASE i \in applied
      BY <2>3, <2>7, <3>1 DEF LearningInv
    <3>2. CASE i \in submitted /\ judged(i).decision = "approved"
      <4>1. i \in DOMAIN updates /\ Judgement(updates[i]) = "approved"
        BY <2>1, <2>3, <3>2
      <4>2. updates'[i] = judged(i)
        BY <1>0, <2>4, <3>2, <4>1
      <4> QED
        BY <2>3, <4>1, <4>2
    <3> QED
      BY <2>4, <3>1, <3>2
  <2> QED
    BY <2>4, <2>6, <2>8, <2>9 DEF LearningInv
<1>7. ASSUME RollBack PROVE LearningInv'
  <2>1. PICK i \in applied : /\ applied' = applied \ {i}
                             /\ updates' = [updates EXCEPT ![i].decision = "rejected"]
    BY <1>7 DEF RollBack
  <2>2. UNCHANGED <<registry, evidence>> /\ i \in DOMAIN updates /\ IsUpdate(updates[i])
        /\ StatedHonestly(registry, updates[i])
    BY <1>7 DEF RollBack, LearningInv
  <2> DEFINE u == [updates[i] EXCEPT !.decision = "rejected"]
  <2>4. IsUpdate(u) /\ StatedHonestly(registry, u)
    <3>1. IsUpdate(u) /\ SameReason(updates[i], u) /\ u.zone = updates[i].zone
      BY <2>2 DEF IsUpdate, SameReason
    <3> HIDE DEF u
    <3> QED
      BY <2>2, <3>1, JudgingChangesNoReason
  <2>5. updates' = [updates EXCEPT ![i] = u]
    BY <2>1, <2>2
  <2> HIDE DEF u
  <2>6. updates' = [j \in 1 .. Len(updates) |-> updates'[j]]
    BY <1>0, <2>5
  <2>7. IsList(updates') /\ DOMAIN updates' = DOMAIN updates /\ updates'[i] = u
        /\ \A j \in DOMAIN updates : j # i => updates'[j] = updates[j]
    BY <1>0, <2>2, <2>5, <2>6, ListOf
  <2>8. \A j \in DOMAIN updates' : IsUpdate(updates'[j]) /\ StatedHonestly(registry, updates'[j])
    BY <2>2, <2>4, <2>7 DEF LearningInv
  <2>9. \A j \in applied' : j \in DOMAIN updates /\ Justified(registry, updates'[j])
    BY <2>1, <2>2, <2>7 DEF LearningInv
  <2> QED
    BY <2>2, <2>7, <2>8, <2>9 DEF LearningInv
<1>8. CASE UNCHANGED lvars
  BY <1>8 DEF lvars, LearningInv
<1> QED
  BY <1>1, <1>3, <1>4, <1>5, <1>6, <1>7, <1>8 DEF LearningNext

(***************************************************************************)
(* Nothing is learned without a reason, however often it was submitted and *)
(* taken back: for any values, zero among them, gains, fractions, demands  *)
(* on the evidence and zones declared.  What the observer proposed moves   *)
(* an adaptive parameter by a moderate step; what another module proposed  *)
(* is held to the evidence and the delta it states itself.                 *)
(* learning_gate_service.py:99-260, outcome_observer.py:91-269.            *)
(***************************************************************************)
THEOREM LearningIsJustified == LearningSpec => []AppliedIsJustified
<1>1. LearningInit => LearningInv
  BY DEF LearningInit, LearningInv, IsList
<1>2. LearningInv => AppliedIsJustified
  <2> SUFFICES ASSUME LearningInv, NEW i \in applied
               PROVE  LET u == updates[i] IN
                      /\ u.zone \notin {"gated", "immutable"}
                      /\ u.zone = "adaptive" /\ u.named => registry = "adaptive"
                      /\ u.evidence.count >= u.demand.experiments
                      /\ u.evidence.measured > 0 => u.evidence.agree
                      /\ u.evidence.clean
                      /\ ~TooLarge(u)
                      /\ u.observed =>
                            /\ registry = "adaptive" /\ u.evidence.count >= MinExperiments
                            /\ u.current # 0 =>
                                  Fraction * Size(u.proposed - u.current) <= Size(u.current)
    BY DEF AppliedIsJustified
  <2> DEFINE u == updates[i]
  <2>1. Justified(registry, u) /\ StatedHonestly(registry, u) /\ registry \in Zones
    BY DEF LearningInv
  <2>2. u.observed => registry = "adaptive" /\ u.evidence.count >= MinExperiments
    BY <2>1 DEF Justified, StatedHonestly, Zones
  <2>3. u.observed => Moderate(u)
    <3> SUFFICES ASSUME u.observed, u.delta = u.proposed - u.current, u.current # 0
                 PROVE  Fraction * Size(u.delta) <= Size(u.current)
      BY <2>1 DEF StatedHonestly, Moderate
    <3>1. ~(Fraction * Size(u.delta) > Size(u.current))
      BY <2>1 DEF Justified, StatedHonestly, TooLarge
    <3>2. u.delta \in Int /\ u.current \in Int /\ Fraction \in Nat
      BY LearningAssumption DEF LearningInv, IsUpdate
    <3>3. Size(u.delta) \in Int /\ Size(u.current) \in Int
      BY <3>2 DEF Size
    <3> QED
      BY <3>1, <3>2, <3>3
  <2>4. u.observed /\ u.current # 0 =>
            Fraction * Size(u.proposed - u.current) <= Size(u.current)
    BY <2>3 DEF Moderate
  <2> QED
    BY <2>1, <2>2, <2>4 DEF Justified
<1> QED
  BY <1>1, <1>2, LearningStep, PTL DEF LearningSpec

-----------------------------------------------------------------------------
(***************************************************************************)
(* The research loop.  The data directory is in the tree or, while git has *)
(* reset and not yet popped, on top of the stashes: Saved is the one the   *)
(* running experiment depends on.                                          *)
(***************************************************************************)
Phases == {"off", "head", "edited", "committed", "stash", "reset", "pop", "restore"}
Measured == Values \cup {Unset}
Directory == [there : BOOLEAN, baseline : Measured, snapshot : Measured]

Locals == [at : Phases, plan : SUBSET Values, old : Measured, new : Measured,
           used : Nat, failures : Nat]
History == [kept : Values, best : Nat, sessions : Nat, gitFailures : Nat,
            resetFailed : BOOLEAN, dataLost : BOOLEAN, killed : BOOLEAN]

Stashed == session.at \in {"reset", "pop"} /\ ~data.there
Saved == IF Stashed THEN stashes[Len(stashes)] ELSE data

ResearchType ==
    /\ surface \in Values
    /\ commits \in Seq(Values) /\ Len(commits) > 0
    /\ session.at \in {"committed", "stash", "reset"} => Len(commits) > 1
    /\ data \in Directory /\ (data.there \/ data = NoData)
    /\ stashes \in Seq(Directory)
    /\ session \in Locals
    /\ past \in History

(* Where the directory is.  Only a failed pop leaves none behind.          *)
Located ==
    /\ session.at \in {"head", "edited", "committed", "stash"} => data.there
    /\ Stashed => Len(stashes) > 0 /\ stashes[Len(stashes)].there
    /\ session.at = "restore" /\ ~data.there => past.dataLost
    /\ session.at = "edited" => data.snapshot # Unset

Careful == ~past.killed /\ ~(past.resetFailed /\ past.dataLost)

(* Two layers that bring the kept value back: the snapshot, as long as the *)
(* directory is there, and the commit before the experiment's, as long as  *)
(* no reset has failed.                                                    *)
TwoLayers ==
    /\ session.at = "committed" => commits[Len(commits)] = surface
    /\ Careful =>
        /\ AtRest => surface = past.kept
        /\ session.at \in {"edited", "committed", "stash", "reset", "pop"}
              => Saved.snapshot = past.kept
        /\ session.at = "restore" /\ data.there => data.snapshot = past.kept
        /\ ~past.resetFailed =>
             /\ session.at \in {"off", "head", "edited", "pop", "restore"}
                   => commits[Len(commits)] = past.kept
             /\ session.at \in {"committed", "stash", "reset"}
                   => commits[Len(commits) - 1] = past.kept
             /\ session.at \in {"pop", "restore"} => surface = past.kept

Trusted == ~(past.dataLost /\ (past.resetFailed \/ past.killed))

(* The best score is the baseline's, or there is no baseline, and then the *)
(* file still holds the value that would be measured.                      *)
BestIsKept ==
    Trusted =>
        /\ past.best <= Score(past.kept)
        /\ Saved.baseline # Unset => Score(Saved.baseline) = past.best
        /\ Saved.baseline = Unset => ~past.killed
        /\ session.at # "off" /\ ~(session.at = "restore" /\ ~data.there)
              => Saved.baseline # Unset

ResearchInv == ResearchType /\ Located /\ TwoLayers /\ BestIsKept

LEMMA ResearchInitInv == ResearchInit => ResearchInv
<1> SUFFICES ASSUME ResearchInit PROVE ResearchInv
  OBVIOUS
<1> USE ResearchAssumption
<1>1. surface \in Values /\ commits = <<surface>> /\ data = NoData /\ stashes = <<>>
      /\ session.at = "off" /\ past.kept = surface /\ past.best = 0
      /\ ~past.resetFailed /\ ~past.dataLost /\ ~past.killed
  BY DEF ResearchInit, NoSession
<1>2. ResearchType
  BY <1>1 DEF ResearchInit, ResearchType, Locals, History, Directory, NoData, NoSession, Phases, Measured, Unset
<1>3. Saved = data /\ data.baseline = Unset /\ ~Stashed
  BY <1>1 DEF Saved, Stashed, NoData
<1>4. Score(past.kept) \in Nat
  BY <1>1 DEF Score
<1>5. commits[Len(commits)] = surface
  BY <1>1
<1>6. Located
  BY <1>1, <1>3 DEF Located
<1>7. TwoLayers
  BY <1>1, <1>5 DEF TwoLayers
<1>8. BestIsKept
  <2>1. 0 <= Score(past.kept)
    BY <1>4
  <2> QED
    BY <1>1, <1>3, <2>1 DEF BestIsKept
<1> QED
  BY <1>2, <1>6, <1>7, <1>8 DEF ResearchInv

(* Scores are natural numbers. *)
LEMMA ScoreType == \A v \in Measured : Score(v) \in Nat
BY ResearchAssumption DEF Score, Measured

(* The session after an experiment, kept or not. *)
LEMMA ConsumedType ==
    ASSUME ResearchType, NEW success \in BOOLEAN
    PROVE  /\ Consumed(success).at = "head"
           /\ Consumed(success) \in Locals
<1>1. ASSUME NEW n \in Nat, NEW f \in Nat, NEW m \in Measured,
             Consumed(success) = [session EXCEPT !.at = "head", !.used = n, !.failures = f,
                                                 !.old = m]
      PROVE  Consumed(success).at = "head" /\ Consumed(success) \in Locals
  <2>1. session \in Locals /\ "head" \in Phases
    BY DEF ResearchType, Phases
  <2> QED
    BY <1>1, <2>1 DEF Locals
<1>2. session.used + 1 \in Nat /\ session.old \in Measured /\ session.new \in Measured
      /\ session.failures + 1 \in Nat
  BY DEF ResearchType, Locals
<1>3. CASE success
  <2>1. Consumed(success) = [session EXCEPT !.at = "head", !.used = session.used + 1,
                                            !.failures = 0, !.old = session.new]
    BY <1>3 DEF Consumed
  <2> QED
    BY <1>1, <1>2, <2>1
<1>4. CASE ~success
  <2>1. Consumed(success) = [session EXCEPT !.at = "head", !.used = session.used + 1,
                                            !.failures = session.failures + 1,
                                            !.old = session.old]
    BY <1>4 DEF Consumed
  <2> QED
    BY <1>1, <1>2, <2>1
<1> QED
  BY <1>3, <1>4

LEMMA BeginKeeps == ResearchInv /\ Begin => ResearchInv'
<1> SUFFICES ASSUME ResearchInv, Begin PROVE ResearchInv'
  OBVIOUS
<1> USE ResearchAssumption DEF ResearchInv, Locals, History
<1> DEFINE measured == IF data.baseline = Unset /\ Quality[surface] > 0
                       THEN surface ELSE data.baseline
<1>1. session.at = "off" /\ UNCHANGED <<surface, commits, stashes>>
      /\ data' = [NoData EXCEPT !.there = TRUE, !.baseline = measured]
      /\ past' = [past EXCEPT !.sessions = @ + 1, !.best = Best(measured)]
  BY DEF Begin
<1>2. PICK plan \in SUBSET Values :
         session' = IF measured = Unset THEN NoSession
                    ELSE [NoSession EXCEPT !.at = "head", !.plan = plan, !.old = surface]
  BY DEF Begin
<1>3. measured \in Measured
  BY DEF ResearchType, Directory, Measured
<1>4. Score(measured) \in Nat /\ Score(past.kept) \in Nat /\ Best(measured) \in Nat
      /\ Best(measured) = (IF Score(measured) > past.best THEN Score(measured) ELSE past.best)
  <2>1. past.best \in Nat /\ past.kept \in Measured
    BY DEF ResearchType, Measured
  <2>2. Score(measured) \in Nat /\ Score(past.kept) \in Nat
    BY <1>3, <2>1, ScoreType
  <2> QED
    BY <2>1, <2>2 DEF Best
<1> HIDE DEF measured
<1>5. data'.there /\ data'.baseline = measured /\ data' \in Directory
  BY <1>1, <1>3 DEF NoData, Directory, Measured
<1>6. /\ past'.kept = past.kept /\ past'.best = Best(measured)
      /\ past'.resetFailed = past.resetFailed /\ past'.dataLost = past.dataLost
      /\ past'.killed = past.killed
      /\ past' \in History
  <2> DEFINE b == Best(measured)
             n == past.sessions + 1
  <2>1. b \in Nat /\ n \in Nat
    BY <1>4 DEF ResearchType
  <2>3. past' = [past EXCEPT !.sessions = n, !.best = b]
    BY <1>1
  <2> HIDE DEF b, n
  <2>2. past \in History
    BY DEF ResearchType
  <2>4. past'.best = b /\ past'.kept = past.kept /\ past'.resetFailed = past.resetFailed
        /\ past'.dataLost = past.dataLost /\ past'.killed = past.killed
    BY <2>2, <2>3 DEF History
  <2>5. past' \in History
    BY <2>1, <2>2, <2>3 DEF History
  <2> QED
    BY <2>4, <2>5 DEF b
<1>7. session'.at \in {"off", "head"} /\ (measured = Unset => session'.at = "off")
      /\ session' \in Locals
  BY <1>2 DEF NoSession, Phases, ResearchType, Measured
<1>8. ResearchType'
  BY <1>1, <1>5, <1>6, <1>7 DEF ResearchType
<1>9. Located' /\ TwoLayers' /\ ~Stashed' /\ Saved' = data' /\ Saved = data
  BY <1>1, <1>5, <1>6, <1>7 DEF Located, TwoLayers, Careful, AtRest, Stashed, Saved
<1>10. BestIsKept'
  <2> SUFFICES ASSUME Trusted
               PROVE  /\ Best(measured) <= Score(past.kept)
                      /\ measured # Unset => Score(measured) = Best(measured)
                      /\ measured = Unset => ~past.killed
    BY <1>1, <1>5, <1>6, <1>7, <1>9 DEF BestIsKept, Trusted, Score
  <2>1. past.best <= Score(past.kept) /\ past.best \in Nat
    BY DEF BestIsKept, ResearchType
  <2>2. CASE data.baseline = Unset
    <3>1. ~past.killed
      BY <1>9, <2>2 DEF BestIsKept
    <3>2. surface = past.kept
      BY <1>1, <3>1 DEF TwoLayers, Careful, Trusted, AtRest
    <3>3. measured = IF Quality[surface] > 0 THEN surface ELSE Unset
      BY <2>2 DEF measured
    <3>4. surface # Unset /\ Score(surface) = Quality[surface] /\ Score(Unset) = 0
      BY DEF ResearchType, Score, Unset
    <3> QED
      BY <1>4, <2>1, <3>1, <3>2, <3>3, <3>4
  <2>3. CASE data.baseline # Unset
    <3>1. measured = data.baseline /\ Score(measured) = past.best
      BY <1>9, <2>3 DEF measured, BestIsKept
    <3> QED
      BY <1>4, <2>1, <2>3, <3>1
  <2> QED
    BY <2>2, <2>3
<1> QED
  BY <1>8, <1>9, <1>10

LEMMA EndKeeps == ResearchInv /\ End => ResearchInv'
<1> SUFFICES ASSUME ResearchInv, End PROVE ResearchInv'
  OBVIOUS
<1>1. session.at = "head" /\ session'.at = "off" /\ session' = NoSession
      /\ UNCHANGED <<surface, commits, data, stashes, past>>
  BY DEF End, NoSession
<1>2. ResearchType'
  BY <1>1 DEF ResearchInv, ResearchType, Locals, History, NoSession, Phases, Measured
<1>3. ~Stashed /\ ~Stashed' /\ Saved = data /\ Saved' = data
  BY <1>1 DEF Stashed, Saved
<1> QED
  BY <1>1, <1>2, <1>3 DEF ResearchInv, Located, TwoLayers, Careful, AtRest, BestIsKept, Trusted,
                         Score

LEMMA EditKeeps == ResearchInv /\ Edit => ResearchInv'
<1> SUFFICES ASSUME ResearchInv, Edit PROVE ResearchInv'
  OBVIOUS
<1> USE ResearchAssumption DEF ResearchInv, Locals, History
<1>1. session.at = "head" /\ UNCHANGED <<commits, stashes, past>> /\ data.there
      /\ ~Stashed /\ Saved = data
  BY DEF Edit, Located, Stashed, Saved
<1>2. PICK v \in session.plan :
         LET planned == [session EXCEPT !.plan = @ \ {v}, !.new = v] IN
         IF v \in InRange /\ surface = session.old
         THEN /\ surface' = v
              /\ data' = [data EXCEPT !.snapshot = surface]
              /\ session' = [planned EXCEPT !.at = "edited"]
         ELSE /\ session' = [Consumed(FALSE) EXCEPT !.plan = planned.plan]
              /\ UNCHANGED <<surface, data>>
  BY DEF Edit
<1>3. CASE v \in InRange /\ surface = session.old
  <2>1. surface' = v /\ v \in Values /\ data' = [data EXCEPT !.snapshot = surface]
        /\ session' = [[session EXCEPT !.plan = @ \ {v}, !.new = v] EXCEPT !.at = "edited"]
    BY <1>2, <1>3
  <2>2. session'.at = "edited"
        /\ session' \in Locals
    BY <2>1 DEF ResearchType, Phases, Measured
  <2>3. data' \in Directory /\ data'.there /\ data'.snapshot = surface
        /\ data'.baseline = data.baseline
    BY <1>1, <2>1 DEF ResearchType, Directory, Measured
  <2>4. ResearchType' /\ ~Stashed' /\ Saved' = data'
    BY <1>1, <2>1, <2>2, <2>3 DEF ResearchType, Stashed, Saved
  <2>5. data'.snapshot # Unset
    BY <2>3 DEF ResearchType, Unset
  <2> QED
    BY <1>1, <2>1, <2>2, <2>3, <2>4, <2>5
       DEF Located, TwoLayers, Careful, AtRest, BestIsKept, Trusted, Score
<1>4. CASE ~(v \in InRange /\ surface = session.old)
  <2>1. UNCHANGED <<surface, data>>
        /\ session' = [Consumed(FALSE) EXCEPT !.plan = session.plan \ {v}]
    <3>1. [session EXCEPT !.plan = @ \ {v}, !.new = v].plan = session.plan \ {v}
      BY DEF ResearchType
    <3> QED
      BY <1>2, <1>4, <3>1
  <2>2. session'.at = "head"
        /\ session' \in Locals
    <3>1. Consumed(FALSE) \in Locals
          /\ Consumed(FALSE).at = "head"
      BY ConsumedType
    <3>2. session.plan \ {v} \in SUBSET Values
      BY DEF ResearchType
    <3> QED
      BY <2>1, <3>1, <3>2
  <2>3. ResearchType' /\ ~Stashed' /\ Saved' = data
    BY <1>1, <2>1, <2>2 DEF ResearchType, Stashed, Saved
  <2> QED
    BY <1>1, <2>1, <2>2, <2>3
       DEF Located, TwoLayers, Careful, AtRest, BestIsKept, Trusted, Score
<1> QED
  BY <1>3, <1>4

(* A failing git command is counted, and what else went wrong is flagged.  *)
LEMMA FailedType ==
    ASSUME ResearchType
    PROVE  /\ Failed \in History
           /\ Failed.kept = past.kept /\ Failed.best = past.best
           /\ Failed.resetFailed = past.resetFailed /\ Failed.dataLost = past.dataLost
           /\ Failed.killed = past.killed
<1> DEFINE n == past.gitFailures + 1
<1>1. past \in History /\ n \in Nat /\ Failed = [past EXCEPT !.gitFailures = n]
  BY DEF ResearchType, Failed, History
<1> HIDE DEF n
<1> QED
  BY <1>1 DEF History

(* A step within an experiment that moves on and changes nothing else. *)
LEMMA MovesOn ==
    ASSUME ResearchType, NEW p \in Phases, session' = [session EXCEPT !.at = p]
    PROVE  session'.at = p /\ session' \in Locals
BY DEF ResearchType, Locals

LEMMA CommitKeeps == ResearchInv /\ Commit => ResearchInv'
<1> SUFFICES ASSUME ResearchInv, Commit PROVE ResearchInv'
  OBVIOUS
<1> USE DEF ResearchInv
<1>1. /\ session.at = "edited" /\ commits' = Append(commits, surface)
      /\ session' = [session EXCEPT !.at = "committed"]
      /\ UNCHANGED <<surface, data, stashes, past>>
  BY DEF Commit
<1>2. session'.at = "committed" /\ session' \in Locals
  BY <1>1, MovesOn DEF Phases
<1>3. /\ commits' \in Seq(Values) /\ Len(commits') = Len(commits) + 1 /\ Len(commits) \in Nat
      /\ commits'[Len(commits')] = surface
      /\ commits'[Len(commits') - 1] = commits[Len(commits)]
  BY <1>1 DEF ResearchType
<1>4. ResearchType'
  BY <1>1, <1>2, <1>3 DEF ResearchType
<1>5. ~Stashed /\ ~Stashed' /\ Saved = data /\ Saved' = data
  BY <1>1, <1>2 DEF Stashed, Saved
<1>6. TwoLayers'
  BY <1>1, <1>2, <1>3, <1>5 DEF TwoLayers, Careful, AtRest
<1> QED
  BY <1>1, <1>2, <1>4, <1>5, <1>6 DEF Located, BestIsKept, Trusted, Score

LEMMA CommitFailsKeeps == ResearchInv /\ CommitFails => ResearchInv'
<1> SUFFICES ASSUME ResearchInv, CommitFails PROVE ResearchInv'
  OBVIOUS
<1> USE DEF ResearchInv
<1>1. /\ session.at = "edited" /\ past' \in {past, Failed}
      /\ surface' = data.snapshot /\ data' = Cleaned /\ session' = Consumed(FALSE)
      /\ UNCHANGED <<commits, stashes>>
  BY DEF CommitFails
<1>2. session'.at = "head" /\ session' \in Locals
  BY <1>1, ConsumedType
<1>3. /\ past' \in History /\ past'.kept = past.kept /\ past'.best = past.best
      /\ past'.resetFailed = past.resetFailed /\ past'.dataLost = past.dataLost
      /\ past'.killed = past.killed
  BY <1>1, FailedType DEF ResearchType
<1>4. /\ data.there /\ data' \in Directory /\ data'.there
      /\ data'.baseline = data.baseline
  BY <1>1 DEF Located, ResearchType, Cleaned, Directory, Measured
<1>5. ~Stashed /\ ~Stashed' /\ Saved = data /\ Saved' = data'
  BY <1>1, <1>2 DEF Stashed, Saved
<1>6. data.snapshot \in Values
  BY <1>1 DEF ResearchType, Directory, Measured, Located
<1> QED
  BY <1>1, <1>2, <1>3, <1>4, <1>5, <1>6
     DEF ResearchType, Located, TwoLayers, Careful, AtRest, BestIsKept, Trusted, Score

LEMMA KeepKeeps == ResearchInv /\ Keep => ResearchInv'
<1> SUFFICES ASSUME ResearchInv, Keep PROVE ResearchInv'
  OBVIOUS
<1> USE DEF ResearchInv
<1>1. /\ session.at = "committed" /\ Score(surface) - Score(data.baseline) >= Tax
      /\ data' = [Cleaned EXCEPT !.baseline = surface] /\ session' = Consumed(TRUE)
      /\ past' = [past EXCEPT !.kept = surface, !.best = Best(surface)]
      /\ UNCHANGED <<surface, commits, stashes>>
  BY DEF Keep, Keeps
<1>2. session'.at = "head" /\ session' \in Locals
  BY <1>1, ConsumedType
<1>3. /\ data.there /\ surface \in Values /\ data' \in Directory /\ data'.there
      /\ data'.baseline = surface
  BY <1>1 DEF Located, ResearchType, Cleaned, Directory, Measured
<1>4. surface # Unset /\ Score(surface) \in Nat /\ Score(data.baseline) \in Nat
      /\ past.best \in Nat /\ Tax \in Nat \ {0} /\ Best(surface) \in Nat
      /\ Best(surface) = (IF Score(surface) > past.best THEN Score(surface) ELSE past.best)
  <2>1. surface # Unset /\ surface \in Measured /\ data.baseline \in Measured
        /\ past.best \in Nat
    BY <1>3, ResearchAssumption DEF ResearchType, Directory, Measured, History, Unset
  <2>2. Score(surface) \in Nat /\ Score(data.baseline) \in Nat
    BY <2>1, ScoreType
  <2> QED
    BY <2>1, <2>2, ResearchAssumption DEF Best
<1>5. /\ past' \in History /\ past'.kept = surface /\ past'.best = Best(surface)
      /\ past'.resetFailed = past.resetFailed /\ past'.dataLost = past.dataLost
      /\ past'.killed = past.killed
  <2> DEFINE b == Best(surface)
  <2>1. b \in Nat /\ past' = [past EXCEPT !.kept = surface, !.best = b] /\ past \in History
    BY <1>1, <1>4 DEF ResearchType
  <2> HIDE DEF b
  <2>2. past' \in History /\ past'.kept = surface /\ past'.best = b
        /\ past'.resetFailed = past.resetFailed /\ past'.dataLost = past.dataLost
        /\ past'.killed = past.killed
    BY <1>3, <2>1 DEF History
  <2> QED
    BY <2>2 DEF b
<1>6. ~Stashed /\ ~Stashed' /\ Saved = data /\ Saved' = data'
  BY <1>1, <1>2 DEF Stashed, Saved
<1>7. TwoLayers'
  BY <1>1, <1>2, <1>5, <1>6 DEF TwoLayers, Careful, AtRest
<1>8. BestIsKept'
  <2>1. Trusted => Score(surface) = Best(surface)
    <3>1. Trusted => Score(data.baseline) = past.best
      BY <1>1, <1>6 DEF BestIsKept
    <3> QED
      BY <1>1, <1>4, <3>1
  <2>2. Score(past.kept)' = Score(surface) /\ Score(Saved.baseline)' = Score(surface)
    BY <1>3, <1>5, <1>6 DEF Score
  <2>3. Trusted' => Trusted
    BY <1>5 DEF Trusted
  <2>4. Saved'.baseline # Unset /\ past'.best = Best(surface)
    BY <1>3, <1>4, <1>5, <1>6
  <2> QED
    BY <1>4, <2>1, <2>2, <2>3, <2>4 DEF BestIsKept
<1> QED
  BY <1>1, <1>2, <1>3, <1>5, <1>6, <1>7, <1>8 DEF ResearchType, Located

LEMMA RefuseKeeps == ResearchInv /\ Refuse => ResearchInv'
<1> SUFFICES ASSUME ResearchInv, Refuse PROVE ResearchInv'
  OBVIOUS
<1> USE DEF ResearchInv
<1>1. session.at = "committed" /\ session' = [session EXCEPT !.at = "stash"]
      /\ UNCHANGED <<surface, commits, data, stashes, past>>
  BY DEF Refuse
<1>2. session'.at = "stash" /\ session' \in Locals
  BY <1>1, MovesOn DEF Phases
<1>3. ~Stashed /\ ~Stashed' /\ Saved = data /\ Saved' = data
  BY <1>1, <1>2 DEF Stashed, Saved
<1> QED
  BY <1>1, <1>2, <1>3
     DEF ResearchType, Located, TwoLayers, Careful, AtRest, BestIsKept, Trusted, Score

LEMMA StashKeeps == ResearchInv /\ Stash => ResearchInv'
<1> SUFFICES ASSUME ResearchInv, Stash PROVE ResearchInv'
  OBVIOUS
<1> USE DEF ResearchInv
<1>1. /\ session.at = "stash" /\ session' = [session EXCEPT !.at = "reset"]
      /\ UNCHANGED <<surface, commits>> /\ data.there
  BY DEF Stash, Located
<1>2. session'.at = "reset" /\ session' \in Locals
  BY <1>1, MovesOn DEF Phases
<1>3. ~Stashed /\ Saved = data
  BY <1>1 DEF Stashed, Saved
<1>4. CASE stashes' = Append(stashes, data) /\ data' = NoData /\ past' = past
  <2>1. /\ stashes' \in Seq(Directory) /\ Len(stashes') > 0
        /\ stashes'[Len(stashes')] = data
    BY <1>4 DEF ResearchType
  <2>2. data' \in Directory /\ ~data'.there
    BY <1>4 DEF NoData, Directory, Measured
  <2>3. Stashed' /\ Saved' = data
    BY <1>2, <2>1, <2>2 DEF Stashed, Saved
  <2> QED
    BY <1>1, <1>2, <1>3, <1>4, <2>1, <2>2, <2>3
       DEF ResearchType, Located, TwoLayers, Careful, AtRest, BestIsKept, Trusted, Score, NoData
<1>5. CASE past' = Failed /\ UNCHANGED <<data, stashes>>
  <2>1. /\ past' \in History /\ past'.kept = past.kept /\ past'.best = past.best
        /\ past'.resetFailed = past.resetFailed /\ past'.dataLost = past.dataLost
        /\ past'.killed = past.killed
    BY <1>5, FailedType
  <2>2. ~Stashed' /\ Saved' = data
    BY <1>1, <1>5 DEF Stashed, Saved
  <2> QED
    BY <1>1, <1>2, <1>3, <1>5, <2>1, <2>2
       DEF ResearchType, Located, TwoLayers, Careful, AtRest, BestIsKept, Trusted, Score
<1> QED
  BY <1>4, <1>5 DEF Stash

LEMMA ResetKeeps == ResearchInv /\ ResetHard => ResearchInv'
<1> SUFFICES ASSUME ResearchInv, ResetHard PROVE ResearchInv'
  OBVIOUS
<1> USE DEF ResearchInv
<1>1. /\ session.at = "reset" /\ session' = [session EXCEPT !.at = "pop"]
      /\ UNCHANGED <<data, stashes>>
  BY DEF ResetHard
<1>2. session'.at = "pop" /\ session' \in Locals
  BY <1>1, MovesOn DEF Phases
<1>3. (Stashed' <=> Stashed) /\ Saved' = Saved
  BY <1>1, <1>2 DEF Stashed, Saved
<1>4. CASE /\ commits' = SubSeq(commits, 1, Len(commits) - 1)
           /\ surface' = commits[Len(commits) - 1] /\ past' = past
  <2> DEFINE n == Len(commits) - 1
  <2>1. commits \in Seq(Values) /\ n \in Nat \ {0} /\ n \in 1 .. Len(commits)
        /\ \A i \in 1 .. n : commits[i] \in Values
    BY <1>1, ElementOfSeq, LenProperties DEF ResearchType
  <2> HIDE DEF n
  <2>2. /\ SubSeq(commits, 1, n) \in Seq(Values) /\ Len(SubSeq(commits, 1, n)) = n
        /\ SubSeq(commits, 1, n)[n] = commits[n]
    <3>1. /\ SubSeq(commits, 1, n) \in Seq(Values)
          /\ Len(SubSeq(commits, 1, n)) = IF 1 <= n THEN n - 1 + 1 ELSE 0
          /\ \A i \in 1 .. n - 1 + 1 : SubSeq(commits, 1, n)[i] = commits[1 + i - 1]
      BY <2>1, SubSeqProperties
    <3>2. n - 1 + 1 = n /\ 1 + n - 1 = n /\ 1 <= n /\ n \in 1 .. n
      BY <2>1
    <3> QED
      BY <3>1, <3>2
  <2>3. /\ commits' \in Seq(Values) /\ Len(commits') > 0 /\ surface' \in Values
        /\ commits'[Len(commits')] = surface' /\ surface' = commits[Len(commits) - 1]
    BY <1>4, <2>1, <2>2 DEF n
  <2> QED
    BY <1>1, <1>2, <1>3, <1>4, <2>3
       DEF ResearchType, Located, TwoLayers, Careful, AtRest, BestIsKept, Trusted, Score
<1>5. CASE past' = [Failed EXCEPT !.resetFailed = TRUE] /\ UNCHANGED <<surface, commits>>
  <2>1. /\ past' \in History /\ past'.kept = past.kept /\ past'.best = past.best
        /\ past'.resetFailed /\ past'.dataLost = past.dataLost
        /\ past'.killed = past.killed
    BY <1>5, FailedType DEF History
  <2>2. ResearchType' /\ Located'
    BY <1>1, <1>2, <1>3, <1>5, <2>1 DEF ResearchType, Located
  <2>3. TwoLayers'
    BY <1>1, <1>2, <1>3, <1>5, <2>1 DEF TwoLayers, Careful, AtRest, Located
  <2>4. BestIsKept'
    BY <1>1, <1>2, <1>3, <1>5, <2>1 DEF BestIsKept, Trusted, Score
  <2> QED
    BY <2>2, <2>3, <2>4
<1> QED
  BY <1>4, <1>5 DEF ResetHard

LEMMA PopKeeps == ResearchInv /\ Pop => ResearchInv'
<1> SUFFICES ASSUME ResearchInv, Pop PROVE ResearchInv'
  OBVIOUS
<1> USE DEF ResearchInv
<1>1. /\ session.at = "pop" /\ session' = [session EXCEPT !.at = "restore"]
      /\ UNCHANGED <<surface, commits>>
  BY DEF Pop
<1>2. session'.at = "restore" /\ session' \in Locals
  BY <1>1, MovesOn DEF Phases
<1>3. ~Stashed' /\ Saved' = data' /\ (Stashed <=> ~data.there)
  BY <1>1, <1>2 DEF Stashed, Saved
<1>4. CASE /\ ~data.there /\ data' = stashes[Len(stashes)] /\ past' = past
           /\ stashes' = SubSeq(stashes, 1, Len(stashes) - 1)
  <2>1. Stashed /\ Saved = stashes[Len(stashes)] /\ Len(stashes) > 0 /\ data'.there
    BY <1>3, <1>4 DEF Saved, Located
  <2>2. stashes \in Seq(Directory) /\ Len(stashes) \in Nat
        /\ \A i \in 1 .. Len(stashes) : stashes[i] \in Directory
    BY ElementOfSeq, LenProperties DEF ResearchType
  <2>3. data' \in Directory
    BY <1>4, <2>1, <2>2
  <2>4. stashes' \in Seq(Directory)
    BY <1>4, <2>2, SubSeqProperties
  <2> QED
    BY <1>1, <1>2, <1>3, <1>4, <2>1, <2>3, <2>4
       DEF ResearchType, Located, TwoLayers, Careful, AtRest, BestIsKept, Trusted, Score
<1>5. CASE data.there /\ UNCHANGED <<data, stashes, past>>
  <2>1. Saved = data
    BY <1>5 DEF Saved, Stashed
  <2> QED
    BY <1>1, <1>2, <1>3, <1>5, <2>1
       DEF ResearchType, Located, TwoLayers, Careful, AtRest, BestIsKept, Trusted, Score
<1>6. CASE /\ ~data.there /\ past' = [Failed EXCEPT !.dataLost = TRUE]
           /\ UNCHANGED <<data, stashes>>
  <2>1. /\ past' \in History /\ past'.kept = past.kept /\ past'.best = past.best
        /\ past'.resetFailed = past.resetFailed /\ past'.dataLost
        /\ past'.killed = past.killed
    BY <1>6, FailedType DEF History
  <2>2. ResearchType' /\ Located' /\ data = NoData
    BY <1>1, <1>2, <1>3, <1>6, <2>1 DEF ResearchType, Located
  <2>3. TwoLayers'
    BY <1>1, <1>2, <1>3, <1>6, <2>1 DEF TwoLayers, Careful, AtRest
  <2>4. BestIsKept'
    <3>1. Trusted' => ~past.killed /\ Trusted
      BY <2>1 DEF Trusted
    <3> QED
      BY <1>2, <1>3, <1>6, <2>1, <2>2, <3>1 DEF BestIsKept, Score, NoData
  <2> QED
    BY <2>2, <2>3, <2>4
<1> QED
  BY <1>4, <1>5, <1>6 DEF Pop

LEMMA RestoreKeeps == ResearchInv /\ Restore => ResearchInv'
<1> SUFFICES ASSUME ResearchInv, Restore PROVE ResearchInv'
  OBVIOUS
<1> USE DEF ResearchInv
<1>1. /\ session.at = "restore" /\ surface' = Restored /\ data' = Cleaned
      /\ session' = IF data.there THEN Consumed(FALSE) ELSE NoSession
      /\ UNCHANGED <<commits, stashes, past>>
  BY DEF Restore
<1>2. session' \in Locals /\ session'.at = IF data.there THEN "head" ELSE "off"
  BY <1>1, ConsumedType DEF Locals, NoSession, Phases, Measured
<1>3. data \in Directory /\ data' \in Directory /\ data'.there = data.there
      /\ data'.baseline = data.baseline /\ (data.there \/ data' = NoData)
  <2>1. data \in Directory /\ (data.there \/ data = NoData)
    BY DEF ResearchType
  <2>2. data' = [data EXCEPT !.snapshot = Unset]
    BY <1>1 DEF Cleaned
  <2>3. data = NoData => data' = NoData
    <3>1. [NoData EXCEPT !.snapshot = Unset] = NoData
      BY DEF NoData, Unset
    <3> QED
      BY <2>2, <3>1
  <2>4. Unset \in Measured
    BY DEF Measured
  <2>5. data' \in Directory
    BY <2>1, <2>2, <2>4 DEF Directory
  <2>6. data'.there = data.there /\ data'.baseline = data.baseline
    BY <2>1, <2>2 DEF Directory
  <2> QED
    BY <2>1, <2>3, <2>5, <2>6
<1>4. ~Stashed /\ ~Stashed' /\ Saved = data /\ Saved' = data'
  BY <1>1, <1>2 DEF Stashed, Saved
<1>5. surface' \in Values
  BY <1>1, <1>3 DEF Restored, ResearchType, Directory, Measured
<1>6. ResearchType'
  BY <1>1, <1>2, <1>3, <1>5 DEF ResearchType
<1>7. Located'
  BY <1>2, <1>3, <1>4 DEF Located
<1>8. Careful => surface' = past.kept
  <2>1. CASE data.there
    <3>1. past.kept # Unset
      BY ResearchAssumption DEF ResearchType, History, Unset
    <3> QED
      BY <1>1, <2>1, <3>1 DEF TwoLayers, Restored
  <2>2. CASE ~data.there
    <3>1. past.dataLost /\ data = NoData
      BY <1>1, <2>2 DEF Located, ResearchType
    <3> QED
      BY <1>1, <3>1 DEF TwoLayers, Careful, Restored, NoData
  <2> QED
    BY <2>1, <2>2
<1>9. TwoLayers'
  BY <1>1, <1>2, <1>8 DEF TwoLayers, Careful, AtRest
<1>10. BestIsKept'
  BY <1>1, <1>2, <1>3, <1>4 DEF BestIsKept, Trusted, Score
<1> QED
  BY <1>6, <1>7, <1>9, <1>10

LEMMA KillKeeps == ResearchInv /\ Kill => ResearchInv'
<1> SUFFICES ASSUME ResearchInv, Kill PROVE ResearchInv'
  OBVIOUS
<1> USE DEF ResearchInv
<1>1. /\ session.at # "off" /\ session' = NoSession
      /\ past' = [past EXCEPT !.killed = TRUE, !.dataLost = @ \/ ~data.there]
      /\ UNCHANGED <<surface, commits, data, stashes>>
  BY DEF Kill
<1>2. session' \in Locals /\ session'.at = "off"
  BY <1>1 DEF Locals, NoSession, Phases, Measured
<1>3. /\ past' \in History /\ past'.kept = past.kept /\ past'.best = past.best
      /\ past'.resetFailed = past.resetFailed /\ past'.killed
      /\ past'.dataLost = (past.dataLost \/ ~data.there)
  BY <1>1 DEF ResearchType, History, Directory
<1>4. ~Stashed' /\ Saved' = data
  BY <1>1, <1>2 DEF Stashed, Saved
<1>5. ResearchType' /\ Located' /\ TwoLayers'
  BY <1>1, <1>2, <1>3, <1>4 DEF ResearchType, Located, TwoLayers, Careful
<1>6. BestIsKept'
  <2>1. Trusted' => Trusted /\ data.there
    BY <1>3 DEF Trusted
  <2>2. data.there => Saved = data
    BY DEF Saved, Stashed
  <2> QED
    BY <1>1, <1>2, <1>3, <1>4, <2>1, <2>2 DEF BestIsKept, Score
<1> QED
  BY <1>5, <1>6

LEMMA ResearchStep == ResearchInv /\ [ResearchNext]_rvars => ResearchInv'
<1>1. ResearchInv /\ UNCHANGED rvars => ResearchInv'
  BY DEF rvars, ResearchInv, ResearchType, Located, TwoLayers, Careful, AtRest, BestIsKept,
         Trusted, Score, Stashed, Saved
<1> QED
  BY <1>1, BeginKeeps, EndKeeps, EditKeeps, CommitKeeps, CommitFailsKeeps, KeepKeeps,
     RefuseKeeps, StashKeeps, ResetKeeps, PopKeeps, RestoreKeeps, KillKeeps DEF ResearchNext

(***************************************************************************)
(* Between experiments the file holds the value kept last, whichever layer *)
(* of the revert failed, unless a reset failed and the data directory was  *)
(* lost, or the process was killed: for any values, scores and guardrails  *)
(* and any number of experiments, sessions and git failures.               *)
(* git_manager.py:1-5, config_snapshot.py:11.                              *)
(***************************************************************************)
THEOREM RefusedExperimentsLeaveNoTrace == ResearchSpec => []SurfaceRestored
<1>1. ResearchInv => SurfaceRestored
  BY DEF ResearchInv, TwoLayers, Careful, SurfaceRestored
<1> QED
  BY <1>1, ResearchInitInv, ResearchStep, PTL DEF ResearchSpec

(***************************************************************************)
(* The baseline is the best value ever recorded, over sessions, kills and  *)
(* failing git commands, as long as the data directory was not lost while  *)
(* an experiment was in the file.  baseline_store.py:8-13.                 *)
(***************************************************************************)
THEOREM TheRatchetHolds == ResearchSpec => []BaselineRatchets
<1>1. ResearchInv => BaselineRatchets
  <2> SUFFICES ASSUME ResearchInv, data.baseline # Unset, Trusted
               PROVE  Score(data.baseline) = past.best
    BY DEF BaselineRatchets, Trusted
  <2>1. data.there
    BY DEF ResearchInv, ResearchType, NoData
  <2> QED
    BY <2>1 DEF ResearchInv, BestIsKept, Saved, Stashed
<1> QED
  BY <1>1, ResearchInitInv, ResearchStep, PTL DEF ResearchSpec

-----------------------------------------------------------------------------
(***************************************************************************)
(* The circuit breaker.  All of its safety properties follow from one      *)
(* inductive invariant.  Two of its conjuncts are not properties of their  *)
(* own: while the breaker is half-open the turns admitted are at most the  *)
(* trials counted, and outside the open state the latest opening lies a    *)
(* whole recovery timeout back.  The second is why a recovered breaker may *)
(* admit turns at once.                                                    *)
(***************************************************************************)
TrialsCovered == circuit = "half_open" => admitted <= trials

OpeningIsOver ==
    circuit # "open" => sinceOpening = Never \/ sinceOpening > RecoveryTimeout

BreakerInv ==
    /\ BreakerTypeOK
    /\ ClosedBelowThreshold
    /\ OpenIsTimed
    /\ TrialsLimited
    /\ TrialsCovered
    /\ OpeningIsOver

(* What the gate works with: an open breaker only half-opens once the wait *)
(* is over, and then with fresh counts.                                    *)
LEMMA AtTheGate ==
    ASSUME BreakerInv
    PROVE  /\ StateAtGate \in {"closed", "open", "half_open"}
           /\ StateAtGate = "open" => circuit = "open"
           /\ StateAtGate = "closed" => circuit = "closed"
           /\ StateAtGate = "half_open" => failureCount = FailureThreshold
           /\ TrialsAtGate \in 0 .. HalfOpenTestLimit
           /\ AdmittedAtGate \in Nat
           /\ AdmittedAtGate <= HalfOpenTestLimit
           /\ StateAtGate = "half_open" => AdmittedAtGate <= TrialsAtGate
           /\ StateAtGate # "open" =>
                 sinceOpening = Never \/ sinceOpening > RecoveryTimeout
BY BreakerAssumption
   DEF BreakerInv, BreakerTypeOK, ClosedBelowThreshold, OpenIsTimed, TrialsLimited,
       TrialsCovered, OpeningIsOver, StateAtGate, TrialsAtGate,
       AdmittedAtGate, Recovers, TimedOut, Never

LEMMA OneMoreType ==
    ASSUME NEW count \in 0 .. FailureThreshold
    PROVE  /\ OneMore(count) \in 1 .. FailureThreshold
           /\ count >= FailureThreshold => OneMore(count) = FailureThreshold
BY BreakerAssumption DEF OneMore

LEMMA InitBreaker == BreakerInit => BreakerInv
BY BreakerAssumption
   DEF BreakerInit, BreakerInv, BreakerTypeOK, ClosedBelowThreshold, OpenIsTimed,
       TrialsLimited, TrialsCovered, OpeningIsOver, Never

LEMMA CheckBeforeKeeps ==
    ASSUME BreakerInv, NEW t \in Turns, NEW risky \in BOOLEAN,
           CheckBefore(t, risky)
    PROVE  BreakerInv'
<1> USE BreakerAssumption DEF BreakerInv
<1>1. turn' \in [Turns -> {"arriving", "detecting", "exited", "passed"}]
  BY DEF CheckBefore, RefuseOpen, RefuseTrial, RefuseRisky, Admit, BreakerTypeOK
<1>2. failureCount \in 0 .. FailureThreshold
  BY DEF BreakerTypeOK
<1>3. CASE RefuseOpen(t)
  BY <1>1, <1>3, AtTheGate
     DEF RefuseOpen, breaker, BreakerTypeOK, ClosedBelowThreshold, OpenIsTimed,
         TrialsLimited, TrialsCovered, OpeningIsOver
<1>4. CASE RefuseTrial(t)
  BY <1>1, <1>4, AtTheGate
     DEF RefuseTrial, Open, BreakerTypeOK, ClosedBelowThreshold, OpenIsTimed,
         TrialsLimited, TrialsCovered, OpeningIsOver, Never
<1>5. ASSUME MayTry PROVE Tried \in 0 .. HalfOpenTestLimit
  BY <1>5, AtTheGate DEF MayTry, Tried, LimitReached
<1>6. CASE RefuseRisky(t)
  BY <1>1, <1>2, <1>5, <1>6, AtTheGate, OneMoreType
     DEF RefuseRisky, Open, BreakerTypeOK, ClosedBelowThreshold, OpenIsTimed,
         TrialsLimited, TrialsCovered, OpeningIsOver, Never
<1>7. CASE Admit(t, risky)
  <2>1. /\ circuit' = StateAtGate /\ StateAtGate # "open"
        /\ trials' = Tried /\ Tried \in 0 .. HalfOpenTestLimit
    BY <1>5, <1>7 DEF Admit, MayTry
  <2>2. /\ failureCount' \in 0 .. FailureThreshold
        /\ circuit' = "closed" <=> failureCount' < FailureThreshold
    BY <1>2, <1>7, <2>1, AtTheGate, OneMoreType
       DEF Admit, ClosedBelowThreshold
  <2>3. /\ admitted' \in Nat /\ admitted' <= HalfOpenTestLimit
        /\ circuit' = "half_open" => admitted' <= trials'
    BY <1>7, AtTheGate DEF Admit, MayTry, LimitReached, Tried
  <2> QED
    BY <1>1, <1>7, <2>1, <2>2, <2>3, AtTheGate
       DEF Admit, BreakerTypeOK, ClosedBelowThreshold, OpenIsTimed, TrialsLimited,
           TrialsCovered, OpeningIsOver
<1> QED
  BY <1>3, <1>4, <1>6, <1>7 DEF CheckBefore

LEMMA ReportDriftKeeps ==
    ASSUME BreakerInv, NEW t \in Turns, ReportDrift(t)
    PROVE  BreakerInv'
<1> USE BreakerAssumption DEF BreakerInv
<1>1. turn' \in [Turns -> {"arriving", "detecting", "exited", "passed"}]
  BY DEF ReportDrift, BreakerTypeOK
<1>2. failureCount' \in 1 .. FailureThreshold
      /\ (failureCount >= FailureThreshold => failureCount' = FailureThreshold)
  BY OneMoreType DEF ReportDrift, BreakerTypeOK
<1> QED
  BY <1>1, <1>2
     DEF ReportDrift, BreakerTypeOK, ClosedBelowThreshold, OpenIsTimed,
         TrialsLimited, TrialsCovered, OpeningIsOver, Never

LEMMA ReportCleanKeeps ==
    ASSUME BreakerInv, NEW t \in Turns, ReportClean(t)
    PROVE  BreakerInv'
<1> USE BreakerAssumption DEF BreakerInv
<1>1. turn' \in [Turns -> {"arriving", "detecting", "exited", "passed"}]
  BY DEF ReportClean, BreakerTypeOK
<1> QED
  BY <1>1
     DEF ReportClean, Forgives, BreakerTypeOK, ClosedBelowThreshold, OpenIsTimed,
         TrialsLimited, TrialsCovered, OpeningIsOver, Never

LEMMA TickKeeps == BreakerInv /\ BreakerTick => BreakerInv'
BY BreakerAssumption
   DEF BreakerInv, BreakerTick, Older, BreakerTypeOK, ClosedBelowThreshold, OpenIsTimed,
       TrialsLimited, TrialsCovered, OpeningIsOver, Never

LEMMA StepBreaker == BreakerInv /\ [BreakerNext]_bvars => BreakerInv'
<1> SUFFICES ASSUME BreakerInv, [BreakerNext]_bvars PROVE BreakerInv'
  OBVIOUS
<1> USE BreakerAssumption
        DEF BreakerInv, BreakerTypeOK, ClosedBelowThreshold, OpenIsTimed,
            TrialsLimited, TrialsCovered, OpeningIsOver
<1>1. ASSUME NEW t \in Turns, DetectionFails(t) PROVE BreakerInv'
  BY <1>1 DEF DetectionFails, breaker
<1>2. ASSUME NEW t \in Turns, Arrive(t) PROVE BreakerInv'
  BY <1>2 DEF Arrive, breaker
<1>3. CASE ResetBreaker
  BY <1>3 DEF ResetBreaker, Never
<1>4. CASE UNCHANGED bvars
  BY <1>4 DEF bvars, breaker
<1> QED
  BY <1>1, <1>2, <1>3, <1>4, CheckBeforeKeeps, ReportDriftKeeps,
     ReportCleanKeeps, TickKeeps
     DEF BreakerNext

LEMMA BreakerInvariant == BreakerSpec => []BreakerInv
BY InitBreaker, StepBreaker, PTL DEF BreakerSpec

(***************************************************************************)
(* The type invariant.                                                     *)
(***************************************************************************)
THEOREM BreakerIsTyped == BreakerSpec => []BreakerTypeOK
BY BreakerInvariant, PTL DEF BreakerInv

(***************************************************************************)
(* The breaker is closed exactly while its failure count is below the      *)
(* threshold.                                                              *)
(***************************************************************************)
THEOREM StateFitsCount == BreakerSpec => []ClosedBelowThreshold
BY BreakerInvariant, PTL DEF BreakerInv

(***************************************************************************)
(* An open breaker can always time out: it knows when it last failed.      *)
(***************************************************************************)
THEOREM NeverStuckOpen == BreakerSpec => []OpenIsTimed
BY BreakerInvariant, PTL DEF BreakerInv

(***************************************************************************)
(* A recovery attempt admits at most half_open_test_limit turns.           *)
(***************************************************************************)
THEOREM RecoveryIsLimited == BreakerSpec => []TrialsLimited
BY BreakerInvariant, PTL DEF BreakerInv

(***************************************************************************)
(* After an opening no turn is admitted before the recovery timeout: the   *)
(* only step that admits one is Admit, whose state at the gate is not      *)
(* open, and OpeningIsOver or the expired timeout gives the age.           *)
(***************************************************************************)
THEOREM OpeningHoldsTurnsBack == BreakerSpec => WaitsOutRecovery
<1>1. ASSUME BreakerInv, [BreakerNext]_bvars, NEW t \in Turns,
             turn[t] # "detecting", turn'[t] = "detecting"
      PROVE  sinceOpening = Never \/ sinceOpening > RecoveryTimeout
  <2>1. turn \in [Turns -> {"arriving", "detecting", "exited", "passed"}]
    BY <1>1 DEF BreakerInv, BreakerTypeOK
  <2>2. PICK u \in Turns, risky \in BOOLEAN : Admit(u, risky)
    BY <1>1, <2>1
       DEF BreakerNext, CheckBefore, RefuseOpen, RefuseTrial, RefuseRisky,
           ReportDrift, ReportClean, DetectionFails, Arrive, ResetBreaker, BreakerTick,
           bvars
  <2> QED
    BY <1>1, <2>2, AtTheGate DEF Admit, MayTry
<1>2. BreakerInv /\ [BreakerNext]_bvars =>
         [\A t \in Turns :
             turn[t] # "detecting" /\ turn'[t] = "detecting" =>
                 sinceOpening = Never \/ sinceOpening > RecoveryTimeout]_bvars
  BY <1>1
<1> QED
  BY <1>2, BreakerInvariant, PTL DEF BreakerSpec, WaitsOutRecovery

(***************************************************************************)
(* Only reset closes an open breaker.                                      *)
(***************************************************************************)
THEOREM OperatorClosesOpen == BreakerSpec => OnlyResetClosesOpen
<1>1. BreakerInv /\ [BreakerNext]_bvars =>
         [circuit = "open" /\ circuit' = "closed" => sinceFailure' = Never]_bvars
  <2> SUFFICES ASSUME BreakerInv, [BreakerNext]_bvars, circuit = "open",
                      circuit' = "closed"
               PROVE  sinceFailure' = Never
    OBVIOUS
  <2>1. ASSUME NEW t \in Turns, NEW risky \in BOOLEAN, CheckBefore(t, risky)
        PROVE  FALSE
    BY <2>1, AtTheGate
       DEF CheckBefore, RefuseOpen, RefuseTrial, RefuseRisky, Admit, Open,
           breaker
  <2>2. CASE ResetBreaker
    BY <2>2 DEF ResetBreaker
  <2> QED
    BY <2>1, <2>2
       DEF BreakerNext, ReportDrift, ReportClean, DetectionFails, Arrive, BreakerTick,
           bvars, breaker
<1> QED
  BY <1>1, BreakerInvariant, PTL DEF BreakerSpec, OnlyResetClosesOpen
=============================================================================
