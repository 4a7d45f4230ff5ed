-------------------------- MODULE KillSwitch_proofs --------------------------
(***************************************************************************)
(* Proofs about KillSwitch for every value of its constants.               *)
(***************************************************************************)
EXTENDS KillSwitch, TLAPS

(* Trimming a log keeps it a log of the same events, of bounded length. *)
LEMMA LogEventType ==
    ASSUME NEW trigger \in Causes \cup {None}, NEW before \in States,
           NEW after \in States, log \in Seq(Events),
           LogEvent(trigger, before, after)
    PROVE  log' \in Seq(Events) /\ Len(log') <= MaxLog /\ log' # << >>
           /\ Last(log') = [trigger |-> trigger, before |-> before, after |-> after]
<1> DEFINE e == [trigger |-> trigger, before |-> before, after |-> after]
           l == Append(log, e)
<1>1. e \in Events
  BY DEF Events
<1>2. l \in Seq(Events) /\ Len(l) = Len(log) + 1 /\ l[Len(l)] = e
  BY <1>1
<1>3. MaxLog \in Nat \ {0} /\ Len(log) \in Nat
  BY KillSwitchAssumption
<1>4. CASE Len(l) > MaxLog
  <2> DEFINE m == Len(l) - MaxLog + 1
  <2>1. log' = SubSeq(l, m, Len(l))
    BY <1>4 DEF LogEvent
  <2>2. m \in 1 .. Len(l)
    BY <1>2, <1>3, <1>4
  <2> HIDE DEF l, m
  <2>3. /\ SubSeq(l, m, Len(l)) \in Seq(Events)
        /\ Len(SubSeq(l, m, Len(l))) = Len(l) - m + 1
        /\ SubSeq(l, m, Len(l))[Len(l) - m + 1] = l[Len(l)]
    BY <1>2, <1>3, <2>2
  <2>4. Len(l) - m + 1 = MaxLog
    BY <1>2, <1>3 DEF m
  <2> QED
    BY <1>2, <1>3, <2>1, <2>3, <2>4 DEF Last
<1>5. CASE ~(Len(l) > MaxLog)
  <2>1. log' = l
    BY <1>5 DEF LogEvent
  <2> QED
    BY <1>2, <1>3, <1>5, <2>1 DEF Last
<1> QED
  BY <1>4, <1>5

(***************************************************************************)
(* The type invariant, which also bounds the audit log.                    *)
(***************************************************************************)
THEOREM TypeCorrect == Spec => []TypeOK
<1>1. Init => TypeOK
  BY KillSwitchAssumption DEF Init, TypeOK, States, NoTime
<1>2. TypeOK /\ [Next]_vars => TypeOK'
  <2> SUFFICES ASSUME TypeOK, [Next]_vars PROVE TypeOK'
    OBVIOUS
  <2> USE KillSwitchAssumption
  <2>1. ASSUME NEW risk \in Readings, NEW tmeta \in Readings,
               EvaluateNaN(risk, tmeta)
        PROVE  TypeOK'
    BY <2>1, LogEventType
       DEF EvaluateNaN, Trigger, TypeOK, States, Causes, vars
  <2>2. ASSUME NEW risk \in Readings, NEW tmeta \in Readings,
               EvaluateIdle(risk, tmeta)
        PROVE  TypeOK'
    BY <2>2 DEF EvaluateIdle, TypeOK, vars
  <2>3. ASSUME NEW risk \in Readings, NEW tmeta \in Readings,
               NEW detected \in BOOLEAN,
               EvaluateMeasured(risk, tmeta, detected)
        PROVE  TypeOK'
    <3>1. drift' \in Nat /\ now' \in Nat /\ cooldownUntil' \in Nat \cup {NoTime}
      BY <2>3 DEF EvaluateMeasured, NextDrift, TypeOK
    <3>2. Rearmed \in States
      BY DEF Rearmed, TypeOK, States
    <3>3. Verdict(risk, tmeta, detected) \in Causes \cup {None}
      BY <2>3 DEF Verdict, Causes, Readings, EvaluateMeasured
    <3>4. state' \in States /\ triggeredAt' \in Nat \cup {NoTime}
      BY <2>3, <3>2 DEF EvaluateMeasured, Trigger, TypeOK, States
    <3>5. log' \in Seq(Events) /\ Len(log') <= MaxLog
      BY <2>3, <3>2, <3>3, LogEventType
         DEF EvaluateMeasured, Trigger, TypeOK, States
    <3> QED
      BY <3>1, <3>4, <3>5 DEF TypeOK
  <2>4. CASE ManualTrigger
    BY <2>4, LogEventType DEF ManualTrigger, Trigger, TypeOK, States, Causes
  <2>5. CASE Reset
    BY <2>5, LogEventType DEF Reset, TypeOK, States
  <2>6. CASE Disarm
    BY <2>6, LogEventType DEF Disarm, TypeOK, States
  <2>7. CASE Arm
    BY <2>7, LogEventType DEF Arm, TypeOK, States
  <2>8. CASE Tick
    BY <2>8 DEF Tick, TypeOK
  <2>9. CASE UNCHANGED vars
    BY <2>9 DEF vars, TypeOK
  <2> QED
    BY <2>1, <2>2, <2>3, <2>4, <2>5, <2>6, <2>7, <2>8, <2>9
       DEF Next, Evaluate
<1> QED
  BY <1>1, <1>2, PTL DEF Spec

(***************************************************************************)
(* DriftBounded is inductive given the types: the only step that raises    *)
(* the counter is a measured evaluation, which starts from a watching      *)
(* switch (so from at most DriftMax) and either triggers or has compared   *)
(* the new count with DriftMax.                                            *)
(***************************************************************************)
LEMMA VerdictNone ==
    ASSUME NEW risk \in Readings, NEW tmeta \in Readings,
           NEW detected \in BOOLEAN, "nan" \notin {risk, tmeta},
           Verdict(risk, tmeta, detected) = None
    PROVE  ~(NextDrift(detected) > DriftMax)
BY DEF Verdict, None, Readings

THEOREM SustainedDriftTriggers == Spec => []DriftBounded
<1>1. Init => DriftBounded
  BY KillSwitchAssumption DEF Init, DriftBounded
<1>2. TypeOK /\ DriftBounded /\ [Next]_vars => DriftBounded'
  <2> SUFFICES ASSUME TypeOK, DriftBounded, [Next]_vars, FailClosed
               PROVE  /\ drift' <= DriftMax + 1
                      /\ state' \in Watching => drift' <= DriftMax
    BY DEF DriftBounded
  <2> USE KillSwitchAssumption DEF DriftBounded, TypeOK
  <2>1. ASSUME NEW risk \in Readings, NEW tmeta \in Readings,
               NEW detected \in BOOLEAN,
               EvaluateMeasured(risk, tmeta, detected)
        PROVE  /\ drift' <= DriftMax + 1
               /\ state' \in Watching => drift' <= DriftMax
    <3>1. drift' \in Nat /\ drift' <= DriftMax + 1
      BY <2>1 DEF EvaluateMeasured, NextDrift
    <3>2. CASE Verdict(risk, tmeta, detected) = None
      BY <2>1, <3>1, <3>2, VerdictNone DEF EvaluateMeasured
    <3>3. CASE Verdict(risk, tmeta, detected) # None
      BY <2>1, <3>1, <3>3 DEF EvaluateMeasured, Trigger, Watching
    <3> QED
      BY <3>2, <3>3
  <2>2. ASSUME NEW risk \in Readings, NEW tmeta \in Readings,
               EvaluateNaN(risk, tmeta) \/ EvaluateIdle(risk, tmeta)
        PROVE  /\ drift' <= DriftMax + 1
               /\ state' \in Watching => drift' <= DriftMax
    BY <2>2 DEF EvaluateNaN, EvaluateIdle, Trigger, Watching, vars
  <2>3. CASE ManualTrigger \/ Reset \/ Disarm \/ Arm
    BY <2>3 DEF ManualTrigger, Reset, Disarm, Arm, Trigger, Watching
  <2>4. CASE Tick \/ UNCHANGED vars
    BY <2>4 DEF Tick, vars
  <2> QED
    BY <2>1, <2>2, <2>3, <2>4 DEF Next, Evaluate
<1> QED
  BY <1>1, <1>2, TypeCorrect, PTL DEF Spec

(***************************************************************************)
(* TimesConsistent is inductive as well: only a trigger writes             *)
(* triggeredAt, and only a reset out of "triggered" enters "cooldown".     *)
(***************************************************************************)
THEOREM CooldownIsWhole == Spec => []TimesConsistent
<1>1. Init => TimesConsistent
  BY DEF Init, TimesConsistent, NoTime
<1>2. TypeOK /\ TimesConsistent /\ [Next]_vars => TimesConsistent'
  <2> SUFFICES ASSUME TypeOK, TimesConsistent, [Next]_vars
               PROVE  TimesConsistent'
    OBVIOUS
  <2> USE KillSwitchAssumption DEF TypeOK, TimesConsistent, NoTime
  <2>1. ASSUME NEW risk \in Readings, NEW tmeta \in Readings,
               NEW detected \in BOOLEAN,
               EvaluateMeasured(risk, tmeta, detected)
        PROVE  TimesConsistent'
    <3>1. CASE state' = "triggered"
      BY <2>1, <3>1 DEF EvaluateMeasured, Trigger, Watching, Rearmed
    <3>2. CASE state' # "triggered"
      <4>1. state' = Rearmed /\ UNCHANGED <<triggeredAt, now>>
        BY <2>1, <3>2 DEF EvaluateMeasured, Trigger
      <4> QED
        BY <2>1, <4>1 DEF EvaluateMeasured, Rearmed, CooldownOver
    <3> QED
      BY <3>1, <3>2
  <2>2. ASSUME NEW risk \in Readings, NEW tmeta \in Readings,
               EvaluateNaN(risk, tmeta) \/ EvaluateIdle(risk, tmeta)
        PROVE  TimesConsistent'
    BY <2>2 DEF EvaluateNaN, EvaluateIdle, Trigger, vars
  <2>3. CASE ManualTrigger
    BY <2>3 DEF ManualTrigger, Trigger
  <2>4. CASE Reset
    BY <2>4 DEF Reset
  <2>5. CASE Disarm \/ Arm
    BY <2>5 DEF Disarm, Arm
  <2>6. CASE Tick \/ UNCHANGED vars
    BY <2>6 DEF Tick, vars
  <2> QED
    BY <2>1, <2>2, <2>3, <2>4, <2>5, <2>6 DEF Next, Evaluate
<1> QED
  BY <1>1, <1>2, TypeCorrect, PTL DEF Spec

(***************************************************************************)
(* Every step out of "triggered" is one of the operator's three calls.     *)
(***************************************************************************)
THEOREM OnlyOperatorsRelease == Spec => ReleaseIsAudited
<1>1. TypeOK /\ [Next]_vars =>
        [state = "triggered" /\ state' # "triggered" =>
          /\ Last(log') = [trigger |-> None, before |-> "triggered",
                           after |-> state']
          /\ state' \in Watching => drift' = 0]_vars
  <2> SUFFICES ASSUME TypeOK, Next, state = "triggered", state' # "triggered"
               PROVE  /\ Last(log') = [trigger |-> None, before |-> "triggered",
                                       after |-> state']
                      /\ state' \in Watching => drift' = 0
    OBVIOUS
  <2> USE DEF TypeOK
  <2>1. ASSUME NEW risk \in Readings, NEW tmeta \in Readings,
               NEW detected \in BOOLEAN, Evaluate(risk, tmeta, detected)
        PROVE  FALSE
    BY <2>1 DEF Evaluate, EvaluateNaN, EvaluateIdle, EvaluateMeasured,
                Trigger, Watching, vars
  <2>2. CASE ManualTrigger \/ Tick
    BY <2>2 DEF ManualTrigger, Trigger, Tick
  <2>3. CASE Reset
    BY <2>3, LogEventType DEF Reset, States
  <2>4. CASE Disarm
    BY <2>4, LogEventType DEF Disarm, States, Watching
  <2>5. CASE Arm
    BY <2>5, LogEventType DEF Arm, States
  <2> QED
    BY <2>1, <2>2, <2>3, <2>4, <2>5 DEF Next
<1> QED
  BY <1>1, TypeCorrect, PTL DEF Spec, ReleaseIsAudited

(***************************************************************************)
(* The audit chain.  LogEvent extends a chained log by an event whose      *)
(* first state follows the state the log ended in; trimming drops whole    *)
(* links from the front.                                                   *)
(***************************************************************************)
Chained(l) == \A i \in 1 .. Len(l) - 1 : Follows(l[i].after, l[i + 1].before)

LEMMA LogEventChain ==
    ASSUME NEW trigger \in Causes \cup {None}, NEW before \in States,
           NEW after \in States, log \in Seq(Events), Chained(log),
           log # << >> => Follows(Last(log).after, before),
           LogEvent(trigger, before, after)
    PROVE  Chained(log') /\ log' # << >> /\ Last(log').after = after
<1> DEFINE e == [trigger |-> trigger, before |-> before, after |-> after]
           l == Append(log, e)
<1>1. e \in Events /\ e.before = before
  BY DEF Events
<1>2. l \in Seq(Events) /\ Len(l) = Len(log) + 1 /\ Len(log) \in Nat
  BY <1>1
<1>3. Chained(l)
  <2> SUFFICES ASSUME NEW i \in 1 .. Len(l) - 1
               PROVE  Follows(l[i].after, l[i + 1].before)
    BY DEF Chained
  <2>1. CASE i = Len(log)
    <3>1. l[i] = Last(log) /\ l[i + 1] = e /\ log # << >>
      BY <1>1, <1>2, <2>1 DEF Last
    <3> QED
      BY <3>1, <1>1
  <2>2. CASE i # Len(log)
    <3>1. i \in 1 .. Len(log) - 1 /\ l[i] = log[i] /\ l[i + 1] = log[i + 1]
      BY <1>1, <1>2, <2>2
    <3> QED
      BY <3>1 DEF Chained
  <2> QED
    BY <2>1, <2>2
<1>4. MaxLog \in Nat \ {0}
  BY KillSwitchAssumption
<1>5. Last(log').after = after /\ log' # << >>
  BY LogEventType
<1>6. CASE Len(l) > MaxLog
  <2> DEFINE m == Len(l) - MaxLog + 1
  <2>0. log' = SubSeq(l, m, Len(l))
    BY <1>6 DEF LogEvent
  <2>1. log' = SubSeq(l, m, Len(l)) /\ m \in 1 .. Len(l)
    BY <1>2, <1>4, <1>6, <2>0
  <2> HIDE DEF l, m
  <2>2. \A i \in 1 .. Len(l) - m + 1 : log'[i] = l[i + m - 1]
    BY <1>2, <2>1
  <2>3. Len(log') = Len(l) - m + 1
    BY <1>2, <2>1
  <2>4. ASSUME NEW i \in 1 .. Len(log') - 1
        PROVE  Follows(log'[i].after, log'[i + 1].before)
    <3>1. /\ log'[i] = l[i + m - 1]
          /\ log'[i + 1] = l[(i + m - 1) + 1]
          /\ i + m - 1 \in 1 .. Len(l) - 1
      BY <1>2, <2>1, <2>2, <2>3
    <3> QED
      BY <3>1, <1>3 DEF Chained
  <2> QED
    BY <1>5, <2>4 DEF Chained
<1>7. CASE ~(Len(l) > MaxLog)
  BY <1>3, <1>5, <1>7 DEF LogEvent
<1> QED
  BY <1>6, <1>7

LEMMA FollowsTransitive ==
    ASSUME NEW a, NEW b, NEW c, Follows(a, b), Follows(b, c)
    PROVE  Follows(a, c)
BY DEF Follows

THEOREM AuditTrailIsChained == Spec => []AuditChain
<1>1. Init => AuditChain
  BY DEF Init, AuditChain
<1>2. TypeOK /\ AuditChain /\ [Next]_vars => AuditChain'
  <2> SUFFICES ASSUME TypeOK, AuditChain, [Next]_vars PROVE AuditChain'
    OBVIOUS
  <2>1. /\ Chained(log)
        /\ log = << >> => state = "armed"
        /\ log # << >> => Follows(Last(log).after, state)
    BY DEF AuditChain, Chained
  <2>2. ASSUME NEW trigger \in Causes \cup {None}, NEW before \in States,
               Follows(state, before), state' \in States,
               LogEvent(trigger, before, state')
        PROVE  AuditChain'
    <3>1. log # << >> => Follows(Last(log).after, before)
      BY <2>1, <2>2, FollowsTransitive
    <3>2. Chained(log') /\ log' # << >> /\ Last(log').after = state'
      BY <2>1, <2>2, <3>1, LogEventChain DEF TypeOK
    <3> QED
      BY <3>2 DEF AuditChain, Chained, Follows
  <2>3. Follows(state, state) /\ Follows(state, Rearmed) /\ state \in States
        /\ Rearmed \in States
    BY DEF Follows, Rearmed, CooldownOver, TypeOK, States
  <2>4. ASSUME NEW risk \in Readings, NEW tmeta \in Readings,
               NEW detected \in BOOLEAN,
               EvaluateMeasured(risk, tmeta, detected)
        PROVE  AuditChain'
    <3>1. Verdict(risk, tmeta, detected) \in Causes \cup {None}
      BY <2>4 DEF Verdict, Causes, Readings, EvaluateMeasured
    <3>2. CASE Verdict(risk, tmeta, detected) = None
      <4>1. state' = Rearmed /\ LogEvent(None, Rearmed, Rearmed)
        BY <2>4, <3>2 DEF EvaluateMeasured, None
      <4> QED
        BY <2>2, <2>3, <4>1
    <3>3. CASE Trigger(Verdict(risk, tmeta, detected), Rearmed)
      BY <2>2, <2>3, <3>1, <3>3 DEF Trigger, States
    <3>4. CASE state' = Rearmed /\ UNCHANGED log
      <4>1. log = << >> => state' = "armed"
        BY <2>1, <3>4 DEF Rearmed, CooldownOver
      <4>2. log # << >> => Follows(Last(log).after, state')
        BY <2>1, <2>3, <3>4, FollowsTransitive
      <4>3. Last(log)' = Last(log) /\ Chained(log')
        BY <2>1, <3>4 DEF Last
      <4> QED
        BY <3>4, <4>1, <4>2, <4>3 DEF AuditChain, Chained, Last
    <3> QED
      BY <2>4, <3>2, <3>3, <3>4 DEF EvaluateMeasured
  <2>5. ASSUME NEW risk \in Readings, NEW tmeta \in Readings,
               EvaluateNaN(risk, tmeta)
        PROVE  AuditChain'
    BY <2>2, <2>3, <2>5 DEF EvaluateNaN, Trigger, Causes, States
  <2>6. CASE ManualTrigger
    BY <2>2, <2>3, <2>6 DEF ManualTrigger, Trigger, Causes, States
  <2>7. CASE Reset
    BY <2>2, <2>3, <2>7 DEF Reset, States
  <2>8. CASE Disarm
    BY <2>2, <2>3, <2>8 DEF Disarm, States
  <2>9. CASE Arm
    BY <2>2, <2>3, <2>9 DEF Arm, States
  <2>10. CASE UNCHANGED <<state, log>>
    BY <2>10 DEF AuditChain, Last
  <2> QED
    BY <2>4, <2>5, <2>6, <2>7, <2>8, <2>9, <2>10
       DEF Next, Evaluate, EvaluateIdle, Tick, vars
<1> QED
  BY <1>1, <1>2, TypeCorrect, PTL DEF Spec
=============================================================================
