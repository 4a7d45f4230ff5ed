------------------------ MODULE PipelineTurns_proofs ------------------------
(***************************************************************************)
(* More about Pipeline, for every order, graph, profile, group and fault   *)
(* budget, and with any number of overlapping turns unless a theorem says  *)
(* otherwise: types, what is called twice, what an exit stops, what a      *)
(* failure costs, where time and state go, and that the sequential loop    *)
(* implements the contract of a turn.                                      *)
(***************************************************************************)
EXTENDS PipelineRefinement, Pipeline_proofs, RollbackManager_proofs

-----------------------------------------------------------------------------
(* Types, and what each step does to the run that takes it *)

Contexts == [session : Sessions, writes : SUBSET Writes, state : SUBSET Writes,
             time : Nat \cup {NoTime}, directive : Directives, attempts : Nat]

Managers == [snapshots : Seq([block : Blocks, context : Contexts]),
             floor : Nat \cup {NoTime}]

(* A run past the head of the loop stands at a block of the order. *)
TurnTypes ==
    /\ TypeOK
    /\ rollback \in Managers
    /\ \A r \in Runs : run[r].at \in Active \ {"loop"} => run[r].index <= Len(Order)

(* At most k of the elements. *)
LEMMA AtMostBounds ==
    ASSUME NEW k \in Nat, NEW S, NEW T \in AtMost(k, S)
    PROVE  T \subseteq S /\ IsFiniteSet(T) /\ Cardinality(T) \in 0 .. k
<1>1. PICK j \in 0 .. k : \E f : f \in [1 .. j -> S] /\ T = {f[i] : i \in 1 .. j}
  BY DEF AtMost
<1>7. PICK f : f \in [1 .. j -> S] /\ T = {f[i] : i \in 1 .. j}
  BY <1>1
<1>2. f \in Surjection(1 .. j, T)
  BY <1>7 DEF Surjection
<1>3. j \in Nat /\ j <= k /\ 1 \in Int /\ j \in Int
  BY <1>1
<1>4. IsFiniteSet(1 .. j) /\ Cardinality(1 .. j) = j
  BY <1>3, FS_Interval
<1>5. IsFiniteSet(T) /\ Cardinality(T) <= j
  BY <1>2, <1>4, FS_Surjection
<1>6. Cardinality(T) \in Nat
  BY <1>5, FS_CardinalityType
<1> QED
  BY <1>7, <1>3, <1>5, <1>6

(* The locals of run r become these; the other runs keep theirs. *)
Becomes(r, at, index, executed, skipped, exit, group, aborted) ==
    /\ run' \in [Runs -> Locals]
    /\ \A q \in Runs \ {r} : run'[q] = run[q]
    /\ run'[r].at = at
    /\ run'[r].index = index
    /\ run'[r].executed = executed
    /\ run'[r].skipped = skipped
    /\ run'[r].earlyExit = exit
    /\ run'[r].group = group
    /\ run'[r].aborted = aborted

LEMMA RecordBecomes ==
    ASSUME run \in [Runs -> Locals], NEW r \in Runs, NEW rec \in Locals,
           run' = [run EXCEPT ![r] = rec]
    PROVE  Becomes(r, rec.at, rec.index, rec.executed, rec.skipped, rec.earlyExit,
                   rec.group, rec.aborted)
  BY DEF Becomes

LEMMA StartDoes ==
    ASSUME TurnTypes, NEW r \in Runs, Start(r)
    PROVE  /\ run[r].at = "ready"
           /\ Becomes(r, "loop", run[r].index, run[r].executed, run[r].skipped,
                      run[r].earlyExit, run[r].group, run[r].aborted)
           /\ context' = [context EXCEPT ![r] = NewContext(r, store[SessionOf[r]])]
           /\ UNCHANGED <<results, executions, rollback, store, clock, faults>>
<1>1. run \in [Runs -> Locals] /\ run[r] \in Locals
  BY DEF TurnTypes, TypeOK
<1> DEFINE rec == [run[r] EXCEPT !.at = "loop"]
<1>2. /\ rec \in Locals /\ rec.at = "loop" /\ rec.index = run[r].index
      /\ rec.executed = run[r].executed /\ rec.skipped = run[r].skipped
      /\ rec.earlyExit = run[r].earlyExit /\ rec.group = run[r].group
      /\ rec.aborted = run[r].aborted
  BY <1>1 DEF Locals
<1>3. run' = [run EXCEPT ![r] = rec]
  BY <1>1 DEF Start
<1> HIDE DEF rec
<1>4. Becomes(r, "loop", run[r].index, run[r].executed, run[r].skipped,
              run[r].earlyExit, run[r].group, run[r].aborted)
  BY <1>1, <1>2, <1>3, RecordBecomes
<1> QED
  BY <1>4 DEF Start

(* Where a run at a block of the order stands. *)
LEMMA AtTheBlock ==
    ASSUME TurnTypes, NEW r \in Runs, run[r].at \in Active \ {"loop"}
    PROVE  /\ run \in [Runs -> Locals] /\ run[r] \in Locals
           /\ run[r].index \in Indices /\ run[r].index + 1 \in 1 .. Len(Order) + 1
           /\ Current(r) = Order[run[r].index] /\ Current(r) \in Blocks
           /\ Pos(Current(r)) = run[r].index
<1>1. /\ run \in [Runs -> Locals] /\ run[r] \in Locals
      /\ run[r].index \in 1 .. Len(Order) + 1 /\ run[r].index <= Len(Order)
  BY DEF TurnTypes, TypeOK, Locals
<1>2. run[r].index \in Indices /\ run[r].index + 1 \in 1 .. Len(Order) + 1
  BY <1>1, PipelineAssumption DEF Indices
<1> QED
  BY <1>1, <1>2, PosOfOrder DEF Current

(* What the head of the loop decides. *)
Decides(r, aborts) ==
    LET group == NextGroup(run[r].executed)
    IN  IF aborts
        THEN Becomes(r, "save", run[r].index, run[r].executed, run[r].skipped,
                     run[r].earlyExit, {}, TRUE)
        ELSE Becomes(r, IF group # {} THEN "group" ELSE "select", run[r].index,
                     run[r].executed, run[r].skipped, run[r].earlyExit, group, FALSE)

LEMMA IterateDoes ==
    ASSUME TurnTypes, NEW r \in Runs, Iterate(r)
    PROVE  /\ run[r].at = "loop" /\ run[r].index \in Indices
           /\ UNCHANGED <<context, results, executions, rollback, store, clock, faults>>
           /\ \E aborts \in BOOLEAN : Decides(r, aborts)
<1> DEFINE group == NextGroup(run[r].executed)
           at == IF group # {} THEN "group" ELSE "select"
<1>1. /\ run \in [Runs -> Locals] /\ run[r] \in Locals /\ run[r].at = "loop"
      /\ run[r].index \in 1 .. Len(Order) + 1 /\ run[r].index <= Len(Order)
  BY DEF TurnTypes, TypeOK, Locals, Iterate
<1>2. run[r].index \in Indices /\ run[r].index \in 0 .. Len(Order)
  BY <1>1, PipelineAssumption DEF Indices
<1>3. group \in SUBSET Blocks
  BY <1>1, GroupsAreBlocks DEF Locals
<1> HIDE DEF group
<1>4. PICK previous \in 0 .. Len(Order), stall \in Nat, abort \in BOOLEAN :
        run' = [run EXCEPT
                 ![r].previous = previous,
                 ![r].stall    = stall,
                 ![r].aborted  = abort,
                 ![r].group    = IF abort THEN {} ELSE group,
                 ![r].at       = IF abort THEN "save"
                                 ELSE IF group # {} THEN "group" ELSE "select"]
  <2>1. PICK late \in BOOLEAN :
          LET stalled == run[r].index = run[r].previous
              stall   == IF stalled THEN run[r].stall + 1 ELSE 0
              verdict == ShouldAbort(RecordIteration(guard), Current(r), stall,
                                     Len(Order), late)
          IN  run' = [run EXCEPT
                 ![r].previous = IF GuardOn THEN run[r].index ELSE @,
                 ![r].stall    = IF GuardOn THEN stall ELSE @,
                 ![r].aborted  = GuardOn /\ verdict.abort,
                 ![r].group    = IF GuardOn /\ verdict.abort THEN {} ELSE group,
                 ![r].at       = IF GuardOn /\ verdict.abort THEN "save"
                                 ELSE IF group # {} THEN "group" ELSE "select"]
    BY DEF Iterate, group
  <2> DEFINE stl == IF run[r].index = run[r].previous THEN run[r].stall + 1 ELSE 0
             verdict == ShouldAbort(RecordIteration(guard), Current(r), stl,
                                    Len(Order), late)
             previous == IF GuardOn THEN run[r].index ELSE run[r].previous
             stall == IF GuardOn THEN stl ELSE run[r].stall
             abort == GuardOn /\ verdict.abort
  <2>2. previous \in 0 .. Len(Order)
    BY <1>1, <1>2 DEF Locals
  <2>3. stall \in Nat
    <3>1. run[r].stall \in Nat
      BY <1>1 DEF Locals
    <3> HIDE DEF verdict
    <3> QED
      BY <3>1
  <2>4. abort \in BOOLEAN
    OBVIOUS
  <2>5. run' = [run EXCEPT
                 ![r].previous = previous,
                 ![r].stall    = stall,
                 ![r].aborted  = abort,
                 ![r].group    = IF abort THEN {} ELSE group,
                 ![r].at       = IF abort THEN "save"
                                 ELSE IF group # {} THEN "group" ELSE "select"]
    <3>1. run' = [run EXCEPT
                 ![r].previous = IF GuardOn THEN run[r].index ELSE @,
                 ![r].stall    = IF GuardOn THEN stl ELSE @,
                 ![r].aborted  = GuardOn /\ verdict.abort,
                 ![r].group    = IF GuardOn /\ verdict.abort THEN {} ELSE group,
                 ![r].at       = IF GuardOn /\ verdict.abort THEN "save"
                                 ELSE IF group # {} THEN "group" ELSE "select"]
      BY <2>1
    <3> HIDE DEF verdict, stl
    <3> QED
      BY <1>1, <3>1 DEF Locals
  <2> HIDE DEF previous, stall, abort
  <2> QED
    BY <2>2, <2>3, <2>4, <2>5
<1> DEFINE rec == [run[r] EXCEPT !.previous = previous, !.stall = stall,
                     !.aborted = abort, !.group = IF abort THEN {} ELSE group,
                     !.at = IF abort THEN "save"
                            ELSE IF group # {} THEN "group" ELSE "select"]
<1>5. run' = [run EXCEPT ![r] = rec]
  BY <1>1, <1>4
<1>6. CASE abort
  <2>1. /\ rec \in Locals /\ rec.at = "save" /\ rec.index = run[r].index
        /\ rec.executed = run[r].executed /\ rec.skipped = run[r].skipped
        /\ rec.earlyExit = run[r].earlyExit /\ rec.group = {} /\ rec.aborted = TRUE
    BY <1>1, <1>4, <1>6 DEF Locals
  <2> HIDE DEF rec
  <2>2. Becomes(r, "save", run[r].index, run[r].executed, run[r].skipped,
                run[r].earlyExit, {}, TRUE)
    BY <1>1, <1>5, <2>1, RecordBecomes
  <2>3. Decides(r, TRUE)
    BY <2>2 DEF Decides
  <2> QED
    BY <1>1, <1>2, <2>3 DEF Iterate
<1>7. CASE ~abort
  <2>1. /\ rec \in Locals /\ rec.at = at /\ rec.index = run[r].index
        /\ rec.executed = run[r].executed /\ rec.skipped = run[r].skipped
        /\ rec.earlyExit = run[r].earlyExit /\ rec.group = group /\ rec.aborted = FALSE
    BY <1>1, <1>3, <1>4, <1>7 DEF Locals, AtAwait
  <2> HIDE DEF rec
  <2>2. Becomes(r, at, run[r].index, run[r].executed, run[r].skipped,
                run[r].earlyExit, group, FALSE)
    BY <1>1, <1>5, <2>1, RecordBecomes
  <2>3. Decides(r, FALSE)
    BY <2>2 DEF Decides, group
  <2> QED
    BY <1>1, <1>2, <2>3 DEF Iterate
<1> QED
  BY <1>6, <1>7

(* How a group answers. *)
GroupRuns(r, failed, declined, exits) ==
    LET called == run[r].group \cap Registered
        oks == called \ (failed \cup declined)
        now == IF TimeBlock \in called THEN clock + 1 ELSE clock
    IN  /\ failed \in AtMost(MaxFaults - faults, called)
        /\ declined \subseteq called \ failed
        /\ exits \in BOOLEAN
        /\ faults' = faults + Cardinality(failed)
        /\ clock' = now
        /\ Becomes(r, "select", run[r].index, run[r].executed \cup run[r].group,
                   run[r].skipped, run[r].earlyExit \/ exits, {}, run[r].aborted)
        /\ context' = [context EXCEPT ![r] = GroupEffect(context[r], r, oks, now)]
        /\ results' = [results EXCEPT ![r] = [b \in Blocks |->
             IF b \notin run[r].group THEN results[r][b]
             ELSE IF b \in oks THEN "ok"
             ELSE IF b \in declined THEN "skipped" ELSE "error"]]
        /\ executions' = [executions EXCEPT ![r] = [b \in Blocks |->
             IF b \in called THEN executions[r][b] + 1 ELSE executions[r][b]]]

LEMMA RunGroupDoes ==
    ASSUME TurnTypes, NEW r \in Runs, RunGroup(r)
    PROVE  /\ run[r].at = "group" /\ run[r].group \subseteq Blocks
           /\ UNCHANGED <<guard, rollback, store>>
           /\ \E failed, declined, exits : GroupRuns(r, failed, declined, exits)
<1> DEFINE called == run[r].group \cap Registered
<1>1. /\ run \in [Runs -> Locals] /\ run[r] \in Locals /\ run[r].at = "group"
      /\ run[r].group \subseteq Blocks /\ run[r].executed \subseteq Blocks
      /\ results \in [Runs -> [Blocks -> Statuses]]
      /\ executions \in [Runs -> [Blocks -> Nat]]
      /\ DOMAIN context = Runs
  BY DEF TurnTypes, TypeOK, Locals, RunGroup
<1>2. PICK failed, declined :
        /\ failed \in AtMost(MaxFaults - faults, called)
        /\ declined \in SUBSET ((called \cap Decliners) \ failed)
        /\ GroupAnswers(r, called, failed, declined)
  BY DEF RunGroup
<1> DEFINE oks == called \ (failed \cup declined)
           now == IF TimeBlock \in called THEN clock + 1 ELSE clock
<1> HIDE DEF called
<1>3. PICK asked \in SUBSET (oks \cap ExitBlocks) :
        /\ faults' = faults + Cardinality(failed)
        /\ clock' = now
        /\ run' = [run EXCEPT ![r].at = "select", ![r].group = {},
                              ![r].executed = @ \cup run[r].group,
                              ![r].earlyExit = @ \/ asked # {}]
        /\ context' = [context EXCEPT ![r] = GroupEffect(@, r, oks, now)]
        /\ results' = [results EXCEPT ![r] = [b \in Blocks |->
             IF b \notin run[r].group THEN @[b]
             ELSE IF b \in oks THEN "ok"
             ELSE IF b \in declined THEN "skipped" ELSE "error"]]
        /\ executions' = [executions EXCEPT ![r] = [b \in Blocks |->
             IF b \in called THEN @[b] + 1 ELSE @[b]]]
  BY <1>2 DEF GroupAnswers, GroupStatus
<1> HIDE DEF oks, now
<1> DEFINE exits == asked # {}
           exit == run[r].earlyExit \/ exits
           rec == [run[r] EXCEPT !.at = "select", !.group = {},
                                 !.executed = run[r].executed \cup run[r].group,
                                 !.earlyExit = exit]
<1>4. exit \in BOOLEAN /\ exits \in BOOLEAN
  OBVIOUS
<1>5. run' = [run EXCEPT ![r] = rec]
  BY <1>1, <1>3
<1> HIDE DEF exit, exits
<1>6. /\ rec \in Locals /\ rec.at = "select" /\ rec.index = run[r].index
      /\ rec.executed = run[r].executed \cup run[r].group
      /\ rec.skipped = run[r].skipped /\ rec.earlyExit = exit /\ rec.group = {}
      /\ rec.aborted = run[r].aborted
  BY <1>1, <1>4 DEF Locals
<1> HIDE DEF rec
<1>7. Becomes(r, "select", run[r].index, run[r].executed \cup run[r].group,
              run[r].skipped, run[r].earlyExit \/ exits, {}, run[r].aborted)
  BY <1>1, <1>5, <1>6, RecordBecomes DEF exit
<1>8. context' = [context EXCEPT ![r] = GroupEffect(context[r], r, oks, now)]
  BY <1>1, <1>3
<1>9. results' = [results EXCEPT ![r] = [b \in Blocks |->
             IF b \notin run[r].group THEN results[r][b]
             ELSE IF b \in oks THEN "ok"
             ELSE IF b \in declined THEN "skipped" ELSE "error"]]
  BY <1>1, <1>3
<1>10. executions' = [executions EXCEPT ![r] = [b \in Blocks |->
             IF b \in called THEN executions[r][b] + 1 ELSE executions[r][b]]]
  BY <1>1, <1>3
<1>11. UNCHANGED <<guard, rollback, store>>
  BY DEF RunGroup
<1>12. declined \subseteq called \ failed
  BY <1>2
<1>13. faults' = faults + Cardinality(failed) /\ clock' = now
  BY <1>3
<1>14. GroupRuns(r, failed, declined, exits)
  BY <1>2, <1>4, <1>7, <1>8, <1>9, <1>10, <1>12, <1>13 DEF GroupRuns, called, oks, now
<1> QED
  BY <1>1, <1>11, <1>14

(* What is left of a group that fails as a whole. *)
GroupIsLost(r, called) ==
    /\ called \subseteq run[r].group \cap Registered
    /\ faults < MaxFaults /\ faults' = faults + 1
    /\ clock' = IF TimeBlock \in called THEN clock + 1 ELSE clock
    /\ Becomes(r, "select", run[r].index, run[r].executed \cup run[r].group,
               run[r].skipped, run[r].earlyExit, {}, run[r].aborted)
    /\ executions' = [executions EXCEPT ![r] = [b \in Blocks |->
         IF b \in called THEN executions[r][b] + 1 ELSE executions[r][b]]]

LEMMA LoseGroupDoes ==
    ASSUME TurnTypes, NEW r \in Runs, LoseGroup(r)
    PROVE  /\ run[r].at = "group" /\ run[r].group \subseteq Blocks
           /\ UNCHANGED <<context, results, guard, rollback, store>>
           /\ \E called : GroupIsLost(r, called)
<1>1. /\ run \in [Runs -> Locals] /\ run[r] \in Locals /\ run[r].at = "group"
      /\ run[r].group \subseteq Blocks /\ run[r].executed \subseteq Blocks
      /\ executions \in [Runs -> [Blocks -> Nat]]
  BY DEF TurnTypes, TypeOK, Locals, LoseGroup
<1>2. PICK called \in {{}, run[r].group \cap Registered} :
        /\ clock' = IF TimeBlock \in called THEN clock + 1 ELSE clock
        /\ executions' = [executions EXCEPT ![r] = [b \in Blocks |->
             IF b \in called THEN @[b] + 1 ELSE @[b]]]
  BY DEF LoseGroup
<1> DEFINE executed == run[r].executed \cup run[r].group
           rec == [run[r] EXCEPT !.at = "select", !.group = {}, !.executed = executed]
<1>3. run' = [run EXCEPT ![r] = rec]
  BY <1>1 DEF LoseGroup
<1>4. executed \in SUBSET Blocks
  BY <1>1
<1> HIDE DEF executed
<1>5. /\ rec \in Locals /\ rec.at = "select" /\ rec.index = run[r].index
      /\ rec.executed = executed /\ rec.skipped = run[r].skipped
      /\ rec.earlyExit = run[r].earlyExit /\ rec.group = {}
      /\ rec.aborted = run[r].aborted
  BY <1>1, <1>4 DEF Locals
<1> HIDE DEF rec
<1>6. Becomes(r, "select", run[r].index, run[r].executed \cup run[r].group,
              run[r].skipped, run[r].earlyExit, {}, run[r].aborted)
  BY <1>1, <1>3, <1>5, RecordBecomes DEF executed
<1>7. executions' = [executions EXCEPT ![r] = [b \in Blocks |->
         IF b \in called THEN executions[r][b] + 1 ELSE executions[r][b]]]
  BY <1>1, <1>2
<1>8. called \subseteq run[r].group \cap Registered
  BY <1>2
<1>9. /\ faults < MaxFaults /\ faults' = faults + 1
      /\ UNCHANGED <<context, results, guard, rollback, store>>
  BY DEF LoseGroup
<1>10. GroupIsLost(r, called)
  BY <1>2, <1>6, <1>7, <1>8, <1>9 DEF GroupIsLost
<1> QED
  BY <1>1, <1>9, <1>10

(* How the sequential half passes over block b: the status it records and  *)
(* the skipped set it leaves.                                              *)
PassesOver(r, b, skipped, status) ==
    \/ /\ b \in run[r].executed
       /\ skipped = run[r].skipped /\ status = results[r][b]
    \/ /\ b \notin run[r].executed \cup Registered
       /\ skipped = run[r].skipped \cup {b} /\ status = results[r][b]
    \/ /\ b \in Registered \ run[r].executed
       /\ \E self \in {FALSE, (b \in SelfSkips)} : SkipsBlock(r, b, self)
       /\ skipped = run[r].skipped \cup {b} /\ status = "skipped"
    \/ /\ b \in Registered \ run[r].executed
       /\ ~SkipsBlock(r, b, FALSE)
       /\ GuardOn /\ ~CheckBlockExecutionLimit(guard, b).ok
       /\ skipped = run[r].skipped /\ status = "error"

LEMMA PassOverDoes ==
    ASSUME TurnTypes, NEW r \in Runs, PassOver(r)
    PROVE  /\ run[r].at = "select"
           /\ UNCHANGED <<context, executions, rollback, store, clock, faults>>
           /\ \E skipped \in SUBSET Blocks, status \in Statuses :
                /\ PassesOver(r, Current(r), skipped, status)
                /\ Becomes(r, "loop", run[r].index + 1, run[r].executed, skipped,
                           run[r].earlyExit, run[r].group, run[r].aborted)
                /\ results' = [results EXCEPT ![r][Current(r)] = status]
<1> DEFINE b == Current(r)
           check == CheckBlockExecutionLimit(guard, b)
           advanced == [run EXCEPT ![r] = NextBlock(@)]
<1>1. run[r].at = "select"
  BY DEF PassOver
<1>2. /\ run \in [Runs -> Locals] /\ run[r] \in Locals
      /\ run[r].index + 1 \in 1 .. Len(Order) + 1 /\ b \in Blocks
      /\ results \in [Runs -> [Blocks -> Statuses]]
  BY <1>1, AtTheBlock DEF Active, TurnTypes, TypeOK
<1>3. advanced = [run EXCEPT ![r] = [run[r] EXCEPT !.at = "loop",
                                                   !.index = run[r].index + 1]]
  BY <1>2 DEF NextBlock
<1>4. ASSUME NEW s \in SUBSET Blocks,
             run' = [run EXCEPT ![r] = [run[r] EXCEPT !.at = "loop", !.skipped = s,
                                                      !.index = run[r].index + 1]]
      PROVE  Becomes(r, "loop", run[r].index + 1, run[r].executed, s,
                     run[r].earlyExit, run[r].group, run[r].aborted)
  <2> DEFINE i == run[r].index + 1
             rec == [run[r] EXCEPT !.at = "loop", !.skipped = s, !.index = i]
  <2>1. i \in 1 .. Len(Order) + 1
    BY <1>2
  <2>2. run' = [run EXCEPT ![r] = rec]
    BY <1>4
  <2> HIDE DEF i
  <2>3. /\ rec \in Locals /\ rec.at = "loop" /\ rec.index = i
        /\ rec.executed = run[r].executed /\ rec.skipped = s
        /\ rec.earlyExit = run[r].earlyExit /\ rec.group = run[r].group
        /\ rec.aborted = run[r].aborted
    BY <1>2, <2>1 DEF Locals
  <2> HIDE DEF rec
  <2> QED
    BY <1>2, <2>2, <2>3, RecordBecomes DEF i
<1> HIDE DEF b
<1>5. run[r].skipped \in SUBSET Blocks /\ run[r].skipped \cup {b} \in SUBSET Blocks
  BY <1>2 DEF Locals
<1>6. ASSUME run' = advanced
      PROVE  run' = [run EXCEPT ![r] = [run[r] EXCEPT !.at = "loop",
                        !.skipped = run[r].skipped, !.index = run[r].index + 1]]
  <2>1. [run[r] EXCEPT !.at = "loop", !.index = run[r].index + 1]
          = [run[r] EXCEPT !.at = "loop", !.skipped = run[r].skipped,
                           !.index = run[r].index + 1]
    BY <1>2 DEF Locals
  <2> QED
    BY <1>3, <1>6, <2>1
<1>7. ASSUME run' = [advanced EXCEPT ![r].skipped = @ \cup {b}]
      PROVE  run' = [run EXCEPT ![r] = [run[r] EXCEPT !.at = "loop",
                        !.skipped = run[r].skipped \cup {b}, !.index = run[r].index + 1]]
  <2> DEFINE new == [run[r] EXCEPT !.at = "loop", !.index = run[r].index + 1]
  <2>1. advanced[r] = new /\ new.skipped = run[r].skipped
    BY <1>2, <1>3 DEF Locals
  <2>2. [new EXCEPT !.skipped = run[r].skipped \cup {b}]
          = [run[r] EXCEPT !.at = "loop", !.skipped = run[r].skipped \cup {b},
                           !.index = run[r].index + 1]
    BY <1>2 DEF Locals
  <2> HIDE DEF new, advanced
  <2>3. run' = [advanced EXCEPT ![r] = [new EXCEPT !.skipped = run[r].skipped \cup {b}]]
    BY <1>2, <1>3, <1>7, <2>1 DEF advanced
  <2> QED
    BY <1>2, <1>3, <2>2, <2>3
<1>8. results[r][b] \in Statuses
      /\ results = [results EXCEPT ![r][b] = results[r][b]]
  BY <1>2
<1> DEFINE limit == GuardOn /\ ~check.ok
<1>9. \E skipped \in SUBSET Blocks, status \in Statuses :
        /\ PassesOver(r, b, skipped, status)
        /\ run' = [run EXCEPT ![r] = [run[r] EXCEPT !.at = "loop", !.skipped = skipped,
                                                    !.index = run[r].index + 1]]
        /\ results' = [results EXCEPT ![r][b] = status]
  <2>1. CASE b \in run[r].executed /\ run' = advanced /\ results' = results
    <3>1. PassesOver(r, b, run[r].skipped, results[r][b])
      BY <2>1 DEF PassesOver
    <3> QED
      BY <1>5, <1>6, <1>8, <2>1, <3>1
  <2>2. CASE /\ b \notin run[r].executed \cup Registered
             /\ run' = [advanced EXCEPT ![r].skipped = @ \cup {b}]
             /\ results' = results
    <3>1. PassesOver(r, b, run[r].skipped \cup {b}, results[r][b])
      BY <2>2 DEF PassesOver
    <3> QED
      BY <1>5, <1>7, <1>8, <2>2, <3>1
  <2>3. CASE /\ b \in Registered \ run[r].executed
             /\ \E self \in {FALSE, (b \in SelfSkips)} : SkipsBlock(r, b, self)
             /\ run' = [advanced EXCEPT ![r].skipped = @ \cup {b}]
             /\ results' = [results EXCEPT ![r][b] = "skipped"]
    <3>1. PassesOver(r, b, run[r].skipped \cup {b}, "skipped") /\ "skipped" \in Statuses
      BY <2>3 DEF PassesOver, Statuses
    <3> QED
      BY <1>5, <1>7, <2>3, <3>1
  <2>4. CASE /\ b \in Registered \ run[r].executed
             /\ ~SkipsBlock(r, b, FALSE)
             /\ limit
             /\ run' = advanced
             /\ results' = [results EXCEPT ![r][b] = "error"]
    <3>1. PassesOver(r, b, run[r].skipped, "error") /\ "error" \in Statuses
      BY <2>4 DEF PassesOver, Statuses
    <3> QED
      BY <1>5, <1>6, <2>4, <3>1
  <2> HIDE DEF advanced
  <2> QED
    BY <2>1, <2>2, <2>3, <2>4 DEF PassOver, b, advanced
<1> QED
  BY <1>1, <1>4, <1>9 DEF PassOver, b

LEMMA CallBlockDoes ==
    ASSUME TurnTypes, NEW r \in Runs, CallBlock(r)
    PROVE  /\ run[r].at = "select"
           /\ Current(r) \in Registered \ run[r].executed
           /\ ~SkipsBlock(r, Current(r), FALSE)
           /\ Becomes(r, "block", run[r].index, run[r].executed, run[r].skipped,
                      run[r].earlyExit, run[r].group, run[r].aborted)
           /\ executions' = [executions EXCEPT ![r][Current(r)] =
                               executions[r][Current(r)] + 1]
           /\ UNCHANGED <<context, results, rollback, store, clock, faults>>
<1>1. run[r].at = "select"
  BY DEF CallBlock
<1>2. /\ run \in [Runs -> Locals] /\ run[r] \in Locals /\ Current(r) \in Blocks
      /\ executions \in [Runs -> [Blocks -> Nat]]
  BY <1>1, AtTheBlock DEF Active, TurnTypes, TypeOK
<1> DEFINE rec == [run[r] EXCEPT !.at = "block"]
<1>3. /\ rec \in Locals /\ rec.at = "block" /\ rec.index = run[r].index
      /\ rec.executed = run[r].executed /\ rec.skipped = run[r].skipped
      /\ rec.earlyExit = run[r].earlyExit /\ rec.group = run[r].group
      /\ rec.aborted = run[r].aborted
  BY <1>2 DEF Locals, AtAwait
<1>4. run' = [run EXCEPT ![r] = rec]
  BY <1>2 DEF CallBlock
<1> HIDE DEF rec
<1>5. Becomes(r, "block", run[r].index, run[r].executed, run[r].skipped,
              run[r].earlyExit, run[r].group, run[r].aborted)
  BY <1>2, <1>3, <1>4, RecordBecomes
<1>6. executions' = [executions EXCEPT ![r][Current(r)] = executions[r][Current(r)] + 1]
  BY <1>2 DEF CallBlock
<1> QED
  BY <1>5, <1>6 DEF CallBlock

(* The turn index after block b, and the context after its success.        *)
NowAfter(b, wrote) == IF b = TimeBlock /\ wrote THEN clock + 1 ELSE clock

ContextAfter(r, b, ok, directive) ==
    IF ok THEN Effect(context[r], r, b, NowAfter(b, TRUE), directive) ELSE context[r]

RetryDue(b, after) ==
    /\ b = RevisionGate
    /\ after.directive = "regenerate"
    /\ after.attempts < RegenMaxAttempts

(* What block b may answer. *)
MayAnswer(b, ok, exits, short, directive) ==
    /\ ok \in BOOLEAN /\ exits \in BOOLEAN /\ short \in BOOLEAN
    /\ directive \in Directives
    /\ b = RevisionGate <=> directive # "none"
    /\ ~ok => b \in Decliners
    /\ exits \/ short => ok
    /\ exits => b \in ExitBlocks
    /\ short => (b \in ExitBlocks => exits)

(* What its answer does. *)
SkippedAfter(r, b, short) ==
    IF short THEN run[r].skipped \cup ShortCircuits[b] ELSE run[r].skipped

Replies(r, b, ok, exits, short, directive, copied) ==
    /\ MayAnswer(b, ok, exits, short, directive)
    /\ copied \in BOOLEAN
    /\ ~copied => ok /\ RollbackOn /\ CopiesFail /\ faults < MaxFaults
    /\ faults' = IF copied THEN faults ELSE faults + 1
    /\ clock' = NowAfter(b, TRUE)
    /\ context' = [context EXCEPT ![r] = ContextAfter(r, b, ok, directive)]
    /\ results' = [results EXCEPT ![r][b] = IF ok THEN "ok" ELSE "skipped"]
    /\ rollback' = IF ok /\ RollbackOn
                   THEN CreateCheckpoint(rollback, b,
                                         ContextAfter(r, b, ok, directive), copied)
                   ELSE rollback
    /\ IF RetryDue(b, ContextAfter(r, b, ok, directive))
       THEN Becomes(r, "retry", run[r].index, run[r].executed,
                    SkippedAfter(r, b, short), run[r].earlyExit \/ exits,
                    run[r].group, run[r].aborted)
       ELSE Becomes(r, "loop", run[r].index + 1, run[r].executed,
                    SkippedAfter(r, b, short), run[r].earlyExit \/ exits,
                    run[r].group, run[r].aborted)

LEMMA BlockReturnsDoes ==
    ASSUME TurnTypes, NEW r \in Runs, BlockReturns(r)
    PROVE  /\ run[r].at = "block"
           /\ UNCHANGED <<executions, store>>
           /\ \E ok, exits, short, directive, copied :
                Replies(r, Current(r), ok, exits, short, directive, copied)
<1> DEFINE b == Current(r)
<1>1. run[r].at = "block"
  BY DEF BlockReturns
<1>2. /\ run \in [Runs -> Locals] /\ run[r] \in Locals /\ b \in Blocks
      /\ run[r].index + 1 \in 1 .. Len(Order) + 1
  BY <1>1, AtTheBlock DEF Active
<1> HIDE DEF b
<1>3. PICK ok, exits, short, directive, copied :
        /\ MayAnswer(b, ok, exits, short, directive)
        /\ BlockAnswers(r, b, ok, exits, short, directive, copied)
        /\ copied \in BOOLEAN
        /\ ~copied => ok /\ RollbackOn /\ CopiesFail /\ faults < MaxFaults
        /\ faults' = IF copied THEN faults ELSE faults + 1
  <2>1. PICK ok \in {TRUE, (b \notin Decliners)},
             exits \in {FALSE, (b \in ExitBlocks)},
             short \in {FALSE, (ShortCircuits[b] # {})},
             directive \in IF b = RevisionGate
                           THEN Directives \ {"none"} ELSE {"none"},
             copied \in BOOLEAN :
           /\ short \/ exits => ok
           /\ short /\ b \in ExitBlocks => exits
           /\ ~copied => ok /\ RollbackOn /\ CopiesFail /\ faults < MaxFaults
           /\ faults' = IF copied THEN faults ELSE faults + 1
           /\ BlockAnswers(r, b, ok, exits, short, directive, copied)
    BY DEF BlockReturns, b
  <2>2. MayAnswer(b, ok, exits, short, directive)
    <3>1. directive \in Directives /\ (b = RevisionGate <=> directive # "none")
      BY <2>1 DEF Directives
    <3>2. ok \in BOOLEAN /\ exits \in BOOLEAN /\ short \in BOOLEAN
      <4>1. \A p \in BOOLEAN : \A x \in {TRUE, p} \cup {FALSE, p} : x \in BOOLEAN
        OBVIOUS
      <4>2. (b \notin Decliners) \in BOOLEAN /\ (b \in ExitBlocks) \in BOOLEAN
            /\ (ShortCircuits[b] # {}) \in BOOLEAN
        OBVIOUS
      <4> QED
        BY <2>1, <4>1, <4>2, Zenon
    <3>3. (~ok => b \in Decliners) /\ (exits => b \in ExitBlocks)
      BY <2>1
    <3> QED
      BY <2>1, <3>1, <3>2, <3>3 DEF MayAnswer
  <2> QED
    BY <2>1, <2>2
<1> DEFINE now == NowAfter(b, TRUE)
           after == ContextAfter(r, b, ok, directive)
           retry == RetryDue(b, after)
           skipped == IF short THEN run[r].skipped \cup ShortCircuits[b]
                      ELSE run[r].skipped
           exit == run[r].earlyExit \/ exits
           index == IF retry THEN run[r].index ELSE run[r].index + 1
           at == IF retry THEN "retry" ELSE "loop"
<1>4. /\ clock' = now
      /\ context' = [context EXCEPT ![r] = after]
      /\ results' = [results EXCEPT ![r][b] = IF ok THEN "ok" ELSE "skipped"]
      /\ rollback' = IF ok /\ RollbackOn
                     THEN CreateCheckpoint(rollback, b, after, copied) ELSE rollback
      /\ run' = [run EXCEPT
             ![r].earlyExit = @ \/ exits,
             ![r].skipped   = IF short THEN @ \cup ShortCircuits[b] ELSE @,
             ![r].index     = IF retry THEN @ ELSE @ + 1,
             ![r].at        = IF retry THEN "retry" ELSE "loop"]
  BY <1>3 DEF BlockAnswers, NowAfter, ContextAfter, RetryDue
<1> HIDE DEF retry, after, now
<1>5. run' = [run EXCEPT ![r] = [run[r] EXCEPT !.earlyExit = exit, !.skipped = skipped,
                                               !.index = index, !.at = at]]
  BY <1>2, <1>4
<1>6. /\ exit \in BOOLEAN /\ skipped \in SUBSET Blocks
      /\ index \in 1 .. Len(Order) + 1 /\ at \in {"retry", "loop"}
  BY <1>2, PipelineAssumption DEF Locals
<1> DEFINE rec == [run[r] EXCEPT !.earlyExit = exit, !.skipped = skipped,
                                 !.index = index, !.at = at]
<1> HIDE DEF exit, skipped, index, at
<1>7. /\ rec \in Locals /\ rec.at = at /\ rec.index = index
      /\ rec.executed = run[r].executed /\ rec.skipped = skipped
      /\ rec.earlyExit = exit /\ rec.group = run[r].group
      /\ rec.aborted = run[r].aborted
  BY <1>2, <1>6 DEF Locals, AtAwait
<1>8. run' = [run EXCEPT ![r] = rec]
  BY <1>5
<1> HIDE DEF rec
<1>9. Becomes(r, at, index, run[r].executed, skipped, exit, run[r].group, run[r].aborted)
  BY <1>2, <1>7, <1>8, RecordBecomes
<1>10. UNCHANGED <<executions, store>>
  BY DEF BlockReturns
<1>11. Replies(r, b, ok, exits, short, directive, copied)
  BY <1>3, <1>4, <1>9
     DEF Replies, SkippedAfter, now, after, retry, skipped, exit, index, at
<1> QED
  BY <1>1, <1>10, <1>11 DEF b

(* The block that returned is done with: its run goes on or tries again. *)
LEMMA BlockReturnsTo ==
    ASSUME TurnTypes, NEW r \in Runs, BlockReturns(r)
    PROVE  run'[r].at \in {"retry", "loop"} /\ run'[r].executed = run[r].executed
<1>1. PICK ok, exits, short, directive, copied :
        Replies(r, Current(r), ok, exits, short, directive, copied)
  BY BlockReturnsDoes
<1> DEFINE retries == RetryDue(Current(r), ContextAfter(r, Current(r), ok, directive))
           skips == SkippedAfter(r, Current(r), short)
           leaves == run[r].earlyExit \/ exits
<1>2. IF retries
      THEN Becomes(r, "retry", run[r].index, run[r].executed, skips, leaves,
                   run[r].group, run[r].aborted)
      ELSE Becomes(r, "loop", run[r].index + 1, run[r].executed, skips, leaves,
                   run[r].group, run[r].aborted)
  BY <1>1 DEF Replies
<1> HIDE DEF retries, skips, leaves
<1>3. CASE retries
  BY <1>2, <1>3 DEF Becomes
<1>4. CASE ~retries
  BY <1>2, <1>4 DEF Becomes
<1> QED
  BY <1>3, <1>4

(* What the failure of block b does. *)
Fails(r, b, wrote) ==
    LET after == PartialEffect(context[r], r, b, wrote)
        back == RollbackToCheckpoint(rollback, b, after)
        undo == RollbackOn /\ b \notin AlwaysOn
    IN  /\ wrote \in BOOLEAN
        /\ faults < MaxFaults /\ faults' = faults + 1
        /\ Becomes(r, "loop", run[r].index + 1, run[r].executed, run[r].skipped,
                   run[r].earlyExit, run[r].group, run[r].aborted)
        /\ results' = [results EXCEPT ![r][b] = "error"]
        /\ clock' = NowAfter(b, wrote)
        /\ context' = [context EXCEPT ![r] = IF undo THEN back.context ELSE after]
        /\ rollback' = IF undo THEN back.manager ELSE rollback

LEMMA BlockFailsDoes ==
    ASSUME TurnTypes, NEW r \in Runs, BlockFails(r)
    PROVE  /\ run[r].at = "block"
           /\ UNCHANGED <<executions, store>>
           /\ \E wrote \in BOOLEAN : Fails(r, Current(r), wrote)
<1> DEFINE b == Current(r)
<1>1. run[r].at = "block"
  BY DEF BlockFails
<1>2. /\ run \in [Runs -> Locals] /\ run[r] \in Locals
      /\ run[r].index + 1 \in 1 .. Len(Order) + 1
  BY <1>1, AtTheBlock DEF Active
<1>3. PICK wrote, raised \in BOOLEAN : BlockFaults(r, b, wrote, raised)
  BY DEF BlockFails
<1> HIDE DEF b
<1> DEFINE i == run[r].index + 1
           rec == [run[r] EXCEPT !.at = "loop", !.index = i]
<1>4. run' = [run EXCEPT ![r] = rec]
  BY <1>2, <1>3 DEF BlockFaults, AfterFailure, NextBlock
<1>5. i \in 1 .. Len(Order) + 1
  BY <1>2
<1> HIDE DEF i
<1>6. /\ rec \in Locals /\ rec.at = "loop" /\ rec.index = i
      /\ rec.executed = run[r].executed /\ rec.skipped = run[r].skipped
      /\ rec.earlyExit = run[r].earlyExit /\ rec.group = run[r].group
      /\ rec.aborted = run[r].aborted
  BY <1>2, <1>5 DEF Locals
<1> HIDE DEF rec
<1>7. Becomes(r, "loop", run[r].index + 1, run[r].executed, run[r].skipped,
              run[r].earlyExit, run[r].group, run[r].aborted)
  BY <1>2, <1>4, <1>6, RecordBecomes DEF i
<1>8. /\ faults < MaxFaults /\ faults' = faults + 1
      /\ UNCHANGED <<executions, store>>
  BY DEF BlockFails
<1>9. results' = [results EXCEPT ![r][b] = "error"]
  BY <1>3 DEF BlockFaults
<1>10. LET after == PartialEffect(context[r], r, b, wrote)
           back == RollbackToCheckpoint(rollback, b, after)
           undo == RollbackOn /\ b \notin AlwaysOn
       IN  /\ clock' = NowAfter(b, wrote)
           /\ context' = [context EXCEPT ![r] = IF undo THEN back.context ELSE after]
           /\ rollback' = IF undo THEN back.manager ELSE rollback
  BY <1>3 DEF BlockFaults, NowAfter
<1>11. Fails(r, b, wrote)
  BY <1>7, <1>8, <1>9, <1>10 DEF Fails
<1> QED
  BY <1>1, <1>8, <1>11 DEF b

(* The context after the retry, and what the retry does. *)
Retried(c, r, oks, directive) ==
    [c EXCEPT !.attempts  = c.attempts + 1,
              !.writes    = c.writes \cup ({r} \X oks),
              !.state     = c.state \cup ({r} \X (oks \cap StateBlocks)),
              !.directive = directive]

Retries(r, failed, directive) ==
    /\ failed \in AtMost(MaxFaults - faults, RetryCalls)
    /\ directive \in Directives
    /\ IF RevisionGate \in RetryCalls \ failed THEN directive # "none"
       ELSE directive = context[r].directive
    /\ faults' = faults + Cardinality(failed)
    /\ Becomes(r, "loop", run[r].index + 1, run[r].executed, run[r].skipped,
               run[r].earlyExit, run[r].group, run[r].aborted)
    /\ executions' = [executions EXCEPT ![r] = [b \in Blocks |->
         IF b \in RetryCalls THEN executions[r][b] + 1 ELSE executions[r][b]]]
    /\ context' = [context EXCEPT ![r] =
         Retried(context[r], r, RetryCalls \ failed, directive)]

LEMMA RetryDoes ==
    ASSUME TurnTypes, NEW r \in Runs, Retry(r)
    PROVE  /\ run[r].at = "retry"
           /\ UNCHANGED <<results, guard, rollback, store, clock>>
           /\ \E failed, directive : Retries(r, failed, directive)
<1>1. run[r].at = "retry"
  BY DEF Retry
<1>2. /\ run \in [Runs -> Locals] /\ run[r] \in Locals
      /\ run[r].index + 1 \in 1 .. Len(Order) + 1
      /\ context \in [Runs -> Contexts] /\ executions \in [Runs -> [Blocks -> Nat]]
  BY <1>1, AtTheBlock DEF Active, TurnTypes, TypeOK, Contexts
<1> DEFINE i == run[r].index + 1
           rec == [run[r] EXCEPT !.at = "loop", !.index = i]
<1>3. run' = [run EXCEPT ![r] = rec]
  BY <1>2 DEF Retry, NextBlock
<1>4. i \in 1 .. Len(Order) + 1
  BY <1>2
<1> HIDE DEF i
<1>5. /\ rec \in Locals /\ rec.at = "loop" /\ rec.index = i
      /\ rec.executed = run[r].executed /\ rec.skipped = run[r].skipped
      /\ rec.earlyExit = run[r].earlyExit /\ rec.group = run[r].group
      /\ rec.aborted = run[r].aborted
  BY <1>2, <1>4 DEF Locals
<1> HIDE DEF rec
<1>6. Becomes(r, "loop", run[r].index + 1, run[r].executed, run[r].skipped,
              run[r].earlyExit, run[r].group, run[r].aborted)
  BY <1>2, <1>3, <1>5, RecordBecomes DEF i
<1>7. PICK failed \in AtMost(MaxFaults - faults, RetryCalls), directive \in Directives :
        LET oks == RetryCalls \ failed
        IN  /\ faults' = faults + Cardinality(failed)
            /\ IF RevisionGate \in oks THEN directive # "none"
               ELSE directive = context[r].directive
            /\ context' = [context EXCEPT
                 ![r].attempts  = @ + 1,
                 ![r].writes    = @ \cup ({r} \X oks),
                 ![r].state     = @ \cup ({r} \X (oks \cap StateBlocks)),
                 ![r].directive = directive]
            /\ executions' = [executions EXCEPT ![r] = [b \in Blocks |->
                 IF b \in RetryCalls THEN @[b] + 1 ELSE @[b]]]
  BY DEF Retry
<1>10. context' = [context EXCEPT ![r] =
                     Retried(context[r], r, RetryCalls \ failed, directive)]
  BY <1>2, <1>7 DEF Retried
<1>11. executions' = [executions EXCEPT ![r] = [b \in Blocks |->
         IF b \in RetryCalls THEN executions[r][b] + 1 ELSE executions[r][b]]]
  BY <1>2, <1>7
<1>12. UNCHANGED <<results, guard, rollback, store, clock>>
  BY DEF Retry
<1>13. Retries(r, failed, directive)
  BY <1>6, <1>7, <1>10, <1>11 DEF Retries
<1> QED
  BY <1>1, <1>12, <1>13

LEMMA FinishDoes ==
    ASSUME TurnTypes, NEW r \in Runs, Finish(r)
    PROVE  /\ \/ run[r].at = "loop" /\ run[r].index > Len(Order)
              \/ run[r].at = "save"
           /\ Becomes(r, "done", run[r].index, run[r].executed, run[r].skipped,
                      run[r].earlyExit, run[r].group, run[r].aborted)
           /\ store' = IF context[r].state # {}
                       THEN [store EXCEPT ![context[r].session] = context[r].state]
                       ELSE store
           /\ UNCHANGED <<context, results, executions, guard, rollback, clock, faults>>
<1>1. run \in [Runs -> Locals] /\ run[r] \in Locals
  BY DEF TurnTypes, TypeOK
<1> DEFINE rec == [run[r] EXCEPT !.at = "done"]
<1>2. /\ rec \in Locals /\ rec.at = "done" /\ rec.index = run[r].index
      /\ rec.executed = run[r].executed /\ rec.skipped = run[r].skipped
      /\ rec.earlyExit = run[r].earlyExit /\ rec.group = run[r].group
      /\ rec.aborted = run[r].aborted
  BY <1>1 DEF Locals, AtAwait
<1>3. run' = [run EXCEPT ![r] = rec]
  BY <1>1 DEF Finish
<1> HIDE DEF rec
<1>4. Becomes(r, "done", run[r].index, run[r].executed, run[r].skipped,
              run[r].earlyExit, run[r].group, run[r].aborted)
  BY <1>1, <1>2, <1>3, RecordBecomes
<1> QED
  BY <1>4 DEF Finish

(* What the operators on contexts do, field by field.                      *)
LEMMA NewContextDoes ==
    ASSUME NEW r \in Runs, NEW state \in SUBSET Writes
    PROVE  /\ NewContext(r, state) \in Contexts
           /\ NewContext(r, state).session = SessionOf[r]
           /\ NewContext(r, state).writes = {} /\ NewContext(r, state).state = state
           /\ NewContext(r, state).time = NoTime
           /\ NewContext(r, state).directive = "none"
  BY DEF NewContext, Contexts, Sessions, Directives

LEMMA EffectDoes ==
    ASSUME NEW c \in Contexts, NEW r \in Runs, NEW b \in Blocks, NEW now \in Nat,
           NEW directive \in Directives
    PROVE  /\ Effect(c, r, b, now, directive) \in Contexts
           /\ Effect(c, r, b, now, directive).session = c.session
           /\ Effect(c, r, b, now, directive).writes = c.writes \cup {<<r, b>>}
           /\ Effect(c, r, b, now, directive).state \subseteq c.state \cup {<<r, b>>}
           /\ Effect(c, r, b, now, directive).time = IF b = TimeBlock THEN now ELSE c.time
           /\ Effect(c, r, b, now, directive).directive
                = IF b = RevisionGate THEN directive ELSE c.directive
<1> DEFINE writes == c.writes \cup {<<r, b>>}
           state == IF b = InitBlock THEN {<<r, b>>}
                    ELSE IF b \in StateBlocks THEN c.state \cup {<<r, b>>} ELSE c.state
           time == IF b = TimeBlock THEN now ELSE c.time
           verdict == IF b = RevisionGate THEN directive ELSE c.directive
<1>1. <<r, b>> \in Writes
  BY DEF Writes
<1>2. /\ writes \in SUBSET Writes /\ state \in SUBSET Writes
      /\ state \subseteq c.state \cup {<<r, b>>}
  BY <1>1 DEF Contexts
<1>3. time \in Nat \cup {NoTime} /\ verdict \in Directives
  BY DEF Contexts
<1>4. Effect(c, r, b, now, directive)
        = [c EXCEPT !.writes = writes, !.state = state, !.time = time,
                    !.directive = verdict]
  BY DEF Effect
<1> HIDE DEF writes, state, time, verdict
<1>5. /\ Effect(c, r, b, now, directive) \in Contexts
      /\ Effect(c, r, b, now, directive).session = c.session
      /\ Effect(c, r, b, now, directive).writes = writes
      /\ Effect(c, r, b, now, directive).state = state
      /\ Effect(c, r, b, now, directive).time = time
      /\ Effect(c, r, b, now, directive).directive = verdict
  BY <1>2, <1>3, <1>4 DEF Contexts
<1> QED
  BY <1>2, <1>5 DEF writes, time, verdict

LEMMA PartialEffectDoes ==
    ASSUME NEW c \in Contexts, NEW r \in Runs, NEW b \in Blocks, NEW wrote \in BOOLEAN
    PROVE  /\ PartialEffect(c, r, b, wrote) \in Contexts
           /\ PartialEffect(c, r, b, wrote).session = c.session
           /\ c.writes \subseteq PartialEffect(c, r, b, wrote).writes
           /\ PartialEffect(c, r, b, wrote).writes \subseteq c.writes \cup {<<r, b>>}
           /\ PartialEffect(c, r, b, wrote).state \subseteq c.state \cup {<<r, b>>}
           /\ PartialEffect(c, r, b, wrote).time = c.time
           /\ PartialEffect(c, r, b, wrote).directive = c.directive
<1> DEFINE writes == c.writes \cup {<<r, b>>}
           state == IF b \in StateBlocks THEN c.state \cup {<<r, b>>} ELSE c.state
<1>1. <<r, b>> \in Writes
  BY DEF Writes
<1>2. /\ writes \in SUBSET Writes /\ state \in SUBSET Writes
      /\ state \subseteq c.state \cup {<<r, b>>}
  BY <1>1 DEF Contexts
<1>3. CASE wrote
  <2>1. PartialEffect(c, r, b, wrote) = [c EXCEPT !.writes = writes, !.state = state]
    BY <1>3 DEF PartialEffect
  <2> HIDE DEF writes, state
  <2>2. /\ PartialEffect(c, r, b, wrote) \in Contexts
        /\ PartialEffect(c, r, b, wrote).session = c.session
        /\ PartialEffect(c, r, b, wrote).writes = writes
        /\ PartialEffect(c, r, b, wrote).state = state
        /\ PartialEffect(c, r, b, wrote).time = c.time
        /\ PartialEffect(c, r, b, wrote).directive = c.directive
    BY <1>2, <2>1 DEF Contexts
  <2> QED
    BY <1>2, <2>2 DEF writes
<1>4. CASE ~wrote
  BY <1>4 DEF PartialEffect
<1> QED
  BY <1>3, <1>4

LEMMA GroupEffectDoes ==
    ASSUME NEW c \in Contexts, NEW r \in Runs, NEW oks \in SUBSET Blocks, NEW now \in Nat
    PROVE  /\ GroupEffect(c, r, oks, now) \in Contexts
           /\ GroupEffect(c, r, oks, now).session = c.session
           /\ GroupEffect(c, r, oks, now).writes = c.writes \cup ({r} \X oks)
           /\ GroupEffect(c, r, oks, now).state \subseteq c.state \cup ({r} \X oks)
           /\ GroupEffect(c, r, oks, now).time
                = IF TimeBlock \in oks THEN now ELSE c.time
           /\ GroupEffect(c, r, oks, now).directive = c.directive
<1> DEFINE writes == c.writes \cup ({r} \X oks)
           state == IF InitBlock \in oks THEN {<<r, InitBlock>>} ELSE c.state
           time == IF TimeBlock \in oks THEN now ELSE c.time
<1>1. {r} \X oks \subseteq Writes
  BY DEF Writes
<1>2. InitBlock \in oks => <<r, InitBlock>> \in {r} \X oks
  OBVIOUS
<1>3. /\ writes \in SUBSET Writes /\ state \in SUBSET Writes
      /\ state \subseteq c.state \cup ({r} \X oks)
  BY <1>1, <1>2 DEF Contexts
<1>4. time \in Nat \cup {NoTime}
  BY DEF Contexts
<1>5. GroupEffect(c, r, oks, now)
        = [c EXCEPT !.writes = writes, !.state = state, !.time = time]
  BY DEF GroupEffect
<1> HIDE DEF writes, state, time
<1>6. /\ GroupEffect(c, r, oks, now) \in Contexts
      /\ GroupEffect(c, r, oks, now).session = c.session
      /\ GroupEffect(c, r, oks, now).writes = writes
      /\ GroupEffect(c, r, oks, now).state = state
      /\ GroupEffect(c, r, oks, now).time = time
      /\ GroupEffect(c, r, oks, now).directive = c.directive
  BY <1>3, <1>4, <1>5 DEF Contexts
<1> QED
  BY <1>3, <1>6 DEF writes, time

LEMMA RetriedDoes ==
    ASSUME NEW c \in Contexts, NEW r \in Runs, NEW oks \in SUBSET Blocks,
           NEW directive \in Directives
    PROVE  /\ Retried(c, r, oks, directive) \in Contexts
           /\ Retried(c, r, oks, directive).session = c.session
           /\ Retried(c, r, oks, directive).writes = c.writes \cup ({r} \X oks)
           /\ Retried(c, r, oks, directive).state \subseteq c.state \cup ({r} \X oks)
           /\ Retried(c, r, oks, directive).time = c.time
           /\ Retried(c, r, oks, directive).directive = directive
<1> DEFINE writes == c.writes \cup ({r} \X oks)
           state == c.state \cup ({r} \X (oks \cap StateBlocks))
           attempts == c.attempts + 1
<1>1. {r} \X oks \subseteq Writes
  BY DEF Writes
<1>2. {r} \X (oks \cap StateBlocks) \subseteq {r} \X oks
  OBVIOUS
<1>3. /\ writes \in SUBSET Writes /\ state \in SUBSET Writes
      /\ state \subseteq c.state \cup ({r} \X oks)
  BY <1>1, <1>2 DEF Contexts
<1>4. attempts \in Nat
  BY DEF Contexts
<1>5. Retried(c, r, oks, directive)
        = [c EXCEPT !.attempts = attempts, !.writes = writes, !.state = state,
                    !.directive = directive]
  BY DEF Retried
<1> HIDE DEF writes, state, attempts
<1>6. /\ Retried(c, r, oks, directive) \in Contexts
      /\ Retried(c, r, oks, directive).session = c.session
      /\ Retried(c, r, oks, directive).writes = writes
      /\ Retried(c, r, oks, directive).state = state
      /\ Retried(c, r, oks, directive).time = c.time
      /\ Retried(c, r, oks, directive).directive = directive
  BY <1>3, <1>4, <1>5 DEF Contexts
<1> QED
  BY <1>3, <1>6 DEF writes

(* A checkpoint. *)
LEMMA CheckpointDoes ==
    ASSUME NEW m \in Managers, NEW b \in Blocks, NEW c \in Contexts
    PROVE  /\ CreateCheckpoint(m, b, c, FALSE) = m
           /\ CreateCheckpoint(m, b, c, TRUE) \in Managers
           /\ CreateCheckpoint(m, b, c, TRUE).snapshots
                = Append(m.snapshots, [block |-> b, context |-> c])
           /\ CreateCheckpoint(m, b, c, TRUE).floor = Higher(m.floor, c.time)
           /\ Higher(m.floor, c.time) >= m.floor /\ Higher(m.floor, c.time) >= c.time
           /\ Higher(m.floor, c.time) = m.floor \/ Higher(m.floor, c.time) = c.time
<1>1. m.floor \in Nat \cup {NoTime} /\ c.time \in Nat \cup {NoTime} /\ NoTime \in Int
  BY DEF Managers, Contexts, NoTime
<1>2. /\ Higher(m.floor, c.time) >= m.floor /\ Higher(m.floor, c.time) >= c.time
      /\ Higher(m.floor, c.time) = m.floor \/ Higher(m.floor, c.time) = c.time
  BY <1>1 DEF Higher, NoTime
<1>3. Append(m.snapshots, [block |-> b, context |-> c])
        \in Seq([block : Blocks, context : Contexts])
  BY DEF Managers
<1>4. /\ CreateCheckpoint(m, b, c, FALSE) = m
      /\ CreateCheckpoint(m, b, c, TRUE) = [snapshots |-> Append(m.snapshots,
            [block |-> b, context |-> c]), floor |-> Higher(m.floor, c.time)]
  BY DEF CreateCheckpoint
<1>5. Higher(m.floor, c.time) \in Nat \cup {NoTime}
  BY <1>1, <1>2
<1> DEFINE floor == Higher(m.floor, c.time)
           snapshots == Append(m.snapshots, [block |-> b, context |-> c])
           after == CreateCheckpoint(m, b, c, TRUE)
<1>6. after = [snapshots |-> snapshots, floor |-> floor]
  BY <1>4
<1>7. floor \in Nat \cup {NoTime} /\ snapshots \in Seq([block : Blocks, context : Contexts])
  BY <1>3, <1>5
<1> HIDE DEF floor, snapshots, after
<1>8. after \in Managers /\ after.snapshots = snapshots /\ after.floor = floor
  BY <1>6, <1>7 DEF Managers
<1> QED
  BY <1>2, <1>4, <1>8 DEF after, snapshots, floor

(***************************************************************************)
(* A rollback: the snapshots are cut at some place k; the context is the   *)
(* one of place k with its time, if it has one, raised to the floor.       *)
(***************************************************************************)
RollsBackTo(m, k, c, back) ==
    /\ back.manager \in Managers
    /\ back.manager.snapshots = SubSeq(m.snapshots, 1, k)
    /\ back.manager.floor = m.floor
    /\ back.context \in Contexts
    /\ k = 0 => back.context = c
    /\ k # 0 => /\ m.snapshots[k].context \in Contexts
                /\ back.context.session = m.snapshots[k].context.session
                /\ back.context.writes = m.snapshots[k].context.writes
                /\ back.context.state = m.snapshots[k].context.state
                /\ back.context.directive = m.snapshots[k].context.directive
                /\ back.context.time =
                     IF /\ m.snapshots[k].context.time # NoTime
                        /\ m.snapshots[k].context.time < m.floor
                     THEN m.floor ELSE m.snapshots[k].context.time

(* The first k elements of a sequence. *)
LEMMA CutIsASequence ==
    ASSUME NEW S, NEW s \in Seq(S), NEW k \in 0 .. Len(s)
    PROVE  /\ SubSeq(s, 1, k) \in Seq(S) /\ Len(SubSeq(s, 1, k)) = k
           /\ \A i \in 1 .. k : SubSeq(s, 1, k)[i] = s[i]
           /\ \A i \in 1 .. Len(s) : s[i] \in S
  OBVIOUS

LEMMA RollbackDoes ==
    ASSUME NEW m \in Managers, NEW b, NEW c \in Contexts
    PROVE  /\ Kept(m.snapshots, b) \in 0 .. Len(m.snapshots)
           /\ RollsBackTo(m, Kept(m.snapshots, b), c, RollbackToCheckpoint(m, b, c))
<1> DEFINE k == Kept(m.snapshots, b)
           back == RollbackToCheckpoint(m, b, c)
           rest == SubSeq(m.snapshots, 1, k)
<1>1. /\ m.snapshots \in Seq([block : Blocks, context : Contexts])
      /\ m.floor \in Nat \cup {NoTime}
  BY DEF Managers
<1>2. k \in 0 .. Len(m.snapshots)
  BY <1>1, KeptIsAPlace
<1>3. rest \in Seq([block : Blocks, context : Contexts])
  BY <1>1, <1>2, CutIsASequence
<1>9. back = [manager |-> [m EXCEPT !.snapshots = rest],
             context |-> IF k = 0 THEN c
                         ELSE EnforceTimeFloor(m.floor, m.snapshots[k].context)]
  BY DEF RollbackToCheckpoint
<1>4. back.manager = [m EXCEPT !.snapshots = rest]
  BY <1>9
<1>5. back.context = IF k = 0 THEN c
                     ELSE EnforceTimeFloor(m.floor, m.snapshots[k].context)
  BY <1>9
<1> HIDE DEF k, back, rest
<1>6. /\ back.manager \in Managers /\ back.manager.snapshots = rest
      /\ back.manager.floor = m.floor
  BY <1>3, <1>4 DEF Managers
<1>7. CASE k = 0
  <2>1. back.context = c
    BY <1>5, <1>7
  <2>2. RollsBackTo(m, k, c, back)
    BY <1>6, <1>7, <2>1 DEF RollsBackTo, rest
  <2> QED
    BY <1>2, <2>2 DEF k, back
<1>8. CASE k # 0
  <2> DEFINE old == m.snapshots[k].context
  <2>1. old \in Contexts
    <3>1. k \in 1 .. Len(m.snapshots)
      BY <1>1, <1>2, <1>8
    <3>2. m.snapshots[k] \in [block : Blocks, context : Contexts]
      BY <1>1, <1>2, <3>1, CutIsASequence
    <3> QED
      BY <3>2
  <2> HIDE DEF old
  <2>2. back.context = EnforceTimeFloor(m.floor, old)
    BY <1>5, <1>8 DEF old
  <2>3. /\ back.context \in Contexts
        /\ back.context.session = old.session
        /\ back.context.writes = old.writes
        /\ back.context.state = old.state
        /\ back.context.directive = old.directive
        /\ back.context.time = IF old.time # NoTime /\ old.time < m.floor
                               THEN m.floor ELSE old.time
    <3>1. CASE old.time # NoTime /\ old.time < m.floor
      <4>1. back.context = [old EXCEPT !.time = m.floor]
        BY <2>2, <3>1 DEF EnforceTimeFloor
      <4> QED
        BY <1>1, <2>1, <3>1, <4>1 DEF Contexts
    <3>2. CASE ~(old.time # NoTime /\ old.time < m.floor)
      BY <2>1, <2>2, <3>2 DEF EnforceTimeFloor
    <3> QED
      BY <3>1, <3>2
  <2>4. RollsBackTo(m, k, c, back)
    BY <1>6, <1>8, <2>1, <2>3 DEF RollsBackTo, rest, old
  <2> QED
    BY <1>2, <2>4 DEF k, back
<1> QED
  BY <1>7, <1>8


-----------------------------------------------------------------------------
(* Types *)

(* A step that gives run r new locals and a new context keeps the types. *)
LEMMA TypesAfter ==
    ASSUME TurnTypes, NEW r \in Runs, NEW at, NEW index, NEW executed, NEW skipped,
           NEW exit, NEW group, NEW aborted,
           Becomes(r, at, index, executed, skipped, exit, group, aborted),
           at \in Active \ {"loop"} => index <= Len(Order),
           \/ context' = context
           \/ \E c \in Contexts : context' = [context EXCEPT ![r] = c],
           results' \in [Runs -> [Blocks -> Statuses]],
           executions' \in [Runs -> [Blocks -> Nat]],
           store' \in [Sessions -> SUBSET Writes],
           clock' \in Nat, faults' \in 0 .. MaxFaults, rollback' \in Managers
    PROVE  TurnTypes'
<1>1. run' \in [Runs -> Locals]
  BY DEF Becomes
<1>2. context' \in [Runs -> Contexts]
  BY DEF TurnTypes, TypeOK, Contexts
<1>3. TypeOK'
  BY <1>1, <1>2 DEF TypeOK, Contexts
<1>4. ASSUME NEW q \in Runs, run'[q].at \in Active \ {"loop"}
      PROVE  run'[q].index <= Len(Order)
  <2>1. CASE q = r
    BY <1>4, <2>1 DEF Becomes
  <2>2. CASE q # r
    BY <1>4, <2>2 DEF Becomes, TurnTypes
  <2> QED
    BY <2>1, <2>2
<1> QED
  BY <1>3, <1>4 DEF TurnTypes

(* What the types say of the run that takes a step. *)
LEMMA TypesOf ==
    ASSUME TurnTypes, NEW r \in Runs
    PROVE  /\ run \in [Runs -> Locals] /\ run[r] \in Locals
           /\ context \in [Runs -> Contexts] /\ context[r] \in Contexts
           /\ results \in [Runs -> [Blocks -> Statuses]]
           /\ executions \in [Runs -> [Blocks -> Nat]]
           /\ store \in [Sessions -> SUBSET Writes]
           /\ clock \in Nat /\ faults \in 0 .. MaxFaults /\ MaxFaults \in Nat
           /\ rollback \in Managers
           /\ SessionOf[r] \in Sessions
  BY PipelineAssumption DEF TurnTypes, TypeOK, Contexts, Sessions

(* Counting the failures of a call of several blocks stays in the budget. *)
LEMMA FaultsCounted ==
    ASSUME faults \in 0 .. MaxFaults, NEW S, NEW failed \in AtMost(MaxFaults - faults, S)
    PROVE  /\ failed \subseteq S /\ IsFiniteSet(failed) /\ Cardinality(failed) \in Nat
           /\ faults + Cardinality(failed) \in 0 .. MaxFaults
<1>1. MaxFaults \in Nat
  BY PipelineAssumption
<1>2. MaxFaults - faults \in Nat
  BY <1>1
<1>3. /\ failed \subseteq S /\ IsFiniteSet(failed)
      /\ Cardinality(failed) \in 0 .. MaxFaults - faults
  BY <1>2, AtMostBounds
<1> QED
  BY <1>1, <1>3

LEMMA NowIsANumber ==
    ASSUME clock \in Nat, NEW b, NEW wrote
    PROVE  NowAfter(b, wrote) \in Nat /\ NowAfter(b, wrote) >= clock
  BY DEF NowAfter

LEMMA InitTypes == Init => TurnTypes
<1> SUFFICES ASSUME Init PROVE TurnTypes
  OBVIOUS
<1>1. run \in [Runs -> Locals]
  BY PipelineAssumption DEF Init, Locals, AtAwait
<1>2. ASSUME NEW r \in Runs PROVE NewContext(r, {}) \in Contexts
  BY NewContextDoes
<1>3. context \in [Runs -> Contexts]
  BY <1>2 DEF Init
<1>4. rollback \in Managers
  BY DEF Init, FreshManager, Managers
<1>5. \A r \in Runs : run[r].at = "ready"
  BY DEF Init
<1>6. /\ results \in [Runs -> [Blocks -> Statuses]]
      /\ executions \in [Runs -> [Blocks -> Nat]]
      /\ store \in [Sessions -> SUBSET Writes]
      /\ clock \in Nat /\ faults \in 0 .. MaxFaults
  BY PipelineAssumption DEF Init, Statuses
<1> QED
  BY <1>1, <1>3, <1>4, <1>5, <1>6 DEF TurnTypes, TypeOK, Contexts, Active

LEMMA TypesKept == ASSUME TurnTypes, [Next]_vars PROVE TurnTypes'
<1>1. ASSUME NEW r \in Runs, Start(r) PROVE TurnTypes'
  <2>1. NewContext(r, store[SessionOf[r]]) \in Contexts
    BY TypesOf, NewContextDoes
  <2>2. \E c \in Contexts : context' = [context EXCEPT ![r] = c]
    BY <1>1, <2>1, StartDoes
  <2>3. UNCHANGED <<results, executions, rollback, store, clock, faults>>
    BY <1>1, StartDoes
  <2>4. \E index, executed, skipped, exit, group, aborted :
          Becomes(r, "loop", index, executed, skipped, exit, group, aborted)
    BY <1>1, StartDoes
  <2> QED
    BY <2>2, <2>3, <2>4, TypesOf, TypesAfter
<1>2. ASSUME NEW r \in Runs, Iterate(r) PROVE TurnTypes'
  <2>1. PICK aborts \in BOOLEAN : Decides(r, aborts)
    BY <1>2, IterateDoes
  <2>2. run[r].index \in Indices
    BY <1>2, IterateDoes
  <2>3. run[r].index <= Len(Order)
    BY <2>2, PipelineAssumption DEF Indices
  <2>4. UNCHANGED <<context, results, executions, rollback, store, clock, faults>>
    BY <1>2, IterateDoes
  <2>5. \E at, executed, skipped, exit, group, aborted :
          Becomes(r, at, run[r].index, executed, skipped, exit, group, aborted)
    BY <2>1 DEF Decides
  <2> QED
    BY <2>3, <2>4, <2>5, TypesOf, TypesAfter
<1>3. ASSUME NEW r \in Runs, RunGroup(r) PROVE TurnTypes'
  <2> DEFINE called == run[r].group \cap Registered
  <2>1. PICK failed, declined, exits : GroupRuns(r, failed, declined, exits)
    BY <1>3, RunGroupDoes
  <2> DEFINE oks == called \ (failed \cup declined)
             now == IF TimeBlock \in called THEN clock + 1 ELSE clock
  <2>2. run[r].at = "group" /\ run[r].group \subseteq Blocks
        /\ UNCHANGED <<rollback, store>>
    BY <1>3, RunGroupDoes
  <2>3. now \in Nat /\ oks \in SUBSET Blocks
    BY <2>2, TypesOf
  <2>9. context' = [context EXCEPT ![r] = GroupEffect(context[r], r, oks, now)]
        /\ clock' = now
    BY <2>1 DEF GroupRuns
  <2>6. results' \in [Runs -> [Blocks -> Statuses]]
    <3>1. \A b \in Blocks : (IF b \notin run[r].group THEN results[r][b]
                             ELSE IF b \in oks THEN "ok"
                             ELSE IF b \in declined THEN "skipped" ELSE "error")
                               \in Statuses
      BY TypesOf DEF Statuses
    <3>2. results' = [results EXCEPT ![r] = [b \in Blocks |->
             IF b \notin run[r].group THEN results[r][b]
             ELSE IF b \in oks THEN "ok"
             ELSE IF b \in declined THEN "skipped" ELSE "error"]]
      BY <2>1 DEF GroupRuns
    <3> HIDE DEF oks
    <3> QED
      BY <3>1, <3>2, TypesOf
  <2>7. executions' \in [Runs -> [Blocks -> Nat]]
    <3>1. \A b \in Blocks : (IF b \in called THEN executions[r][b] + 1
                             ELSE executions[r][b]) \in Nat
      BY TypesOf
    <3>2. executions' = [executions EXCEPT ![r] = [b \in Blocks |->
             IF b \in called THEN executions[r][b] + 1 ELSE executions[r][b]]]
      BY <2>1 DEF GroupRuns
    <3> HIDE DEF called
    <3> QED
      BY <3>1, <3>2, TypesOf
  <2>8. faults' \in 0 .. MaxFaults
    BY <2>1, TypesOf, FaultsCounted DEF GroupRuns
  <2> HIDE DEF oks, now, called
  <2>4. GroupEffect(context[r], r, oks, now) \in Contexts
    BY <2>3, TypesOf, GroupEffectDoes
  <2>5. run[r].index <= Len(Order)
    BY <2>2, AtTheBlock, PipelineAssumption DEF Active, Indices
  <2>10. \E executed, skipped, exit, group, aborted :
          Becomes(r, "select", run[r].index, executed, skipped, exit, group, aborted)
    BY <2>1 DEF GroupRuns
  <2> QED
    BY <2>2, <2>3, <2>4, <2>5, <2>6, <2>7, <2>8, <2>9, <2>10, TypesOf, TypesAfter
<1>4. ASSUME NEW r \in Runs, PassOver(r) PROVE TurnTypes'
  <2>1. PICK skipped \in SUBSET Blocks, status \in Statuses :
          /\ Becomes(r, "loop", run[r].index + 1, run[r].executed, skipped,
                     run[r].earlyExit, run[r].group, run[r].aborted)
          /\ results' = [results EXCEPT ![r][Current(r)] = status]
    BY <1>4, PassOverDoes
  <2>2. UNCHANGED <<context, executions, rollback, store, clock, faults>>
    BY <1>4, PassOverDoes
  <2>3. results' \in [Runs -> [Blocks -> Statuses]]
    BY <2>1, TypesOf
  <2> QED
    BY <2>1, <2>2, <2>3, TypesOf, TypesAfter
<1>5. ASSUME NEW r \in Runs, CallBlock(r) PROVE TurnTypes'
  <2>1. /\ run[r].at = "select"
        /\ Becomes(r, "block", run[r].index, run[r].executed, run[r].skipped,
                   run[r].earlyExit, run[r].group, run[r].aborted)
        /\ executions' = [executions EXCEPT ![r][Current(r)] =
                               executions[r][Current(r)] + 1]
        /\ UNCHANGED <<context, results, rollback, store, clock, faults>>
    BY <1>5, CallBlockDoes
  <2>2. Current(r) \in Blocks /\ run[r].index <= Len(Order)
    BY <2>1, AtTheBlock, PipelineAssumption DEF Active, Indices
  <2>3. executions[r][Current(r)] + 1 \in Nat
    BY <2>2, TypesOf
  <2>4. executions' \in [Runs -> [Blocks -> Nat]]
    BY <2>1, <2>3, TypesOf
  <2> QED
    BY <2>1, <2>2, <2>4, TypesOf, TypesAfter
<1>6. ASSUME NEW r \in Runs, BlockReturns(r) PROVE TurnTypes'
  <2> DEFINE b == Current(r)
  <2>1. PICK ok, exits, short, directive, copied :
          Replies(r, b, ok, exits, short, directive, copied)
    BY <1>6, BlockReturnsDoes
  <2> DEFINE after == ContextAfter(r, b, ok, directive)
  <2>2. /\ run[r].at = "block" /\ UNCHANGED <<executions, store>>
        /\ run[r].index <= Len(Order) /\ b \in Blocks
    BY <1>6, BlockReturnsDoes, AtTheBlock, PipelineAssumption DEF Active, Indices
  <2> HIDE DEF b
  <2>3. NowAfter(b, TRUE) \in Nat
    BY TypesOf, NowIsANumber
  <2>4. after \in Contexts
    BY <2>1, <2>2, <2>3, TypesOf, EffectDoes DEF ContextAfter, Replies, MayAnswer
  <2>5. rollback' \in Managers
    <3>1. rollback' = IF ok /\ RollbackOn
                      THEN CreateCheckpoint(rollback, b, after, copied) ELSE rollback
      BY <2>1 DEF Replies
    <3>2. copied \in BOOLEAN
      BY <2>1 DEF Replies
    <3> HIDE DEF after
    <3>3. rollback \in Managers
      BY TypesOf
    <3>4. CreateCheckpoint(rollback, b, after, copied) \in Managers
      BY <2>2, <2>4, <3>2, <3>3, CheckpointDoes
    <3> QED
      BY <3>1, <3>3, <3>4
  <2>9. faults' \in 0 .. MaxFaults
    BY <2>1, TypesOf DEF Replies
  <2>6. results' \in [Runs -> [Blocks -> Statuses]]
    <3>1. (IF ok THEN "ok" ELSE "skipped") \in Statuses
      BY DEF Statuses
    <3> QED
      BY <2>1, <3>1, TypesOf DEF Replies
  <2>7. clock' = NowAfter(b, TRUE) /\ context' = [context EXCEPT ![r] = after]
    BY <2>1 DEF Replies
  <2>8. \E at, index, executed, skipped, exit, group, aborted :
          /\ Becomes(r, at, index, executed, skipped, exit, group, aborted)
          /\ at \in Active \ {"loop"} => index <= Len(Order)
    BY <2>1, <2>2 DEF Replies
  <2> HIDE DEF after
  <2> QED
    BY <2>2, <2>3, <2>4, <2>5, <2>6, <2>7, <2>8, <2>9, TypesOf, TypesAfter
<1>7. ASSUME NEW r \in Runs, BlockFails(r) PROVE TurnTypes'
  <2> DEFINE b == Current(r)
  <2>1. PICK wrote \in BOOLEAN : Fails(r, b, wrote)
    BY <1>7, BlockFailsDoes
  <2> DEFINE after == PartialEffect(context[r], r, b, wrote)
             back == RollbackToCheckpoint(rollback, b, after)
             undo == RollbackOn /\ b \notin AlwaysOn
  <2>2. /\ run[r].at = "block" /\ UNCHANGED <<executions, store>>
        /\ b \in Blocks
    BY <1>7, BlockFailsDoes, AtTheBlock DEF Active
  <2> HIDE DEF b
  <2>3. NowAfter(b, wrote) \in Nat
    BY TypesOf, NowIsANumber
  <2>4. after \in Contexts
    BY <2>2, TypesOf, PartialEffectDoes
  <2>5. back.manager \in Managers /\ back.context \in Contexts
    BY <2>4, TypesOf, RollbackDoes DEF RollsBackTo
  <2>6. results' \in [Runs -> [Blocks -> Statuses]]
    BY <2>1, TypesOf DEF Statuses, Fails
  <2>7. faults' \in 0 .. MaxFaults
    BY <2>1, TypesOf DEF Fails
  <2>8. rollback' \in Managers
    BY <2>1, <2>5, TypesOf DEF Fails
  <2>9. \E c \in Contexts : context' = [context EXCEPT ![r] = c]
    BY <2>1, <2>4, <2>5 DEF Fails
  <2>10. clock' \in Nat
    BY <2>1, <2>3 DEF Fails
  <2>11. \E index, executed, skipped, exit, group, aborted :
          Becomes(r, "loop", index, executed, skipped, exit, group, aborted)
    BY <2>1 DEF Fails
  <2> HIDE DEF after, back
  <2> QED
    BY <2>2, <2>6, <2>11, <2>7, <2>8, <2>9, <2>10, TypesOf, TypesAfter
<1>8. ASSUME NEW r \in Runs, Retry(r) PROVE TurnTypes'
  <2>1. UNCHANGED <<results, rollback, store, clock>>
    BY <1>8, RetryDoes
  <2>2. PICK failed, directive : Retries(r, failed, directive)
    BY <1>8, RetryDoes
  <2>3. RetryCalls \ failed \in SUBSET Blocks
    BY PipelineAssumption DEF RetryCalls
  <2>4. Retried(context[r], r, RetryCalls \ failed, directive) \in Contexts
    BY <2>2, <2>3, TypesOf, RetriedDoes DEF Retries
  <2>5. faults' \in 0 .. MaxFaults
    BY <2>2, TypesOf, FaultsCounted DEF Retries
  <2>6. executions' \in [Runs -> [Blocks -> Nat]]
    <3>1. \A b \in Blocks : (IF b \in RetryCalls THEN executions[r][b] + 1
                             ELSE executions[r][b]) \in Nat
      BY TypesOf
    <3>2. executions' = [executions EXCEPT ![r] = [b \in Blocks |->
             IF b \in RetryCalls THEN executions[r][b] + 1 ELSE executions[r][b]]]
      BY <2>2 DEF Retries
    <3> QED
      BY <3>1, <3>2, TypesOf
  <2>7. \E c \in Contexts : context' = [context EXCEPT ![r] = c]
    BY <2>2, <2>4 DEF Retries
  <2>8. \E index, executed, skipped, exit, group, aborted :
          Becomes(r, "loop", index, executed, skipped, exit, group, aborted)
    BY <2>2 DEF Retries
  <2> QED
    BY <2>1, <2>5, <2>6, <2>7, <2>8, TypesOf, TypesAfter
<1>9. ASSUME NEW r \in Runs, Finish(r) PROVE TurnTypes'
  <2>1. context[r].session \in Sessions /\ context[r].state \in SUBSET Writes
    BY TypesOf DEF Contexts
  <2>2. store' \in [Sessions -> SUBSET Writes]
    BY <1>9, <2>1, TypesOf, FinishDoes
  <2> QED
    BY <1>9, <2>2, TypesOf, FinishDoes, TypesAfter DEF Active
<1>11. ASSUME NEW r \in Runs, LoseGroup(r) PROVE TurnTypes'
  <2>1. PICK called : GroupIsLost(r, called)
    BY <1>11, LoseGroupDoes
  <2>2. run[r].at = "group" /\ UNCHANGED <<context, results, rollback, store>>
    BY <1>11, LoseGroupDoes
  <2>3. run[r].index <= Len(Order)
    BY <2>2, AtTheBlock, PipelineAssumption DEF Active, Indices
  <2>4. executions' \in [Runs -> [Blocks -> Nat]]
    <3>1. \A b \in Blocks : (IF b \in called THEN executions[r][b] + 1
                             ELSE executions[r][b]) \in Nat
      BY TypesOf
    <3>2. executions' = [executions EXCEPT ![r] = [b \in Blocks |->
             IF b \in called THEN executions[r][b] + 1 ELSE executions[r][b]]]
      BY <2>1 DEF GroupIsLost
    <3> QED
      BY <3>1, <3>2, TypesOf
  <2>5. faults' \in 0 .. MaxFaults /\ clock' \in Nat
    BY <2>1, TypesOf DEF GroupIsLost
  <2>6. \E executed, skipped, exit, group, aborted :
          Becomes(r, "select", run[r].index, executed, skipped, exit, group, aborted)
    BY <2>1 DEF GroupIsLost
  <2> QED
    BY <2>2, <2>3, <2>4, <2>5, <2>6, TypesOf, TypesAfter
<1>10. CASE UNCHANGED vars
  BY <1>10 DEF vars, TurnTypes, TypeOK
<1> QED
  BY <1>1, <1>2, <1>3, <1>4, <1>5, <1>6, <1>7, <1>8, <1>9, <1>10, <1>11 DEF Next, Step

(***************************************************************************)
(* The types of the orchestrator, with any number of overlapping turns:    *)
(* in particular the index of the loop never passes the end of the order,  *)
(* and no rollback leaves a context that is none.                          *)
(* echo_orchestrator.py:479-1043.                                          *)
(***************************************************************************)
THEOREM TurnsAreTyped == Spec => []TypeOK
<1>1. TurnTypes => TypeOK
  BY DEF TurnTypes
<1> QED
  BY <1>1, InitTypes, TypesKept, PTL DEF Spec

-----------------------------------------------------------------------------
(* A step is the step of one run *)

LEMMA OthersUntouched ==
    ASSUME TurnTypes, NEW r \in Runs, Step(r), NEW q \in Runs \ {r}
    PROVE  /\ run'[q] = run[q] /\ context'[q] = context[q]
           /\ results'[q] = results[q] /\ executions'[q] = executions[q]
<1>1. CASE Start(r)
  BY <1>1, StartDoes, TypesOf DEF Becomes
<1>2. CASE Iterate(r)
  BY <1>2, IterateDoes DEF Decides, Becomes
<1>3. CASE RunGroup(r)
  <2>1. PICK failed, declined, exits : GroupRuns(r, failed, declined, exits)
    BY <1>3, RunGroupDoes
  <2>2. run'[q] = run[q]
    BY <2>1 DEF GroupRuns, Becomes
  <2>3. context'[q] = context[q]
    BY <2>1, TypesOf DEF GroupRuns
  <2>4. results'[q] = results[q] /\ executions'[q] = executions[q]
    BY <2>1, TypesOf DEF GroupRuns
  <2> QED
    BY <2>2, <2>3, <2>4
<1>4. CASE PassOver(r)
  <2>1. PICK skipped \in SUBSET Blocks, status \in Statuses :
          /\ Becomes(r, "loop", run[r].index + 1, run[r].executed, skipped,
                     run[r].earlyExit, run[r].group, run[r].aborted)
          /\ results' = [results EXCEPT ![r][Current(r)] = status]
    BY <1>4, PassOverDoes
  <2> QED
    BY <1>4, <2>1, PassOverDoes, TypesOf DEF Becomes
<1>5. CASE CallBlock(r)
  <2>1. /\ run'[q] = run[q]
        /\ executions' = [executions EXCEPT ![r][Current(r)] =
                            executions[r][Current(r)] + 1]
        /\ UNCHANGED <<context, results>>
    BY <1>5, CallBlockDoes DEF Becomes
  <2> QED
    BY <2>1, TypesOf
<1>6. CASE BlockReturns(r)
  <2>1. PICK ok, exits, short, directive, copied :
          Replies(r, Current(r), ok, exits, short, directive, copied)
    BY <1>6, BlockReturnsDoes
  <2>2. run'[q] = run[q]
    BY <2>1 DEF Replies, Becomes
  <2>3. context'[q] = context[q] /\ results'[q] = results[q]
    BY <2>1, TypesOf DEF Replies
  <2> QED
    BY <1>6, <2>2, <2>3, BlockReturnsDoes
<1>7. CASE BlockFails(r)
  <2>1. PICK wrote : Fails(r, Current(r), wrote)
    BY <1>7, BlockFailsDoes
  <2>2. run'[q] = run[q]
    BY <2>1 DEF Fails, Becomes
  <2>3. context'[q] = context[q] /\ results'[q] = results[q]
    BY <2>1, TypesOf DEF Fails
  <2> QED
    BY <1>7, <2>2, <2>3, BlockFailsDoes
<1>8. CASE Retry(r)
  <2>1. PICK failed, directive : Retries(r, failed, directive)
    BY <1>8, RetryDoes
  <2>2. run'[q] = run[q]
    BY <2>1 DEF Retries, Becomes
  <2>3. context'[q] = context[q] /\ executions'[q] = executions[q]
    BY <2>1, TypesOf DEF Retries
  <2> QED
    BY <1>8, <2>2, <2>3, RetryDoes
<1>9. CASE Finish(r)
  BY <1>9, FinishDoes DEF Becomes
<1>10. CASE LoseGroup(r)
  <2>1. PICK called : GroupIsLost(r, called)
    BY <1>10, LoseGroupDoes
  <2>2. run'[q] = run[q]
    BY <2>1 DEF GroupIsLost, Becomes
  <2>3. executions'[q] = executions[q]
    BY <2>1, TypesOf DEF GroupIsLost
  <2> QED
    BY <1>10, <2>2, <2>3, LoseGroupDoes
<1> QED
  BY <1>1, <1>2, <1>3, <1>4, <1>5, <1>6, <1>7, <1>8, <1>9, <1>10 DEF Step

(* With parallel groups off, no run stands at a group. *)
LEMMA NoGroup == ASSUME ~Parallel, NEW s PROVE NextGroup(s) = {}
  BY DEF NextGroup

Sequential == ~Parallel => \A r \in Runs : run[r].at # "group"

LEMMA InitSequential == Init => Sequential
  BY DEF Init, Sequential

LEMMA SequentialKept ==
    ASSUME TurnTypes, Sequential, [Next]_vars
    PROVE  Sequential'
<1> SUFFICES ASSUME ~Parallel PROVE \A r \in Runs : run'[r].at # "group"
  BY DEF Sequential
<1>1. ASSUME NEW r \in Runs, Step(r) PROVE run'[r].at # "group"
  <2>1. CASE Start(r)
    BY <2>1, StartDoes DEF Becomes
  <2>2. CASE Iterate(r)
    BY <2>2, IterateDoes, NoGroup DEF Decides, Becomes
  <2>3. CASE RunGroup(r)
    BY <2>3, RunGroupDoes DEF Sequential
  <2>4. CASE PassOver(r)
    BY <2>4, PassOverDoes DEF Becomes
  <2>5. CASE CallBlock(r)
    BY <2>5, CallBlockDoes DEF Becomes
  <2>6. CASE BlockReturns(r)
    BY <2>6, BlockReturnsTo
  <2>7. CASE BlockFails(r)
    BY <2>7, BlockFailsDoes DEF Fails, Becomes
  <2>8. CASE Retry(r)
    BY <2>8, RetryDoes DEF Retries, Becomes
  <2>9. CASE Finish(r)
    BY <2>9, FinishDoes DEF Becomes
  <2>10. CASE LoseGroup(r)
    BY <2>10, LoseGroupDoes DEF Sequential
  <2> QED
    BY <1>1, <2>1, <2>2, <2>3, <2>4, <2>5, <2>6, <2>7, <2>8, <2>9, <2>10 DEF Step
<1>2. ASSUME NEW r \in Runs, Step(r) PROVE \A q \in Runs : run'[q].at # "group"
  BY <1>1, <1>2, OthersUntouched DEF Sequential
<1> QED
  BY <1>2 DEF Next, vars, Sequential

LEMMA NoGroupRuns ==
    ASSUME ~Parallel, TurnTypes, Sequential, NEW r \in Runs
    PROVE  ~RunGroup(r) /\ ~LoseGroup(r)
  BY RunGroupDoes, LoseGroupDoes DEF Sequential

-----------------------------------------------------------------------------
(* An early exit stops *)

(* In a run that has exited only always-on blocks are under way, and no    *)
(* retry is.                                                               *)
ExitHolds(r) ==
    /\ run[r].at = "block" /\ run[r].earlyExit => Current(r) \in AlwaysOn
    /\ run[r].at = "retry" => ~run[r].earlyExit

ExitInv == \A r \in Runs : ExitHolds(r)

LEMMA InitExit == Init => ExitInv
  BY DEF Init, ExitInv, ExitHolds

LEMMA ExitKept ==
    ASSUME ~Parallel, RevisionGate \notin ExitBlocks \cup AlwaysOn,
           TurnTypes, Sequential, ExitInv, [Next]_vars
    PROVE  ExitInv'
<1>0. ASSUME NEW r \in Runs, Step(r) PROVE ExitHolds(r)'
  <2>1. CASE Start(r)
    BY <2>1, StartDoes DEF ExitHolds, Becomes
  <2>2. CASE Iterate(r)
    BY <2>2, IterateDoes, NoGroup DEF Decides, ExitHolds, Becomes
  <2>3. CASE RunGroup(r)
    BY <2>3, NoGroupRuns
  <2>4. CASE PassOver(r)
    BY <2>4, PassOverDoes DEF ExitHolds, Becomes
  <2>5. CASE CallBlock(r)
    <3>1. run[r].earlyExit => Current(r) \in AlwaysOn
      BY <2>5, CallBlockDoes DEF SkipsBlock
    <3> QED
      BY <2>5, <3>1, CallBlockDoes DEF ExitHolds, Becomes, Current
  <2>6. CASE BlockReturns(r)
    <3>1. run[r].at = "block" /\ (run[r].earlyExit => Current(r) \in AlwaysOn)
      BY <2>6, BlockReturnsDoes DEF ExitInv, ExitHolds
    <3>2. PICK ok, exits, short, directive, copied :
            Replies(r, Current(r), ok, exits, short, directive, copied)
      BY <2>6, BlockReturnsDoes
    <3>3. CASE RetryDue(Current(r), ContextAfter(r, Current(r), ok, directive))
      <4>1. Current(r) = RevisionGate /\ ~run[r].earlyExit
        BY <3>1, <3>3 DEF RetryDue
      <4>2. ~exits
        BY <3>2, <4>1 DEF Replies, MayAnswer
      <4> QED
        BY <3>2, <3>3, <4>1, <4>2 DEF Replies, Becomes, ExitHolds
    <3>4. CASE ~RetryDue(Current(r), ContextAfter(r, Current(r), ok, directive))
      BY <3>2, <3>4 DEF Replies, Becomes, ExitHolds
    <3> QED
      BY <3>3, <3>4
  <2>7. CASE BlockFails(r)
    BY <2>7, BlockFailsDoes DEF Fails, ExitHolds, Becomes
  <2>8. CASE Retry(r)
    BY <2>8, RetryDoes DEF Retries, ExitHolds, Becomes
  <2>9. CASE Finish(r)
    BY <2>9, FinishDoes DEF ExitHolds, Becomes
  <2>10. CASE LoseGroup(r)
    BY <2>10, NoGroupRuns
  <2> QED
    BY <1>0, <2>1, <2>2, <2>3, <2>4, <2>5, <2>6, <2>7, <2>8, <2>9, <2>10 DEF Step
<1>1. ASSUME NEW r \in Runs, Step(r) PROVE ExitInv'
  <2>1. ASSUME NEW q \in Runs \ {r} PROVE ExitHolds(q)'
    BY <1>1, <2>1, OthersUntouched DEF ExitInv, ExitHolds, Current
  <2> QED
    BY <1>0, <1>1, <2>1 DEF ExitInv
<1>2. CASE UNCHANGED vars
  BY <1>2 DEF vars, ExitInv, ExitHolds, Current
<1> QED
  BY <1>1, <1>2 DEF Next

(* A step calls a block only as a call of the loop, in a group or in a     *)
(* retry.                                                                  *)
LEMMA CallsOf ==
    ASSUME TurnTypes, NEW r \in Runs, Step(r)
    PROVE  \/ CallBlock(r) \/ RunGroup(r) \/ LoseGroup(r) \/ Retry(r)
           \/ executions' = executions
<1>1. ASSUME Start(r) PROVE executions' = executions
  BY <1>1, StartDoes
<1>2. ASSUME Iterate(r) PROVE executions' = executions
  BY <1>2, IterateDoes
<1>4. ASSUME PassOver(r) PROVE executions' = executions
  BY <1>4, PassOverDoes
<1>6. ASSUME BlockReturns(r) PROVE executions' = executions
  BY <1>6, BlockReturnsDoes
<1>7. ASSUME BlockFails(r) PROVE executions' = executions
  BY <1>7, BlockFailsDoes
<1>9. ASSUME Finish(r) PROVE executions' = executions
  BY <1>9, FinishDoes
<1> QED
  BY <1>1, <1>2, <1>4, <1>6, <1>7, <1>9 DEF Step

(***************************************************************************)
(* With parallel groups off, and a revision gate that is neither always-on *)
(* nor a block that may ask for an exit, as in the contract, a turn that   *)
(* has exited calls always-on blocks only, also while other turns overlap  *)
(* it.  echo_orchestrator.py:685-700.                                      *)
(***************************************************************************)
THEOREM AnExitStops ==
    ASSUME ~Parallel, RevisionGate \notin ExitBlocks \cup AlwaysOn
    PROVE  Spec => EarlyExitStops
<1> DEFINE Stops == \A r \in Runs : run[r].earlyExit =>
                      \A b \in Blocks \ AlwaysOn : executions'[r][b] = executions[r][b]
<1>1. ASSUME TurnTypes, Sequential, ExitInv, NEW r \in Runs, Step(r), NEW q \in Runs,
             run[q].earlyExit, NEW b \in Blocks \ AlwaysOn
      PROVE  executions'[q][b] = executions[q][b]
  <2>1. CASE q # r
    BY <1>1, <2>1, OthersUntouched
  <2>2. CASE q = r
    <3>1. CASE CallBlock(r)
      <4>1. Current(r) \in AlwaysOn
        BY <1>1, <2>2, <3>1, CallBlockDoes DEF SkipsBlock
      <4>2. executions' = [executions EXCEPT ![r][Current(r)] =
                             executions[r][Current(r)] + 1]
        BY <1>1, <3>1, CallBlockDoes
      <4>3. executions \in [Runs -> [Blocks -> Nat]] /\ b # Current(r)
        BY <1>1, <4>1, TypesOf
      <4> QED
        BY <2>2, <4>2, <4>3
    <3>2. CASE RunGroup(r) \/ LoseGroup(r)
      BY <1>1, <3>2, NoGroupRuns
    <3>3. CASE Retry(r)
      BY <1>1, <2>2, <3>3, RetryDoes DEF ExitInv, ExitHolds
    <3> QED
      BY <1>1, <3>1, <3>2, <3>3, CallsOf
  <2> QED
    BY <2>1, <2>2
<1>2. TurnTypes /\ Sequential /\ ExitInv /\ [Next]_vars => [Stops]_vars
  <2> SUFFICES ASSUME TurnTypes, Sequential, ExitInv, Next PROVE Stops \/ UNCHANGED vars
    OBVIOUS
  <2> QED
    BY <1>1 DEF Next
<1>3. TurnTypes /\ Sequential /\ ExitInv /\ [Next]_vars => TurnTypes' /\ Sequential' /\ ExitInv'
  BY TypesKept, SequentialKept, ExitKept
<1>4. Init => TurnTypes /\ Sequential /\ ExitInv
  BY InitTypes, InitSequential, InitExit
<1> QED
  BY <1>2, <1>3, <1>4, PTL DEF Spec, EarlyExitStops

-----------------------------------------------------------------------------
(* Sessions are kept apart *)

(* The context of run r keeps its session and gains only results of r.     *)
Grows(r) ==
    /\ context'[r].session = context[r].session
    /\ context[r].writes \subseteq context'[r].writes
    /\ context'[r].writes \subseteq context[r].writes \cup ({r} \X Blocks)
    /\ context'[r].state \subseteq context[r].state \cup ({r} \X Blocks)

LEMMA GrowsBy ==
    ASSUME NEW r \in Runs, NEW c, NEW W \in SUBSET ({r} \X Blocks),
           context'[r] = c, c.session = context[r].session,
           context[r].writes \subseteq c.writes,
           c.writes \subseteq context[r].writes \cup W,
           c.state \subseteq context[r].state \cup W
    PROVE  Grows(r)
  BY DEF Grows

LEMMA ContextGrows ==
    ASSUME ~RollbackOn, TurnTypes, NEW r \in Runs, Step(r), ~Start(r)
    PROVE  Grows(r)
<1>0. context \in [Runs -> Contexts] /\ context[r] \in Contexts /\ clock \in Nat
  BY TypesOf
<1>2. CASE Iterate(r)
  BY <1>2, IterateDoes DEF Grows
<1>3. CASE RunGroup(r)
  <2>1. PICK failed, declined, exits : GroupRuns(r, failed, declined, exits)
    BY <1>3, RunGroupDoes
  <2> DEFINE called == run[r].group \cap Registered
             oks == called \ (failed \cup declined)
             now == IF TimeBlock \in called THEN clock + 1 ELSE clock
  <2>2. context' = [context EXCEPT ![r] = GroupEffect(context[r], r, oks, now)]
    BY <2>1 DEF GroupRuns
  <2>3. oks \in SUBSET Blocks /\ now \in Nat
    BY <1>0, <1>3, RunGroupDoes
  <2> HIDE DEF oks, now
  <2>4. context'[r] = GroupEffect(context[r], r, oks, now)
    BY <1>0, <2>2
  <2>5. {r} \X oks \subseteq {r} \X Blocks
    BY <2>3
  <2> DEFINE c == GroupEffect(context[r], r, oks, now)
  <2>6. /\ c.session = context[r].session
        /\ c.writes = context[r].writes \cup ({r} \X oks)
        /\ c.state \subseteq context[r].state \cup ({r} \X oks)
    <3> DEFINE old == context[r]
    <3>1. old \in Contexts
      BY <1>0
    <3> HIDE DEF old
    <3>2. /\ GroupEffect(old, r, oks, now).session = old.session
          /\ GroupEffect(old, r, oks, now).writes = old.writes \cup ({r} \X oks)
          /\ GroupEffect(old, r, oks, now).state \subseteq old.state \cup ({r} \X oks)
      <4>1. oks \in SUBSET Blocks /\ now \in Nat
        BY <2>3
      <4>2. GroupEffect(old, r, oks, now).session = old.session
        BY <3>1 DEF GroupEffect, Contexts
      <4>3. GroupEffect(old, r, oks, now).writes = old.writes \cup ({r} \X oks)
        BY <3>1, <4>1, GroupEffectDoes
      <4>4. GroupEffect(old, r, oks, now).state \subseteq old.state \cup ({r} \X oks)
        BY <3>1, <4>1, GroupEffectDoes
      <4> QED
        BY <4>2, <4>3, <4>4
    <3> QED
      BY <3>2 DEF old
  <2> HIDE DEF c
  <2> QED
    BY <2>4, <2>5, <2>6, GrowsBy DEF c
<1>4. CASE PassOver(r)
  BY <1>4, PassOverDoes DEF Grows
<1>5. CASE CallBlock(r)
  BY <1>5, CallBlockDoes DEF Grows
<1>6. CASE BlockReturns(r)
  <2> DEFINE b == Current(r)
  <2>1. PICK ok, exits, short, directive, copied :
          Replies(r, b, ok, exits, short, directive, copied)
    BY <1>6, BlockReturnsDoes
  <2>2. b \in Blocks
    BY <1>6, BlockReturnsDoes, AtTheBlock DEF Active
  <2> HIDE DEF b
  <2>3. context'[r] = ContextAfter(r, b, ok, directive)
    BY <1>0, <2>1 DEF Replies
  <2>4. NowAfter(b, TRUE) \in Nat /\ directive \in Directives
    BY <1>0, <2>1, NowIsANumber DEF Replies, MayAnswer
  <2>7. {<<r, b>>} \subseteq {r} \X Blocks
    BY <2>2
  <2>5. CASE ok
    <3>1. context'[r] = Effect(context[r], r, b, NowAfter(b, TRUE), directive)
      BY <2>3, <2>5 DEF ContextAfter
    <3> DEFINE c == Effect(context[r], r, b, NowAfter(b, TRUE), directive)
    <3>2. /\ c.session = context[r].session
          /\ c.writes = context[r].writes \cup {<<r, b>>}
          /\ c.state \subseteq context[r].state \cup {<<r, b>>}
      <4> DEFINE old == context[r]
                 now == NowAfter(b, TRUE)
      <4>1. old \in Contexts /\ now \in Nat
        BY <1>0, <2>4
      <4> HIDE DEF old, now
      <4>2. Effect(old, r, b, now, directive).session = old.session
        BY <4>1 DEF Effect, Contexts
      <4>3. Effect(old, r, b, now, directive).writes = old.writes \cup {<<r, b>>}
        BY <2>2, <2>4, <4>1, EffectDoes
      <4>4. Effect(old, r, b, now, directive).state \subseteq old.state \cup {<<r, b>>}
        BY <2>2, <2>4, <4>1, EffectDoes
      <4> QED
        BY <4>2, <4>3, <4>4 DEF old, now
    <3> DEFINE W == {<<r, b>>}
    <3>3. /\ W \in SUBSET ({r} \X Blocks)
          /\ context'[r] = c /\ c.session = context[r].session
          /\ context[r].writes \subseteq c.writes
          /\ c.writes \subseteq context[r].writes \cup W
          /\ c.state \subseteq context[r].state \cup W
      BY <2>7, <3>1, <3>2
    <3> HIDE DEF c, W
    <3> QED
      BY <3>3, GrowsBy
  <2>6. CASE ~ok
    BY <2>3, <2>6 DEF ContextAfter, Grows
  <2> QED
    BY <2>5, <2>6
<1>7. CASE BlockFails(r)
  <2> DEFINE b == Current(r)
  <2>1. PICK wrote \in BOOLEAN : Fails(r, b, wrote)
    BY <1>7, BlockFailsDoes
  <2>2. b \in Blocks
    BY <1>7, BlockFailsDoes, AtTheBlock DEF Active
  <2> HIDE DEF b
  <2>3. context'[r] = PartialEffect(context[r], r, b, wrote)
    BY <1>0, <2>1 DEF Fails
  <2>4. {<<r, b>>} \subseteq {r} \X Blocks
    BY <2>2
  <2> QED
    BY <1>0, <2>2, <2>3, <2>4, PartialEffectDoes DEF Grows
<1>8. CASE Retry(r)
  <2>1. PICK failed, directive : Retries(r, failed, directive)
    BY <1>8, RetryDoes
  <2> DEFINE oks == RetryCalls \ failed
  <2>2. oks \in SUBSET Blocks /\ directive \in Directives
    BY <2>1, PipelineAssumption DEF Retries, RetryCalls
  <2>3. context'[r] = Retried(context[r], r, oks, directive)
    BY <1>0, <2>1 DEF Retries
  <2> HIDE DEF oks
  <2>4. {r} \X oks \subseteq {r} \X Blocks
    BY <2>2
  <2> DEFINE c == Retried(context[r], r, oks, directive)
  <2>5. /\ c.session = context[r].session
        /\ c.writes = context[r].writes \cup ({r} \X oks)
        /\ c.state \subseteq context[r].state \cup ({r} \X oks)
    BY <1>0, <2>2, RetriedDoes
  <2> HIDE DEF c
  <2> QED
    BY <2>3, <2>4, <2>5, GrowsBy DEF c
<1>9. CASE Finish(r)
  BY <1>9, FinishDoes DEF Grows
<1>10. CASE LoseGroup(r)
  BY <1>10, LoseGroupDoes DEF Grows
<1> QED
  BY <1>2, <1>3, <1>4, <1>5, <1>6, <1>7, <1>8, <1>9, <1>10 DEF Step

(* A run works on its session, and on what runs of that session wrote. *)
OwnWork(r) ==
    /\ context[r].session = SessionOf[r]
    /\ \A w \in context[r].writes \cup context[r].state : SessionOf[w[1]] = SessionOf[r]

SessionInv ==
    /\ \A s \in Sessions : \A w \in store[s] : SessionOf[w[1]] = s
    /\ \A r \in Runs : OwnWork(r)

LEMMA InitSessions == Init => SessionInv
  BY NewContextDoes DEF Init, SessionInv, OwnWork

LEMMA SessionsKept ==
    ASSUME ~RollbackOn, TurnTypes, SessionInv, [Next]_vars
    PROVE  SessionInv'
<1>1. ASSUME NEW r \in Runs, Step(r) PROVE SessionInv'
  <2>1. OwnWork(r)'
    <3>1. CASE Start(r)
      <4>1. context'[r] = NewContext(r, store[SessionOf[r]])
        BY <3>1, StartDoes, TypesOf
      <4>2. store[SessionOf[r]] \in SUBSET Writes /\ SessionOf[r] \in Sessions
        BY TypesOf
      <4> QED
        BY <4>1, <4>2, NewContextDoes DEF SessionInv, OwnWork
    <3>2. CASE ~Start(r)
      <4>1. Grows(r)
        BY <1>1, <3>2, ContextGrows
      <4>2. \A w \in {r} \X Blocks : SessionOf[w[1]] = SessionOf[r]
        OBVIOUS
      <4> QED
        BY <4>1, <4>2 DEF Grows, SessionInv, OwnWork
    <3> QED
      BY <3>1, <3>2
  <2>2. ASSUME NEW q \in Runs \ {r} PROVE OwnWork(q)'
    BY <1>1, OthersUntouched DEF SessionInv, OwnWork
  <2>3. ASSUME NEW s \in Sessions, NEW w \in store'[s] PROVE SessionOf[w[1]] = s
    <3>1. CASE store' = store
      BY <2>3, <3>1 DEF SessionInv
    <3>2. CASE Finish(r)
      <4>1. store' = store \/ store' = [store EXCEPT ![SessionOf[r]] = context[r].state]
        BY <3>2, FinishDoes DEF SessionInv, OwnWork
      <4> QED
        BY <2>3, <4>1, TypesOf DEF SessionInv, OwnWork
    <3>3. Finish(r) \/ store' = store
      BY <1>1, StartDoes, IterateDoes, RunGroupDoes, LoseGroupDoes, PassOverDoes,
         CallBlockDoes, BlockReturnsDoes, BlockFailsDoes, RetryDoes DEF Step
    <3> QED
      BY <3>1, <3>2, <3>3
  <2> QED
    BY <2>1, <2>2, <2>3 DEF SessionInv
<1>2. CASE UNCHANGED vars
  BY <1>2 DEF vars, SessionInv, OwnWork
<1> QED
  BY <1>1, <1>2 DEF Next

(***************************************************************************)
(* Without the rollback manager, runs of different sessions never see each *)
(* other's writes, neither in what they work on nor in what they save,     *)
(* however many of them overlap: the manager, which is shared and not      *)
(* keyed by session, is the only way between sessions.                     *)
(* echo_orchestrator.py:512-523 and 1027-1042.                             *)
(***************************************************************************)
THEOREM SessionsAreIsolated ==
    ASSUME ~RollbackOn
    PROVE  Spec => []SessionsIsolated
<1>1. SessionInv => SessionsIsolated
  BY DEF SessionInv, OwnWork, SessionsIsolated
<1>2. TurnTypes /\ SessionInv /\ [Next]_vars => TurnTypes' /\ SessionInv'
  BY TypesKept, SessionsKept
<1> QED
  BY <1>1, <1>2, InitTypes, InitSessions, PTL DEF Spec

-----------------------------------------------------------------------------
(* Time values never go back *)

(***************************************************************************)
(* No time is ahead of the clock; with the rollback manager, the floor has *)
(* followed every time that a context or a snapshot holds.                 *)
(***************************************************************************)
TimeInv ==
    /\ rollback.floor <= clock
    /\ \A r \in Runs : context[r].time <= clock
    /\ RollbackOn =>
         /\ \A r \in Runs : context[r].time <= rollback.floor
         /\ \A k \in 1 .. Len(rollback.snapshots) :
               rollback.snapshots[k].context.time <= rollback.floor

LEMMA InitTime == Init => TimeInv
<1> SUFFICES ASSUME Init PROVE TimeInv
  OBVIOUS
<1>1. \A r \in Runs : context[r].time = NoTime
  BY NewContextDoes DEF Init
<1>2. rollback.floor = NoTime /\ Len(rollback.snapshots) = 0 /\ clock = 0
  BY DEF Init, FreshManager
<1> QED
  BY <1>1, <1>2 DEF TimeInv, NoTime

(* The times are integers. *)
LEMMA TimesAreNumbers ==
    ASSUME TurnTypes
    PROVE  /\ clock \in Nat /\ rollback.floor \in Int
           /\ rollback.snapshots \in Seq([block : Blocks, context : Contexts])
           /\ Len(rollback.snapshots) \in Nat
           /\ \A r \in Runs : context[r].time \in Int
           /\ \A k \in 1 .. Len(rollback.snapshots) :
                 /\ rollback.snapshots[k] \in [block : Blocks, context : Contexts]
                 /\ rollback.snapshots[k].context.time \in Int
<1>1. /\ clock \in Nat /\ rollback.floor \in Int
      /\ rollback.snapshots \in Seq([block : Blocks, context : Contexts])
      /\ context \in [Runs -> Contexts]
  BY DEF TurnTypes, TypeOK, Contexts, Managers, NoTime
<1>2. \A c \in Contexts : c.time \in Int
  BY DEF Contexts, NoTime
<1>3. \A k \in 1 .. Len(rollback.snapshots) :
         rollback.snapshots[k] \in [block : Blocks, context : Contexts]
  <2> DEFINE s == rollback.snapshots
             S == [block : Blocks, context : Contexts]
  <2>1. s \in Seq(S)
    BY <1>1
  <2> HIDE DEF s, S
  <2>2. \A k \in 1 .. Len(s) : s[k] \in S
    BY <2>1
  <2> QED
    BY <2>2 DEF s, S
<1> QED
  BY <1>1, <1>2, <1>3

(* The time of run r becomes t, the floor and the clock become these. *)
TimeBecomes(r, t, floor, now) ==
    /\ context'[r].time = t
    /\ \A q \in Runs \ {r} : context'[q] = context[q]
    /\ rollback'.floor = floor
    /\ clock' = now

LEMMA TimeMoves ==
    ASSUME TurnTypes, TimeInv, NEW r \in Runs, NEW t \in Int, NEW floor \in Int,
           NEW now \in Nat, TimeBecomes(r, t, floor, now),
           t <= now, clock <= now, rollback.floor <= floor, floor <= now,
           RollbackOn => t <= floor,
           RollbackOn => \A k \in 1 .. Len(rollback'.snapshots) :
                            rollback'.snapshots[k].context.time <= floor
    PROVE  TimeInv'
<1>1. ASSUME NEW q \in Runs PROVE context'[q].time <= now
  BY TimesAreNumbers DEF TimeBecomes, TimeInv
<1>2. ASSUME RollbackOn, NEW q \in Runs PROVE context'[q].time <= floor
  BY <1>2, TimesAreNumbers DEF TimeBecomes, TimeInv
<1> QED
  BY <1>1, <1>2 DEF TimeInv, TimeBecomes

(* What the time of a run does in one of its steps. *)
NotBack(r) ==
    run[r].at # "ready" /\ context'[r].time # NoTime => context'[r].time >= context[r].time

LEMMA TimeKept ==
    ASSUME ~RollbackOn \/ (~Parallel /\ ~CopiesFail), TurnTypes, Sequential, TimeInv,
           NEW r \in Runs, Step(r)
    PROVE  TimeInv' /\ NotBack(r)
<1>0. /\ context \in [Runs -> Contexts] /\ context[r] \in Contexts
      /\ context[r].time \in Int /\ rollback \in Managers
      /\ rollback.floor \in Int /\ clock \in Nat
      /\ context[r].time <= clock /\ rollback.floor <= clock
      /\ RollbackOn => context[r].time <= rollback.floor
      /\ RollbackOn => \A k \in 1 .. Len(rollback.snapshots) :
                         rollback.snapshots[k].context.time <= rollback.floor
  BY TypesOf, TimesAreNumbers DEF TimeInv
<1>10. \A q \in Runs \ {r} : context'[q] = context[q]
  BY OthersUntouched
<1>11. ASSUME UNCHANGED <<context, rollback, clock>> PROVE TimeInv' /\ NotBack(r)
  BY <1>0, <1>11 DEF TimeInv, NotBack
<1>1. CASE Start(r)
  <2>1. context'[r] = NewContext(r, store[SessionOf[r]])
        /\ run[r].at = "ready" /\ UNCHANGED <<rollback, clock>>
    BY <1>1, StartDoes, TypesOf
  <2>2. context'[r].time = NoTime
    BY <2>1, TypesOf, NewContextDoes
  <2>3. /\ NoTime \in Int /\ NoTime <= clock
        /\ RollbackOn => NoTime <= rollback.floor
    <3>1. rollback.floor \in Nat \cup {NoTime}
      BY <1>0 DEF Managers
    <3> QED
      BY <1>0, <3>1 DEF NoTime
  <2>4. TimeBecomes(r, NoTime, rollback.floor, clock)
    BY <1>10, <2>1, <2>2 DEF TimeBecomes
  <2>5. TimeInv'
    BY <1>0, <2>1, <2>3, <2>4, TimeMoves
  <2> QED
    BY <2>1, <2>5 DEF NotBack
<1>2. CASE Iterate(r)
  BY <1>2, <1>11, IterateDoes
<1>3. CASE RunGroup(r)
  <2>1. ~RollbackOn
    BY <1>3, NoGroupRuns
  <2>2. PICK failed, declined, exits : GroupRuns(r, failed, declined, exits)
    BY <1>3, RunGroupDoes
  <2> DEFINE called == run[r].group \cap Registered
             oks == called \ (failed \cup declined)
             now == IF TimeBlock \in called THEN clock + 1 ELSE clock
             t == IF TimeBlock \in oks THEN now ELSE context[r].time
  <2>3. oks \in SUBSET Blocks /\ now \in Nat /\ clock <= now
    BY <1>0, <1>3, RunGroupDoes
  <2>4. context' = [context EXCEPT ![r] = GroupEffect(context[r], r, oks, now)]
        /\ clock' = now /\ UNCHANGED rollback
    BY <1>3, <2>2, RunGroupDoes DEF GroupRuns
  <2>5. t \in Int /\ context[r].time <= t /\ t <= now
    BY <1>0, <2>3
  <2> HIDE DEF now, oks
  <2>6. context'[r].time = t
    BY <1>0, <2>3, <2>4, GroupEffectDoes
  <2> HIDE DEF t
  <2>7. TimeBecomes(r, t, rollback.floor, now)
    BY <1>10, <2>4, <2>6 DEF TimeBecomes
  <2>9. rollback.floor <= now
    BY <1>0, <2>3
  <2>8. TimeInv'
    BY <1>0, <2>1, <2>3, <2>5, <2>7, <2>9, TimeMoves
  <2> QED
    BY <2>5, <2>6, <2>8 DEF NotBack
<1>4. CASE PassOver(r)
  BY <1>4, <1>11, PassOverDoes
<1>5. CASE CallBlock(r)
  BY <1>5, <1>11, CallBlockDoes
<1>6. CASE BlockReturns(r)
  <2> DEFINE b == Current(r)
  <2>1. PICK ok, exits, short, directive, copied :
          Replies(r, b, ok, exits, short, directive, copied)
    BY <1>6, BlockReturnsDoes
  <2>2. b \in Blocks
    BY <1>6, BlockReturnsDoes, AtTheBlock DEF Active
  <2> HIDE DEF b
  <2> DEFINE after == ContextAfter(r, b, ok, directive)
             now == NowAfter(b, TRUE)
             t == IF ok /\ b = TimeBlock THEN now ELSE context[r].time
  <2>3. /\ context'[r] = after /\ clock' = now
        /\ rollback' = IF ok /\ RollbackOn
                       THEN CreateCheckpoint(rollback, b, after, TRUE) ELSE rollback
    <3>1. RollbackOn => copied = TRUE
      BY <2>1 DEF Replies
    <3> QED
      BY <1>0, <2>1, <3>1 DEF Replies
  <2>4. now \in Nat /\ clock <= now /\ directive \in Directives
    BY <1>0, <2>1, NowIsANumber DEF Replies, MayAnswer
  <2> HIDE DEF now
  <2>5. t \in Int /\ context[r].time <= t /\ t <= now
    <3>1. t = now \/ t = context[r].time
      BY DEF t
    <3> HIDE DEF t
    <3> QED
      BY <1>0, <2>4, <3>1
  <2>6. after \in Contexts /\ after.time = t
    <3>1. CASE ok
      <4>1. after = Effect(context[r], r, b, now, directive)
        BY <3>1 DEF ContextAfter, now
      <4> DEFINE old == context[r]
      <4>2. old \in Contexts
        BY <1>0
      <4> HIDE DEF old
      <4>3. /\ Effect(old, r, b, now, directive) \in Contexts
            /\ Effect(old, r, b, now, directive).time
                 = IF b = TimeBlock THEN now ELSE old.time
        BY <2>2, <2>4, <4>2, EffectDoes
      <4> QED
        BY <3>1, <4>1, <4>3 DEF old
    <3>2. CASE ~ok
      BY <1>0, <3>2 DEF ContextAfter
    <3> QED
      BY <3>1, <3>2
  <2> HIDE DEF after, t
  <2>7. CASE ok /\ RollbackOn
    <3> DEFINE floor == Higher(rollback.floor, after.time)
    <3>1. /\ rollback'.floor = floor
          /\ rollback'.snapshots = Append(rollback.snapshots, [block |-> b, context |-> after])
      BY <1>0, <2>2, <2>3, <2>6, <2>7, CheckpointDoes
    <3>2. floor \in Int /\ rollback.floor <= floor /\ t <= floor /\ floor <= now
      BY <1>0, <2>4, <2>5, <2>6 DEF Higher
    <3> HIDE DEF floor
    <3>3. ASSUME NEW k \in 1 .. Len(rollback'.snapshots)
          PROVE  rollback'.snapshots[k].context.time <= floor
      <4>1. /\ rollback.snapshots \in Seq([block : Blocks, context : Contexts])
            /\ Len(rollback.snapshots) \in Nat
        BY TimesAreNumbers
      <4>2. Len(rollback'.snapshots) = Len(rollback.snapshots) + 1
        BY <3>1, <4>1
      <4>3. CASE k \in 1 .. Len(rollback.snapshots)
        <5>1. rollback'.snapshots[k] = rollback.snapshots[k]
          BY <3>1, <4>1, <4>3
        <5>2. rollback.snapshots[k].context.time \in Int
          BY <4>3, TimesAreNumbers
        <5> QED
          BY <1>0, <2>7, <3>2, <4>3, <5>1, <5>2
      <4>4. CASE k = Len(rollback.snapshots) + 1
        <5>1. rollback'.snapshots[k] = [block |-> b, context |-> after]
          BY <3>1, <4>1, <4>4
        <5> QED
          BY <2>6, <3>2, <5>1
      <4> QED
        BY <4>1, <4>2, <4>3, <4>4
    <3>4. TimeBecomes(r, t, floor, now)
      BY <1>10, <2>3, <2>6, <3>1 DEF TimeBecomes
    <3>5. TimeInv'
      BY <2>4, <2>5, <3>2, <3>3, <3>4, TimeMoves
    <3> QED
      BY <2>3, <2>5, <2>6, <3>5 DEF NotBack
  <2>8. CASE ~(ok /\ RollbackOn)
    <3>1. rollback' = rollback /\ (RollbackOn => t = context[r].time)
      BY <2>3, <2>8 DEF t
    <3>2. TimeBecomes(r, t, rollback.floor, now)
      BY <1>10, <2>3, <2>6, <3>1 DEF TimeBecomes
    <3>3. rollback.floor <= now
      BY <1>0, <2>4
    <3>4. TimeInv'
      BY <1>0, <2>4, <2>5, <3>1, <3>2, <3>3, TimeMoves
    <3> QED
      BY <2>3, <2>5, <2>6, <3>4 DEF NotBack
  <2> QED
    BY <2>7, <2>8
<1>7. CASE BlockFails(r)
  <2> DEFINE b == Current(r)
  <2>1. PICK wrote \in BOOLEAN : Fails(r, b, wrote)
    BY <1>7, BlockFailsDoes
  <2>2. b \in Blocks
    BY <1>7, BlockFailsDoes, AtTheBlock DEF Active
  <2> HIDE DEF b
  <2> DEFINE after == PartialEffect(context[r], r, b, wrote)
             back == RollbackToCheckpoint(rollback, b, after)
             undo == RollbackOn /\ b \notin AlwaysOn
             now == NowAfter(b, wrote)
             k == Kept(rollback.snapshots, b)
  <2>3. /\ context'[r] = IF undo THEN back.context ELSE after
        /\ clock' = now
        /\ rollback' = IF undo THEN back.manager ELSE rollback
    BY <1>0, <2>1 DEF Fails
  <2>4. now \in Nat /\ clock <= now
    BY <1>0, NowIsANumber
  <2>5. after \in Contexts /\ after.time = context[r].time
    BY <1>0, <2>2, PartialEffectDoes
  <2>6. k \in 0 .. Len(rollback.snapshots) /\ RollsBackTo(rollback, k, after, back)
    BY <1>0, <2>5, RollbackDoes
  <2> HIDE DEF after, back, now, k
  <2>7. CASE undo
    <3> DEFINE t == IF k = 0 THEN context[r].time ELSE back.context.time
    <3>1. context'[r].time = t /\ rollback' = back.manager
      BY <2>3, <2>5, <2>6, <2>7 DEF RollsBackTo
    <3>2. rollback'.floor = rollback.floor
          /\ rollback'.snapshots = SubSeq(rollback.snapshots, 1, k)
      BY <2>6, <3>1 DEF RollsBackTo
    <3>3. /\ t \in Int /\ t <= rollback.floor
          /\ t # NoTime => context[r].time <= t
      <4>1. CASE k = 0
        BY <1>0, <2>7, <4>1
      <4>2. CASE k # 0
        <5> DEFINE old == rollback.snapshots[k].context.time
        <5>1. k \in 1 .. Len(rollback.snapshots)
          BY <2>6, <4>2, TimesAreNumbers
        <5>2. old \in Int /\ old <= rollback.floor
          BY <1>0, <2>7, <5>1, TimesAreNumbers
        <5>3. t = IF old # NoTime /\ old < rollback.floor THEN rollback.floor ELSE old
          BY <2>6, <4>2 DEF RollsBackTo
        <5> HIDE DEF old, t
        <5> QED
          BY <1>0, <2>7, <5>2, <5>3
      <4> QED
        BY <4>1, <4>2
    <3> HIDE DEF t
    <3>4. ASSUME NEW j \in 1 .. Len(rollback'.snapshots)
          PROVE  rollback'.snapshots[j].context.time <= rollback.floor
      <4>1. /\ rollback.snapshots \in Seq([block : Blocks, context : Contexts])
            /\ Len(rollback.snapshots) \in Nat
        BY TimesAreNumbers
      <4>2. Len(rollback'.snapshots) = k
        BY <2>6, <3>2, <4>1, CutIsASequence
      <4>3. j \in 1 .. k /\ rollback'.snapshots[j] = rollback.snapshots[j]
        BY <2>6, <3>2, <4>1, <4>2, CutIsASequence
      <4>4. j \in 1 .. Len(rollback.snapshots)
        BY <2>6, <4>1, <4>3
      <4> QED
        BY <1>0, <2>7, <4>3, <4>4
    <3>5. TimeBecomes(r, t, rollback.floor, now)
      BY <1>10, <2>3, <3>1, <3>2 DEF TimeBecomes
    <3>7. t <= now /\ rollback.floor <= now
      BY <1>0, <2>4, <3>3
    <3>6. TimeInv'
      BY <1>0, <2>4, <3>3, <3>4, <3>5, <3>7, TimeMoves
    <3> QED
      BY <1>0, <3>1, <3>3, <3>6 DEF NotBack
  <2>8. CASE ~undo
    <3>1. context'[r].time = context[r].time /\ rollback' = rollback
      BY <2>3, <2>5, <2>8
    <3>2. TimeBecomes(r, context[r].time, rollback.floor, now)
      BY <1>10, <2>3, <3>1 DEF TimeBecomes
    <3>3. rollback.floor <= now /\ context[r].time <= now
      BY <1>0, <2>4
    <3>4. TimeInv'
      BY <1>0, <2>4, <3>1, <3>2, <3>3, TimeMoves
    <3> QED
      BY <1>0, <3>1, <3>4 DEF NotBack
  <2> QED
    BY <2>7, <2>8
<1>8. CASE Retry(r)
  <2>1. PICK failed, directive : Retries(r, failed, directive)
    BY <1>8, RetryDoes
  <2> DEFINE oks == RetryCalls \ failed
  <2>2. oks \in SUBSET Blocks /\ directive \in Directives
    BY <2>1, PipelineAssumption DEF Retries, RetryCalls
  <2>3. context'[r] = Retried(context[r], r, oks, directive)
    BY <1>0, <2>1 DEF Retries
  <2> HIDE DEF oks
  <2>4. context'[r].time = context[r].time /\ UNCHANGED <<rollback, clock>>
    <3>1. UNCHANGED <<rollback, clock>>
      BY <1>8, RetryDoes
    <3>2. Retried(context[r], r, oks, directive).time = context[r].time
      BY <1>0 DEF Retried, Contexts
    <3> QED
      BY <2>3, <3>1, <3>2
  <2>5. TimeBecomes(r, context[r].time, rollback.floor, clock)
    BY <1>10, <2>4 DEF TimeBecomes
  <2>6. TimeInv'
    BY <1>0, <2>4, <2>5, TimeMoves
  <2> QED
    BY <1>0, <2>4, <2>6 DEF NotBack
<1>9. CASE Finish(r)
  BY <1>9, <1>11, FinishDoes
<1>12. CASE LoseGroup(r)
  <2>1. ~RollbackOn
    BY <1>12, NoGroupRuns
  <2>2. PICK called : GroupIsLost(r, called)
    BY <1>12, LoseGroupDoes
  <2> DEFINE now == IF TimeBlock \in called THEN clock + 1 ELSE clock
  <2>3. now \in Nat /\ clock <= now /\ clock' = now
    BY <1>0, <2>2 DEF GroupIsLost
  <2>4. UNCHANGED <<context, rollback>>
    BY <1>12, LoseGroupDoes
  <2> HIDE DEF now
  <2>5. TimeBecomes(r, context[r].time, rollback.floor, now)
    BY <2>3, <2>4 DEF TimeBecomes
  <2>6. rollback.floor <= now /\ context[r].time <= now
    BY <1>0, <2>3
  <2>7. TimeInv'
    BY <1>0, <2>1, <2>3, <2>5, <2>6, TimeMoves
  <2> QED
    BY <1>0, <2>4, <2>7 DEF NotBack
<1> QED
  BY <1>1, <1>2, <1>3, <1>4, <1>5, <1>6, <1>7, <1>8, <1>9, <1>12 DEF Step

(***************************************************************************)
(* Without the rollback manager, and with it as long as groups are off (a  *)
(* group advances the time of the context and leaves no checkpoint that    *)
(* would raise the floor) and every checkpoint is made (one that is lost   *)
(* raises no floor either), no step of any of the overlapping turns sets a *)
(* time value back.  rollback_manager.py:36-62, 85-101, 163-182.           *)
(***************************************************************************)
THEOREM TimeNeverGoesBack ==
    ASSUME ~RollbackOn \/ (~Parallel /\ ~CopiesFail)
    PROVE  Spec => TimeFloorHolds
<1> DEFINE Inv == TurnTypes /\ Sequential /\ TimeInv
           Forward == \A r \in Runs : run[r].at # "ready" /\ context'[r].time # NoTime =>
                         context'[r].time >= context[r].time
<1>1. ASSUME Inv, [Next]_vars PROVE Inv' /\ [Forward]_vars
  <2>1. ASSUME NEW r \in Runs, Step(r) PROVE TimeInv' /\ Forward
    <3>1. TimeInv' /\ NotBack(r)
      BY <1>1, <2>1, TimeKept
    <3>2. ASSUME NEW q \in Runs \ {r} PROVE context'[q].time >= context[q].time
      <4>1. context'[q] = context[q]
        BY <1>1, <2>1, OthersUntouched
      <4> QED
        BY <1>1, <4>1, TimesAreNumbers
    <3> QED
      BY <3>1, <3>2 DEF NotBack
  <2>2. ASSUME UNCHANGED vars PROVE TimeInv'
    BY <1>1, <2>2 DEF vars, TimeInv
  <2>3. TimeInv' /\ [Forward]_vars
    <3> HIDE DEF Forward
    <3> QED
      BY <1>1, <2>1, <2>2 DEF Next
  <2> QED
    BY <1>1, <2>3, TypesKept, SequentialKept
<1>2. Init => Inv
  BY InitTypes, InitSequential, InitTime
<1>3. Inv /\ [Next]_vars => Inv' /\ [Forward]_vars
  BY <1>1
<1> HIDE DEF Inv
<1> QED
  BY <1>2, <1>3, PTL DEF Spec, TimeFloorHolds

-----------------------------------------------------------------------------
(* The verdict of the revision gate reaches the response *)

(* Once the gate has succeeded its block is behind the run, or being       *)
(* retried, and its directive is there: with rollbacks, at least until the *)
(* block after it has been called.                                         *)
VerdictHolds(r) ==
    /\ run[r].at = "ready" => results[r][RevisionGate] # "ok"
    /\ results[r][RevisionGate] = "ok" =>
         /\ \/ run[r].index > Pos(RevisionGate)
            \/ run[r].index = Pos(RevisionGate) /\ run[r].at = "retry"
         /\ ~RollbackOn \/ run[r].index <= Pos(RevisionGate) + 1
              => context[r].directive # "none"

VerdictInv == \A r \in Runs : VerdictHolds(r)

LEMMA InitVerdict == RevisionGate \in Blocks /\ Init => VerdictInv
  BY DEF Init, VerdictInv, VerdictHolds

(* The places of the gate and of the run are numbers. *)
LEMMA VerdictPlaces ==
    ASSUME RevisionGate \in Blocks, TurnTypes, NEW r \in Runs
    PROVE  /\ run[r].index \in Nat /\ Pos(RevisionGate) \in Nat
           /\ run[r].at \in Active \ {"loop"} =>
                /\ Current(r) \in Blocks
                /\ Current(r) = RevisionGate <=> run[r].index = Pos(RevisionGate)
<1>1. run[r].index \in Nat
  BY TypesOf, PipelineAssumption DEF Locals
<1>2. Pos(RevisionGate) \in Indices /\ Order[Pos(RevisionGate)] = RevisionGate
  BY OrderOfPos
<1>3. Pos(RevisionGate) \in Nat
  BY <1>2, PipelineAssumption DEF Indices
<1>4. ASSUME run[r].at \in Active \ {"loop"}
      PROVE  /\ Current(r) \in Blocks
             /\ Current(r) = RevisionGate <=> run[r].index = Pos(RevisionGate)
  BY <1>2, <1>4, AtTheBlock
<1> QED
  BY <1>1, <1>3, <1>4

LEMMA VerdictKept ==
    ASSUME ~Parallel, RevisionGate \in Blocks, TurnTypes, Sequential, VerdictInv,
           [Next]_vars
    PROVE  VerdictInv'
<1>0. ASSUME NEW r \in Runs, Step(r) PROVE VerdictHolds(r)'
  <2>0. /\ VerdictHolds(r)
        /\ run[r].index \in Nat /\ Pos(RevisionGate) \in Nat
        /\ run[r].at \in Active \ {"loop"} =>
                /\ Current(r) \in Blocks
                /\ Current(r) = RevisionGate <=> run[r].index = Pos(RevisionGate)
        /\ context \in [Runs -> Contexts] /\ context[r] \in Contexts
        /\ results \in [Runs -> [Blocks -> Statuses]]
    BY VerdictPlaces, TypesOf DEF VerdictInv
  <2>1. CASE Start(r)
    BY <2>0, <2>1, StartDoes DEF VerdictHolds, Becomes
  <2>2. CASE Iterate(r)
    <3>1. PICK aborts \in BOOLEAN : Decides(r, aborts)
      BY <2>2, IterateDoes
    <3>2. /\ run[r].at = "loop" /\ UNCHANGED <<context, results>>
          /\ run'[r].index = run[r].index /\ run'[r].at # "ready"
      BY <2>2, <3>1, IterateDoes DEF Decides, Becomes
    <3> QED
      BY <2>0, <3>2 DEF VerdictHolds
  <2>3. CASE RunGroup(r)
    BY <2>3, NoGroupRuns
  <2>4. CASE PassOver(r)
    <3>1. PICK skipped \in SUBSET Blocks, status \in Statuses :
            /\ PassesOver(r, Current(r), skipped, status)
            /\ Becomes(r, "loop", run[r].index + 1, run[r].executed, skipped,
                       run[r].earlyExit, run[r].group, run[r].aborted)
            /\ results' = [results EXCEPT ![r][Current(r)] = status]
      BY <2>4, PassOverDoes
    <3>2. /\ run[r].at = "select" /\ UNCHANGED context
          /\ run'[r].at = "loop" /\ run'[r].index = run[r].index + 1
      BY <2>4, <3>1, PassOverDoes DEF Becomes
    <3>3. status # "ok" \/ status = results[r][Current(r)]
      BY <3>1 DEF PassesOver
    <3>4. results'[r][RevisionGate] = "ok" => results[r][RevisionGate] = "ok"
      BY <2>0, <3>1, <3>3
    <3> QED
      BY <2>0, <3>2, <3>4 DEF VerdictHolds
  <2>5. CASE CallBlock(r)
    <3>1. /\ run[r].at = "select" /\ UNCHANGED <<context, results>>
          /\ run'[r].index = run[r].index /\ run'[r].at = "block"
      BY <2>5, CallBlockDoes DEF Becomes
    <3> QED
      BY <2>0, <3>1 DEF VerdictHolds
  <2>6. CASE BlockReturns(r)
    <3> DEFINE b == Current(r)
    <3>1. PICK ok, exits, short, directive, copied :
            Replies(r, b, ok, exits, short, directive, copied)
      BY <2>6, BlockReturnsDoes
    <3>2. run[r].at = "block" /\ b \in Blocks
          /\ (b = RevisionGate <=> run[r].index = Pos(RevisionGate))
      BY <2>0, <2>6, BlockReturnsDoes DEF Active
    <3> HIDE DEF b
    <3> DEFINE retry == RetryDue(b, ContextAfter(r, b, ok, directive))
    <3>3. IF retry THEN run'[r].at = "retry" /\ run'[r].index = run[r].index
          ELSE run'[r].at = "loop" /\ run'[r].index = run[r].index + 1
      BY <3>1 DEF Replies, Becomes
    <3>4. retry => b = RevisionGate
      BY DEF RetryDue
    <3> HIDE DEF retry
    <3>5. results'[r][RevisionGate] =
            IF b = RevisionGate THEN (IF ok THEN "ok" ELSE "skipped")
            ELSE results[r][RevisionGate]
      BY <2>0, <3>1, <3>2 DEF Replies
    <3>6. /\ b = RevisionGate /\ ok => context'[r].directive # "none"
          /\ b # RevisionGate => context'[r].directive = context[r].directive
      <4> DEFINE old == context[r]
                 now == NowAfter(b, TRUE)
      <4>1. old \in Contexts /\ now \in Nat /\ directive \in Directives
            /\ (b = RevisionGate => directive # "none")
        BY <2>0, <3>1, TypesOf, NowIsANumber DEF Replies, MayAnswer
      <4>2. context'[r] = IF ok THEN Effect(old, r, b, now, directive) ELSE old
        BY <2>0, <3>1 DEF Replies, ContextAfter
      <4> HIDE DEF old, now
      <4>3. /\ Effect(old, r, b, now, directive) \in Contexts
            /\ Effect(old, r, b, now, directive).directive
                 = IF b = RevisionGate THEN directive ELSE old.directive
        BY <3>2, <4>1, EffectDoes
      <4> QED
        BY <4>1, <4>2, <4>3 DEF old
    <3> QED
      BY <2>0, <3>2, <3>3, <3>4, <3>5, <3>6 DEF VerdictHolds
  <2>7. CASE BlockFails(r)
    <3> DEFINE b == Current(r)
    <3>1. PICK wrote \in BOOLEAN : Fails(r, b, wrote)
      BY <2>7, BlockFailsDoes
    <3>2. run[r].at = "block" /\ b \in Blocks
          /\ (b = RevisionGate <=> run[r].index = Pos(RevisionGate))
      BY <2>0, <2>7, BlockFailsDoes DEF Active
    <3> HIDE DEF b
    <3>3. /\ run'[r].at = "loop" /\ run'[r].index = run[r].index + 1
          /\ results' = [results EXCEPT ![r][b] = "error"]
      BY <3>1 DEF Fails, Becomes
    <3>4. results'[r][RevisionGate] = IF b = RevisionGate THEN "error"
                                      ELSE results[r][RevisionGate]
      BY <2>0, <3>2, <3>3
    <3>5. ~RollbackOn => context'[r].directive = context[r].directive
      BY <2>0, <3>1, <3>2, PartialEffectDoes DEF Fails
    <3> QED
      BY <2>0, <3>2, <3>3, <3>4, <3>5 DEF VerdictHolds
  <2>8. CASE Retry(r)
    <3>1. PICK failed, directive : Retries(r, failed, directive)
      BY <2>8, RetryDoes
    <3>2. /\ run[r].at = "retry" /\ UNCHANGED results
          /\ run'[r].at = "loop" /\ run'[r].index = run[r].index + 1
      BY <2>8, <3>1, RetryDoes DEF Retries, Becomes
    <3>3. context'[r].directive = directive
      <4>1. context'[r] = Retried(context[r], r, RetryCalls \ failed, directive)
        BY <2>0, <3>1 DEF Retries
      <4> QED
        BY <2>0, <4>1 DEF Retried, Contexts
    <3>4. directive # "none" \/ directive = context[r].directive
      BY <3>1 DEF Retries
    <3> QED
      BY <2>0, <3>2, <3>3, <3>4 DEF VerdictHolds
  <2>9. CASE Finish(r)
    <3>1. /\ run[r].at # "retry" /\ UNCHANGED <<context, results>>
          /\ run'[r].index = run[r].index /\ run'[r].at = "done"
      BY <2>9, FinishDoes DEF Becomes
    <3> QED
      BY <2>0, <3>1 DEF VerdictHolds
  <2>10. CASE LoseGroup(r)
    BY <2>10, NoGroupRuns
  <2> QED
    BY <1>0, <2>1, <2>2, <2>3, <2>4, <2>5, <2>6, <2>7, <2>8, <2>9, <2>10 DEF Step
<1>1. ASSUME NEW r \in Runs, Step(r) PROVE VerdictInv'
  <2>1. ASSUME NEW q \in Runs \ {r} PROVE VerdictHolds(q)'
    BY <1>1, <2>1, OthersUntouched DEF VerdictInv, VerdictHolds
  <2> QED
    BY <1>0, <1>1, <2>1 DEF VerdictInv
<1>2. CASE UNCHANGED vars
  BY <1>2 DEF vars, VerdictInv, VerdictHolds
<1> QED
  BY <1>1, <1>2 DEF Next

(***************************************************************************)
(* With parallel groups off, response_build finds the directive of a gate  *)
(* that succeeded, whatever overlapping turns do; with rollbacks on, when  *)
(* it is the block after the gate, as in the contract, so that no failure  *)
(* can come in between.  response_revision_gate.py:203-207.                *)
(***************************************************************************)
THEOREM TheVerdictArrives ==
    ASSUME ~Parallel, {RevisionGate, ResponseBuild} \subseteq Blocks,
           RollbackOn => Pos(ResponseBuild) = Pos(RevisionGate) + 1
    PROVE  Spec => []DirectiveDelivered
<1>1. TurnTypes /\ VerdictInv => DirectiveDelivered
  <2> SUFFICES ASSUME TurnTypes, VerdictInv, NEW r \in Runs, run[r].at = "block",
                      Current(r) = ResponseBuild, results[r][RevisionGate] = "ok"
               PROVE  context[r].directive # "none"
    BY DEF DirectiveDelivered
  <2>1. run[r].index = Pos(ResponseBuild)
    BY AtTheBlock DEF Active
  <2>2. ~RollbackOn \/ run[r].index <= Pos(RevisionGate) + 1
    BY <2>1, VerdictPlaces
  <2> QED
    BY <2>2 DEF VerdictInv, VerdictHolds
<1>2. Init => TurnTypes /\ Sequential /\ VerdictInv
  BY InitTypes, InitSequential, InitVerdict
<1>3. TurnTypes /\ Sequential /\ VerdictInv /\ [Next]_vars
        => TurnTypes' /\ Sequential' /\ VerdictInv'
  BY TypesKept, SequentialKept, VerdictKept
<1> QED
  BY <1>1, <1>2, <1>3, PTL DEF Spec

-----------------------------------------------------------------------------
(* What a failure costs the first turn *)

(* The blocks that succeeded and whose results W does not hold. *)
LostOf(answers, r, W) == {b \in Blocks : answers[b] = "ok" /\ <<r, b>> \notin W}

LEMMA BlocksAreFinite == IsFiniteSet(Blocks)
<1>1. Len(Order) \in Nat /\ 1 \in Int
  BY PipelineAssumption
<1>2. IsFiniteSet(1 .. Len(Order))
  BY <1>1, FS_Interval
<1>3. [i \in 1 .. Len(Order) |-> Order[i]] \in Surjection(1 .. Len(Order), Blocks)
  BY DEF Surjection, Blocks
<1> QED
  BY <1>2, <1>3, FS_Surjection

LEMMA LostIsFinite ==
    ASSUME NEW answers, NEW r, NEW W
    PROVE  /\ IsFiniteSet(LostOf(answers, r, W))
           /\ Cardinality(LostOf(answers, r, W)) \in Nat
<1>1. LostOf(answers, r, W) \subseteq Blocks
  BY DEF LostOf
<1> QED
  BY <1>1, BlocksAreFinite, FS_Subset, FS_CardinalityType

(* Fewer are lost, or one more. *)
LEMMA LostCompared ==
    ASSUME NEW S, NEW T, NEW b, IsFiniteSet(S), IsFiniteSet(T)
    PROVE  /\ T \subseteq S => Cardinality(T) <= Cardinality(S)
           /\ T \subseteq S \cup {b} => Cardinality(T) <= Cardinality(S) + 1
<1>1. Cardinality(S) \in Nat /\ Cardinality(T) \in Nat
  BY FS_CardinalityType
<1>2. ASSUME T \subseteq S PROVE Cardinality(T) <= Cardinality(S)
  BY <1>2, FS_Subset
<1>3. ASSUME T \subseteq S \cup {b} PROVE Cardinality(T) <= Cardinality(S) + 1
  <2>1. /\ IsFiniteSet(S \cup {b})
        /\ Cardinality(S \cup {b}) = IF b \in S THEN Cardinality(S)
                                     ELSE Cardinality(S) + 1
    BY FS_AddElement
  <2>2. Cardinality(T) <= Cardinality(S \cup {b})
    BY <1>3, <2>1, FS_Subset
  <2> QED
    BY <1>1, <2>1, <2>2
<1> QED
  BY <1>2, <1>3

Alone(r) == \A q \in Runs \ {r} : run[q].at = "ready"

(* Run r has left place p. *)
Left(r, p) == p < run[r].index \/ (p = run[r].index /\ run[r].at = "retry")

SnapshotBounded(r, k) ==
    /\ Cardinality(LostOf(results[r], r, rollback.snapshots[k].context.writes))
         <= faults + (Len(rollback.snapshots) - k)
    /\ Left(r, Pos(rollback.snapshots[k].block))

(***************************************************************************)
(* While r is the only run that has started: a success that the context    *)
(* lost cost a failure; the k-th snapshot lacks also the successes that    *)
(* made the later ones; and the snapshots are of blocks r has left, so a   *)
(* failing block has none.                                                 *)
(***************************************************************************)
LossBounded(r) ==
    /\ run[r].at = "ready" => \A b \in Blocks : results[r][b] = "none"
    /\ Cardinality(LostOf(results[r], r, context[r].writes)) <= faults
    /\ RollbackOn =>
         \A k \in 1 .. Len(rollback.snapshots) : SnapshotBounded(r, k)

LossInv == \A r \in Runs : Alone(r) => LossBounded(r)

LEMMA InitLoss == Init => LossInv
<1> SUFFICES ASSUME Init, NEW r \in Runs PROVE LossBounded(r)
  BY DEF LossInv
<1>1. \A b \in Blocks : results[r][b] = "none"
  BY DEF Init
<1>2. LostOf(results[r], r, context[r].writes) = {}
  BY <1>1 DEF LostOf
<1>3. Len(rollback.snapshots) = 0 /\ faults = 0
  BY DEF Init, FreshManager
<1> QED
  BY <1>1, <1>2, <1>3, FS_EmptySet DEF LossBounded

(* A step that makes no snapshot and restores none. *)
LEMMA LossOfCalmStep ==
    ASSUME TurnTypes, NEW r \in Runs, LossBounded(r), TurnTypes',
           run'[r].at # "ready",
           LostOf(results'[r], r, context'[r].writes)
             \subseteq LostOf(results[r], r, context[r].writes),
           faults <= faults',
           RollbackOn =>
             /\ rollback' = rollback
             /\ \A b \in Blocks : results'[r][b] = "ok" => results[r][b] = "ok"
             /\ \/ run[r].index < run'[r].index
                \/ /\ run[r].index = run'[r].index
                   /\ run[r].at = "retry" => run'[r].at = "retry"
    PROVE  LossBounded(r)'
<1>0. faults \in Nat /\ faults' \in Nat /\ run[r].index \in Nat /\ run'[r].index \in Nat
      /\ run'[r] \in Locals
  <2>1. faults \in Nat /\ faults' \in Nat
    BY PipelineAssumption DEF TurnTypes, TypeOK
  <2>2. run[r] \in Locals /\ run'[r] \in Locals
    BY DEF TurnTypes, TypeOK
  <2> QED
    BY <2>1, <2>2, PipelineAssumption DEF Locals
<1>1. Cardinality(LostOf(results'[r], r, context'[r].writes)) <= faults'
  <2> DEFINE S == LostOf(results[r], r, context[r].writes)
             T == LostOf(results'[r], r, context'[r].writes)
  <2>1. /\ Cardinality(S) \in Nat /\ Cardinality(T) \in Nat
        /\ IsFiniteSet(S) /\ IsFiniteSet(T) /\ T \subseteq S /\ Cardinality(S) <= faults
    BY LostIsFinite DEF LossBounded
  <2> HIDE DEF S, T
  <2>2. Cardinality(T) <= Cardinality(S)
    BY <2>1, LostCompared
  <2> QED
    BY <1>0, <2>1, <2>2 DEF T
<1>2. ASSUME RollbackOn, NEW k \in 1 .. Len(rollback'.snapshots)
      PROVE  SnapshotBounded(r, k)'
  <2> DEFINE W == rollback.snapshots[k].context.writes
             S == LostOf(results[r], r, W)
             T == LostOf(results'[r], r, W)
  <2>1. k \in 1 .. Len(rollback.snapshots) /\ rollback' = rollback
        /\ Len(rollback.snapshots) \in Nat
    BY <1>2, TimesAreNumbers
  <2>2. T \subseteq S
    BY <1>2 DEF LostOf
  <2>3. /\ Cardinality(S) \in Nat /\ Cardinality(T) \in Nat
        /\ IsFiniteSet(S) /\ IsFiniteSet(T)
        /\ Cardinality(S) <= faults + (Len(rollback.snapshots) - k)
    BY <1>2, <2>1, LostIsFinite DEF LossBounded, SnapshotBounded
  <2>4. Left(r, Pos(rollback.snapshots[k].block))
    BY <1>2, <2>1 DEF LossBounded, SnapshotBounded
  <2>5. Pos(rollback.snapshots[k].block) \in Nat
    <3>1. rollback.snapshots[k].block \in Blocks
      BY <2>1, TimesAreNumbers
    <3> QED
      BY <3>1, OrderOfPos, PipelineAssumption DEF Indices
  <2> HIDE DEF S, T
  <2>6. Cardinality(T) <= Cardinality(S)
    BY <2>2, <2>3, LostCompared
  <2>7. Cardinality(T) <= faults' + (Len(rollback.snapshots) - k)
    BY <1>0, <2>1, <2>3, <2>6
  <2>8. Left(r, Pos(rollback.snapshots[k].block))'
    BY <1>0, <1>2, <2>1, <2>4, <2>5 DEF Left
  <2>9. Cardinality(LostOf(results'[r], r, rollback'.snapshots[k].context.writes))
          <= faults' + (Len(rollback'.snapshots) - k)
    BY <2>1, <2>7 DEF T
  <2> QED
    BY <2>8, <2>9 DEF SnapshotBounded
<1> QED
  BY <1>1, <1>2 DEF LossBounded

(* Every step leaves its run started. *)
LEMMA StepStarts ==
    ASSUME TurnTypes, NEW r \in Runs, Step(r)
    PROVE  run'[r].at # "ready"
<1>1. CASE Start(r)
  BY <1>1, StartDoes DEF Becomes
<1>2. CASE Iterate(r)
  BY <1>2, IterateDoes DEF Decides, Becomes
<1>3. CASE RunGroup(r)
  BY <1>3, RunGroupDoes DEF GroupRuns, Becomes
<1>4. CASE PassOver(r)
  BY <1>4, PassOverDoes DEF Becomes
<1>5. CASE CallBlock(r)
  BY <1>5, CallBlockDoes DEF Becomes
<1>6. CASE BlockReturns(r)
  BY <1>6, BlockReturnsTo
<1>7. CASE BlockFails(r)
  BY <1>7, BlockFailsDoes DEF Fails, Becomes
<1>8. CASE Retry(r)
  BY <1>8, RetryDoes DEF Retries, Becomes
<1>9. CASE Finish(r)
  BY <1>9, FinishDoes DEF Becomes
<1>10. CASE LoseGroup(r)
  BY <1>10, LoseGroupDoes DEF GroupIsLost, Becomes
<1> QED
  BY <1>1, <1>2, <1>3, <1>4, <1>5, <1>6, <1>7, <1>8, <1>9, <1>10 DEF Step

(* A success, checkpointed. *)
LEMMA LossOfSuccess ==
    ASSUME RollbackOn, TurnTypes, TurnTypes', NEW r \in Runs, LossBounded(r),
           run[r].at = "block", NEW exits, NEW short, NEW directive,
           Replies(r, Current(r), TRUE, exits, short, directive, TRUE)
    PROVE  LossBounded(r)'
<1> DEFINE b == Current(r)
           after == ContextAfter(r, b, TRUE, directive)
           n == Len(rollback.snapshots)
<1>1. /\ b \in Blocks /\ Pos(b) = run[r].index /\ run[r].index \in Nat
      /\ context[r] \in Contexts /\ faults \in Nat /\ n \in Nat
      /\ results \in [Runs -> [Blocks -> Statuses]]
      /\ rollback.snapshots \in Seq([block : Blocks, context : Contexts])
  <2>1. run[r].at \in Active \ {"loop"} /\ run[r].index \in Nat /\ faults \in Nat
    BY TypesOf, PipelineAssumption DEF Active, Locals
  <2> QED
    BY <2>1, AtTheBlock, TypesOf, TimesAreNumbers
<1>2. /\ context'[r] = after /\ rollback' = CreateCheckpoint(rollback, b, after, TRUE)
      /\ results' = [results EXCEPT ![r][b] = "ok"] /\ faults' = faults
  BY TypesOf DEF Replies
<1>3. /\ run'[r].at # "ready"
      /\ \/ run'[r].index = run[r].index + 1
         \/ run'[r].index = run[r].index /\ run'[r].at = "retry"
  BY DEF Replies, Becomes
<1>4. after \in Contexts /\ after.writes = context[r].writes \cup {<<r, b>>}
  <2> DEFINE old == context[r]
             now == NowAfter(b, TRUE)
  <2>1. old \in Contexts /\ now \in Nat /\ directive \in Directives
    BY <1>1, TypesOf, NowIsANumber DEF Replies, MayAnswer
  <2>2. after = Effect(old, r, b, now, directive)
    BY DEF ContextAfter
  <2> HIDE DEF old, now, b, after
  <2>3. /\ Effect(old, r, b, now, directive) \in Contexts
        /\ Effect(old, r, b, now, directive).writes = old.writes \cup {<<r, b>>}
    BY <1>1, <2>1, EffectDoes
  <2> QED
    BY <2>2, <2>3 DEF old
<1> HIDE DEF b, after, n
<1>5. /\ rollback'.snapshots = Append(rollback.snapshots, [block |-> b, context |-> after])
      /\ Len(rollback'.snapshots) = n + 1
  BY <1>1, <1>2, CheckpointDoes DEF CreateCheckpoint, n
<1>6. \A p \in Blocks : results'[r][p] = "ok" => results[r][p] = "ok" \/ p = b
  BY <1>1, <1>2
<1>7. LostOf(results'[r], r, after.writes)
        \subseteq LostOf(results[r], r, context[r].writes)
  BY <1>4, <1>6 DEF LostOf
<1>8. Cardinality(LostOf(results'[r], r, after.writes)) <= faults
  <2> DEFINE S == LostOf(results[r], r, context[r].writes)
             T == LostOf(results'[r], r, after.writes)
  <2>1. /\ Cardinality(S) \in Nat /\ Cardinality(T) \in Nat
        /\ IsFiniteSet(S) /\ IsFiniteSet(T) /\ T \subseteq S /\ Cardinality(S) <= faults
    BY <1>7, LostIsFinite DEF LossBounded
  <2> HIDE DEF S, T
  <2>2. Cardinality(T) <= Cardinality(S)
    BY <2>1, LostCompared
  <2> QED
    BY <1>1, <2>1, <2>2 DEF T
<1>9. ASSUME NEW k \in 1 .. Len(rollback'.snapshots) PROVE SnapshotBounded(r, k)'
  <2>1. CASE k = n + 1
    <3>1. rollback'.snapshots[k] = [block |-> b, context |-> after]
      BY <1>1, <1>5, <2>1 DEF n
    <3>2. faults' + (Len(rollback'.snapshots) - k) = faults
      <4>1. Len(rollback'.snapshots) - k = 0
        BY <1>1, <1>5, <2>1
      <4>2. faults' + 0 = faults
        BY <1>1, <1>2
      <4> QED
        BY <4>1, <4>2
    <3>4. rollback'.snapshots[k].block = b /\ rollback'.snapshots[k].context = after
      BY <3>1
    <3>5. Left(r, Pos(rollback.snapshots[k].block))'
      BY <1>1, <1>3, <3>4 DEF Left
    <3> QED
      BY <1>8, <3>2, <3>4, <3>5 DEF SnapshotBounded
  <2>2. CASE k \in 1 .. n
    <3> DEFINE W == rollback.snapshots[k].context.writes
               S == LostOf(results[r], r, W)
               T == LostOf(results'[r], r, W)
               p == Pos(rollback.snapshots[k].block)
    <3>1. rollback'.snapshots[k] = rollback.snapshots[k]
      BY <1>1, <1>5, <2>2 DEF n
    <3>2. T \subseteq S \cup {b}
      BY <1>6 DEF LostOf
    <3>3. /\ Cardinality(S) \in Nat /\ Cardinality(T) \in Nat
          /\ IsFiniteSet(S) /\ IsFiniteSet(T)
          /\ Cardinality(S) <= faults + (n - k) /\ Left(r, p)
      BY <2>2, LostIsFinite DEF LossBounded, SnapshotBounded, n
    <3>6. p \in Nat
      <4>1. rollback.snapshots[k].block \in Blocks
        BY <2>2, TimesAreNumbers DEF n
      <4> QED
        BY <4>1, OrderOfPos, PipelineAssumption DEF Indices
    <3> HIDE DEF S, T, p
    <3>4. Cardinality(T) <= Cardinality(S) + 1
      BY <3>2, <3>3, LostCompared
    <3>9. faults' = faults /\ Len(rollback'.snapshots) = n + 1
      BY <1>2, <1>5
    <3>5. Cardinality(T) <= faults' + (Len(rollback'.snapshots) - k)
      BY <1>1, <2>2, <3>3, <3>4, <3>9
    <3>7. p < run'[r].index \/ (p = run'[r].index /\ run'[r].at = "retry")
      BY <1>1, <1>3, <3>3, <3>6 DEF Left
    <3>8. Left(r, Pos(rollback.snapshots[k].block))'
      BY <3>1, <3>7 DEF Left, p
    <3> QED
      BY <3>1, <3>5, <3>8 DEF SnapshotBounded, T
  <2> QED
    BY <1>1, <1>5, <2>1, <2>2
<1>10. Cardinality(LostOf(results'[r], r, context'[r].writes)) <= faults'
  BY <1>2, <1>8
<1> QED
  BY <1>3, <1>9, <1>10 DEF LossBounded

(* A success whose copy for the checkpoint fails: the snapshots fall one   *)
(* success further behind, and one more failure is counted.                *)
LEMMA LossOfCopy ==
    ASSUME RollbackOn, TurnTypes, TurnTypes', NEW r \in Runs, LossBounded(r),
           run[r].at = "block", NEW exits, NEW short, NEW directive,
           Replies(r, Current(r), TRUE, exits, short, directive, FALSE)
    PROVE  LossBounded(r)'
<1> DEFINE b == Current(r)
           n == Len(rollback.snapshots)
<1>1. /\ b \in Blocks /\ Pos(b) = run[r].index /\ run[r].index \in Nat
      /\ context[r] \in Contexts /\ faults \in Nat /\ n \in Nat
      /\ results \in [Runs -> [Blocks -> Statuses]] /\ rollback \in Managers
  <2>1. run[r].at \in Active \ {"loop"} /\ run[r].index \in Nat /\ faults \in Nat
    BY TypesOf, PipelineAssumption DEF Active, Locals
  <2> QED
    BY <2>1, AtTheBlock, TypesOf, TimesAreNumbers
<1>2. /\ context'[r] = ContextAfter(r, b, TRUE, directive) /\ rollback' = rollback
      /\ results' = [results EXCEPT ![r][b] = "ok"] /\ faults' = faults + 1
  BY <1>1, TypesOf DEF Replies, CreateCheckpoint
<1>3. /\ run'[r].at # "ready"
      /\ \/ run'[r].index = run[r].index + 1
         \/ run'[r].index = run[r].index /\ run'[r].at = "retry"
  BY DEF Replies, Becomes
<1>4. context'[r].writes = context[r].writes \cup {<<r, b>>}
  BY <1>1, <1>2 DEF ContextAfter, Effect, Contexts
<1> HIDE DEF b, n
<1>5. \A p \in Blocks : results'[r][p] = "ok" => results[r][p] = "ok" \/ p = b
  BY <1>1, <1>2
<1>6. Cardinality(LostOf(results'[r], r, context'[r].writes)) <= faults'
  <2> DEFINE S == LostOf(results[r], r, context[r].writes)
             T == LostOf(results'[r], r, context'[r].writes)
  <2>1. T \subseteq S
    BY <1>4, <1>5 DEF LostOf
  <2>2. /\ Cardinality(S) \in Nat /\ Cardinality(T) \in Nat
        /\ IsFiniteSet(S) /\ IsFiniteSet(T) /\ Cardinality(S) <= faults
    BY LostIsFinite DEF LossBounded
  <2> HIDE DEF S, T
  <2>3. Cardinality(T) <= Cardinality(S)
    BY <2>1, <2>2, LostCompared
  <2>4. faults' = faults + 1
    BY <1>2
  <2>5. Cardinality(T) <= faults'
    BY <1>1, <2>2, <2>3, <2>4
  <2> QED
    BY <2>5 DEF T
<1>7. ASSUME NEW k \in 1 .. Len(rollback'.snapshots) PROVE SnapshotBounded(r, k)'
  <2> DEFINE W == rollback.snapshots[k].context.writes
             S == LostOf(results[r], r, W)
             T == LostOf(results'[r], r, W)
             p == Pos(rollback.snapshots[k].block)
  <2>1. k \in 1 .. n /\ Len(rollback'.snapshots) = n
    BY <1>2 DEF n
  <2>2. T \subseteq S \cup {b}
    BY <1>5 DEF LostOf
  <2>3. /\ Cardinality(S) \in Nat /\ Cardinality(T) \in Nat
        /\ IsFiniteSet(S) /\ IsFiniteSet(T)
        /\ Cardinality(S) <= faults + (n - k) /\ Left(r, p)
    BY <2>1, LostIsFinite DEF LossBounded, SnapshotBounded, n
  <2>4. p \in Nat
    <3>1. rollback.snapshots[k].block \in Blocks
      BY <2>1, TimesAreNumbers DEF n
    <3> QED
      BY <3>1, OrderOfPos, PipelineAssumption DEF Indices
  <2> HIDE DEF S, T, p
  <2>5. Cardinality(T) <= Cardinality(S) + 1
    BY <2>2, <2>3, LostCompared
  <2>9. faults' = faults + 1
    BY <1>2
  <2>6. Cardinality(T) <= faults' + (Len(rollback'.snapshots) - k)
    BY <1>1, <2>1, <2>3, <2>5, <2>9
  <2>7. p < run'[r].index \/ (p = run'[r].index /\ run'[r].at = "retry")
    BY <1>1, <1>3, <2>3, <2>4 DEF Left
  <2>8. Left(r, Pos(rollback.snapshots[k].block))'
    BY <1>2, <2>7 DEF Left, p
  <2> QED
    BY <1>2, <2>6, <2>8 DEF SnapshotBounded, T
<1> QED
  BY <1>3, <1>6, <1>7 DEF LossBounded

(* A failure, rolled back: the block that failed has no snapshot. *)
LEMMA LossOfRollback ==
    ASSUME RollbackOn, TurnTypes, TurnTypes', NEW r \in Runs, LossBounded(r),
           run[r].at = "block", Current(r) \notin AlwaysOn,
           NEW wrote \in BOOLEAN, Fails(r, Current(r), wrote)
    PROVE  LossBounded(r)'
<1> DEFINE b == Current(r)
           after == PartialEffect(context[r], r, b, wrote)
           back == RollbackToCheckpoint(rollback, b, after)
           k == Kept(rollback.snapshots, b)
           n == Len(rollback.snapshots)
<1>1. /\ b \in Blocks /\ Pos(b) = run[r].index /\ run[r].index \in Nat
      /\ context[r] \in Contexts /\ faults \in Nat /\ n \in Nat
      /\ results \in [Runs -> [Blocks -> Statuses]] /\ rollback \in Managers
      /\ rollback.snapshots \in Seq([block : Blocks, context : Contexts])
  <2>1. run[r].at \in Active \ {"loop"} /\ run[r].index \in Nat /\ faults \in Nat
    BY TypesOf, PipelineAssumption DEF Active, Locals
  <2> QED
    BY <2>1, AtTheBlock, TypesOf, TimesAreNumbers
<1>2. /\ context'[r] = back.context /\ rollback' = back.manager
      /\ results' = [results EXCEPT ![r][b] = "error"]
      /\ faults' = faults + 1
      /\ run'[r].at = "loop" /\ run'[r].index = run[r].index + 1
  BY TypesOf DEF Fails, Becomes
<1>3. after \in Contexts /\ context[r].writes \subseteq after.writes
  BY <1>1, PartialEffectDoes
<1>4. k \in 0 .. n /\ RollsBackTo(rollback, k, after, back)
  BY <1>1, <1>3, RollbackDoes
<1> HIDE DEF b, after, back
<1>5. k = IF n = 0 THEN 0 ELSE n - 1
  <2>1. ASSUME NEW i \in 1 .. n PROVE rollback.snapshots[i].block # b
    <3>1. Left(r, Pos(rollback.snapshots[i].block))
      BY DEF LossBounded, SnapshotBounded
    <3>2. Pos(rollback.snapshots[i].block) \in Nat
      <4>1. rollback.snapshots[i].block \in Blocks
        BY <2>1, TimesAreNumbers
      <4> QED
        BY <4>1, OrderOfPos, PipelineAssumption DEF Indices
    <3> QED
      BY <1>1, <3>1, <3>2 DEF Left
  <2> QED
    BY <1>1, <2>1, KeptIsAPlace
<1> HIDE DEF k, n
<1>6. \A p \in Blocks : results'[r][p] = "ok" => results[r][p] = "ok"
  BY <1>1, <1>2
<1>7. /\ rollback'.snapshots = SubSeq(rollback.snapshots, 1, k)
      /\ Len(rollback'.snapshots) = k
      /\ \A i \in 1 .. k : rollback'.snapshots[i] = rollback.snapshots[i]
  <2>1. rollback'.snapshots = SubSeq(rollback.snapshots, 1, k)
    BY <1>2, <1>4 DEF RollsBackTo
  <2> QED
    BY <1>1, <1>4, <2>1, CutIsASequence DEF n
<1>8. ASSUME NEW i \in 1 .. n, NEW W, W = rollback.snapshots[i].context.writes
      PROVE  Cardinality(LostOf(results'[r], r, W)) <= faults + (n - i)
  <2> DEFINE S == LostOf(results[r], r, W)
             T == LostOf(results'[r], r, W)
  <2>1. T \subseteq S
    BY <1>6 DEF LostOf
  <2>2. /\ Cardinality(S) \in Nat /\ Cardinality(T) \in Nat
        /\ IsFiniteSet(S) /\ IsFiniteSet(T)
        /\ Cardinality(S) <= faults + (n - i)
    BY <1>8, LostIsFinite DEF LossBounded, SnapshotBounded, n
  <2> HIDE DEF S, T
  <2>3. Cardinality(T) <= Cardinality(S)
    BY <2>1, <2>2, LostCompared
  <2> QED
    BY <1>1, <2>2, <2>3 DEF T
<1>9. Cardinality(LostOf(results'[r], r, context'[r].writes)) <= faults'
  <2>1. CASE k = 0
    <3> DEFINE S == LostOf(results[r], r, context[r].writes)
               T == LostOf(results'[r], r, context'[r].writes)
    <3>1. context'[r] = after
      BY <1>2, <1>4, <2>1 DEF RollsBackTo
    <3>2. T \subseteq S
      BY <1>3, <1>6, <3>1 DEF LostOf
    <3>3. /\ Cardinality(S) \in Nat /\ Cardinality(T) \in Nat
          /\ IsFiniteSet(S) /\ IsFiniteSet(T) /\ Cardinality(S) <= faults
      BY LostIsFinite DEF LossBounded
    <3> HIDE DEF S, T
    <3>4. Cardinality(T) <= Cardinality(S)
      BY <3>2, <3>3, LostCompared
    <3> QED
      BY <1>1, <1>2, <3>3, <3>4 DEF T
  <2>2. CASE k # 0
    <3>1. k \in 1 .. n /\ n - k = 1
      BY <1>1, <1>5, <2>2
    <3>2. context'[r].writes = rollback.snapshots[k].context.writes
      BY <1>2, <1>4, <2>2 DEF RollsBackTo
    <3> QED
      BY <1>2, <1>8, <3>1, <3>2
  <2> QED
    BY <2>1, <2>2
<1>10. ASSUME NEW i \in 1 .. Len(rollback'.snapshots) PROVE SnapshotBounded(r, i)'
  <2>1. i \in 1 .. n /\ i \in 1 .. k /\ k = n - 1
    BY <1>1, <1>5, <1>7
  <2>2. rollback'.snapshots[i] = rollback.snapshots[i]
    BY <1>7, <2>1
  <2>3. faults' + (Len(rollback'.snapshots) - i) = faults + (n - i)
    BY <1>1, <1>2, <1>7, <2>1
  <2>4. Cardinality(LostOf(results'[r], r, rollback'.snapshots[i].context.writes))
          <= faults' + (Len(rollback'.snapshots) - i)
    BY <1>8, <2>1, <2>2, <2>3
  <2>5. Left(r, Pos(rollback.snapshots[i].block))
    BY <2>1 DEF LossBounded, SnapshotBounded, n
  <2>6. Pos(rollback.snapshots[i].block) \in Nat
    <3>1. rollback.snapshots[i].block \in Blocks
      BY <2>1, TimesAreNumbers DEF n
    <3> QED
      BY <3>1, OrderOfPos, PipelineAssumption DEF Indices
  <2>7. Pos(rollback.snapshots[i].block) < run'[r].index
    BY <1>1, <1>2, <2>5, <2>6 DEF Left
  <2>8. Left(r, Pos(rollback.snapshots[i].block))'
    BY <2>2, <2>7 DEF Left
  <2> QED
    BY <2>4, <2>8 DEF SnapshotBounded
<1> QED
  BY <1>2, <1>9, <1>10 DEF LossBounded

LEMMA LossOfStep ==
    ASSUME ~Parallel \/ ~RollbackOn, TurnTypes, TurnTypes', Sequential,
           NEW r \in Runs, LossBounded(r), Step(r)
    PROVE  LossBounded(r)'
<1>0. /\ run'[r].at # "ready" /\ run[r].index \in Nat /\ faults \in Nat
      /\ context \in [Runs -> Contexts] /\ context[r] \in Contexts
      /\ results \in [Runs -> [Blocks -> Statuses]] /\ results[r] \in [Blocks -> Statuses]
  BY StepStarts, TypesOf, PipelineAssumption DEF Locals
<1> DEFINE lost == LostOf(results[r], r, context[r].writes)
           lostThen == LostOf(results'[r], r, context'[r].writes)
           placed == \/ run[r].index < run'[r].index
                     \/ /\ run[r].index = run'[r].index
                        /\ run[r].at = "retry" => run'[r].at = "retry"
<1>11. ASSUME UNCHANGED <<results, rollback, faults>>, lostThen \subseteq lost, placed
       PROVE  LossBounded(r)'
  <2>1. faults <= faults' /\ \A b \in Blocks : results'[r][b] = "ok" => results[r][b] = "ok"
    BY <1>0, <1>11
  <2> HIDE DEF lost, lostThen, placed
  <2> QED
    BY <1>0, <1>11, <2>1, LossOfCalmStep DEF lost, lostThen, placed
<1>12. ASSUME UNCHANGED <<context, results, rollback, faults>>, placed
       PROVE  LossBounded(r)'
  <2>1. lostThen \subseteq lost
    BY <1>12
  <2>2. UNCHANGED <<results, rollback, faults>>
    BY <1>12
  <2> HIDE DEF lost, lostThen, placed
  <2> QED
    BY <1>11, <1>12, <2>1, <2>2
<1>1. CASE Start(r)
  <2>1. /\ run[r].at = "ready" /\ UNCHANGED <<results, rollback, faults>> /\ placed
    BY <1>1, StartDoes DEF Becomes
  <2>2. lostThen \subseteq lost
    BY <2>1 DEF LossBounded, LostOf
  <2> HIDE DEF lost, lostThen, placed
  <2> QED
    BY <1>11, <2>1, <2>2
<1>2. CASE Iterate(r)
  <2>1. UNCHANGED <<context, results, rollback, faults>> /\ placed
    BY <1>2, IterateDoes DEF Decides, Becomes
  <2> HIDE DEF lost, lostThen, placed
  <2> QED
    BY <1>12, <2>1
<1>3. CASE RunGroup(r)
  <2>1. ~RollbackOn
    BY <1>3, NoGroupRuns
  <2>2. PICK failed, declined, exits : GroupRuns(r, failed, declined, exits)
    BY <1>3, RunGroupDoes
  <2> DEFINE called == run[r].group \cap Registered
             oks == called \ (failed \cup declined)
             now == IF TimeBlock \in called THEN clock + 1 ELSE clock
  <2>3. oks \in SUBSET Blocks /\ now \in Nat
    BY <1>3, TypesOf, RunGroupDoes
  <2>4. /\ context'[r] = GroupEffect(context[r], r, oks, now)
        /\ results'[r] = [b \in Blocks |->
             IF b \notin run[r].group THEN results[r][b]
             ELSE IF b \in oks THEN "ok"
             ELSE IF b \in declined THEN "skipped" ELSE "error"]
        /\ faults' = faults + Cardinality(failed)
    BY <1>0, <2>2 DEF GroupRuns
  <2> HIDE DEF oks, now
  <2>5. context'[r].writes = context[r].writes \cup ({r} \X oks)
    BY <1>0, <2>4 DEF GroupEffect, Contexts
  <2>6. \A b \in Blocks : results'[r][b] = "ok" => results[r][b] = "ok" \/ b \in oks
    BY <2>4
  <2>7. lostThen \subseteq lost
    BY <2>5, <2>6 DEF LostOf
  <2>8. faults <= faults'
    BY <1>0, <2>2, <2>4, TypesOf, FaultsCounted DEF GroupRuns
  <2> HIDE DEF lost, lostThen
  <2> QED
    BY <1>0, <2>1, <2>7, <2>8, LossOfCalmStep DEF lost, lostThen
<1>4. CASE PassOver(r)
  <2>1. PICK skipped \in SUBSET Blocks, status \in Statuses :
          /\ PassesOver(r, Current(r), skipped, status)
          /\ Becomes(r, "loop", run[r].index + 1, run[r].executed, skipped,
                     run[r].earlyExit, run[r].group, run[r].aborted)
          /\ results' = [results EXCEPT ![r][Current(r)] = status]
    BY <1>4, PassOverDoes
  <2>2. status # "ok" \/ status = results[r][Current(r)]
    BY <2>1 DEF PassesOver
  <2>3. \A b \in Blocks : results'[r][b] = "ok" => results[r][b] = "ok"
    BY <1>0, <2>1, <2>2
  <2>4. UNCHANGED <<context, rollback, faults>> /\ placed
    BY <1>0, <1>4, <2>1, PassOverDoes DEF Becomes
  <2>5. lostThen \subseteq lost /\ faults <= faults'
    BY <1>0, <2>3, <2>4 DEF LostOf
  <2> HIDE DEF lost, lostThen, placed
  <2> QED
    BY <1>0, <2>3, <2>4, <2>5, LossOfCalmStep DEF lost, lostThen, placed
<1>5. CASE CallBlock(r)
  <2>1. UNCHANGED <<context, results, rollback, faults>> /\ placed
    BY <1>5, CallBlockDoes DEF Becomes
  <2> HIDE DEF lost, lostThen, placed
  <2> QED
    BY <1>12, <2>1
<1>6. CASE BlockReturns(r)
  <2> DEFINE b == Current(r)
  <2>1. PICK ok, exits, short, directive, copied :
          Replies(r, b, ok, exits, short, directive, copied)
    BY <1>6, BlockReturnsDoes
  <2>2. run[r].at = "block" /\ b \in Blocks
    BY <1>6, BlockReturnsDoes, AtTheBlock DEF Active
  <2>3. CASE ok /\ RollbackOn
    <3>1. ok = TRUE /\ copied \in BOOLEAN
      BY <2>1, <2>3 DEF Replies, MayAnswer
    <3> HIDE DEF lost, lostThen, placed
    <3>2. CASE copied
      BY <2>1, <2>2, <2>3, <3>1, <3>2, LossOfSuccess
    <3>3. CASE ~copied
      BY <2>1, <2>2, <2>3, <3>1, <3>3, LossOfCopy
    <3> QED
      BY <3>2, <3>3
  <2>4. CASE ~(ok /\ RollbackOn)
    <3>1. rollback' = rollback
      BY <2>1, <2>4 DEF Replies
    <3>2. placed
      BY <1>0, <2>1, <2>2 DEF Replies, Becomes
    <3> HIDE DEF b
    <3>3. ~ok => context'[r] = context[r]
      BY <1>0, <2>1 DEF Replies, ContextAfter
    <3>4. ok => context'[r].writes = context[r].writes \cup {<<r, b>>}
      <4>1. ok => context'[r] = Effect(context[r], r, b, NowAfter(b, TRUE), directive)
        BY <1>0, <2>1 DEF Replies, ContextAfter
      <4> QED
        BY <1>0, <4>1 DEF Effect, Contexts
    <3>5. \A p \in Blocks : results'[r][p] = "ok"
                              => results[r][p] = "ok" \/ (ok /\ p = b)
      BY <1>0, <2>1, <2>2 DEF Replies
    <3>6. lostThen \subseteq lost
      BY <3>3, <3>4, <3>5 DEF LostOf
    <3>7. RollbackOn => \A p \in Blocks : results'[r][p] = "ok" => results[r][p] = "ok"
      BY <2>4, <3>5
    <3>8. faults <= faults'
      BY <1>0, <2>1 DEF Replies
    <3> HIDE DEF lost, lostThen, placed
    <3> QED
      BY <1>0, <3>1, <3>2, <3>6, <3>7, <3>8, LossOfCalmStep DEF lost, lostThen, placed
  <2> QED
    BY <2>3, <2>4
<1>7. CASE BlockFails(r)
  <2> DEFINE b == Current(r)
  <2>1. PICK wrote \in BOOLEAN : Fails(r, b, wrote)
    BY <1>7, BlockFailsDoes
  <2>2. run[r].at = "block" /\ b \in Blocks
    BY <1>7, BlockFailsDoes, AtTheBlock DEF Active
  <2>3. CASE RollbackOn /\ b \notin AlwaysOn
    <3> HIDE DEF lost, lostThen, placed
    <3> QED
      BY <2>1, <2>2, <2>3, LossOfRollback
  <2>4. CASE ~(RollbackOn /\ b \notin AlwaysOn)
    <3> HIDE DEF b
    <3>1. rollback' = rollback /\ context'[r] = PartialEffect(context[r], r, b, wrote)
      BY <1>0, <2>1, <2>4 DEF Fails
    <3>2. placed /\ faults <= faults'
      BY <1>0, <2>1 DEF Fails, Becomes
    <3>3. \A p \in Blocks : results'[r][p] = "ok" => results[r][p] = "ok"
      BY <1>0, <2>1, <2>2 DEF Fails
    <3>4. context[r].writes \subseteq context'[r].writes
      BY <1>0, <2>2, <3>1, PartialEffectDoes
    <3>5. lostThen \subseteq lost
      BY <3>3, <3>4 DEF LostOf
    <3> HIDE DEF lost, lostThen, placed
    <3> QED
      BY <1>0, <3>1, <3>2, <3>3, <3>5, LossOfCalmStep DEF lost, lostThen, placed
  <2> QED
    BY <2>3, <2>4
<1>8. CASE Retry(r)
  <2>1. PICK failed, directive : Retries(r, failed, directive)
    BY <1>8, RetryDoes
  <2>2. context'[r].writes = context[r].writes \cup ({r} \X (RetryCalls \ failed))
    <3>1. context'[r] = Retried(context[r], r, RetryCalls \ failed, directive)
      BY <1>0, <2>1 DEF Retries
    <3> QED
      BY <1>0, <3>1 DEF Retried, Contexts
  <2>3. UNCHANGED <<results, rollback>> /\ placed
    BY <1>0, <1>8, <2>1, RetryDoes DEF Retries, Becomes
  <2>4. faults <= faults'
    BY <1>0, <2>1, TypesOf, FaultsCounted DEF Retries
  <2>5. lostThen \subseteq lost
    BY <2>2, <2>3 DEF LostOf
  <2> HIDE DEF lost, lostThen, placed
  <2> QED
    BY <1>0, <2>3, <2>4, <2>5, LossOfCalmStep DEF lost, lostThen, placed
<1>9. CASE Finish(r)
  <2>1. UNCHANGED <<context, results, rollback, faults>> /\ placed
    BY <1>9, FinishDoes DEF Becomes
  <2> HIDE DEF lost, lostThen, placed
  <2> QED
    BY <1>12, <2>1
<1>10. CASE LoseGroup(r)
  <2>1. ~RollbackOn
    BY <1>10, NoGroupRuns
  <2>2. PICK called : GroupIsLost(r, called)
    BY <1>10, LoseGroupDoes
  <2>5. faults' = faults + 1
    BY <2>2 DEF GroupIsLost
  <2>3. UNCHANGED <<context, results>> /\ faults <= faults'
    BY <1>0, <1>10, <2>5, LoseGroupDoes
  <2>4. lostThen \subseteq lost
    BY <2>3
  <2> HIDE DEF lost, lostThen, placed
  <2> QED
    BY <1>0, <2>1, <2>3, <2>4, LossOfCalmStep DEF lost, lostThen
<1> QED
  BY <1>1, <1>2, <1>3, <1>4, <1>5, <1>6, <1>7, <1>8, <1>9, <1>10 DEF Step

LEMMA LossKept ==
    ASSUME ~Parallel \/ ~RollbackOn, TurnTypes, Sequential, LossInv, [Next]_vars
    PROVE  LossInv'
<1>1. ASSUME NEW r \in Runs, Step(r) PROVE LossInv'
  <2>1. run'[r].at # "ready"
    BY <1>1, StepStarts
  <2>2. ASSUME Alone(r)' PROVE LossBounded(r)'
    <3>1. Alone(r)
      BY <1>1, <2>2, OthersUntouched DEF Alone
    <3>2. TurnTypes'
      BY <1>1, TypesKept DEF Next
    <3> QED
      BY <1>1, <3>1, <3>2, LossOfStep DEF LossInv
  <2>3. ASSUME NEW q \in Runs \ {r} PROVE ~Alone(q)'
    BY <2>1 DEF Alone
  <2> QED
    BY <2>2, <2>3 DEF LossInv
<1>2. CASE UNCHANGED vars
  BY <1>2 DEF vars, LossInv, Alone, LossBounded, SnapshotBounded, Left
<1> QED
  BY <1>1, <1>2 DEF Next

(***************************************************************************)
(* For every order and every number of failures: unless parallel groups    *)
(* and rollbacks are both on, the first turn of an orchestrator loses at   *)
(* most one success per failure, a checkpoint that is not made counted as  *)
(* one.  rollback_manager.py:85-161.                                       *)
(***************************************************************************)
THEOREM AFailureCostsOneSuccess ==
    ASSUME ~Parallel \/ ~RollbackOn
    PROVE  Spec => []LostWork
<1>1. LossInv => LostWork
  BY DEF LossInv, LossBounded, Alone, LostOf, LostWork
<1>2. Init => TurnTypes /\ Sequential /\ LossInv
  BY InitTypes, InitSequential, InitLoss
<1>3. TurnTypes /\ Sequential /\ LossInv /\ [Next]_vars
        => TurnTypes' /\ Sequential' /\ LossInv'
  BY TypesKept, SequentialKept, LossKept
<1> QED
  BY <1>1, <1>2, <1>3, PTL DEF Spec

-----------------------------------------------------------------------------
(* The floor is called *)

(* Where the guard is used, it is silent. *)
Quiet == GuardOn => TurnInv

LEMMA QuietKept ==
    ASSUME GuardOn => OneTurnAtATime, Quiet, [Next]_vars
    PROVE  Quiet'
  BY NextKeeps DEF Quiet

LEMMA NeverOverTheLimit ==
    ASSUME GuardOn => OneTurnAtATime, Quiet, NEW r \in Runs, run[r].at = "select", GuardOn
    PROVE  CheckBlockExecutionLimit(guard, Current(r)).ok
<1>1. TurnInv /\ OneTurnAtATime
  BY DEF Quiet
<1>2. guard \in Guards /\ Chosen(guard, run[r].index)
  BY <1>1 DEF TurnInv, Control, RunInv, GuardFits, Active
<1>3. run[r].index \in Indices /\ Current(r) = Order[run[r].index]
  BY <1>1, AtBlock DEF Active
<1> QED
  BY <1>1, <1>2, <1>3, SecondCount

(* The places a run has left behind, the one under its call included. *)
Reached(r, b) ==
    Pos(b) < run[r].index \/ (Pos(b) = run[r].index /\ run[r].at \in {"block", "retry"})

(* One place further, only the current block is new. *)
LEMMA OneMore ==
    ASSUME TurnTypes, NEW r \in Runs, run[r].at \in Active \ {"loop"}, NEW b \in Blocks
    PROVE  Pos(b) < run[r].index + 1 => Pos(b) < run[r].index \/ b = Current(r)
<1>1. run[r].index \in Indices /\ Current(r) = Order[run[r].index]
  BY AtTheBlock
<1>2. Pos(b) \in Indices /\ Order[Pos(b)] = b
  BY OrderOfPos
<1> QED
  BY <1>1, <1>2, PipelineAssumption DEF Indices

(* Failures are never taken back, nor what was called or ran in a group.   *)
LEMMA CallsGrow ==
    ASSUME TurnTypes, NEW r \in Runs, Step(r)
    PROVE  /\ faults \in Nat /\ faults' \in Nat /\ faults <= faults'
           /\ run[r].executed \subseteq run'[r].executed
           /\ \A b \in Blocks : executions[r][b] > 0 => executions'[r][b] > 0
<1>0. /\ executions \in [Runs -> [Blocks -> Nat]] /\ faults \in 0 .. MaxFaults
      /\ MaxFaults \in Nat /\ faults \in Nat
  BY TypesOf
<1> DEFINE grown == faults' \in Nat /\ faults <= faults'
<1>1. ASSUME faults' = faults PROVE grown
  BY <1>0, <1>1
<1>2. ASSUME faults' = faults + 1 PROVE grown
  BY <1>0, <1>2
<1>3. ASSUME NEW S, NEW failed \in AtMost(MaxFaults - faults, S),
             faults' = faults + Cardinality(failed)
      PROVE  grown
  BY <1>0, <1>3, FaultsCounted
<1>4. ASSUME NEW S, executions' = [executions EXCEPT ![r] = [b \in Blocks |->
               IF b \in S THEN executions[r][b] + 1 ELSE executions[r][b]]]
      PROVE  \A b \in Blocks : executions[r][b] > 0 => executions'[r][b] > 0
  BY <1>0, <1>4
<1> HIDE DEF grown
<1> USE <1>0
<1>5. grown
  <2>1. CASE Start(r)
    BY <1>1, <2>1, StartDoes
  <2>2. CASE Iterate(r)
    BY <1>1, <2>2, IterateDoes
  <2>3. CASE RunGroup(r)
    BY <1>3, <2>3, RunGroupDoes DEF GroupRuns
  <2>4. CASE LoseGroup(r)
    BY <1>2, <2>4, LoseGroupDoes DEF GroupIsLost
  <2>5. CASE PassOver(r)
    BY <1>1, <2>5, PassOverDoes
  <2>6. CASE CallBlock(r)
    BY <1>1, <2>6, CallBlockDoes
  <2>7. CASE BlockReturns(r)
    <3>1. faults' = faults \/ faults' = faults + 1
      <4>1. PICK ok, exits, short, directive, copied :
              Replies(r, Current(r), ok, exits, short, directive, copied)
        BY <2>7, BlockReturnsDoes
      <4> QED
        BY <4>1 DEF Replies
    <3> QED
      BY <1>1, <1>2, <3>1
  <2>8. CASE BlockFails(r)
    BY <1>2, <2>8, BlockFailsDoes DEF Fails
  <2>9. CASE Retry(r)
    BY <1>3, <2>9, RetryDoes DEF Retries
  <2>10. CASE Finish(r)
    BY <1>1, <2>10, FinishDoes
  <2> QED
    BY <2>1, <2>2, <2>3, <2>4, <2>5, <2>6, <2>7, <2>8, <2>9, <2>10 DEF Step
<1>6. run[r].executed \subseteq run'[r].executed
  <2>1. CASE Start(r)
    BY <2>1, StartDoes DEF Becomes
  <2>2. CASE Iterate(r)
    BY <2>2, IterateDoes DEF Decides, Becomes
  <2>3. CASE RunGroup(r)
    BY <2>3, RunGroupDoes DEF GroupRuns, Becomes
  <2>4. CASE LoseGroup(r)
    BY <2>4, LoseGroupDoes DEF GroupIsLost, Becomes
  <2>5. CASE PassOver(r)
    BY <2>5, PassOverDoes DEF Becomes
  <2>6. CASE CallBlock(r)
    BY <2>6, CallBlockDoes DEF Becomes
  <2>7. CASE BlockReturns(r)
    BY <2>7, BlockReturnsTo
  <2>8. CASE BlockFails(r)
    BY <2>8, BlockFailsDoes DEF Fails, Becomes
  <2>9. CASE Retry(r)
    BY <2>9, RetryDoes DEF Retries, Becomes
  <2>10. CASE Finish(r)
    BY <2>10, FinishDoes DEF Becomes
  <2> QED
    BY <2>1, <2>2, <2>3, <2>4, <2>5, <2>6, <2>7, <2>8, <2>9, <2>10 DEF Step
<1>7. \A b \in Blocks : executions[r][b] > 0 => executions'[r][b] > 0
  <2>1. CASE Start(r)
    BY <2>1, StartDoes
  <2>2. CASE Iterate(r)
    BY <2>2, IterateDoes
  <2>3. CASE RunGroup(r)
    BY <1>4, <2>3, RunGroupDoes DEF GroupRuns
  <2>4. CASE LoseGroup(r)
    BY <1>4, <2>4, LoseGroupDoes DEF GroupIsLost
  <2>5. CASE PassOver(r)
    BY <2>5, PassOverDoes
  <2>6. CASE CallBlock(r)
    <3>1. executions' = [executions EXCEPT ![r][Current(r)] =
                           executions[r][Current(r)] + 1]
      BY <2>6, CallBlockDoes
    <3> QED
      BY <3>1
  <2>7. CASE BlockReturns(r)
    BY <2>7, BlockReturnsDoes
  <2>8. CASE BlockFails(r)
    BY <2>8, BlockFailsDoes
  <2>9. CASE Retry(r)
    BY <1>4, <2>9, RetryDoes DEF Retries
  <2>10. CASE Finish(r)
    BY <2>10, FinishDoes
  <2> QED
    BY <2>1, <2>2, <2>3, <2>4, <2>5, <2>6, <2>7, <2>8, <2>9, <2>10 DEF Step
<1> QED
  BY <1>5, <1>6, <1>7 DEF grown

(* A run that has not exited has skipped no block of F and called each one *)
(* it came past or had in a group, but for those lost with their group.    *)
FloorServed(F, r) ==
    /\ run[r].at = "save" => run[r].aborted
    /\ run[r].at = "done" => run[r].aborted \/ run[r].index > Len(Order)
    /\ run[r].at = "block" => executions[r][Current(r)] > 0
    /\ \A b \in Blocks :
          results[r][b] # "none" => b \in run[r].executed \/ Reached(r, b)
    /\ ~run[r].earlyExit =>
          /\ run[r].skipped \cap F = {}
          /\ \A b \in F : b \in run[r].executed \/ Reached(r, b) =>
                executions[r][b] > 0 \/ Lost(r, b)

(* What a step has to keep: a lost block of F stays one, unless it is      *)
(* called, and what comes to be executed or behind was called or is lost.  *)
LEMMA FloorKept ==
    ASSUME TurnTypes, NEW F, F \subseteq Blocks, NEW r \in Runs, Step(r),
           FloorServed(F, r),
           run'[r].at = "save" => run'[r].aborted,
           run'[r].at = "done" => run'[r].aborted \/ run'[r].index > Len(Order),
           run'[r].at = "block" => executions'[r][Current(r)'] > 0,
           run[r].earlyExit => run'[r].earlyExit,
           ~run'[r].earlyExit => run'[r].skipped \cap F = {},
           \A b \in Blocks : Reached(r, b) => Reached(r, b)',
           \A b \in Blocks : results'[r][b] = results[r][b]
                             \/ b \in run'[r].executed \/ Reached(r, b)',
           ~run'[r].earlyExit =>
              \A b \in F :
                 /\ results'[r][b] = results[r][b] \/ executions'[r][b] > 0
                 /\ b \in run'[r].executed \/ Reached(r, b)' =>
                       \/ b \in run[r].executed \/ Reached(r, b)
                       \/ executions'[r][b] > 0 \/ Lost(r, b)'
    PROVE  FloorServed(F, r)'
<1>1. /\ faults \in Nat /\ faults' \in Nat /\ faults <= faults'
      /\ run[r].executed \subseteq run'[r].executed
      /\ \A b \in Blocks : executions[r][b] > 0 => executions'[r][b] > 0
  BY CallsGrow
<1>2. ASSUME NEW b \in Blocks, results'[r][b] # "none"
      PROVE  b \in run'[r].executed \/ Reached(r, b)'
  BY <1>1, <1>2 DEF FloorServed
<1>3. ASSUME ~run'[r].earlyExit, NEW b \in F,
             b \in run'[r].executed \/ Reached(r, b)'
      PROVE  executions'[r][b] > 0 \/ Lost(r, b)'
  <2>1. CASE b \in run[r].executed \/ Reached(r, b)
    <3>1. executions[r][b] > 0 \/ Lost(r, b)
      BY <1>3, <2>1 DEF FloorServed
    <3>2. results'[r][b] = results[r][b] \/ executions'[r][b] > 0
      BY <1>3
    <3>3. CASE Lost(r, b) /\ results'[r][b] = results[r][b]
      <4>1. faults' > 0
        BY <1>1, <3>3 DEF Lost
      <4> QED
        BY <1>1, <3>3, <4>1 DEF Lost
    <3> QED
      BY <1>1, <3>1, <3>2, <3>3
  <2> QED
    BY <1>3, <2>1
<1> QED
  BY <1>2, <1>3 DEF FloorServed

(* No block of F is passed over in a run that has not exited, unless it    *)
(* ran in a group.                                                         *)
LEMMA FloorNotSkipped ==
    ASSUME GuardOn => OneTurnAtATime, Quiet, TurnTypes, NEW F, ClosesFloor(F),
           NEW r \in Runs, run[r].at = "select", FloorServed(F, r), ~run[r].earlyExit,
           NEW skipped, NEW status, PassesOver(r, Current(r), skipped, status),
           Current(r) \in F
    PROVE  /\ Current(r) \in run[r].executed /\ skipped = run[r].skipped
           /\ status = results[r][Current(r)]
<1> DEFINE b == Current(r)
<1>1. b \in Registered
  BY DEF ClosesFloor
<1>2. ASSUME NEW self \in {FALSE, (b \in SelfSkips)}, SkipsBlock(r, b, self)
      PROVE  FALSE
  <2>1. ~self
    BY DEF ClosesFloor
  <2>2. b \notin AlwaysOn
    BY <1>2, <2>1 DEF SkipsBlock
  <2>3. b \in ActiveBlocks \ IntentSkips /\ Dependencies[b] \cap Blocks \subseteq F
    BY <2>2 DEF ClosesFloor
  <2>4. run[r].skipped \subseteq Blocks /\ run[r].skipped \cap F = {}
    BY TypesOf DEF FloorServed, Locals
  <2> QED
    BY <1>2, <2>1, <2>3, <2>4 DEF SkipsBlock
<1>3. GuardOn => CheckBlockExecutionLimit(guard, b).ok
  BY NeverOverTheLimit
<1> HIDE DEF b
<1>4. b \in run[r].executed /\ skipped = run[r].skipped /\ status = results[r][b]
  BY <1>1, <1>2, <1>3 DEF PassesOver, b
<1> QED
  BY <1>4 DEF b

LEMMA FloorStep ==
    ASSUME GuardOn => OneTurnAtATime, Quiet, TurnTypes, NEW F, ClosesFloor(F),
           NEW r \in Runs, FloorServed(F, r), Step(r)
    PROVE  FloorServed(F, r)'
<1>0. /\ executions \in [Runs -> [Blocks -> Nat]] /\ F \subseteq Blocks
      /\ results \in [Runs -> [Blocks -> Statuses]]
      /\ run[r] \in Locals /\ run[r].index \in Nat /\ Len(Order) \in Nat
      /\ run[r].executed \subseteq Blocks
      /\ \A b \in Blocks : Pos(b) \in Nat
  <2>1. /\ executions \in [Runs -> [Blocks -> Nat]] /\ run[r] \in Locals
        /\ results \in [Runs -> [Blocks -> Statuses]]
        /\ Len(Order) \in Nat /\ Registered \subseteq Blocks
    BY TypesOf, PipelineAssumption
  <2>2. run[r].index \in Nat /\ run[r].executed \subseteq Blocks
    BY <2>1 DEF Locals
  <2>3. \A b \in Blocks : Pos(b) \in Nat
    BY OrderOfPos DEF Indices
  <2>4. F \subseteq Blocks
    BY <2>1 DEF ClosesFloor
  <2> QED
    BY <2>1, <2>2, <2>3, <2>4
<1>1. CASE Start(r)
  <2>1. /\ run[r].at = "ready" /\ run'[r].at = "loop"
        /\ run'[r].index = run[r].index /\ run'[r].executed = run[r].executed
        /\ run'[r].skipped = run[r].skipped /\ run'[r].earlyExit = run[r].earlyExit
        /\ UNCHANGED <<results, executions>>
    BY <1>1, StartDoes DEF Becomes
  <2>2. \A b \in Blocks : Reached(r, b)' <=> Reached(r, b)
    BY <2>1 DEF Reached
  <2>3. run[r].skipped \cap F = {} \/ run[r].earlyExit
    BY DEF FloorServed
  <2> QED
    BY <1>0, <2>1, <2>2, <2>3, FloorKept
<1>2. CASE Iterate(r)
  <2>1. PICK aborts \in BOOLEAN : Decides(r, aborts)
    BY <1>2, IterateDoes
  <2>2. UNCHANGED <<executions, results>> /\ run[r].at = "loop"
    BY <1>2, IterateDoes
  <2>3. /\ run'[r].executed = run[r].executed /\ run'[r].skipped = run[r].skipped
        /\ run'[r].index = run[r].index /\ run'[r].earlyExit = run[r].earlyExit
        /\ run'[r].at = "save" => run'[r].aborted
        /\ run'[r].at \in {"save", "group", "select"}
    BY <2>1 DEF Decides, Becomes
  <2>4. \A b \in Blocks : Reached(r, b)' <=> Reached(r, b)
    BY <2>2, <2>3 DEF Reached
  <2>5. run[r].skipped \cap F = {} \/ run[r].earlyExit
    BY DEF FloorServed
  <2> QED
    BY <1>0, <2>2, <2>3, <2>4, <2>5, FloorKept
<1>3. CASE RunGroup(r)
  <2>1. PICK failed, declined, exits : GroupRuns(r, failed, declined, exits)
    BY <1>3, RunGroupDoes
  <2>2. run[r].at = "group" /\ run[r].group \subseteq Blocks /\ F \subseteq Registered
    BY <1>3, RunGroupDoes DEF ClosesFloor
  <2>3. /\ run'[r].at = "select" /\ run'[r].index = run[r].index
        /\ run'[r].executed = run[r].executed \cup run[r].group
        /\ run'[r].skipped = run[r].skipped
        /\ run[r].earlyExit => run'[r].earlyExit
    BY <2>1 DEF GroupRuns, Becomes
  <2>4. executions'[r] = [b \in Blocks |->
          IF b \in run[r].group \cap Registered THEN executions[r][b] + 1
          ELSE executions[r][b]]
    BY <1>0, <2>1 DEF GroupRuns
  <2>5. \A b \in F : b \in run[r].group => executions'[r][b] > 0
    BY <1>0, <2>2, <2>4
  <2>6. \A b \in Blocks : results'[r][b] = results[r][b] \/ b \in run[r].group
    BY <1>0, <2>1 DEF GroupRuns
  <2>7. \A b \in Blocks : Reached(r, b)' <=> Reached(r, b)
    BY <2>2, <2>3 DEF Reached
  <2>8. run[r].skipped \cap F = {} \/ run[r].earlyExit
    BY DEF FloorServed
  <2> QED
    BY <1>0, <2>2, <2>3, <2>5, <2>6, <2>7, <2>8, FloorKept
<1>10. CASE LoseGroup(r)
  <2>1. PICK called : GroupIsLost(r, called)
    BY <1>10, LoseGroupDoes
  <2>2. /\ run[r].at = "group" /\ run[r].group \subseteq Blocks
        /\ UNCHANGED results
    BY <1>10, LoseGroupDoes
  <2>3. /\ run'[r].at = "select" /\ run'[r].index = run[r].index
        /\ run'[r].executed = run[r].executed \cup run[r].group
        /\ run'[r].skipped = run[r].skipped
        /\ run'[r].earlyExit = run[r].earlyExit
        /\ faults' = faults + 1
    BY <2>1 DEF GroupIsLost, Becomes
  <2>4. faults' > 0
    BY <2>3, TypesOf
  <2>5. \A b \in Blocks : Reached(r, b)' <=> Reached(r, b)
    BY <2>2, <2>3 DEF Reached
  <2>6. run[r].skipped \cap F = {} \/ run[r].earlyExit
    BY DEF FloorServed
  <2>7. ASSUME ~run[r].earlyExit, NEW b \in F, b \in run[r].group
        PROVE  b \in run[r].executed \/ Reached(r, b) \/ Lost(r, b)'
    <3>1. CASE results[r][b] = "none"
      BY <2>2, <2>3, <2>4, <2>7, <3>1 DEF Lost
    <3>2. CASE results[r][b] # "none"
      BY <1>0, <2>7, <3>2 DEF FloorServed
    <3> QED
      BY <3>1, <3>2
  <2> QED
    BY <1>0, <2>2, <2>3, <2>5, <2>6, <2>7, FloorKept
<1>4. CASE PassOver(r)
  <2>1. run[r].at = "select" /\ UNCHANGED executions
    BY <1>4, PassOverDoes
  <2>2. PICK skipped \in SUBSET Blocks, status \in Statuses :
          /\ PassesOver(r, Current(r), skipped, status)
          /\ Becomes(r, "loop", run[r].index + 1, run[r].executed, skipped,
                     run[r].earlyExit, run[r].group, run[r].aborted)
          /\ results' = [results EXCEPT ![r][Current(r)] = status]
    BY <1>4, PassOverDoes
  <2>3. skipped \subseteq run[r].skipped \cup {Current(r)}
    BY <2>2 DEF PassesOver
  <2>4. ~run[r].earlyExit /\ Current(r) \in F =>
           /\ Current(r) \in run[r].executed /\ skipped = run[r].skipped
           /\ status = results[r][Current(r)]
    BY <2>1, <2>2, FloorNotSkipped
  <2>5. \A b \in Blocks : Pos(b) < run[r].index + 1 => Pos(b) < run[r].index \/ b = Current(r)
    BY <2>1, OneMore DEF Active
  <2>6. /\ run'[r].at = "loop" /\ run'[r].index = run[r].index + 1
        /\ run'[r].executed = run[r].executed /\ run'[r].skipped = skipped
        /\ run'[r].earlyExit = run[r].earlyExit
    BY <2>2 DEF Becomes
  <2>7. Pos(Current(r)) = run[r].index
    BY <2>1, AtTheBlock DEF Active
  <2>8. \A b \in Blocks : Reached(r, b) => Reached(r, b)'
    BY <1>0, <2>1, <2>6 DEF Reached
  <2>9. \A b \in Blocks : Reached(r, b)' => Reached(r, b) \/ b = Current(r)
    BY <1>0, <2>1, <2>5, <2>6 DEF Reached
  <2>10. \A b \in Blocks : b = Current(r) => Reached(r, b)'
    BY <1>0, <2>6, <2>7 DEF Reached
  <2>11. \A b \in Blocks : results'[r][b] = results[r][b]
                           \/ (b = Current(r) /\ results'[r][b] = status)
    BY <1>0, <2>2
  <2>12. run[r].skipped \cap F = {} \/ run[r].earlyExit
    BY DEF FloorServed
  <2>13. skipped \cap F = {} \/ run[r].earlyExit
    BY <2>3, <2>4, <2>12
  <2>14. \A b \in F : run[r].earlyExit \/ results'[r][b] = results[r][b]
    BY <1>0, <2>4, <2>11
  <2>15. \A b \in Blocks : results'[r][b] = results[r][b] \/ Reached(r, b)'
    BY <2>10, <2>11
  <2>16. \A b \in F : b \in run'[r].executed \/ Reached(r, b)' =>
            run[r].earlyExit \/ b \in run[r].executed \/ Reached(r, b)
    BY <1>0, <2>4, <2>6, <2>9
  <2> QED
    BY <1>0, <2>6, <2>8, <2>13, <2>14, <2>15, <2>16, FloorKept
<1>5. CASE CallBlock(r)
  <2>1. /\ run[r].at = "select" /\ Pos(Current(r)) = run[r].index /\ Current(r) \in Blocks
        /\ executions' = [executions EXCEPT ![r][Current(r)] =
                            executions[r][Current(r)] + 1]
        /\ UNCHANGED results
        /\ Becomes(r, "block", run[r].index, run[r].executed, run[r].skipped,
                   run[r].earlyExit, run[r].group, run[r].aborted)
    BY <1>5, CallBlockDoes, AtTheBlock DEF Active
  <2>2. executions'[r][Current(r)] > 0
    BY <1>0, <2>1
  <2>3. \A b \in Blocks : Pos(b) = run[r].index => b = Current(r)
    BY <2>1, OrderOfPos DEF Current
  <2>4. /\ run'[r].at = "block" /\ run'[r].index = run[r].index
        /\ run'[r].executed = run[r].executed /\ run'[r].skipped = run[r].skipped
        /\ run'[r].earlyExit = run[r].earlyExit
    BY <2>1 DEF Becomes
  <2>5. Current(r)' = Current(r)
    BY <2>4 DEF Current
  <2>6. \A b \in Blocks : Reached(r, b) => Reached(r, b)'
    BY <2>1, <2>4 DEF Reached
  <2>7. \A b \in Blocks : Reached(r, b)' => Reached(r, b) \/ b = Current(r)
    BY <2>3, <2>4 DEF Reached
  <2>8. run[r].skipped \cap F = {} \/ run[r].earlyExit
    BY DEF FloorServed
  <2>9. \A b \in F : b \in run'[r].executed \/ Reached(r, b)' =>
           \/ b \in run[r].executed \/ Reached(r, b)
           \/ executions'[r][b] > 0
    BY <1>0, <2>2, <2>4, <2>7
  <2> QED
    BY <1>0, <2>1, <2>2, <2>4, <2>5, <2>6, <2>8, <2>9, FloorKept
<1>6. CASE BlockReturns(r)
  <2>1. PICK ok, exits, short, directive, copied :
          Replies(r, Current(r), ok, exits, short, directive, copied)
    BY <1>6, BlockReturnsDoes
  <2>2. /\ run[r].at = "block" /\ UNCHANGED executions /\ Current(r) \in Blocks
        /\ Pos(Current(r)) = run[r].index
    BY <1>6, BlockReturnsDoes, AtTheBlock DEF Active
  <2>3. /\ run'[r].executed = run[r].executed
        /\ run'[r].skipped = SkippedAfter(r, Current(r), short)
        /\ run'[r].earlyExit = (run[r].earlyExit \/ exits)
        /\ \/ run'[r].at = "retry" /\ run'[r].index = run[r].index
           \/ run'[r].at = "loop" /\ run'[r].index = run[r].index + 1
    BY <2>1 DEF Replies, Becomes
  <2>4. ~run'[r].earlyExit /\ run[r].skipped \cap F = {} => run'[r].skipped \cap F = {}
    BY <2>1, <2>2, <2>3 DEF Replies, MayAnswer, SkippedAfter, ClosesFloor
  <2>5. \A b \in Blocks : Pos(b) < run[r].index + 1 => Pos(b) < run[r].index \/ b = Current(r)
    BY <2>2, OneMore DEF Active
  <2>6. \A b \in Blocks : Reached(r, b)' => Reached(r, b)
    BY <1>0, <2>2, <2>3, <2>5 DEF Reached
  <2>7. \A b \in Blocks : Reached(r, b) => Reached(r, b)'
    BY <1>0, <2>2, <2>3 DEF Reached
  <2>8. \A b \in Blocks : b = Current(r) => Reached(r, b)'
    BY <1>0, <2>2, <2>3 DEF Reached
  <2>9. \A b \in Blocks : results'[r][b] = results[r][b] \/ b = Current(r)
    BY <1>0, <2>1 DEF Replies
  <2>10. executions'[r][Current(r)] > 0
    BY <2>2 DEF FloorServed
  <2>11. run[r].skipped \cap F = {} \/ run[r].earlyExit
    BY DEF FloorServed
  <2>12. \A b \in F : results'[r][b] = results[r][b] \/ executions'[r][b] > 0
    BY <1>0, <2>9, <2>10
  <2> QED
    BY <1>0, <2>2, <2>3, <2>4, <2>6, <2>7, <2>8, <2>9, <2>11, <2>12, FloorKept
<1>7. CASE BlockFails(r)
  <2>1. PICK wrote : Fails(r, Current(r), wrote)
    BY <1>7, BlockFailsDoes
  <2>2. /\ run[r].at = "block" /\ UNCHANGED executions /\ Current(r) \in Blocks
        /\ Pos(Current(r)) = run[r].index
    BY <1>7, BlockFailsDoes, AtTheBlock DEF Active
  <2>3. /\ run'[r].at = "loop" /\ run'[r].index = run[r].index + 1
        /\ run'[r].executed = run[r].executed /\ run'[r].skipped = run[r].skipped
        /\ run'[r].earlyExit = run[r].earlyExit
    BY <2>1 DEF Fails, Becomes
  <2>4. \A b \in Blocks : Pos(b) < run[r].index + 1 => Pos(b) < run[r].index \/ b = Current(r)
    BY <2>2, OneMore DEF Active
  <2>5. \A b \in Blocks : Reached(r, b)' => Reached(r, b)
    BY <1>0, <2>2, <2>3, <2>4 DEF Reached
  <2>6. \A b \in Blocks : Reached(r, b) => Reached(r, b)'
    BY <1>0, <2>2, <2>3 DEF Reached
  <2>7. \A b \in Blocks : b = Current(r) => Reached(r, b)'
    BY <1>0, <2>2, <2>3 DEF Reached
  <2>8. \A b \in Blocks : results'[r][b] = results[r][b] \/ b = Current(r)
    BY <1>0, <2>1 DEF Fails
  <2>9. executions'[r][Current(r)] > 0
    BY <2>2 DEF FloorServed
  <2>10. run[r].skipped \cap F = {} \/ run[r].earlyExit
    BY DEF FloorServed
  <2>11. \A b \in F : results'[r][b] = results[r][b] \/ executions'[r][b] > 0
    BY <1>0, <2>8, <2>9
  <2> QED
    BY <1>0, <2>3, <2>5, <2>6, <2>7, <2>8, <2>10, <2>11, FloorKept
<1>8. CASE Retry(r)
  <2>1. PICK failed, directive : Retries(r, failed, directive)
    BY <1>8, RetryDoes
  <2>2. run[r].at = "retry" /\ Pos(Current(r)) = run[r].index /\ UNCHANGED results
    BY <1>8, RetryDoes, AtTheBlock DEF Active
  <2>3. /\ run'[r].at = "loop" /\ run'[r].index = run[r].index + 1
        /\ run'[r].executed = run[r].executed /\ run'[r].skipped = run[r].skipped
        /\ run'[r].earlyExit = run[r].earlyExit
    BY <2>1 DEF Retries, Becomes
  <2>4. \A b \in Blocks : Pos(b) < run[r].index + 1 => Pos(b) < run[r].index \/ b = Current(r)
    BY <2>2, OneMore DEF Active
  <2>5. \A b \in Blocks : Reached(r, b)' => Reached(r, b)
    BY <1>0, <2>2, <2>3, <2>4 DEF Reached
  <2>6. \A b \in Blocks : Reached(r, b) => Reached(r, b)'
    BY <1>0, <2>2, <2>3 DEF Reached
  <2>7. run[r].skipped \cap F = {} \/ run[r].earlyExit
    BY DEF FloorServed
  <2> QED
    BY <1>0, <2>2, <2>3, <2>5, <2>6, <2>7, FloorKept
<1>9. CASE Finish(r)
  <2>1. /\ (run[r].at = "loop" /\ run[r].index > Len(Order)) \/ run[r].at = "save"
        /\ run'[r].at = "done" /\ run'[r].index = run[r].index
        /\ run'[r].executed = run[r].executed /\ run'[r].skipped = run[r].skipped
        /\ run'[r].earlyExit = run[r].earlyExit /\ run'[r].aborted = run[r].aborted
        /\ UNCHANGED <<results, executions>>
    BY <1>9, FinishDoes DEF Becomes
  <2>2. \A b \in Blocks : Reached(r, b)' <=> Reached(r, b)
    BY <2>1 DEF Reached
  <2>3. run[r].skipped \cap F = {} \/ run[r].earlyExit
    BY DEF FloorServed
  <2>4. run'[r].aborted \/ run'[r].index > Len(Order)
    BY <2>1 DEF FloorServed
  <2> QED
    BY <1>0, <2>1, <2>2, <2>3, <2>4, FloorKept
<1> QED
  BY <1>1, <1>2, <1>3, <1>4, <1>5, <1>6, <1>7, <1>8, <1>9, <1>10 DEF Step

(***************************************************************************)
(* For every order and profile, with parallel groups or without: when the  *)
(* floor has a closure that nothing bypasses, every turn that ends without *)
(* an exit or an abort has called the whole floor, but for what a failure  *)
(* took away with its group.  Where the guard is used the turns must not   *)
(* overlap.  echo_orchestrator.py:185-186.                                 *)
(***************************************************************************)
THEOREM TheFloorIsCalled ==
    ASSUME GuardOn => OneTurnAtATime, NEW F, ClosesFloor(F)
    PROVE  Spec => []FloorRuns
<1> DEFINE FloorInv == \A r \in Runs : FloorServed(F, r)
<1>0. F \subseteq Blocks
  BY PipelineAssumption DEF ClosesFloor
<1>1. Init => TurnTypes /\ Quiet /\ FloorInv
  <2> SUFFICES ASSUME Init PROVE FloorInv
    BY InitTypes, InitInv DEF Quiet
  <2>1. \A b \in Blocks : Pos(b) \in Nat /\ Pos(b) >= 1
    BY OrderOfPos, PipelineAssumption DEF Indices
  <2>3. ASSUME NEW r \in Runs PROVE FloorServed(F, r)
    <3>1. /\ run[r].at = "ready" /\ run[r].index = 1 /\ run[r].executed = {}
          /\ run[r].skipped = {} /\ \A b \in Blocks : results[r][b] = "none"
      BY DEF Init
    <3>2. \A b \in Blocks : ~Reached(r, b)
      BY <2>1, <3>1 DEF Reached
    <3> QED
      BY <1>0, <3>1, <3>2 DEF FloorServed
  <2> QED
    BY <2>3
<1>2. ASSUME TurnTypes, Quiet, FloorInv, [Next]_vars PROVE FloorInv'
  <2>1. ASSUME NEW r \in Runs, Step(r), NEW q \in Runs PROVE FloorServed(F, q)'
    <3>1. CASE q = r
      BY <1>2, <2>1, <3>1, FloorStep
    <3>2. CASE q # r
      <4>1. /\ run'[q] = run[q] /\ results'[q] = results[q]
            /\ executions'[q] = executions[q]
        BY <1>2, <2>1, <3>2, OthersUntouched
      <4>2. faults > 0 => faults' > 0
        BY <1>2, <2>1, CallsGrow
      <4>3. Current(q)' = Current(q) /\ \A b \in Blocks : Reached(q, b)' <=> Reached(q, b)
        BY <4>1 DEF Current, Reached
      <4>4. \A b \in Blocks : Lost(q, b) => Lost(q, b)'
        BY <4>1, <4>2 DEF Lost
      <4>5. FloorServed(F, q)
        BY <1>2
      <4> QED
        BY <1>0, <4>1, <4>3, <4>4, <4>5 DEF FloorServed
    <3> QED
      BY <3>1, <3>2
  <2>2. CASE UNCHANGED vars
    BY <1>2, <2>2 DEF vars, FloorServed, Reached, Current, Lost
  <2> QED
    BY <1>2, <2>1, <2>2 DEF Next
<1>3. TurnTypes /\ FloorInv => FloorRuns
  <2> SUFFICES ASSUME TurnTypes, FloorInv, NEW r \in Runs, run[r].at = "done",
                      ~run[r].earlyExit, ~run[r].aborted,
                      NEW b \in Floor \cap Registered
               PROVE  executions[r][b] > 0 \/ Lost(r, b)
    BY DEF FloorRuns
  <2>1. b \in F /\ FloorServed(F, r) /\ b \in Blocks
    BY PipelineAssumption DEF ClosesFloor
  <2>2. run[r].index \in Nat /\ run[r].index > Len(Order)
    BY <2>1, TypesOf, PipelineAssumption DEF FloorServed, Locals
  <2>3. Pos(b) < run[r].index
    BY <2>1, <2>2, OrderOfPos, PipelineAssumption DEF Indices
  <2> QED
    BY <2>1, <2>3 DEF FloorServed, Reached
<1>4. TurnTypes /\ Quiet /\ FloorInv /\ [Next]_vars => TurnTypes' /\ Quiet' /\ FloorInv'
  BY <1>2, TypesKept, QuietKept
<1> QED
  BY <1>1, <1>3, <1>4, PTL DEF Spec

-----------------------------------------------------------------------------
(* No block is called twice *)

(* One step of what groups have executed, f being what they have before.   *)
Grouped(f, n) == IF n = 0 THEN {} ELSE f[n - 1] \cup NextGroup(f[n - 1])

LEMMA GroupedIsDefined ==
    ASSUME NEW n \in Nat
    PROVE  \E f : f = [k \in 0 .. n |-> Grouped(f, k)]
<1> DEFINE Good(m, f) == f = [k \in 0 .. m |-> Grouped(f, k)]
           S == {m \in Nat : ~ \E f : Good(m, f)}
<1> SUFFICES ASSUME S # {} PROVE FALSE
  OBVIOUS
<1>1. PICK m \in S : \A k \in S : m <= k
  BY LeastNumber
<1>2. CASE m = 0
  <2> DEFINE f == [k \in 0 .. 0 |-> {}]
  <2>1. Good(0, f)
    BY DEF Grouped
  <2> QED
    BY <1>2, <2>1
<1>3. CASE m # 0
  <2>1. m - 1 \in Nat /\ m - 1 \notin S /\ m \in Nat
    BY <1>1, <1>3
  <2>2. PICK g : Good(m - 1, g)
    BY <2>1
  <2> DEFINE h == [k \in 0 .. m |-> Grouped(g, k)]
  <2>3. \A k \in 0 .. m - 1 : h[k] = g[k] /\ k \in 0 .. m
    <3> HIDE DEF Grouped
    <3> QED
      BY <2>1, <2>2
  <2>4. ASSUME NEW k \in 0 .. m PROVE Grouped(h, k) = Grouped(g, k)
    <3>1. CASE k = 0
      BY <3>1 DEF Grouped
    <3>2. CASE k # 0
      <4>1. k - 1 \in 0 .. m - 1
        BY <2>1, <3>2
      <4>2. h[k - 1] = g[k - 1]
        BY <2>3, <4>1
      <4> HIDE DEF h
      <4> QED
        BY <4>2 DEF Grouped
    <3> QED
      BY <3>1, <3>2
  <2>5. Good(m, h)
    BY <2>4
  <2> QED
    BY <2>5
<1> QED
  BY <1>2, <1>3

LEMMA GroupedAfterIs ==
    /\ GroupedAfter[0] = {}
    /\ \A n \in Indices :
          GroupedAfter[n] = GroupedAfter[n - 1] \cup NextGroup(GroupedAfter[n - 1])
<1>1. Len(Order) \in Nat
  BY PipelineAssumption
<1>2. GroupedAfter = [k \in 0 .. Len(Order) |-> Grouped(GroupedAfter, k)]
  <2> DEFINE g == CHOOSE f : f = [k \in 0 .. Len(Order) |-> Grouped(f, k)]
  <2>1. g = [k \in 0 .. Len(Order) |-> Grouped(g, k)]
    BY <1>1, GroupedIsDefined
  <2>2. GroupedAfter = g
    BY DEF GroupedAfter, Grouped
  <2> HIDE DEF g
  <2> QED
    BY <2>1, <2>2
<1>3. \A k \in 0 .. Len(Order) : GroupedAfter[k] = Grouped(GroupedAfter, k)
  BY <1>2
<1>4. 0 \in 0 .. Len(Order) /\ \A n \in Indices : n \in 0 .. Len(Order) /\ n # 0
  BY <1>1 DEF Indices
<1> QED
  BY <1>3, <1>4 DEF Grouped

(* A group takes no block again that ran in one. *)
LEMMA GroupsAreNew == ASSUME NEW s PROVE NextGroup(s) \cap s = {}
<1>1. IntentGroup(s) \cap s = {}
  BY DEF IntentGroup
<1>2. StaticGroup(s) \cap s = {}
  BY DEF StaticGroup
<1> QED
  BY <1>1, <1>2 DEF NextGroup

(* In which iteration what ran in groups had run.                          *)
GroupsFit(r) ==
    /\ run[r].at = "ready" => run[r].index = 1
    /\ run[r].at \in {"ready", "loop", "group"} =>
          run[r].executed = GroupedAfter[run[r].index - 1]
    /\ run[r].at = "group" => run[r].group = NextGroup(run[r].executed)
    /\ run[r].at \in {"select", "block", "retry"} =>
          run[r].executed = GroupedAfter[run[r].index]
    /\ run[r].at = "retry" => Current(r) = RevisionGate

(* The calls a block may have had: one by the loop or in a group, once its *)
(* place or its group has come, and one in the retry, once the place of    *)
(* the revision gate is behind.                                            *)
Had(r, b) == IF b \in run[r].executed \/ Reached(r, b) THEN 1 ELSE 0

PastTheGate(r) == \E i \in 1 .. run[r].index - 1 : Order[i] = RevisionGate

Again(r, b) == IF b \in RetryCalls /\ PastTheGate(r) THEN 1 ELSE 0

CallsFit(r) ==
    /\ GroupsFit(r)
    /\ \A b \in Blocks : executions[r][b] <= Had(r, b) + Again(r, b)

(* Calls that were few enough stay so when no block is called and nothing  *)
(* is taken back.                                                          *)
LEMMA CallsStayFew ==
    ASSUME NEW r \in Runs, TurnTypes, TurnTypes',
           \A b \in Blocks : executions[r][b] <= Had(r, b) + Again(r, b),
           executions'[r] = executions[r],
           run[r].executed \subseteq run'[r].executed,
           \/ run[r].index < run'[r].index
           \/ /\ run'[r].index = run[r].index
              /\ run[r].at \in {"block", "retry"} => run'[r].at \in {"block", "retry"}
    PROVE  \A b \in Blocks : (executions[r][b] <= Had(r, b) + Again(r, b))'
<1> SUFFICES ASSUME NEW b \in Blocks
             PROVE  executions'[r][b] <= Had(r, b)' + Again(r, b)'
  OBVIOUS
<1>1. run[r].index \in Nat /\ run'[r].index \in Nat /\ Pos(b) \in Nat
      /\ executions[r][b] \in Nat
  <2>1. run[r] \in Locals /\ run'[r] \in Locals /\ executions[r][b] \in Nat
    BY DEF TurnTypes, TypeOK
  <2>2. Len(Order) \in Nat /\ Pos(b) \in Indices
    BY OrderOfPos, PipelineAssumption
  <2>3. run[r].index \in 1 .. Len(Order) + 1 /\ run'[r].index \in 1 .. Len(Order) + 1
    BY <2>1 DEF Locals
  <2> QED
    BY <2>1, <2>2, <2>3 DEF Indices
<1>2. Reached(r, b) => Reached(r, b)'
  BY <1>1 DEF Reached
<1>3. Had(r, b) <= Had(r, b)' /\ Had(r, b) \in {0, 1} /\ Had(r, b)' \in {0, 1}
  BY <1>2 DEF Had
<1>4. Again(r, b) \in {0, 1} /\ Again(r, b)' \in {0, 1}
  BY DEF Again
<1>5. Again(r, b) <= Again(r, b)'
  <2>1. PastTheGate(r) => PastTheGate(r)'
    BY <1>1 DEF PastTheGate
  <2> QED
    BY <2>1 DEF Again
<1> HIDE DEF Had, Again
<1> QED
  BY <1>1, <1>3, <1>4, <1>5

LEMMA InitCalls == ASSUME Init, NEW r \in Runs PROVE CallsFit(r)
<1>1. /\ run[r].at = "ready" /\ run[r].index = 1 /\ run[r].executed = {}
      /\ \A b \in Blocks : executions[r][b] = 0
  BY DEF Init
<1>2. \A b \in Blocks : Had(r, b) \in {0, 1} /\ Again(r, b) \in {0, 1}
  BY DEF Had, Again
<1> HIDE DEF Had, Again
<1> QED
  BY <1>1, <1>2, GroupedAfterIs DEF CallsFit, GroupsFit

(* Lost or not, a group is executed and each of its blocks called once at  *)
(* the most.                                                               *)
LEMMA GroupCalls ==
    ASSUME TurnTypes, NEW r \in Runs, RunGroup(r) \/ LoseGroup(r)
    PROVE  /\ run[r].at = "group" /\ run[r].group \subseteq Blocks
           /\ run[r].index \in Indices
           /\ run'[r].at = "select" /\ run'[r].index = run[r].index
           /\ run'[r].executed = run[r].executed \cup run[r].group
           /\ \A b \in Blocks :
                 \/ executions'[r][b] = executions[r][b]
                 \/ b \in run[r].group /\ executions'[r][b] = executions[r][b] + 1
<1>0. executions \in [Runs -> [Blocks -> Nat]]
  BY TypesOf
<1>1. CASE RunGroup(r)
  <2>1. PICK failed, declined, exits : GroupRuns(r, failed, declined, exits)
    BY <1>1, RunGroupDoes
  <2>2. \A b \in Blocks :
           executions'[r][b] = IF b \in run[r].group \cap Registered
                               THEN executions[r][b] + 1 ELSE executions[r][b]
    BY <1>0, <2>1 DEF GroupRuns
  <2> QED
    BY <1>1, <2>1, <2>2, RunGroupDoes, AtTheBlock DEF GroupRuns, Becomes, Active
<1>2. CASE LoseGroup(r)
  <2>1. PICK called : GroupIsLost(r, called)
    BY <1>2, LoseGroupDoes
  <2>2. \A b \in Blocks :
           executions'[r][b] = IF b \in called
                               THEN executions[r][b] + 1 ELSE executions[r][b]
    BY <1>0, <2>1 DEF GroupIsLost
  <2> QED
    BY <1>2, <2>1, <2>2, LoseGroupDoes, AtTheBlock DEF GroupIsLost, Becomes, Active
<1> QED
  BY <1>1, <1>2

LEMMA CallsStep ==
    ASSUME GroupsStayAhead, TurnTypes, NEW r \in Runs, CallsFit(r), Step(r)
    PROVE  CallsFit(r)'
<1> DEFINE Few == \A b \in Blocks : executions[r][b] <= Had(r, b) + Again(r, b)
<1>0. /\ executions \in [Runs -> [Blocks -> Nat]] /\ TurnTypes' /\ Few
      /\ run[r].index \in Nat /\ Len(Order) \in Nat
      /\ \A b \in Blocks : Pos(b) \in Nat /\ executions[r][b] \in Nat
  <2>1. /\ executions \in [Runs -> [Blocks -> Nat]] /\ run[r] \in Locals
        /\ Len(Order) \in Nat
    BY TypesOf, PipelineAssumption
  <2>2. TurnTypes'
    BY TypesKept DEF Next
  <2> QED
    BY <2>1, <2>2, OrderOfPos DEF Locals, Indices, CallsFit
<1> HIDE DEF Few
<1>1. CASE Start(r)
  <2>1. /\ run[r].at = "ready" /\ executions'[r] = executions[r]
        /\ run'[r].at = "loop" /\ run'[r].index = run[r].index
        /\ run'[r].executed = run[r].executed
    BY <1>1, StartDoes DEF Becomes
  <2>2. Few'
    BY <1>0, <2>1, CallsStayFew DEF Few
  <2> QED
    BY <2>1, <2>2 DEF CallsFit, GroupsFit, Few
<1>2. CASE Iterate(r)
  <2>1. PICK aborts \in BOOLEAN : Decides(r, aborts)
    BY <1>2, IterateDoes
  <2>2. run[r].at = "loop" /\ run[r].index \in Indices /\ executions'[r] = executions[r]
    BY <1>2, IterateDoes
  <2>3. /\ run'[r].executed = run[r].executed /\ run'[r].index = run[r].index
        /\ run'[r].at \in {"save", "group", "select"}
        /\ run'[r].at = "group" => run'[r].group = NextGroup(run[r].executed)
        /\ run'[r].at = "select" => NextGroup(run[r].executed) = {}
    BY <2>1 DEF Decides, Becomes
  <2>4. Few'
    BY <1>0, <2>2, <2>3, CallsStayFew DEF Few
  <2>5. run[r].executed = GroupedAfter[run[r].index - 1]
    BY <2>2 DEF CallsFit, GroupsFit
  <2>6. run'[r].at = "select" => run'[r].executed = GroupedAfter[run'[r].index]
    BY <2>2, <2>3, <2>5, GroupedAfterIs
  <2> QED
    BY <2>3, <2>4, <2>5, <2>6 DEF CallsFit, GroupsFit, Few
<1>3. CASE RunGroup(r) \/ LoseGroup(r)
  <2>2. /\ run[r].at = "group" /\ run[r].group \subseteq Blocks
        /\ run[r].index \in Indices
    BY <1>3, GroupCalls
  <2>3. /\ run'[r].at = "select" /\ run'[r].index = run[r].index
        /\ run'[r].executed = run[r].executed \cup run[r].group
    BY <1>3, GroupCalls
  <2>4. /\ run[r].executed = GroupedAfter[run[r].index - 1]
        /\ run[r].group = NextGroup(run[r].executed)
    BY <2>2 DEF CallsFit, GroupsFit
  <2>5. run'[r].executed = GroupedAfter[run'[r].index]
    BY <2>2, <2>3, <2>4, GroupedAfterIs
  <2>6. \A b \in Blocks :
           \/ executions'[r][b] = executions[r][b]
           \/ b \in run[r].group /\ executions'[r][b] = executions[r][b] + 1
    BY <1>3, GroupCalls
  <2>7. ASSUME NEW b \in Blocks
        PROVE  executions'[r][b] <= Had(r, b)' + Again(r, b)'
    <3>1. executions[r][b] <= Had(r, b) + Again(r, b)
      BY <1>0 DEF Few
    <3>2. Again(r, b)' = Again(r, b) /\ Again(r, b) \in {0, 1}
      BY <2>3 DEF Again, PastTheGate
    <3>3. CASE b \in run[r].group
      <4>1. b \notin run[r].executed
        BY <2>4, <3>3, GroupsAreNew
      <4>2. ~(Pos(b) < run[r].index)
        <5>1. Pos(b) \in Indices /\ Order[Pos(b)] = b
          BY OrderOfPos
        <5>2. ASSUME Pos(b) < run[r].index PROVE FALSE
          <6>1. Pos(b) \in 1 .. run[r].index - 1
            BY <1>0, <5>1, <5>2 DEF Indices
          <6>2. b \notin NextGroup(GroupedAfter[run[r].index - 1])
            BY <2>2, <5>1, <6>1 DEF GroupsStayAhead, Indices
          <6> QED
            BY <2>4, <3>3, <6>2
        <5> QED
          BY <5>2
      <4>3. Had(r, b) = 0 /\ Had(r, b)' = 1
        BY <2>2, <2>3, <3>3, <4>1, <4>2 DEF Had, Reached
      <4>6. /\ executions[r][b] \in Nat
            /\ \/ executions'[r][b] = executions[r][b]
               \/ executions'[r][b] = executions[r][b] + 1
        BY <1>0, <2>6
      <4>4. executions'[r][b] <= executions[r][b] + 1
        BY <4>6
      <4>5. executions'[r][b] \in Nat
        BY <4>6
      <4> HIDE DEF Had, Again
      <4> QED
        BY <1>0, <3>1, <3>2, <4>3, <4>4, <4>5
    <3>4. CASE b \notin run[r].group
      <4>1. Had(r, b)' = Had(r, b)
        BY <2>2, <2>3, <3>4 DEF Had, Reached
      <4>2. executions'[r][b] = executions[r][b]
        BY <2>6, <3>4
      <4> QED
        BY <3>1, <3>2, <4>1, <4>2
    <3> QED
      BY <3>3, <3>4
  <2> QED
    BY <2>3, <2>5, <2>7 DEF CallsFit, GroupsFit
<1>4. CASE PassOver(r)
  <2>1. /\ run[r].at = "select" /\ executions'[r] = executions[r]
        /\ run'[r].at = "loop" /\ run'[r].index = run[r].index + 1
        /\ run'[r].executed = run[r].executed
    BY <1>4, PassOverDoes DEF Becomes
  <2>2. Few'
    BY <1>0, <2>1, CallsStayFew DEF Few
  <2> QED
    BY <1>0, <2>1, <2>2 DEF CallsFit, GroupsFit, Few
<1>5. CASE CallBlock(r)
  <2> DEFINE c == Current(r)
  <2>1. /\ run[r].at = "select" /\ Pos(c) = run[r].index /\ c \in Blocks
        /\ c \notin run[r].executed
        /\ executions' = [executions EXCEPT ![r][c] = executions[r][c] + 1]
    BY <1>5, CallBlockDoes, AtTheBlock DEF Active
  <2>2. /\ run'[r].at = "block" /\ run'[r].index = run[r].index
        /\ run'[r].executed = run[r].executed
    BY <1>5, CallBlockDoes DEF Becomes
  <2> HIDE DEF c
  <2>3. ASSUME NEW b \in Blocks
        PROVE  executions'[r][b] <= Had(r, b)' + Again(r, b)'
    <3>1. executions[r][b] <= Had(r, b) + Again(r, b)
      BY <1>0 DEF Few
    <3>2. Again(r, b)' = Again(r, b) /\ Again(r, b) \in {0, 1}
      BY <2>2 DEF Again, PastTheGate
    <3>3. CASE b = c
      <4>1. Had(r, b) = 0 /\ Had(r, b)' = 1
        BY <1>0, <2>1, <2>2, <3>3 DEF Had, Reached
      <4>2. executions'[r][b] = executions[r][b] + 1
        BY <1>0, <2>1, <3>3
      <4> HIDE DEF Had, Again
      <4> QED
        BY <1>0, <3>1, <3>2, <4>1, <4>2
    <3>4. CASE b # c
      <4>1. executions'[r][b] = executions[r][b]
        BY <1>0, <2>1, <3>4
      <4>2. Had(r, b) <= Had(r, b)' /\ Had(r, b) \in {0, 1} /\ Had(r, b)' \in {0, 1}
        BY <2>1, <2>2 DEF Had, Reached
      <4> HIDE DEF Had, Again
      <4> QED
        BY <1>0, <3>1, <3>2, <4>1, <4>2
    <3> QED
      BY <3>3, <3>4
  <2>4. run'[r].executed = GroupedAfter[run'[r].index]
    BY <2>1, <2>2 DEF CallsFit, GroupsFit
  <2> QED
    BY <2>2, <2>3, <2>4 DEF CallsFit, GroupsFit
<1>6. CASE BlockReturns(r)
  <2>1. PICK ok, exits, short, directive, copied :
          Replies(r, Current(r), ok, exits, short, directive, copied)
    BY <1>6, BlockReturnsDoes
  <2>2. run[r].at = "block" /\ executions'[r] = executions[r]
    BY <1>6, BlockReturnsDoes
  <2>3. /\ run'[r].executed = run[r].executed
        /\ \/ /\ run'[r].at = "retry" /\ run'[r].index = run[r].index
              /\ Current(r) = RevisionGate
           \/ run'[r].at = "loop" /\ run'[r].index = run[r].index + 1
    BY <2>1 DEF Replies, Becomes, RetryDue
  <2>4. Few'
    BY <1>0, <2>2, <2>3, CallsStayFew DEF Few
  <2>5. run[r].executed = GroupedAfter[run[r].index]
    BY <2>2 DEF CallsFit, GroupsFit
  <2>6. CASE run'[r].at = "retry"
    <3>1. Current(r)' = RevisionGate /\ run'[r].index = run[r].index
      BY <2>3, <2>6 DEF Current
    <3> QED
      BY <2>3, <2>4, <2>5, <2>6, <3>1 DEF CallsFit, GroupsFit, Few
  <2>7. CASE run'[r].at = "loop"
    <3>0. run'[r].index = run[r].index + 1 /\ run[r].index \in Nat
      BY <1>0, <2>3, <2>7
    <3>1. run'[r].index - 1 = run[r].index
      BY <3>0
    <3> QED
      BY <2>3, <2>4, <2>5, <2>7, <3>1 DEF CallsFit, GroupsFit, Few
  <2> QED
    BY <2>3, <2>6, <2>7
<1>7. CASE BlockFails(r)
  <2>1. PICK wrote : Fails(r, Current(r), wrote)
    BY <1>7, BlockFailsDoes
  <2>2. /\ run[r].at = "block" /\ executions'[r] = executions[r]
        /\ run'[r].at = "loop" /\ run'[r].index = run[r].index + 1
        /\ run'[r].executed = run[r].executed
    BY <1>7, <2>1, BlockFailsDoes DEF Fails, Becomes
  <2>3. run[r].index < run'[r].index /\ run[r].executed \subseteq run'[r].executed
    BY <1>0, <2>2
  <2>4. Few'
    BY <1>0, <2>2, <2>3, CallsStayFew DEF Few
  <2> QED
    BY <1>0, <2>2, <2>4 DEF CallsFit, GroupsFit, Few
<1>8. CASE Retry(r)
  <2>1. PICK failed, directive : Retries(r, failed, directive)
    BY <1>8, RetryDoes
  <2>2. /\ run[r].at = "retry" /\ Current(r) = RevisionGate
        /\ run[r].index \in Indices /\ Order[run[r].index] = Current(r)
    BY <1>8, RetryDoes, AtTheBlock DEF Active, CallsFit, GroupsFit
  <2>3. /\ run'[r].at = "loop" /\ run'[r].index = run[r].index + 1
        /\ run'[r].executed = run[r].executed
    BY <2>1 DEF Retries, Becomes
  <2>4. executions'[r] = [b \in Blocks |->
          IF b \in RetryCalls THEN executions[r][b] + 1 ELSE executions[r][b]]
    BY <1>0, <2>1 DEF Retries
  <2>5. ~PastTheGate(r)
    BY <2>2, PosOfOrder DEF PastTheGate, Indices
  <2>6. PastTheGate(r)'
    <3>1. run[r].index \in 1 .. run'[r].index - 1
      BY <2>2, <2>3 DEF Indices
    <3> QED
      BY <2>2, <3>1 DEF PastTheGate
  <2>7. ASSUME NEW b \in Blocks
        PROVE  executions'[r][b] <= Had(r, b)' + Again(r, b)'
    <3>1. executions[r][b] <= Had(r, b) + Again(r, b)
      BY <1>0 DEF Few
    <3>2. Had(r, b) <= Had(r, b)' /\ Had(r, b) \in {0, 1} /\ Had(r, b)' \in {0, 1}
      <4>1. Reached(r, b) => Reached(r, b)'
        BY <1>0, <2>2, <2>3 DEF Reached
      <4> QED
        BY <2>3, <4>1 DEF Had
    <3>3. Again(r, b) = 0 /\ Again(r, b)' = IF b \in RetryCalls THEN 1 ELSE 0
      BY <2>5, <2>6 DEF Again
    <3>4. executions'[r][b] = executions[r][b] + Again(r, b)'
      BY <1>0, <2>4, <3>3
    <3>5. Again(r, b)' \in {0, 1}
      BY <3>3
    <3> HIDE DEF Had, Again
    <3> QED
      BY <1>0, <3>1, <3>2, <3>3, <3>4, <3>5
  <2> QED
    BY <1>0, <2>2, <2>3, <2>7 DEF CallsFit, GroupsFit
<1>9. CASE Finish(r)
  <2>1. /\ run[r].at \in {"loop", "save"} /\ executions'[r] = executions[r]
        /\ run'[r].at = "done" /\ run'[r].index = run[r].index
        /\ run'[r].executed = run[r].executed
    BY <1>9, FinishDoes DEF Becomes
  <2>2. Few'
    BY <1>0, <2>1, CallsStayFew DEF Few
  <2> QED
    BY <2>1, <2>2 DEF CallsFit, GroupsFit, Few
<1> QED
  BY <1>1, <1>2, <1>3, <1>4, <1>5, <1>6, <1>7, <1>8, <1>9 DEF Step

(***************************************************************************)
(* In sequential and in parallel mode, with any number of overlapping      *)
(* turns and of failures: as long as no group takes in a block whose place *)
(* is behind, no turn calls a block twice but in the one retry.            *)
(* echo_orchestrator.py:224-230 and 643-670.                               *)
(***************************************************************************)
THEOREM NothingIsCalledTwice ==
    ASSUME GroupsStayAhead
    PROVE  Spec => []NoDoubleExecution
<1> DEFINE CallsInv == \A r \in Runs : CallsFit(r)
<1>1. ASSUME TurnTypes, CallsInv, [Next]_vars PROVE CallsInv'
  <2>1. ASSUME NEW r \in Runs, Step(r), NEW q \in Runs PROVE CallsFit(q)'
    <3>1. CASE q = r
      BY <1>1, <2>1, <3>1, CallsStep
    <3>2. CASE q # r
      <4>1. run'[q] = run[q] /\ executions'[q] = executions[q]
        BY <1>1, <2>1, <3>2, OthersUntouched
      <4> QED
        BY <1>1, <4>1 DEF CallsFit, GroupsFit, Had, Again, Reached, PastTheGate, Current
    <3> QED
      BY <3>1, <3>2
  <2>2. CASE UNCHANGED vars
    BY <1>1, <2>2 DEF vars, CallsFit, GroupsFit, Had, Again, Reached, PastTheGate, Current
  <2> QED
    BY <1>1, <2>1, <2>2 DEF Next
<1>2. TurnTypes /\ CallsInv => NoDoubleExecution
  <2> SUFFICES ASSUME TurnTypes, CallsInv, NEW r \in Runs, NEW b \in Blocks
               PROVE  executions[r][b] <=
                        IF b \in RetryBlocks THEN 1 + RegenMaxAttempts ELSE 1
    BY DEF NoDoubleExecution
  <2>1. executions[r][b] <= Had(r, b) + Again(r, b) /\ executions[r][b] \in Nat
    BY TypesOf DEF CallsFit, GroupsFit
  <2>2. /\ Had(r, b) \in {0, 1} /\ Again(r, b) \in {0, 1}
        /\ b \notin RetryBlocks => Again(r, b) = 0
    BY DEF Had, Again, RetryCalls
  <2> HIDE DEF Had, Again
  <2> QED
    BY <2>1, <2>2 DEF RegenMaxAttempts
<1>3. TurnTypes /\ CallsInv /\ [Next]_vars => TurnTypes' /\ CallsInv'
  BY <1>1, TypesKept
<1>4. Init => TurnTypes /\ CallsInv
  BY InitTypes, InitCalls
<1> QED
  BY <1>2, <1>3, <1>4, PTL DEF Spec

(* With parallel groups off, there is none that could.                     *)
LEMMA SequentialStaysAhead == ASSUME ~Parallel PROVE GroupsStayAhead
  BY NoGroup DEF GroupsStayAhead

-----------------------------------------------------------------------------
(* Dependencies have their turn first *)

(* What groups have executed only grows.                                   *)
LEMMA GroupedGrows ==
    ASSUME NEW n \in 0 .. Len(Order), NEW m \in n .. Len(Order)
    PROVE  GroupedAfter[n] \subseteq GroupedAfter[m]
<1> DEFINE S == {k \in Nat : n + k <= Len(Order) /\ ~(GroupedAfter[n] \subseteq GroupedAfter[n + k])}
<1>0. n \in Nat /\ Len(Order) \in Nat
  BY PipelineAssumption
<1>1. S = {}
  <2> SUFFICES ASSUME S # {} PROVE FALSE
    OBVIOUS
  <2>1. S \in SUBSET Nat
    OBVIOUS
  <2>2. PICK k \in S : \A l \in S : k <= l
    BY <2>1, LeastNumber
  <2>3. k # 0
    BY <1>0, <2>2
  <2>4. k - 1 \in Nat /\ k - 1 \notin S /\ n + (k - 1) = (n + k) - 1
    <3>1. k \in Nat
      OBVIOUS
    <3>2. k - 1 \in Nat /\ ~(k <= k - 1) /\ n + (k - 1) = (n + k) - 1
      BY <1>0, <2>3, <3>1
    <3> HIDE DEF S
    <3> QED
      BY <2>2, <3>2
  <2>5. GroupedAfter[n] \subseteq GroupedAfter[(n + k) - 1]
    BY <1>0, <2>2, <2>4
  <2>6. n + k \in Indices
    BY <1>0, <2>2, <2>3 DEF Indices
  <2>7. GroupedAfter[(n + k) - 1] \subseteq GroupedAfter[n + k]
    BY <2>6, GroupedAfterIs
  <2> QED
    BY <2>2, <2>5, <2>7
<1>2. m - n \in Nat /\ n + (m - n) = m /\ m <= Len(Order)
  BY <1>0
<1>3. m - n \notin S
  BY <1>1
<1> QED
  BY <1>2, <1>3

LEMMA InitGroups == ASSUME Init, NEW r \in Runs PROVE GroupsFit(r)
<1>1. run[r].at = "ready" /\ run[r].index = 1 /\ run[r].executed = {}
  BY DEF Init
<1> QED
  BY <1>1, GroupedAfterIs DEF GroupsFit

LEMMA GroupsStep ==
    ASSUME TurnTypes, NEW r \in Runs, GroupsFit(r), Step(r)
    PROVE  GroupsFit(r)'
<1>0. run[r].index \in Nat
  <2>1. run[r] \in Locals /\ Len(Order) \in Nat
    BY TypesOf, PipelineAssumption
  <2> QED
    BY <2>1 DEF Locals
<1>1. CASE Start(r)
  BY <1>1, StartDoes DEF Becomes, GroupsFit
<1>2. CASE Iterate(r)
  <2>1. PICK aborts \in BOOLEAN : Decides(r, aborts)
    BY <1>2, IterateDoes
  <2>2. run[r].at = "loop" /\ run[r].index \in Indices
    BY <1>2, IterateDoes
  <2>3. /\ run'[r].executed = run[r].executed /\ run'[r].index = run[r].index
        /\ run'[r].at \in {"save", "group", "select"}
        /\ run'[r].at = "group" => run'[r].group = NextGroup(run[r].executed)
        /\ run'[r].at = "select" => NextGroup(run[r].executed) = {}
    BY <2>1 DEF Decides, Becomes
  <2>4. run[r].executed = GroupedAfter[run[r].index - 1]
    BY <2>2 DEF GroupsFit
  <2>5. run'[r].at = "select" => run'[r].executed = GroupedAfter[run'[r].index]
    BY <2>2, <2>3, <2>4, GroupedAfterIs
  <2> QED
    BY <2>3, <2>4, <2>5 DEF GroupsFit
<1>3. CASE RunGroup(r) \/ LoseGroup(r)
  <2>2. run[r].at = "group" /\ run[r].index \in Indices
    BY <1>3, GroupCalls
  <2>3. /\ run'[r].at = "select" /\ run'[r].index = run[r].index
        /\ run'[r].executed = run[r].executed \cup run[r].group
    BY <1>3, GroupCalls
  <2>4. run'[r].executed = GroupedAfter[run'[r].index]
    BY <2>2, <2>3, GroupedAfterIs DEF GroupsFit
  <2> QED
    BY <2>3, <2>4 DEF GroupsFit
<1>4. CASE PassOver(r)
  <2>1. /\ run[r].at = "select" /\ run'[r].at = "loop"
        /\ run'[r].index = run[r].index + 1 /\ run'[r].executed = run[r].executed
    BY <1>4, PassOverDoes DEF Becomes
  <2> QED
    BY <1>0, <2>1 DEF GroupsFit
<1>5. CASE CallBlock(r)
  <2>1. /\ run[r].at = "select" /\ run'[r].at = "block"
        /\ run'[r].index = run[r].index /\ run'[r].executed = run[r].executed
    BY <1>5, CallBlockDoes DEF Becomes
  <2> QED
    BY <2>1 DEF GroupsFit
<1>6. CASE BlockReturns(r)
  <2>1. PICK ok, exits, short, directive, copied :
          Replies(r, Current(r), ok, exits, short, directive, copied)
    BY <1>6, BlockReturnsDoes
  <2>2. run[r].at = "block"
    BY <1>6, BlockReturnsDoes
  <2>3. /\ run'[r].executed = run[r].executed
        /\ \/ /\ run'[r].at = "retry" /\ run'[r].index = run[r].index
              /\ Current(r) = RevisionGate
           \/ run'[r].at = "loop" /\ run'[r].index = run[r].index + 1
    BY <2>1 DEF Replies, Becomes, RetryDue
  <2>4. run'[r].at = "retry" => Current(r)' = RevisionGate
    BY <2>3 DEF Current
  <2> QED
    BY <1>0, <2>2, <2>3, <2>4 DEF GroupsFit
<1>7. CASE BlockFails(r)
  <2>1. PICK wrote : Fails(r, Current(r), wrote)
    BY <1>7, BlockFailsDoes
  <2>2. /\ run[r].at = "block" /\ run'[r].at = "loop"
        /\ run'[r].index = run[r].index + 1 /\ run'[r].executed = run[r].executed
    BY <1>7, <2>1, BlockFailsDoes DEF Fails, Becomes
  <2> QED
    BY <1>0, <2>2 DEF GroupsFit
<1>8. CASE Retry(r)
  <2>1. PICK failed, directive : Retries(r, failed, directive)
    BY <1>8, RetryDoes
  <2>2. /\ run[r].at = "retry" /\ run'[r].at = "loop"
        /\ run'[r].index = run[r].index + 1 /\ run'[r].executed = run[r].executed
    BY <1>8, <2>1, RetryDoes DEF Retries, Becomes
  <2> QED
    BY <1>0, <2>2 DEF GroupsFit
<1>9. CASE Finish(r)
  BY <1>9, FinishDoes DEF Becomes, GroupsFit
<1> QED
  BY <1>1, <1>2, <1>3, <1>4, <1>5, <1>6, <1>7, <1>8, <1>9 DEF Step

(* A block whose group has run or whose place is behind has its result,    *)
(* unless it was lost.                                                     *)
TurnHad(r, b) ==
    \/ b \in run[r].executed
    \/ Pos(b) < run[r].index
    \/ Pos(b) = run[r].index /\ run[r].at = "retry"

Known(r, b) == results[r][b] # "none" \/ Lost(r, b)

Answered(r) == \A b \in Registered : TurnHad(r, b) => Known(r, b)

(* What is known of a block stays known while its result does.             *)
LEMMA KnownStays ==
    ASSUME TurnTypes, NEW r \in Runs, Step(r), NEW q \in Runs, NEW b \in Blocks,
           Known(q, b), results'[q][b] = results[q][b]
    PROVE  Known(q, b)'
<1>1. faults > 0 => faults' > 0
  BY CallsGrow
<1>2. run[q].executed \subseteq run'[q].executed
  BY CallsGrow, OthersUntouched
<1> QED
  BY <1>1, <1>2 DEF Known, Lost

LEMMA InitAnswered == ASSUME Init, NEW r \in Runs PROVE Answered(r)
<1>1. /\ run[r].at = "ready" /\ run[r].index = 1 /\ run[r].executed = {}
      /\ \A b \in Registered : ~(Pos(b) < 1)
  BY OrderOfPos, PipelineAssumption DEF Init, Indices
<1> QED
  BY <1>1 DEF Answered, TurnHad

LEMMA AnsweredStep ==
    ASSUME TurnTypes, NEW r \in Runs, Answered(r), Step(r)
    PROVE  Answered(r)'
<1>0. /\ results \in [Runs -> [Blocks -> Statuses]] /\ run[r].index \in Nat
      /\ \A b \in Registered : b \in Blocks /\ Pos(b) \in Nat
  <2>1. /\ results \in [Runs -> [Blocks -> Statuses]] /\ run[r] \in Locals
        /\ Len(Order) \in Nat /\ Registered \subseteq Blocks
    BY TypesOf, PipelineAssumption
  <2> QED
    BY <2>1, OrderOfPos DEF Locals, Indices
<1> SUFFICES ASSUME NEW b \in Registered, TurnHad(r, b)' PROVE Known(r, b)'
  BY DEF Answered
<1>11. results'[r][b] = results[r][b] /\ TurnHad(r, b) => Known(r, b)'
  BY <1>0, KnownStays DEF Answered
<1>12. results'[r][b] # "none" => Known(r, b)'
  BY DEF Known
<1>1. CASE Start(r)
  BY <1>1, <1>11, StartDoes DEF Becomes, TurnHad
<1>2. CASE Iterate(r)
  <2>1. PICK aborts \in BOOLEAN : Decides(r, aborts)
    BY <1>2, IterateDoes
  <2>2. /\ run'[r].executed = run[r].executed /\ run'[r].index = run[r].index
        /\ run'[r].at # "retry" /\ results' = results
    BY <1>2, <2>1, IterateDoes DEF Decides, Becomes
  <2> QED
    BY <1>11, <2>2 DEF TurnHad
<1>3. CASE RunGroup(r)
  <2>1. PICK failed, declined, exits : GroupRuns(r, failed, declined, exits)
    BY <1>3, RunGroupDoes
  <2>2. /\ run'[r].at = "select" /\ run'[r].index = run[r].index
        /\ run'[r].executed = run[r].executed \cup run[r].group
    BY <2>1 DEF GroupRuns, Becomes
  <2>3. /\ b \in run[r].group => results'[r][b] # "none"
        /\ b \notin run[r].group => results'[r][b] = results[r][b]
    BY <1>0, <2>1 DEF GroupRuns
  <2> QED
    BY <1>11, <1>12, <2>2, <2>3 DEF TurnHad
<1>10. CASE LoseGroup(r)
  <2>1. PICK called : GroupIsLost(r, called)
    BY <1>10, LoseGroupDoes
  <2>2. /\ run'[r].at = "select" /\ run'[r].index = run[r].index
        /\ run'[r].executed = run[r].executed \cup run[r].group
        /\ faults' = faults + 1 /\ results' = results
    BY <1>10, <2>1, LoseGroupDoes DEF GroupIsLost, Becomes
  <2>3. faults' > 0
    BY <2>2, TypesOf
  <2>4. CASE b \in run[r].group
    BY <2>2, <2>3, <2>4 DEF Known, Lost
  <2>5. CASE b \notin run[r].group
    BY <1>11, <2>2, <2>5 DEF TurnHad
  <2> QED
    BY <2>4, <2>5
<1>4. CASE PassOver(r)
  <2>1. PICK skipped \in SUBSET Blocks, status \in Statuses :
          /\ PassesOver(r, Current(r), skipped, status)
          /\ Becomes(r, "loop", run[r].index + 1, run[r].executed, skipped,
                     run[r].earlyExit, run[r].group, run[r].aborted)
          /\ results' = [results EXCEPT ![r][Current(r)] = status]
    BY <1>4, PassOverDoes
  <2>2. run[r].at = "select"
    BY <1>4, PassOverDoes
  <2>3. TurnHad(r, b) \/ b = Current(r)
    BY <1>0, <2>1, <2>2, OneMore DEF TurnHad, Becomes, Active
  <2>4. CASE b = Current(r)
    <3>1. results'[r][b] = status
      BY <1>0, <2>1, <2>4
    <3>2. CASE b \in run[r].executed
      <4>1. status = results[r][b]
        BY <2>1, <2>4, <3>2 DEF PassesOver
      <4> QED
        BY <1>11, <3>1, <3>2, <4>1 DEF TurnHad
    <3>3. CASE b \notin run[r].executed
      <4>1. status # "none"
        BY <2>1, <2>4, <3>3 DEF PassesOver
      <4> QED
        BY <1>12, <3>1, <4>1
    <3> QED
      BY <3>2, <3>3
  <2>5. CASE b # Current(r)
    BY <1>0, <1>11, <2>1, <2>3, <2>5
  <2> QED
    BY <2>4, <2>5
<1>5. CASE CallBlock(r)
  <2>1. /\ run'[r].executed = run[r].executed /\ run'[r].index = run[r].index
        /\ run'[r].at = "block" /\ results' = results
    BY <1>5, CallBlockDoes DEF Becomes
  <2> QED
    BY <1>11, <2>1 DEF TurnHad
<1>6. CASE BlockReturns(r)
  <2>1. PICK ok, exits, short, directive, copied :
          Replies(r, Current(r), ok, exits, short, directive, copied)
    BY <1>6, BlockReturnsDoes
  <2>2. run[r].at = "block"
    BY <1>6, BlockReturnsDoes
  <2>3. /\ run'[r].executed = run[r].executed
        /\ \/ run'[r].at = "retry" /\ run'[r].index = run[r].index
           \/ run'[r].at = "loop" /\ run'[r].index = run[r].index + 1
    BY <2>1 DEF Replies, Becomes
  <2>4. results' = [results EXCEPT ![r][Current(r)] = IF ok THEN "ok" ELSE "skipped"]
    BY <2>1 DEF Replies
  <2>5. CASE b = Current(r)
    BY <1>0, <1>12, <2>4, <2>5
  <2>6. CASE b # Current(r)
    <3>1. Pos(b) # run[r].index
      BY <1>0, <2>2, <2>6, AtTheBlock, OrderOfPos DEF Active
    <3>2. Pos(b) < run[r].index + 1 => Pos(b) < run[r].index
      BY <1>0, <3>1
    <3>3. b \in run'[r].executed \/ Pos(b) < run'[r].index \/ Pos(b) = run'[r].index
      BY DEF TurnHad
    <3>4. ASSUME run'[r].index = run[r].index PROVE TurnHad(r, b)
      <4>1. run'[r].executed = run[r].executed
        BY <2>3
      <4> QED
        BY <3>1, <3>3, <3>4, <4>1 DEF TurnHad
    <3>5. ASSUME run'[r].index = run[r].index + 1 PROVE TurnHad(r, b)
      <4>1. ~(run'[r].at = "retry") /\ run'[r].executed = run[r].executed
        BY <1>0, <2>3, <3>5
      <4> QED
        BY <3>2, <3>5, <4>1 DEF TurnHad
    <3>6. TurnHad(r, b)
      BY <2>3, <3>4, <3>5
    <3> QED
      BY <1>0, <1>11, <2>4, <2>6, <3>6
  <2> QED
    BY <2>5, <2>6
<1>7. CASE BlockFails(r)
  <2>1. PICK wrote : Fails(r, Current(r), wrote)
    BY <1>7, BlockFailsDoes
  <2>2. /\ run[r].at = "block"
        /\ run'[r].at = "loop" /\ run'[r].index = run[r].index + 1
        /\ run'[r].executed = run[r].executed
        /\ results' = [results EXCEPT ![r][Current(r)] = "error"]
    BY <1>7, <2>1, BlockFailsDoes DEF Fails, Becomes
  <2>3. CASE b = Current(r)
    BY <1>0, <1>12, <2>2, <2>3
  <2>4. CASE b # Current(r)
    <3>1. TurnHad(r, b)
      BY <1>0, <2>2, <2>4, OneMore DEF TurnHad, Active
    <3> QED
      BY <1>0, <1>11, <2>2, <2>4, <3>1
  <2> QED
    BY <2>3, <2>4
<1>8. CASE Retry(r)
  <2>1. PICK failed, directive : Retries(r, failed, directive)
    BY <1>8, RetryDoes
  <2>2. /\ run[r].at = "retry" /\ results' = results
        /\ run'[r].at = "loop" /\ run'[r].index = run[r].index + 1
        /\ run'[r].executed = run[r].executed
    BY <1>8, <2>1, RetryDoes DEF Retries, Becomes
  <2>3. Pos(b) < run[r].index + 1 => Pos(b) < run[r].index \/ Pos(b) = run[r].index
    BY <1>0
  <2> QED
    BY <1>11, <2>2, <2>3 DEF TurnHad
<1>9. CASE Finish(r)
  BY <1>9, <1>11, FinishDoes DEF Becomes, TurnHad
<1> QED
  BY <1>1, <1>2, <1>3, <1>4, <1>5, <1>6, <1>7, <1>8, <1>9, <1>10 DEF Step

(* The first call of a follower finds the results of what it needs.        *)
LEMMA FirstCallIsServed ==
    ASSUME RetryEndsAtTheGate, TurnTypes, NEW r \in Runs, GroupsFit(r),
           Answered(r), Step(r), NEW b \in Followers, executions[r][b] = 0,
           executions'[r][b] > 0, NEW d \in Needs(b)
    PROVE  Known(r, d)
<1>0. /\ executions \in [Runs -> [Blocks -> Nat]] /\ d \in Registered /\ d \in Blocks
      /\ Len(Order) \in Nat /\ executions[r][b] \in Nat /\ b \in Blocks
  BY TypesOf, PipelineAssumption DEF Needs, Followers
<1>6. ASSUME NEW n \in Indices
      PROVE  /\ b \in NextGroup(GroupedAfter[n - 1]) =>
                   d \in GroupedAfter[n - 1] \cup {Order[i] : i \in 1 .. n - 1}
             /\ b = Order[n] => d \in GroupedAfter[n] \cup {Order[i] : i \in 1 .. n - 1}
  BY <1>6 DEF Followers, Indices
<1>1. ASSUME NEW n \in Indices, n <= run[r].index, d \in {Order[i] : i \in 1 .. n - 1}
      PROVE  TurnHad(r, d)
  <2>1. PICK i \in 1 .. n - 1 : d = Order[i]
    BY <1>1
  <2>2. run[r].index \in Nat
    BY <1>0, TypesOf DEF Locals
  <2>3. i \in Indices /\ i < run[r].index
    BY <1>0, <1>1, <2>2 DEF Indices
  <2> QED
    BY <2>1, <2>3, PosOfOrder DEF TurnHad
<1>2. CASE CallBlock(r)
  <2>1. /\ run[r].at = "select" /\ run[r].index \in Indices
        /\ Current(r) = Order[run[r].index]
        /\ executions' = [executions EXCEPT ![r][Current(r)] =
                            executions[r][Current(r)] + 1]
    BY <1>2, CallBlockDoes, AtTheBlock DEF Active
  <2>2. b = Current(r)
    BY <1>0, <2>1
  <2>3. run[r].executed = GroupedAfter[run[r].index]
    BY <2>1 DEF GroupsFit
  <2>4. d \in run[r].executed \cup {Order[i] : i \in 1 .. run[r].index - 1}
    BY <1>6, <2>1, <2>2, <2>3
  <2>5. TurnHad(r, d)
    BY <1>1, <2>1, <2>4 DEF TurnHad, Indices
  <2> QED
    BY <1>0, <2>5 DEF Answered
<1>3. CASE RunGroup(r) \/ LoseGroup(r)
  <2>2. run[r].at = "group" /\ run[r].index \in Indices
    BY <1>3, GroupCalls
  <2>3. b \in run[r].group
    <3>1. executions'[r][b] # executions[r][b]
      BY <1>0
    <3> QED
      BY <1>0, <1>3, <3>1, GroupCalls
  <2>4. /\ run[r].executed = GroupedAfter[run[r].index - 1]
        /\ b \in NextGroup(run[r].executed)
    BY <2>2, <2>3 DEF GroupsFit
  <2>5. d \in run[r].executed \cup {Order[i] : i \in 1 .. run[r].index - 1}
    BY <1>6, <2>2, <2>4
  <2>6. TurnHad(r, d)
    BY <1>1, <2>2, <2>5 DEF TurnHad, Indices
  <2> QED
    BY <1>0, <2>6 DEF Answered
<1>4. CASE Retry(r)
  <2>1. PICK failed, directive : Retries(r, failed, directive)
    BY <1>4, RetryDoes
  <2>2. /\ run[r].at = "retry" /\ run[r].index \in Indices
        /\ Current(r) = RevisionGate /\ RevisionGate \in Blocks
        /\ Pos(RevisionGate) = run[r].index
    BY <1>4, RetryDoes, AtTheBlock DEF Active, GroupsFit
  <2>3. b \in RetryCalls
    BY <1>0, <2>1 DEF Retries
  <2>4. /\ Pos(b) \in Indices /\ Pos(b) <= run[r].index /\ Order[Pos(b)] = b
        /\ run[r].executed = GroupedAfter[run[r].index]
    BY <1>0, <2>2, <2>3, OrderOfPos DEF RetryEndsAtTheGate, GroupsFit
  <2>5. GroupedAfter[Pos(b)] \subseteq run[r].executed
    <3>1. Pos(b) \in 0 .. Len(Order) /\ run[r].index \in Pos(b) .. Len(Order)
      BY <1>0, <2>2, <2>4 DEF Indices
    <3> QED
      BY <2>4, <3>1, GroupedGrows
  <2>6. d \in GroupedAfter[Pos(b)] \cup {Order[i] : i \in 1 .. Pos(b) - 1}
    BY <1>6, <2>4
  <2>7. TurnHad(r, d)
    BY <1>1, <2>4, <2>5, <2>6 DEF TurnHad
  <2> QED
    BY <1>0, <2>7 DEF Answered
<1>5. CASE executions' = executions
  BY <1>0, <1>5
<1> QED
  BY <1>2, <1>3, <1>4, <1>5, CallsOf

(***************************************************************************)
(* In both modes, for any groups, with any number of overlapping turns and *)
(* of failures: when a block that groups and order put behind what it      *)
(* needs is first called, be it by the loop, in a group or by the retry,   *)
(* which calls blocks that the loop passed over, each registered           *)
(* dependency has a result or was lost with its group.                     *)
(* dynamic_grouping.py:183, echo_orchestrator.py:610-661,                  *)
(* parallel_executor.py:396-407.                                           *)
(***************************************************************************)
THEOREM DependenciesComeFirst ==
    ASSUME RetryEndsAtTheGate
    PROVE  Spec => DependenciesFirst
<1> DEFINE Inv == \A r \in Runs : GroupsFit(r) /\ Answered(r)
           Supplied == \A r \in Runs, b \in Followers :
                       executions[r][b] = 0 /\ executions'[r][b] > 0 =>
                         \A d \in Needs(b) : results[r][d] # "none" \/ Lost(r, d)
<1>1. ASSUME TurnTypes, Inv, [Next]_vars PROVE Inv'
  <2>1. ASSUME NEW r \in Runs, Step(r), NEW q \in Runs PROVE (GroupsFit(q) /\ Answered(q))'
    <3>1. CASE q = r
      BY <1>1, <2>1, <3>1, GroupsStep, AnsweredStep
    <3>2. CASE q # r
      <4>1. run'[q] = run[q] /\ results'[q] = results[q]
        BY <1>1, <2>1, <3>2, OthersUntouched
      <4>2. GroupsFit(q)'
        BY <1>1, <4>1 DEF GroupsFit, Current
      <4>3. \A b \in Registered : b \in Blocks /\ (TurnHad(q, b)' => TurnHad(q, b))
        BY <4>1, PipelineAssumption DEF TurnHad
      <4>4. \A b \in Registered : TurnHad(q, b)' => Known(q, b)'
        BY <1>1, <2>1, <4>1, <4>3, KnownStays DEF Answered
      <4> QED
        BY <4>2, <4>4 DEF Answered
    <3> QED
      BY <3>1, <3>2
  <2>2. CASE UNCHANGED vars
    BY <1>1, <2>2 DEF vars, GroupsFit, Current, Answered, TurnHad, Known, Lost
  <2> QED
    BY <1>1, <2>1, <2>2 DEF Next
<1>2. ASSUME TurnTypes, Inv, [Next]_vars PROVE [Supplied]_vars
  <2>1. ASSUME NEW r \in Runs, Step(r), NEW q \in Runs, NEW b \in Followers,
               executions[q][b] = 0, executions'[q][b] > 0, NEW d \in Needs(b)
        PROVE  results[q][d] # "none" \/ Lost(q, d)
    <3>1. CASE q = r
      BY <1>2, <2>1, <3>1, FirstCallIsServed DEF Known
    <3>2. CASE q # r
      <4>1. executions'[q] = executions[q]
        BY <1>2, <2>1, <3>2, OthersUntouched
      <4>2. executions[q][b] \in Nat
        BY <1>2, TypesOf DEF Followers
      <4> QED
        BY <2>1, <4>1, <4>2
    <3> QED
      BY <3>1, <3>2
  <2> QED
    BY <1>2, <2>1 DEF Next
<1>3. TurnTypes /\ Inv /\ [Next]_vars => TurnTypes' /\ Inv' /\ [Supplied]_vars
  BY <1>1, <1>2, TypesKept
<1>4. Init => TurnTypes /\ Inv
  BY InitTypes, InitGroups, InitAnswered
<1> QED
  BY <1>3, <1>4, PTL DEF Spec, DependenciesFirst

-----------------------------------------------------------------------------
(* The sequential loop implements the contract of a turn *)

(* What the contract needs to know of a run: nothing ran in groups, nobody *)
(* aborted it, only blocks it reached were called, and what it answers for *)
(* a skipped block stands against the blocks that depend on it.            *)
KeepsOrder(r) ==
    /\ run[r].at \notin {"group", "save"}
    /\ run[r].executed = {}
    /\ run[r].at = "retry" => Current(r) = RevisionGate
    /\ \A b \in Blocks : executions[r][b] > 0 => Reached(r, b)
    /\ \A b \in Blocks : results[r][b] = "skipped" => b \in run[r].skipped \cup Decliners

LEMMA InitOrder == ASSUME Init, NEW r \in Runs PROVE KeepsOrder(r)
<1>1. /\ run[r].at = "ready" /\ run[r].executed = {}
      /\ \A b \in Blocks : executions[r][b] = 0 /\ results[r][b] = "none"
  BY DEF Init
<1> QED
  BY <1>1 DEF KeepsOrder

(* Without groups and a guard that stops it, the head of the loop only     *)
(* lets the block at the index have its turn.                              *)
LEMMA IterateSelects ==
    ASSUME ~Parallel, GuardOn => OneTurnAtATime, TurnTypes, Quiet, NEW r \in Runs, Iterate(r)
    PROVE  /\ run[r].at = "loop"
           /\ Becomes(r, "select", run[r].index, run[r].executed, run[r].skipped,
                      run[r].earlyExit, {}, FALSE)
           /\ UNCHANGED <<context, results, executions, rollback, store, clock, faults>>
<1>1. PICK aborts \in BOOLEAN : Decides(r, aborts)
  BY IterateDoes
<1>2. CASE GuardOn
  <2>1. Step(r) /\ [Next]_vars
    BY DEF Step, Next
  <2>2. TurnInv'
    BY <1>2, <2>1, QuietKept DEF Quiet
  <2>3. run'[r].at # "save"
    BY <2>2 DEF TurnInv, RunInv, Placed
  <2>4. ~aborts
    BY <1>1, <2>3 DEF Decides, Becomes
  <2> QED
    BY <1>1, <2>4, IterateDoes, NoGroup DEF Decides
<1>3. CASE ~GuardOn
  <2>1. run \in [Runs -> Locals]
    BY TypesOf
  <2>2. run'[r].at # "save"
    BY <1>3, <2>1 DEF Iterate, Locals
  <2>3. ~aborts
    BY <1>1, <2>2 DEF Decides, Becomes
  <2> QED
    BY <1>1, <2>3, IterateDoes, NoGroup DEF Decides
<1> QED
  BY <1>2, <1>3

(* A block whose turn the loop passes over.                                *)
LEMMA PassOverSkips ==
    ASSUME GuardOn => OneTurnAtATime, TurnTypes, Quiet, NEW r \in Runs, KeepsOrder(r),
           PassOver(r)
    PROVE  /\ run[r].at = "select"
           /\ Becomes(r, "loop", run[r].index + 1, run[r].executed,
                      run[r].skipped \cup {Current(r)}, run[r].earlyExit,
                      run[r].group, run[r].aborted)
           /\ Current(r) \in AlwaysOn \cap Registered => Current(r) \in SelfSkips
           /\ results' = IF Current(r) \in Registered
                         THEN [results EXCEPT ![r][Current(r)] = "skipped"] ELSE results
           /\ executions' = executions
<1>1. run[r].at = "select" /\ executions' = executions
  BY PassOverDoes
<1>2. PICK skipped \in SUBSET Blocks, status \in Statuses :
        /\ PassesOver(r, Current(r), skipped, status)
        /\ Becomes(r, "loop", run[r].index + 1, run[r].executed, skipped,
                   run[r].earlyExit, run[r].group, run[r].aborted)
        /\ results' = [results EXCEPT ![r][Current(r)] = status]
  BY PassOverDoes
<1> DEFINE b == Current(r)
<1>3. /\ b \notin run[r].executed /\ b \in Blocks
      /\ results \in [Runs -> [Blocks -> Statuses]]
  BY <1>1, AtTheBlock, TypesOf DEF KeepsOrder, Active
<1>4. GuardOn => CheckBlockExecutionLimit(guard, b).ok
  BY <1>1, NeverOverTheLimit
<1> HIDE DEF b
<1>5. CASE b \notin Registered
  <2>1. skipped = run[r].skipped \cup {b} /\ status = results[r][b]
    BY <1>2, <1>3, <1>5 DEF PassesOver, b
  <2>2. results' = results
    BY <1>2, <1>3, <2>1 DEF b
  <2> QED
    BY <1>1, <1>2, <1>5, <2>1, <2>2 DEF b
<1>6. CASE b \in Registered
  <2>1. /\ \E self \in {FALSE, (b \in SelfSkips)} : SkipsBlock(r, b, self)
        /\ skipped = run[r].skipped \cup {b} /\ status = "skipped"
    BY <1>2, <1>3, <1>4, <1>6 DEF PassesOver, b
  <2>2. b \in AlwaysOn => b \in SelfSkips
    BY <2>1 DEF SkipsBlock
  <2> QED
    BY <1>1, <1>2, <1>6, <2>1, <2>2 DEF b
<1> QED
  BY <1>5, <1>6

LEMMA OrderStep ==
    ASSUME ~Parallel, GuardOn => OneTurnAtATime, RetryEndsAtTheGate, TurnTypes, Sequential,
           Quiet, NEW r \in Runs, KeepsOrder(r), Step(r)
    PROVE  KeepsOrder(r)'
<1>0. /\ executions \in [Runs -> [Blocks -> Nat]] /\ results \in [Runs -> [Blocks -> Statuses]]
      /\ run[r].index \in Nat /\ \A b \in Blocks : Pos(b) \in Nat
  <2>1. /\ executions \in [Runs -> [Blocks -> Nat]]
        /\ results \in [Runs -> [Blocks -> Statuses]] /\ run[r] \in Locals
        /\ Len(Order) \in Nat
    BY TypesOf, PipelineAssumption
  <2> QED
    BY <2>1, OrderOfPos DEF Locals, Indices
<1>1. CASE Start(r)
  BY <1>1, StartDoes DEF Becomes, KeepsOrder, Reached
<1>2. CASE Iterate(r)
  BY <1>2, IterateSelects DEF Becomes, KeepsOrder, Reached
<1>3. CASE RunGroup(r) \/ LoseGroup(r)
  BY <1>3, NoGroupRuns
<1>4. CASE PassOver(r)
  <2>1. /\ run[r].at = "select" /\ executions' = executions
        /\ run'[r].at = "loop" /\ run'[r].index = run[r].index + 1
        /\ run'[r].executed = {} /\ run'[r].skipped = run[r].skipped \cup {Current(r)}
        /\ results' = IF Current(r) \in Registered
                      THEN [results EXCEPT ![r][Current(r)] = "skipped"] ELSE results
    BY <1>4, PassOverSkips DEF Becomes, KeepsOrder
  <2>2. \A b \in Blocks : results'[r][b] = "skipped"
                            => results[r][b] = "skipped" \/ b = Current(r)
    BY <1>0, <2>1
  <2>3. \A b \in Blocks : Reached(r, b) => Reached(r, b)'
    BY <1>0, <2>1 DEF Reached
  <2> QED
    BY <2>1, <2>2, <2>3 DEF KeepsOrder
<1>5. CASE CallBlock(r)
  <2>1. /\ run[r].at = "select" /\ Pos(Current(r)) = run[r].index /\ Current(r) \in Blocks
        /\ executions' = [executions EXCEPT ![r][Current(r)] =
                            executions[r][Current(r)] + 1]
        /\ UNCHANGED results
        /\ Becomes(r, "block", run[r].index, run[r].executed, run[r].skipped,
                   run[r].earlyExit, run[r].group, run[r].aborted)
    BY <1>5, CallBlockDoes, AtTheBlock DEF Active
  <2>2. \A b \in Blocks : executions'[r][b] > 0 => executions[r][b] > 0 \/ b = Current(r)
    BY <1>0, <2>1
  <2>3. \A b \in Blocks : Reached(r, b) => Reached(r, b)'
    BY <1>0, <2>1 DEF Reached, Becomes
  <2>4. \A b \in Blocks : executions'[r][b] > 0 => Reached(r, b)'
    <3>1. ASSUME NEW b \in Blocks, b = Current(r) PROVE Reached(r, b)'
      BY <1>0, <2>1, <3>1 DEF Reached, Becomes
    <3> QED
      BY <2>2, <2>3, <3>1 DEF KeepsOrder
  <2> QED
    BY <2>1, <2>4 DEF KeepsOrder, Becomes
<1>6. CASE BlockReturns(r)
  <2>1. PICK ok, exits, short, directive, copied :
          Replies(r, Current(r), ok, exits, short, directive, copied)
    BY <1>6, BlockReturnsDoes
  <2>2. /\ run[r].at = "block" /\ UNCHANGED executions /\ Current(r) \in Blocks
    BY <1>6, BlockReturnsDoes, AtTheBlock DEF Active
  <2>3. /\ run'[r].executed = run[r].executed
        /\ run[r].skipped \subseteq run'[r].skipped
        /\ \/ /\ run'[r].at = "retry" /\ run'[r].index = run[r].index
              /\ Current(r) = RevisionGate
           \/ run'[r].at = "loop" /\ run'[r].index = run[r].index + 1
    BY <2>1 DEF Replies, Becomes, SkippedAfter, RetryDue
  <2>4. \A b \in Blocks : results'[r][b] = "skipped"
                            => results[r][b] = "skipped" \/ b \in Decliners
    BY <1>0, <2>1, <2>2 DEF Replies, MayAnswer
  <2>5. \A b \in Blocks : Reached(r, b) => Reached(r, b)'
    BY <1>0, <2>2, <2>3 DEF Reached
  <2>6. run'[r].at = "retry" => Current(r)' = RevisionGate
    BY <2>3 DEF Current
  <2>7. run'[r].at \notin {"group", "save"}
    BY <2>3
  <2> QED
    BY <2>2, <2>3, <2>4, <2>5, <2>6, <2>7 DEF KeepsOrder
<1>7. CASE BlockFails(r)
  <2>1. PICK wrote : Fails(r, Current(r), wrote)
    BY <1>7, BlockFailsDoes
  <2>2. /\ run[r].at = "block" /\ UNCHANGED executions /\ Current(r) \in Blocks
    BY <1>7, BlockFailsDoes, AtTheBlock DEF Active
  <2>3. /\ run'[r].at = "loop" /\ run'[r].index = run[r].index + 1
        /\ run'[r].executed = run[r].executed /\ run'[r].skipped = run[r].skipped
    BY <2>1 DEF Fails, Becomes
  <2>4. \A b \in Blocks : results'[r][b] = "skipped" => results[r][b] = "skipped"
    BY <1>0, <2>1, <2>2 DEF Fails
  <2>5. \A b \in Blocks : Reached(r, b) => Reached(r, b)'
    BY <1>0, <2>2, <2>3 DEF Reached
  <2> QED
    BY <2>2, <2>3, <2>4, <2>5 DEF KeepsOrder
<1>8. CASE Retry(r)
  <2>1. PICK failed, directive : Retries(r, failed, directive)
    BY <1>8, RetryDoes
  <2>2. /\ run[r].at = "retry" /\ UNCHANGED results /\ Current(r) = RevisionGate
        /\ Current(r) \in Blocks /\ Pos(Current(r)) = run[r].index
    BY <1>8, RetryDoes, AtTheBlock DEF Active, KeepsOrder
  <2>3. /\ run'[r].at = "loop" /\ run'[r].index = run[r].index + 1
        /\ run'[r].executed = run[r].executed /\ run'[r].skipped = run[r].skipped
    BY <2>1 DEF Retries, Becomes
  <2>4. \A b \in Blocks : executions'[r][b] > 0
                            => executions[r][b] > 0 \/ b \in RetryCalls
    BY <1>0, <2>1 DEF Retries
  <2>5. \A b \in Blocks : Reached(r, b) => Reached(r, b)'
    BY <1>0, <2>2, <2>3 DEF Reached
  <2>6. \A b \in Blocks : b \in RetryCalls => Reached(r, b)'
    BY <1>0, <2>2, <2>3 DEF Reached, RetryEndsAtTheGate
  <2> QED
    BY <2>2, <2>3, <2>4, <2>5, <2>6 DEF KeepsOrder
<1>9. CASE Finish(r)
  <2>1. /\ run[r].at = "loop" /\ run'[r].at = "done" /\ run'[r].index = run[r].index
        /\ run'[r].executed = run[r].executed /\ run'[r].skipped = run[r].skipped
        /\ UNCHANGED <<results, executions>>
    BY <1>9, FinishDoes DEF Becomes, KeepsOrder
  <2> QED
    BY <2>1 DEF KeepsOrder, Reached
<1> QED
  BY <1>1, <1>2, <1>3, <1>4, <1>5, <1>6, <1>7, <1>8, <1>9 DEF Step

(* What the contract sees of the runs.                                     *)
Phases == [q \in Runs |-> PhaseOf(run[q].at)]
Places == [q \in Runs |-> run[q].index]
Exits == [q \in Runs |-> run[q].earlyExit]

LEMMA PhasesAre ==
    /\ PhaseOf("ready") = "ready" /\ PhaseOf("loop") = "open"
    /\ PhaseOf("select") = "open" /\ PhaseOf("block") = "called"
    /\ PhaseOf("retry") = "again" /\ PhaseOf("done") = "closed"
  BY DEF PhaseOf

LEMMA SeenOfAStep ==
    ASSUME TurnTypes, NEW r \in Runs, NEW at, NEW index, NEW executed, NEW skipped,
           NEW exit, NEW group, NEW aborted,
           Becomes(r, at, index, executed, skipped, exit, group, aborted)
    PROVE  /\ Phases' = [Phases EXCEPT ![r] = PhaseOf(at)]
           /\ Places' = [Places EXCEPT ![r] = index]
           /\ Exits' = [Exits EXCEPT ![r] = exit]
           /\ Phases[r] = PhaseOf(run[r].at) /\ Places[r] = run[r].index
           /\ Exits[r] = run[r].earlyExit
<1>1. run'[r].at = at /\ run'[r].index = index /\ run'[r].earlyExit = exit
  BY DEF Becomes
<1>2. \A q \in Runs \ {r} : run'[q] = run[q]
  BY DEF Becomes
<1>3. Phases' = [Phases EXCEPT ![r] = PhaseOf(at)]
  BY <1>1, <1>2 DEF Phases
<1>4. Places' = [Places EXCEPT ![r] = index]
  BY <1>1, <1>2 DEF Places
<1>5. Exits' = [Exits EXCEPT ![r] = exit]
  BY <1>1, <1>2 DEF Exits
<1> QED
  BY <1>3, <1>4, <1>5 DEF Phases, Places, Exits

(* Every step is one that the contract allows, or one that it does not see.*)
ContractStep(r) ==
    \/ Contract!Open(r) \/ Contract!Call(r) \/ Contract!Pass(r)
    \/ Contract!Answer(r) \/ Contract!Again(r) \/ Contract!Close(r)
    \/ UNCHANGED Contract!cvars

LEMMA StartOpens ==
    ASSUME TurnTypes, NEW r \in Runs, Start(r)
    PROVE  Contract!Open(r)
<1>1. /\ run[r].at = "ready" /\ UNCHANGED <<results, executions>>
      /\ Phases' = [Phases EXCEPT ![r] = PhaseOf("loop")]
      /\ Places' = [Places EXCEPT ![r] = run[r].index]
      /\ Exits' = [Exits EXCEPT ![r] = run[r].earlyExit]
      /\ Phases[r] = PhaseOf(run[r].at)
  BY StartDoes, SeenOfAStep
<1>2. Places' = Places /\ Exits' = Exits
  BY <1>1 DEF Places, Exits
<1> QED
  BY <1>1, <1>2, PhasesAre DEF Contract!Open, Phases, Places, Exits

LEMMA IterateIsUnseen ==
    ASSUME ~Parallel, GuardOn => OneTurnAtATime, TurnTypes, Quiet, NEW r \in Runs, Iterate(r)
    PROVE  UNCHANGED Contract!cvars
<1>1. /\ run[r].at = "loop" /\ UNCHANGED <<results, executions>>
      /\ Phases' = [Phases EXCEPT ![r] = PhaseOf("select")]
      /\ Places' = [Places EXCEPT ![r] = run[r].index]
      /\ Exits' = [Exits EXCEPT ![r] = run[r].earlyExit]
  <2>1. /\ Becomes(r, "select", run[r].index, run[r].executed, run[r].skipped,
                    run[r].earlyExit, {}, FALSE)
        /\ run[r].at = "loop" /\ UNCHANGED <<results, executions>>
    BY IterateSelects
  <2>2. Becomes(r, "select", run[r].index, run[r].executed, run[r].skipped,
                run[r].earlyExit, {}, run'[r].aborted)
    BY <2>1 DEF Becomes
  <2> QED
    BY <2>1, <2>2, SeenOfAStep
<1>2. PhaseOf("select") = Phases[r]
  BY <1>1, PhasesAre DEF Phases
<1>3. Phases' = Phases
  BY <1>1, <1>2 DEF Phases
<1>4. Places' = Places /\ Exits' = Exits
  BY <1>1 DEF Places, Exits
<1> QED
  BY <1>1, <1>3, <1>4 DEF Contract!cvars, Phases, Places, Exits

LEMMA PassOverPasses ==
    ASSUME GuardOn => OneTurnAtATime, TurnTypes, Quiet, NEW r \in Runs, KeepsOrder(r),
           PassOver(r)
    PROVE  Contract!Pass(r)
<1>1. /\ run[r].at = "select" /\ executions' = executions
      /\ Current(r) \in AlwaysOn \cap Registered => Current(r) \in SelfSkips
      /\ results' = IF Current(r) \in Registered
                    THEN [results EXCEPT ![r][Current(r)] = "skipped"] ELSE results
      /\ Phases' = [Phases EXCEPT ![r] = PhaseOf("loop")]
      /\ Places' = [Places EXCEPT ![r] = run[r].index + 1]
      /\ Exits' = [Exits EXCEPT ![r] = run[r].earlyExit]
      /\ Phases[r] = PhaseOf(run[r].at) /\ Places[r] = run[r].index
  <2>1. /\ run[r].at = "select" /\ executions' = executions
        /\ Current(r) \in AlwaysOn \cap Registered => Current(r) \in SelfSkips
        /\ results' = IF Current(r) \in Registered
                      THEN [results EXCEPT ![r][Current(r)] = "skipped"] ELSE results
        /\ Becomes(r, "loop", run[r].index + 1, run[r].executed,
                   run[r].skipped \cup {Current(r)}, run[r].earlyExit,
                   run[r].group, run[r].aborted)
    BY PassOverSkips
  <2>2. /\ Phases' = [Phases EXCEPT ![r] = PhaseOf("loop")]
        /\ Places' = [Places EXCEPT ![r] = run[r].index + 1]
        /\ Exits' = [Exits EXCEPT ![r] = run[r].earlyExit]
        /\ Phases[r] = PhaseOf(run[r].at) /\ Places[r] = run[r].index
    BY <2>1, SeenOfAStep
  <2> QED
    BY <2>1, <2>2
<1>2. run[r].index <= Len(Order) /\ Current(r) = Order[Places[r]]
  BY <1>1 DEF TurnTypes, Active, Current
<1>3. Places' = [Places EXCEPT ![r] = Places[r] + 1]
  BY <1>1
<1>4. PhaseOf("loop") = Phases[r]
  BY <1>1, PhasesAre
<1>5. Phases' = Phases
  BY <1>1, <1>4 DEF Phases
<1>6. Exits' = Exits
  BY <1>1 DEF Exits
<1> QED
  BY <1>1, <1>2, <1>3, <1>5, <1>6, PhasesAre DEF Contract!Pass, Contract!Due, Phases, Places, Exits

LEMMA CallIsAllowed ==
    ASSUME TurnTypes, NEW r \in Runs, KeepsOrder(r), CallBlock(r)
    PROVE  Contract!Call(r)
<1> DEFINE b == Current(r)
<1>1. /\ run[r].at = "select" /\ results' = results
      /\ b \in Registered /\ ~SkipsBlock(r, b, FALSE)
      /\ executions' = [executions EXCEPT ![r][b] = executions[r][b] + 1]
      /\ Phases' = [Phases EXCEPT ![r] = PhaseOf("block")]
      /\ Places' = [Places EXCEPT ![r] = run[r].index]
      /\ Exits' = [Exits EXCEPT ![r] = run[r].earlyExit]
      /\ Phases[r] = PhaseOf(run[r].at) /\ Places[r] = run[r].index
      /\ Exits[r] = run[r].earlyExit
  <2>1. /\ run[r].at = "select" /\ results' = results
        /\ b \in Registered /\ ~SkipsBlock(r, b, FALSE)
        /\ executions' = [executions EXCEPT ![r][b] = executions[r][b] + 1]
        /\ Becomes(r, "block", run[r].index, run[r].executed, run[r].skipped,
                   run[r].earlyExit, run[r].group, run[r].aborted)
    BY CallBlockDoes
  <2>2. /\ Phases' = [Phases EXCEPT ![r] = PhaseOf("block")]
        /\ Places' = [Places EXCEPT ![r] = run[r].index]
        /\ Exits' = [Exits EXCEPT ![r] = run[r].earlyExit]
        /\ Phases[r] = PhaseOf(run[r].at) /\ Places[r] = run[r].index
        /\ Exits[r] = run[r].earlyExit
    BY <2>1, SeenOfAStep
  <2> QED
    BY <2>1, <2>2
<1>2. /\ run[r].index <= Len(Order) /\ b = Order[Places[r]] /\ b \in Blocks
      /\ Pos(b) = run[r].index /\ run[r].index \in Nat
      /\ executions[r][b] \in Nat /\ DOMAIN results[r] = Blocks
  <2>1. run[r].at \in Active \ {"loop"}
    BY <1>1 DEF Active
  <2>2. /\ b = Order[run[r].index] /\ b \in Blocks /\ Pos(b) = run[r].index
        /\ run[r].index \in Indices
    BY <2>1, AtTheBlock
  <2>3. executions[r][b] \in Nat /\ DOMAIN results[r] = Blocks
    BY <2>2, TypesOf
  <2> QED
    BY <1>1, <2>2, <2>3, PipelineAssumption DEF Indices
<1>3. executions[r][b] = 0
  BY <1>1, <1>2 DEF KeepsOrder, Reached
<1>4. b \notin AlwaysOn =>
         /\ ~run[r].earlyExit
         /\ \A d \in (Dependencies[b] \cap Blocks) \ Decliners : results[r][d] # "skipped"
  BY <1>1 DEF SkipsBlock, KeepsOrder
<1>5. Places' = Places /\ Exits' = Exits
  BY <1>1 DEF Places, Exits
<1> HIDE DEF b
<1>6. Contract!MayCall(r, b)
  BY <1>1, <1>2, <1>3, <1>4 DEF Contract!MayCall, Exits
<1>7. executions' = [executions EXCEPT ![r][b] = 1]
  BY <1>1, <1>3
<1>8. b = Contract!Due(r)
  BY <1>2 DEF Contract!Due, Places
<1> QED
  BY <1>1, <1>2, <1>5, <1>6, <1>7, <1>8, PhasesAre
     DEF Contract!Call, Phases, Places, Exits

LEMMA ReturnAnswers ==
    ASSUME TurnTypes, NEW r \in Runs, BlockReturns(r)
    PROVE  Contract!Answer(r)
<1> DEFINE b == Current(r)
<1>1. PICK ok, exits, short, directive, copied :
        Replies(r, b, ok, exits, short, directive, copied)
  BY BlockReturnsDoes
<1>2. run[r].at = "block" /\ executions' = executions
  BY BlockReturnsDoes
<1> DEFINE again == RetryDue(b, ContextAfter(r, b, ok, directive))
           a == IF ok THEN "ok" ELSE "skipped"
<1>3. /\ ok \in BOOLEAN /\ exits \in BOOLEAN
      /\ ~ok => b \in Decliners
      /\ exits => ok /\ b \in ExitBlocks
      /\ results' = [results EXCEPT ![r][b] = a]
  BY <1>1 DEF Replies, MayAnswer
<1>4. again \in BOOLEAN /\ (again => b = RevisionGate)
  BY DEF RetryDue
<1>5. /\ Phases' = [Phases EXCEPT ![r] = IF again THEN "again" ELSE "open"]
      /\ Places' = [Places EXCEPT ![r] = IF again THEN Places[r] ELSE Places[r] + 1]
      /\ Exits' = [Exits EXCEPT ![r] = Exits[r] \/ exits]
      /\ Phases[r] = "called" /\ b = Order[Places[r]]
  <2>1. CASE again
    <3>1. Becomes(r, "retry", run[r].index, run[r].executed, SkippedAfter(r, b, short),
                  run[r].earlyExit \/ exits, run[r].group, run[r].aborted)
      BY <1>1, <2>1 DEF Replies
    <3> QED
      BY <1>2, <2>1, <3>1, SeenOfAStep, PhasesAre DEF Current
  <2>2. CASE ~again
    <3>1. Becomes(r, "loop", run[r].index + 1, run[r].executed, SkippedAfter(r, b, short),
                  run[r].earlyExit \/ exits, run[r].group, run[r].aborted)
      BY <1>1, <2>2 DEF Replies
    <3> QED
      BY <1>2, <2>2, <3>1, SeenOfAStep, PhasesAre DEF Current
  <2> QED
    BY <2>1, <2>2
<1> HIDE DEF again, b
<1>6. a \in {"ok", "skipped", "error"} /\ a # "error"
      /\ (a = "skipped" => b \in Decliners) /\ (exits => a = "ok")
  BY <1>3
<1> HIDE DEF a
<1>7. b = Contract!Due(r)
  BY <1>5 DEF Contract!Due, Places
<1> QED
  BY <1>2, <1>3, <1>4, <1>5, <1>6, <1>7 DEF Contract!Answer, Phases, Places, Exits

LEMMA FailureAnswers ==
    ASSUME TurnTypes, NEW r \in Runs, BlockFails(r)
    PROVE  Contract!Answer(r)
<1> DEFINE b == Current(r)
<1>1. PICK wrote : Fails(r, b, wrote)
  BY BlockFailsDoes
<1>2. run[r].at = "block" /\ executions' = executions
  BY BlockFailsDoes
<1>3. /\ results' = [results EXCEPT ![r][b] = "error"]
      /\ Phases' = [Phases EXCEPT ![r] = PhaseOf("loop")]
      /\ Places' = [Places EXCEPT ![r] = run[r].index + 1]
      /\ Exits' = [Exits EXCEPT ![r] = run[r].earlyExit]
      /\ Phases[r] = PhaseOf(run[r].at) /\ Places[r] = run[r].index
      /\ Exits[r] = run[r].earlyExit
  BY <1>1, SeenOfAStep DEF Fails
<1>4. /\ Phases' = [Phases EXCEPT ![r] = "open"] /\ Phases[r] = "called"
      /\ Places' = [Places EXCEPT ![r] = Places[r] + 1] /\ Exits' = [Exits EXCEPT ![r] = Exits[r] \/ FALSE]
      /\ b = Order[Places[r]]
  <2>1. run[r].earlyExit \in BOOLEAN
    BY TypesOf DEF Locals
  <2> QED
    BY <1>2, <1>3, <2>1, PhasesAre DEF Current
<1> HIDE DEF b
<1>5. b = Contract!Due(r)
  BY <1>4 DEF Contract!Due, Places
<1> QED
  BY <1>2, <1>3, <1>4, <1>5 DEF Contract!Answer, Phases, Places, Exits

LEMMA RetryIsAgain ==
    ASSUME TurnTypes, NEW r \in Runs, Retry(r)
    PROVE  Contract!Again(r)
<1>1. PICK failed, directive : Retries(r, failed, directive)
  BY RetryDoes
<1>2. run[r].at = "retry" /\ results' = results
  BY RetryDoes
<1>3. /\ Phases' = [Phases EXCEPT ![r] = PhaseOf("loop")]
      /\ Places' = [Places EXCEPT ![r] = run[r].index + 1]
      /\ Exits' = [Exits EXCEPT ![r] = run[r].earlyExit]
      /\ Phases[r] = PhaseOf(run[r].at) /\ Places[r] = run[r].index
  BY <1>1, SeenOfAStep DEF Retries
<1>4. /\ Phases' = [Phases EXCEPT ![r] = "open"] /\ Phases[r] = "again"
      /\ Places' = [Places EXCEPT ![r] = Places[r] + 1] /\ Exits' = Exits
  BY <1>2, <1>3, PhasesAre DEF Exits
<1>5. executions' = [executions EXCEPT ![r] = [b \in DOMAIN executions[r] |->
         IF b \in RetryBlocks \cap Registered THEN executions[r][b] + 1
         ELSE executions[r][b]]]
  <2>1. DOMAIN executions[r] = Blocks
    BY TypesOf
  <2> QED
    BY <1>1, <2>1 DEF Retries, RetryCalls
<1>6. executions \in [Runs -> [Blocks -> Nat]]
  BY TypesOf
<1> QED
  BY <1>2, <1>4, <1>5, <1>6 DEF Contract!Again, Phases, Places, Exits

LEMMA FinishCloses ==
    ASSUME TurnTypes, NEW r \in Runs, KeepsOrder(r), Finish(r)
    PROVE  Contract!Close(r)
<1>1. /\ run[r].at = "loop" /\ run[r].index > Len(Order)
      /\ UNCHANGED <<results, executions>>
      /\ Phases' = [Phases EXCEPT ![r] = PhaseOf("done")]
      /\ Places' = [Places EXCEPT ![r] = run[r].index]
      /\ Exits' = [Exits EXCEPT ![r] = run[r].earlyExit]
      /\ Phases[r] = PhaseOf(run[r].at) /\ Places[r] = run[r].index
  BY FinishDoes, SeenOfAStep DEF KeepsOrder
<1>2. Places' = Places /\ Exits' = Exits
  BY <1>1 DEF Places, Exits
<1> QED
  BY <1>1, <1>2, PhasesAre DEF Contract!Close, Phases, Places, Exits

(***************************************************************************)
(* With parallel groups off, for every order, graph, profile and number of *)
(* failures, the orchestrator implements the contract of a turn; where the *)
(* guard is used, on turns that do not overlap, without it also on turns   *)
(* that do.  echo_orchestrator.py:479-500 and 664-1015.                    *)
(***************************************************************************)
THEOREM TheContractIsKept ==
    ASSUME ~Parallel, GuardOn => OneTurnAtATime, RetryEndsAtTheGate
    PROVE  Spec => ImplementsTurnContract
<1> DEFINE OrderInv == \A r \in Runs : KeepsOrder(r)
           Inv == TurnTypes /\ Sequential /\ Quiet /\ OrderInv
<1>1. Init => Contract!ContractInit
  <2> SUFFICES ASSUME Init PROVE Contract!ContractInit
    OBVIOUS
  <2>1. [r \in Runs |-> PhaseOf(run[r].at)] = [r \in Runs |-> "ready"]
    BY PhasesAre DEF Init
  <2>2. /\ [r \in Runs |-> run[r].index] = [r \in Runs |-> 1]
        /\ [r \in Runs |-> run[r].earlyExit] = [r \in Runs |-> FALSE]
    BY DEF Init
  <2> QED
    BY <2>1, <2>2 DEF Init, Contract!ContractInit, Blocks
<1>2. Init => Inv
  BY InitTypes, InitSequential, InitInv, InitOrder DEF Quiet
<1>3. ASSUME Inv, [Next]_vars PROVE OrderInv'
  <2>1. ASSUME NEW r \in Runs, Step(r), NEW q \in Runs PROVE KeepsOrder(q)'
    <3>1. CASE q = r
      BY <1>3, <2>1, <3>1, OrderStep
    <3>2. CASE q # r
      <4>1. run'[q] = run[q] /\ executions'[q] = executions[q] /\ results'[q] = results[q]
        BY <1>3, <2>1, <3>2, OthersUntouched
      <4> QED
        BY <1>3, <4>1 DEF KeepsOrder, Reached, Current
    <3> QED
      BY <3>1, <3>2
  <2>2. CASE UNCHANGED vars
    BY <1>3, <2>2 DEF vars, KeepsOrder, Reached, Current
  <2> QED
    BY <1>3, <2>1, <2>2 DEF Next
<1>4. Inv /\ [Next]_vars => Inv'
  BY <1>3, TypesKept, SequentialKept, QuietKept
<1>5. Inv /\ [Next]_vars => [Contract!ContractNext]_(Contract!cvars)
  <2> SUFFICES ASSUME Inv, [Next]_vars
               PROVE  Contract!ContractNext \/ UNCHANGED Contract!cvars
    OBVIOUS
  <2>1. ASSUME NEW r \in Runs, Step(r) PROVE ContractStep(r)
    <3>1. KeepsOrder(r) /\ ~RunGroup(r) /\ ~LoseGroup(r)
      BY <2>1, NoGroupRuns
    <3> QED
      BY <2>1, <3>1, StartOpens, IterateIsUnseen, PassOverPasses, CallIsAllowed,
         ReturnAnswers, FailureAnswers, RetryIsAgain, FinishCloses
         DEF Step, ContractStep
  <2>2. CASE UNCHANGED vars
    BY <2>2 DEF vars, Contract!cvars
  <2> QED
    BY <2>1, <2>2 DEF Next, ContractStep, Contract!ContractNext
<1> QED
  BY <1>1, <1>2, <1>4, <1>5, PTL DEF Spec, ImplementsTurnContract, Contract!ContractSpec
=====
