------------------------------ MODULE Pipeline ------------------------------
(***************************************************************************)
(* EchoOrchestrator.execute_pipeline, echo_orchestrator.py, with the       *)
(* objects it shares between runs: the execution guard, the rollback       *)
(* manager, the state store and the time manager.                          *)
(*                                                                         *)
(* A run is one call of execute_pipeline.  Runs are asyncio tasks of one   *)
(* orchestrator: a task keeps the event loop until it awaits a group of    *)
(* blocks, a block or a retry, so the actions of another run are enabled   *)
(* only while every task is at an await (EventLoopFree).                   *)
(*                                                                         *)
(* A block is external code: it may succeed, decline, fail after part of   *)
(* its work, ask for an early exit, or (the named ones) do what the        *)
(* orchestrator looks for by name.  What a block leaves in the context is  *)
(* the pair <<run, block>>.                                                *)
(***************************************************************************)
EXTENDS ExecutionGuard, RollbackManager, FiniteSets

CONSTANTS
    Runs,          \* the calls of execute_pipeline
    SessionOf,     \* [Runs -> session ids]
    Order,         \* self.block_order
    Dependencies,  \* [block -> set of ids], block_dependencies.json
    Registered,    \* the keys of self.blocks
    AlwaysOn,      \* always_on_blocks
    Floor,         \* the safety/record floor of every runtime profile
    ActiveBlocks,  \* _runtime_profile_active_blocks; every block when unset
    IntentGroups,  \* the dynamic groups of the run's intent, << >> without one
    IntentSkips,   \* its skip_blocks
    ShortCircuits, \* [block -> blocks_to_skip] of the early-exit optimizer
    RetryBlocks,   \* _REGEN_RETRY_BLOCKS
    TimeBlock, InitBlock, RevisionGate, ResponseBuild,
    StateBlocks,   \* the blocks that write unified_state in place
    ExitBlocks,    \* blocks that may ask for an early exit
    SelfSkips,     \* blocks whose should_skip may give a reason
    Decliners,     \* blocks whose execute may answer "skipped"
    Parallel, GuardOn, RollbackOn,  \* enable_parallel, _execution_guard, _rollback
    CopiesFail,    \* whether a deep copy of the metadata may fail
    Concurrent,    \* whether runs overlap, or one starts after another ends
    MayTimeOut,    \* whether a run may exceed max_execution_time
    MaxFaults      \* bound: failures of blocks, groups and copies

RegenMaxAttempts == 1           \* _REGEN_MAX_ATTEMPTS

Blocks == {Order[i] : i \in 1 .. Len(Order)}
Sessions == {SessionOf[r] : r \in Runs}
Writes == Runs \X Blocks
Directives == {"none", "pass", "regenerate", "reject"}

ASSUME PipelineAssumption ==
    /\ Order \in Seq(Blocks) /\ Len(Order) > 0
    /\ \A i, j \in 1 .. Len(Order) : Order[i] = Order[j] => i = j
    /\ NoBlock \notin Blocks
    /\ DOMAIN Dependencies = Blocks
    /\ DOMAIN ShortCircuits = Blocks
    /\ \A b \in Blocks : ShortCircuits[b] \subseteq Blocks
    /\ \A g \in 1 .. Len(IntentGroups) : IntentGroups[g] \subseteq Blocks
    /\ Registered \subseteq Blocks
    /\ AlwaysOn \cup Floor \subseteq Blocks
    /\ {Parallel, GuardOn, RollbackOn, CopiesFail, Concurrent, MayTimeOut}
         \subseteq BOOLEAN
    /\ MaxFaults \in Nat

VARIABLES
    run,        \* [Runs -> the locals of execute_pipeline]
    context,    \* [Runs -> current_context]
    results,    \* [Runs -> [Blocks -> status of results[block], or "none"]]
    executions, \* [Runs -> [Blocks -> calls of block.execute]]
    guard,      \* self.execution_guard
    rollback,   \* self.rollback_manager
    store,      \* services.state_store: [Sessions -> writes of the saved state]
    clock,      \* the turn index of the shared TimeManager
    faults      \* failures so far

vars == <<run, context, results, executions, guard, rollback, store, clock, faults>>

\* The subsets of S with at most k elements.
AtMost(k, S) == {{f[i] : i \in DOMAIN f} : f \in UNION {[1 .. j -> S] : j \in 0 .. k}}

-----------------------------------------------------------------------------
(* Contexts *)

BugDefaultSession(r, state) ==
    [session |-> SessionOf[CHOOSE q \in Runs : TRUE], writes |-> {}, state |-> state,
     time |-> NoTime, directive |-> "none", attempts |-> 0]

NewContext(r, state) ==
    [session |-> SessionOf[r],  \* context.session_id
     writes   |-> {},            \* whose results the metadata holds
     state    |-> state,         \* whose changes unified_state holds
     time     |-> NoTime,        \* t_now, turn_index in the metadata
     directive |-> "none",       \* revision_directive in the metadata
     attempts |-> 0]             \* _regen_attempts in the metadata

BugDirectiveDropped(c, r, b, now, directive) ==
    [c EXCEPT !.writes = @ \cup {<<r, b>>},
              !.time   = IF b = TimeBlock THEN now ELSE @]

\* What a successful block leaves in the context it was given.  The time
\* block has advanced the clock before; InitBlock replaces unified_state.
Effect(c, r, b, now, directive) ==
    [c EXCEPT
        !.writes    = @ \cup {<<r, b>>},
        !.state     = IF b = InitBlock THEN {<<r, b>>}
                      ELSE IF b \in StateBlocks THEN @ \cup {<<r, b>>} ELSE @,
        !.time      = IF b = TimeBlock THEN now ELSE @,
        !.directive = IF b = RevisionGate THEN directive ELSE @]

\* A block that fails may have changed the context before.
PartialEffect(c, r, b, wrote) ==
    IF ~wrote THEN c
    ELSE [c EXCEPT !.writes = @ \cup {<<r, b>>},
                   !.state  = IF b \in StateBlocks THEN @ \cup {<<r, b>>} ELSE @]

\* What merging the results of a group leaves: the blocks worked on copies of
\* the context, so only the data they return arrives.  unified_state is data
\* of InitBlock alone, and the directive is data of no block.
GroupEffect(c, r, oks, now) ==
    [c EXCEPT
        !.writes = @ \cup ({r} \X oks),
        !.state  = IF InitBlock \in oks THEN {<<r, InitBlock>>} ELSE @,
        !.time   = IF TimeBlock \in oks THEN now ELSE @]

-----------------------------------------------------------------------------
(* Choosing what runs next *)

\* The first intent group with at least two blocks still to execute.
IntentGroup(executed) ==
    LET left(i) == IntentGroups[i] \ executed
        usable == {i \in 1 .. Len(IntentGroups) :
                     \E a, b \in left(i) : a # b}
    IN  UNION {left(i) : i \in {u \in usable : \A v \in usable : u <= v}}

\* identify_parallel_groups, its first group: all the blocks not executed in
\* a group whose dependencies were, if there are two.  (No block declares its
\* writes, so no pair conflicts.)
StaticGroup(executed) ==
    LET eligible == {b \in Blocks \ executed : Dependencies[b] \subseteq executed}
    IN  IF \E a, b \in eligible : a # b THEN eligible ELSE {}

NextGroup(executed) ==
    IF ~Parallel THEN {}
    ELSE IF IntentGroup(executed) # {} THEN IntentGroup(executed)
    ELSE StaticGroup(executed)

BugExitIgnored(r, b, self) ==
    self \/ (Dependencies[b] \cap run[r].skipped # {} /\ b \notin AlwaysOn)

BugDependenciesIgnored(r, b, self) == self \/ (run[r].earlyExit /\ b \notin AlwaysOn)

BugFloorBlocked(r, b, self) ==
    \/ self
    \/ run[r].earlyExit /\ b \notin AlwaysOn
    \/ b \notin AlwaysOn /\ \E d \in Dependencies[b] \cap Blocks : results[r][d] # "ok"

\* The reasons for which the loop passes a registered block over, in the
\* order of the code; self is the block's own should_skip.
SkipsBlock(r, b, self) ==
    \/ run[r].earlyExit /\ b \notin AlwaysOn
    \/ b \in IntentSkips /\ b \notin AlwaysOn
    \/ b \notin ActiveBlocks /\ b \notin AlwaysOn
    \/ self
    \/ Dependencies[b] \cap run[r].skipped # {} /\ b \notin AlwaysOn

-----------------------------------------------------------------------------
(* The steps of a run *)

Current(r) == Order[run[r].index]

BugAdvancesTwice(rec) == [rec EXCEPT !.at = "loop", !.index = @ + 2]

BugSpins(rec) == [rec EXCEPT !.at = "select"]

\* Every path through the loop body but a break moves the index.
NextBlock(rec) == [rec EXCEPT !.at = "loop", !.index = @ + 1]

BugFailureBreaks(rec) == [rec EXCEPT !.at = "save"]

\* A failure does not break the loop either.
AfterFailure(rec) == NextBlock(rec)

\* A task that is at none of these holds the event loop.
AtAwait == {"ready", "group", "block", "retry", "done"}
EventLoopFree(r) == \A q \in Runs \ {r} : run[q].at \in AtAwait

Init ==
    /\ run = [r \in Runs |->
                [at |-> "ready", index |-> 1, previous |-> 0, stall |-> 0,
                 executed |-> {}, skipped |-> {}, earlyExit |-> FALSE,
                 group |-> {}, aborted |-> FALSE]]
    /\ context = [r \in Runs |-> NewContext(r, {})]
    /\ results = [r \in Runs |-> [b \in Blocks |-> "none"]]
    /\ executions = [r \in Runs |-> [b \in Blocks |-> 0]]
    /\ guard = FreshGuard(Blocks)
    /\ rollback = FreshManager
    /\ store = [s \in Sessions |-> {}]
    /\ clock = 0
    /\ faults = 0

BugGuardNotReset(r) ==
    /\ run[r].at = "ready"
    /\ EventLoopFree(r)
    /\ \A q \in Runs : run[q].at \in {"ready", "done"}
    /\ run' = [run EXCEPT ![r].at = "loop"]
    /\ context' = [context EXCEPT ![r] = NewContext(r, store[SessionOf[r]])]
    /\ UNCHANGED <<results, executions, guard, rollback, store, clock, faults>>

\* Load the session's state, reset the shared guard, enter the loop.
Start(r) ==
    /\ run[r].at = "ready"
    /\ EventLoopFree(r)
    /\ Concurrent \/ \A q \in Runs : run[q].at \in {"ready", "done"}
    /\ run' = [run EXCEPT ![r].at = "loop"]
    /\ context' = [context EXCEPT ![r] = NewContext(r, store[SessionOf[r]])]
    /\ guard' = FreshGuard(Blocks)
    /\ UNCHANGED <<results, executions, rollback, store, clock, faults>>

\* The head of the while loop: iteration and stall bookkeeping, should_abort,
\* and the choice of a group to run before the sequential block.
Iterate(r) ==
    /\ run[r].at = "loop"
    /\ run[r].index <= Len(Order)
    /\ EventLoopFree(r)
    /\ \E late \in BOOLEAN :
         /\ late => MayTimeOut
         /\ LET stalled == run[r].index = run[r].previous
                stall   == IF stalled THEN run[r].stall + 1 ELSE 0
                verdict == ShouldAbort(RecordIteration(guard), Current(r), stall,
                                       Len(Order), late)
                group   == NextGroup(run[r].executed)
            IN  /\ guard' = IF GuardOn THEN verdict.guard ELSE guard
                /\ run' = [run EXCEPT
                     ![r].previous = IF GuardOn THEN run[r].index ELSE @,
                     ![r].stall    = IF GuardOn THEN stall ELSE @,
                     ![r].aborted  = GuardOn /\ verdict.abort,
                     ![r].group    = IF GuardOn /\ verdict.abort THEN {} ELSE group,
                     ![r].at       = IF GuardOn /\ verdict.abort THEN "save"
                                     ELSE IF group # {} THEN "group" ELSE "select"]
    /\ UNCHANGED <<context, results, executions, rollback, store, clock, faults>>

\* What a block of a group is recorded with.
GroupStatus(b, oks, declined) ==
    IF b \in oks THEN "ok" ELSE IF b \in declined THEN "skipped" ELSE "error"

\* The blocks of the group that were called have answered.
GroupAnswers(r, called, failed, declined) ==
    LET oks == called \ (failed \cup declined)
        now == IF TimeBlock \in called THEN clock + 1 ELSE clock
    IN  /\ faults' = faults + Cardinality(failed)
        /\ clock' = now
        /\ \E exits \in SUBSET (oks \cap ExitBlocks) :
             run' = [run EXCEPT ![r].at = "select",
                                ![r].group = {},
                                ![r].executed = @ \cup run[r].group,
                                ![r].earlyExit = @ \/ exits # {}]
        /\ context' = [context EXCEPT ![r] = GroupEffect(@, r, oks, now)]
        /\ results' = [results EXCEPT ![r] = [b \in Blocks |->
             IF b \notin run[r].group THEN @[b] ELSE GroupStatus(b, oks, declined)]]
        /\ executions' = [executions EXCEPT ![r] = [b \in Blocks |->
             IF b \in called THEN @[b] + 1 ELSE @[b]]]

\* execute_parallel_group and the merge.  A block that is not registered is
\* an error; nothing here asks for skips, exits, profiles or checkpoints.
RunGroup(r) ==
    /\ run[r].at = "group"
    /\ EventLoopFree(r)
    /\ LET called == run[r].group \cap Registered
       IN  \E failed \in AtMost(MaxFaults - faults, called) :
           \E declined \in SUBSET ((called \cap Decliners) \ failed) :
              GroupAnswers(r, called, failed, declined)
    /\ UNCHANGED <<guard, rollback, store>>

\* The group fails as a whole: a copy of the context fails before any block is
\* called, or one of the answers is no BlockResult and all are dropped with it.
\* The executor returns no result, and the loop still takes the group for
\* executed.
LoseGroup(r) ==
    /\ run[r].at = "group"
    /\ EventLoopFree(r)
    /\ faults < MaxFaults
    /\ faults' = faults + 1
    /\ \E called \in {{}, run[r].group \cap Registered} :
         /\ called = {} => CopiesFail
         /\ clock' = IF TimeBlock \in called THEN clock + 1 ELSE clock
         /\ executions' = [executions EXCEPT ![r] = [b \in Blocks |->
              IF b \in called THEN @[b] + 1 ELSE @[b]]]
    /\ run' = [run EXCEPT ![r].at = "select",
                          ![r].group = {},
                          ![r].executed = @ \cup run[r].group]
    /\ UNCHANGED <<context, results, guard, rollback, store>>

\* The sequential half passes over the block at the index: it ran in a group,
\* it is not registered, there is a reason to skip it, or the guard's second
\* count of it is over the limit.
PassOver(r) ==
    /\ run[r].at = "select"
    /\ EventLoopFree(r)
    /\ LET b == Current(r)
           check == CheckBlockExecutionLimit(guard, b)
           advanced == [run EXCEPT ![r] = NextBlock(@)]
       IN  \/ /\ b \in run[r].executed
              /\ run' = advanced
              /\ UNCHANGED <<results, guard>>
           \/ /\ b \notin run[r].executed \cup Registered
              /\ run' = [advanced EXCEPT ![r].skipped = @ \cup {b}]
              /\ UNCHANGED <<results, guard>>
           \/ /\ b \in Registered \ run[r].executed
              /\ \E self \in {FALSE, (b \in SelfSkips)} : SkipsBlock(r, b, self)
              /\ run' = [advanced EXCEPT ![r].skipped = @ \cup {b}]
              /\ results' = [results EXCEPT ![r][b] = "skipped"]
              /\ UNCHANGED guard
           \/ /\ b \in Registered \ run[r].executed
              /\ ~SkipsBlock(r, b, FALSE)
              /\ GuardOn /\ ~check.ok
              /\ run' = advanced
              /\ results' = [results EXCEPT ![r][b] = "error"]
              /\ guard' = RevertCount(check.guard, b)
    /\ UNCHANGED <<context, executions, rollback, store, clock, faults>>

BugCalledAgain(r) ==
    /\ run[r].at = "select"
    /\ EventLoopFree(r)
    /\ Current(r) \in Registered
    /\ ~SkipsBlock(r, Current(r), FALSE)
    /\ run' = [run EXCEPT ![r].at = "block"]
    /\ executions' = [executions EXCEPT ![r][Current(r)] = @ + 1]
    /\ UNCHANGED <<context, results, guard, rollback, store, clock, faults>>

\* The sequential half calls block.execute, having counted the block again.
CallBlock(r) ==
    /\ run[r].at = "select"
    /\ EventLoopFree(r)
    /\ LET b == Current(r)
           check == CheckBlockExecutionLimit(guard, b)
       IN  /\ b \in Registered \ run[r].executed
           /\ ~SkipsBlock(r, b, FALSE)
           /\ GuardOn => check.ok
           /\ guard' = IF GuardOn THEN check.guard ELSE guard
           /\ run' = [run EXCEPT ![r].at = "block"]
           /\ executions' = [executions EXCEPT ![r][b] = @ + 1]
    /\ UNCHANGED <<context, results, rollback, store, clock, faults>>

\* The call comes back with a result that is not an error.  A success is
\* merged, may ask for the early exit or a short circuit (a gate that can ask
\* for both asks for both), and is checkpointed, if the copy is made.  After
\* the revision gate the directive decides on a retry.
BlockAnswers(r, b, ok, exits, short, directive, copied) ==
    LET now   == IF b = TimeBlock THEN clock + 1 ELSE clock
        after == IF ok THEN Effect(context[r], r, b, now, directive) ELSE context[r]
        retry == /\ b = RevisionGate
                 /\ after.directive = "regenerate"
                 /\ after.attempts < RegenMaxAttempts
    IN  /\ clock' = now
        /\ context' = [context EXCEPT ![r] = after]
        /\ results' = [results EXCEPT ![r][b] = IF ok THEN "ok" ELSE "skipped"]
        /\ guard' = IF GuardOn THEN CheckCircularSequence(guard, b).guard ELSE guard
        /\ rollback' = IF ok /\ RollbackOn
                       THEN CreateCheckpoint(rollback, b, after, copied) ELSE rollback
        /\ run' = [run EXCEPT
             ![r].earlyExit = @ \/ exits,
             ![r].skipped   = IF short THEN @ \cup ShortCircuits[b] ELSE @,
             ![r].index     = IF retry THEN @ ELSE @ + 1,
             ![r].at        = IF retry THEN "retry" ELSE "loop"]

BlockReturns(r) ==
    /\ run[r].at = "block"
    /\ EventLoopFree(r)
    /\ \E ok \in {TRUE, (Current(r) \notin Decliners)},
          exits \in {FALSE, (Current(r) \in ExitBlocks)},
          short \in {FALSE, (ShortCircuits[Current(r)] # {})},
          directive \in IF Current(r) = RevisionGate
                        THEN Directives \ {"none"} ELSE {"none"},
          copied \in BOOLEAN :
         /\ short \/ exits => ok
         /\ short /\ Current(r) \in ExitBlocks => exits
         /\ ~copied => ok /\ RollbackOn /\ CopiesFail /\ faults < MaxFaults
         /\ faults' = IF copied THEN faults ELSE faults + 1
         /\ BlockAnswers(r, Current(r), ok, exits, short, directive, copied)
    /\ UNCHANGED <<executions, store>>

\* The call returns an error or raises (the guard then misses its last
\* check).  The loop goes on either way; blocks that are not always-on are
\* rolled back first.
BlockFaults(r, b, wrote, raised) ==
    LET after == PartialEffect(context[r], r, b, wrote)
        back  == RollbackToCheckpoint(rollback, b, after)
        undo  == RollbackOn /\ b \notin AlwaysOn
    IN  /\ context' = [context EXCEPT ![r] = IF undo THEN back.context ELSE after]
        /\ rollback' = IF undo THEN back.manager ELSE rollback
        /\ clock' = IF b = TimeBlock /\ wrote THEN clock + 1 ELSE clock
        /\ guard' = IF GuardOn /\ ~raised
                    THEN CheckCircularSequence(guard, b).guard ELSE guard
        /\ results' = [results EXCEPT ![r][b] = "error"]
        /\ run' = [run EXCEPT ![r] = AfterFailure(@)]

BlockFails(r) ==
    /\ run[r].at = "block"
    /\ EventLoopFree(r)
    /\ faults < MaxFaults
    /\ faults' = faults + 1
    /\ \E wrote, raised \in BOOLEAN : BlockFaults(r, Current(r), wrote, raised)
    /\ UNCHANGED <<executions, store>>

\* The registered blocks of the allowlist.
RetryCalls == RetryBlocks \cap Registered

\* _maybe_regenerate: the attempt is committed, then every registered block
\* of the list is called again, whatever the loop decided about it, without
\* guard, checkpoint or rollback.  Only the revision gate's directive and
\* metadata come out of it; results keeps the first answers.
Retry(r) ==
    /\ run[r].at = "retry"
    /\ EventLoopFree(r)
    /\ \E failed \in AtMost(MaxFaults - faults, RetryCalls), directive \in Directives :
         LET oks == RetryCalls \ failed
         IN  /\ faults' = faults + Cardinality(failed)
             /\ IF RevisionGate \in oks THEN directive # "none"
                ELSE directive = context[r].directive
             /\ context' = [context EXCEPT
                  ![r].attempts  = @ + 1,
                  ![r].writes    = @ \cup ({r} \X oks),
                  ![r].state     = @ \cup ({r} \X (oks \cap StateBlocks)),
                  ![r].directive = directive]
             /\ executions' = [executions EXCEPT ![r] = [b \in Blocks |->
                  IF b \in RetryCalls THEN @[b] + 1 ELSE @[b]]]
    /\ run' = [run EXCEPT ![r] = NextBlock(@)]
    /\ UNCHANGED <<results, guard, rollback, store, clock>>

\* After the loop, or the abort that broke it: save unified_state, if there
\* is one, under the session the context names now.
Finish(r) ==
    /\ \/ run[r].at = "loop" /\ run[r].index > Len(Order)
       \/ run[r].at = "save"
    /\ EventLoopFree(r)
    /\ run' = [run EXCEPT ![r].at = "done"]
    /\ store' = IF context[r].state # {}
                THEN [store EXCEPT ![context[r].session] = context[r].state]
                ELSE store
    /\ UNCHANGED <<context, results, executions, guard, rollback, clock, faults>>

Step(r) ==
    \/ Start(r)
    \/ Iterate(r)
    \/ RunGroup(r)
    \/ LoseGroup(r)
    \/ PassOver(r)
    \/ CallBlock(r)
    \/ BlockReturns(r)
    \/ BlockFails(r)
    \/ Retry(r)
    \/ Finish(r)

AllDone == \A r \in Runs : run[r].at = "done"

Next ==
    \/ \E r \in Runs : Step(r)
    \/ AllDone /\ UNCHANGED vars

Spec == Init /\ [][Next]_vars

\* A block's await ends sometime and the event loop is fair to its tasks.
FairSpec == Spec /\ \A r \in Runs : WF_vars(Step(r))

-----------------------------------------------------------------------------
(* Properties *)

Statuses == {"none", "ok", "skipped", "error"}

Locals == [at : AtAwait \cup {"loop", "select", "save"},
           index : 1 .. Len(Order) + 1,
           previous : 0 .. Len(Order),
           stall : Nat,
           executed : SUBSET Blocks,
           skipped : SUBSET Blocks,
           earlyExit : BOOLEAN,
           group : SUBSET Blocks,
           aborted : BOOLEAN]

TypeOK ==
    /\ run \in [Runs -> Locals]
    /\ context \in [Runs -> [session : Sessions,
                             writes : SUBSET Writes,
                             state : SUBSET Writes,
                             time : Nat \cup {NoTime},
                             directive : Directives,
                             attempts : Nat]]
    /\ results \in [Runs -> [Blocks -> Statuses]]
    /\ executions \in [Runs -> [Blocks -> Nat]]
    /\ store \in [Sessions -> SUBSET Writes]
    /\ clock \in Nat
    /\ faults \in 0 .. MaxFaults

(***************************************************************************)
(* Whatever fails, skips, exits early or is bypassed, a run that was not   *)
(* aborted has called every registered always-on block, unless the block's *)
(* own should_skip declined.  echo_orchestrator.py:938-997, "Always-on     *)
(* blocks must still execute even if previous blocks fail".                *)
(***************************************************************************)
AlwaysOnExecuted ==
    \A r \in Runs : run[r].at = "done" /\ ~run[r].aborted =>
        \A b \in AlwaysOn \cap Registered :
            \/ executions[r][b] > 0
            \/ b \in SelfSkips /\ results[r][b] = "skipped"

(***************************************************************************)
(* A turn calls no block twice, except that one retry calls the allowlist  *)
(* again, so a state-mutating block never writes twice.                    *)
(* echo_orchestrator.py:224-230, "so a retry never double-writes state",   *)
(* and 657-661, the sequential half skips what a group executed.           *)
(***************************************************************************)
NoDoubleExecution ==
    \A r \in Runs, b \in Blocks :
        executions[r][b] <= IF b \in RetryBlocks THEN 1 + RegenMaxAttempts ELSE 1

\* A failure took away the group that the block is marked executed with.
Lost(r, b) == faults > 0 /\ b \in run[r].executed /\ results[r][b] = "none"

\* What a run has executed in groups after n iterations, one group in each;
\* and that none of these groups takes in a block whose place is behind.
GroupedAfter[n \in 0 .. Len(Order)] ==
    IF n = 0 THEN {}
    ELSE LET before == GroupedAfter[n - 1] IN before \cup NextGroup(before)

GroupsStayAhead ==
    \A n \in 1 .. Len(Order) :
        LET group == NextGroup(GroupedAfter[n - 1])
        IN  \A i \in 1 .. n - 1 : Order[i] \notin group

\* What has to have had its turn before a block.
Needs(b) == (Dependencies[b] \cap Registered) \ {b}

\* The blocks before whose group, and before whose place, all that they need
\* ran in a group or has its place.
Followers ==
    {b \in Blocks :
       \A n \in 1 .. Len(Order) :
          LET behind == {Order[i] : i \in 1 .. n - 1} IN
          /\ b \in NextGroup(GroupedAfter[n - 1]) =>
                Needs(b) \subseteq GroupedAfter[n - 1] \cup behind
          /\ b = Order[n] => Needs(b) \subseteq GroupedAfter[n] \cup behind}

\* The place of a block in the order.
Indices == 1 .. Len(Order)
Pos(b) == CHOOSE i \in Indices : Order[i] = b

\* The retry calls no block whose place is after the revision gate's.
RetryEndsAtTheGate ==
    RevisionGate \in Blocks => \A b \in RetryCalls : Pos(b) <= Pos(RevisionGate)

(***************************************************************************)
(* Once a run has triggered the early exit, no block that is not always-on *)
(* is called in it.  echo_orchestrator.py:687, "Skip all remaining blocks  *)
(* except always-on blocks".                                               *)
(***************************************************************************)
EarlyExitStops ==
    [][\A r \in Runs : run[r].earlyExit =>
          \A b \in Blocks \ AlwaysOn : executions'[r][b] = executions[r][b]]_vars

(***************************************************************************)
(* echo_orchestrator.py:185-186: "The safety/record floor + always-on      *)
(* blocks are never bypassable".  A run that ends with neither an early    *)
(* exit nor an abort has called every registered block of the floor, but   *)
(* for one that was lost with its group.                                   *)
(***************************************************************************)
FloorRuns ==
    \A r \in Runs :
        run[r].at = "done" /\ ~run[r].earlyExit /\ ~run[r].aborted =>
            \A b \in Floor \cap Registered : executions[r][b] > 0 \/ Lost(r, b)

\* F closes the floor: nothing bypasses a block of F, nor what it depends on.
\* (A short circuit of a block that exits too is an early exit.)
ClosesFloor(F) ==
    /\ Floor \cap Registered \subseteq F /\ F \subseteq Registered
    /\ F \cap SelfSkips = {}
    /\ \A b \in F \ AlwaysOn : /\ b \in ActiveBlocks \ IntentSkips
                              /\ Dependencies[b] \cap Blocks \subseteq F
    /\ \A b \in Blocks \ ExitBlocks : ShortCircuits[b] \cap F = {}

(***************************************************************************)
(* The guard is silent on a healthy loop: a run whose clock is fine is     *)
(* never aborted and never marked unsafe, although the guard counts each   *)
(* block twice.  execution_guard.py:113-263.                               *)
(***************************************************************************)
GuardSilent ==
    /\ \A r \in Runs : ~run[r].aborted
    /\ \A r \in Runs : run[r].at \in {"loop", "select"} => guard.safe

(***************************************************************************)
(* A block that groups and order put behind what it needs is called when   *)
(* each registered dependency has its result, but for one that was lost.   *)
(* dynamic_grouping.py:183, "Dependencies handled by orchestrator";        *)
(* echo_orchestrator.py:610-661, parallel_executor.py:396-407.             *)
(***************************************************************************)
DependenciesFirst ==
    [][\A r \in Runs, b \in Followers :
          executions[r][b] = 0 /\ executions'[r][b] > 0 =>
              \A d \in Needs(b) :
                  results[r][d] # "none" \/ Lost(r, d)]_vars

(***************************************************************************)
(* In the first turn of an orchestrator a failure costs at most one        *)
(* success: the failed block has no snapshot, so the newest one is dropped *)
(* and the one before it restored.  (In a later turn the search may find   *)
(* the block's snapshot of an earlier one and go back to that.)            *)
(* rollback_manager.py:103-161.                                            *)
(***************************************************************************)
LostWork ==
    \A r \in Runs : (\A q \in Runs \ {r} : run[q].at = "ready") =>
        Cardinality({b \in Blocks : /\ results[r][b] = "ok"
                                    /\ <<r, b>> \notin context[r].writes}) <= faults

(***************************************************************************)
(* Time values in the metadata never go back, also when a rollback ends on *)
(* a snapshot of an earlier turn; a rollback may only remove them.         *)
(* rollback_manager.py:36-39, "Monotonic time values ... are never rolled  *)
(* back".                                                                  *)
(***************************************************************************)
TimeFloorHolds ==
    [][\A r \in Runs : run[r].at # "ready" /\ context'[r].time # NoTime =>
          context'[r].time >= context[r].time]_vars

(***************************************************************************)
(* State is kept apart: what the store holds for a session, and what a     *)
(* run works on, was written by runs of that session.                      *)
(* echo_orchestrator.py:512-523 and 1027-1042.                             *)
(***************************************************************************)
SessionsIsolated ==
    /\ \A s \in Sessions : \A w \in store[s] : SessionOf[w[1]] = s
    /\ \A r \in Runs : \A w \in context[r].writes \cup context[r].state :
          SessionOf[w[1]] = SessionOf[r]

(***************************************************************************)
(* When the revision gate has given a verdict, response_build finds one in *)
(* the metadata.  response_revision_gate.py:203-207, "emits a              *)
(* revision_directive consumed by response_build"; response_build.py:124.  *)
(***************************************************************************)
DirectiveDelivered ==
    \A r \in Runs :
        run[r].at = "block" /\ Current(r) = ResponseBuild
            /\ results[r][RevisionGate] = "ok"
        => context[r].directive # "none"

(***************************************************************************)
(* Every run ends: each iteration moves the index.                         *)
(***************************************************************************)
RunsEnd == \A r \in Runs : run[r].at # "ready" ~> run[r].at = "done"
=============================================================================
