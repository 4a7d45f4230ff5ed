# TLA+ models of the Phionyx core runtime

These modules model the runtime of `phionyx_core`: the orchestrator that runs
the 46-block governance pipeline, those 46 blocks, the guard, snapshots and
state store they work with, and the services that keep state between turns:
governance, research and learning, memory, causality and world state. TLC
checks each model on small instances; TLAPS proves the most important results
for every value of the constants. Paths below are relative to `src/`, and
`core/` abbreviates `phionyx_core/`.

Contents: [inventory](#inventory) · [what is hard](#what-is-hard) ·
[modules](#modules-and-the-code) · [runs](#runs) · [refinement](#refinement) ·
[fairness](#fairness) · [proofs](#proofs) ·
[divergences](#where-the-code-and-its-documentation-differ) ·
[abstractions](#abstractions) · [not modelled](#not-modelled) · [plan](#plan)

## Inventory

### The turn pipeline (`core/orchestrator/`)

| component | state | operations | correct when |
|---|---|---|---|
| `echo_orchestrator.py` | per call: block index, stall count, executed / skipped / early-exit flags, results, context | `execute_pipeline`: load the session's state, loop over the block order (a parallel group, then one block), save; `_maybe_regenerate` | always-on blocks are called whatever happens; no block runs twice except by the bounded retry; an early exit stops the rest; skips travel along dependencies; the turn ends |
| `execution_guard.py` | iteration count, count per block, last 2N executions, last block and its repeats, `is_safe` | five checks, `reset` | silent on a healthy turn, aborts a loop |
| `rollback_manager.py` | list of deep copies of the context, floor of the time keys | `create_checkpoint`, `rollback_to_checkpoint`, `clear_checkpoints` (no caller) | a failure undoes the failed block's writes and little more; time does not go back; sessions stay apart |
| `parallel_executor.py`, `dynamic_grouping.py`, `block_dependencies.py`, `early_exit_optimizer.py` | the dependency graph, tables of intent groups and short circuits | form a group, run it on copies of the context, merge | a block comes after its dependencies; nothing of a result is lost |
| state store (`core/persistence/`, `core/state/`) | `unified_state` per session | load at the start of a turn, save at its end | one session never sees another's state |
| `TimeManager` (`core/state/`) | one turn index, shared | advance once per turn | monotonic |

One `EchoOrchestrator`, with its guard, rollback manager and time manager,
serves every session of a process (`examples/fastapi/main.py:32`), and
`block_factory.py` hands the same service objects to the blocks of all turns.
`execute_pipeline` is a coroutine: two turns interleave at each await.

### Governance and monitoring services (`core/governance/`, `core/monitoring/`)

| component | state | operations | correct when |
|---|---|---|---|
| `kill_switch.py` | armed / triggered / cooldown / disarmed, drift count, two times, bounded event log | `evaluate` (called by `kill_switch_gate` each turn), `manual_trigger`, `reset`, `disarm`, `arm` | sustained drift triggers; only an operator releases; the log is a chain that explains the state |
| `circuit_breaker.py` | closed / open / half-open, failure count, times of the last failure and success, trials | `check_before_execution` and `check_after_execution` around the drift block's await, `reset` | an opening holds turns back for its timeout; recovery admits few; state and count agree |
| `human_in_the_loop.py` | queue, archive, a JSON file of both | `submit_for_review`, `approve`, `deny`, expiry, `_save`, `_load` | approved means a reviewer approved; nothing saved is lost; the queue is bounded |
| `human_approval.py`, `safe_mode_fallback.py`, `behavioral_drift.py`, `baseline_store.py` | requests with deadlines; a response cache; sliding statistics | approve, expire; look up, evict; compare | no late or double approval; no stale answer |
| `deliberative_ethics.py`, `failure_classifier.py`, `rbac.py` | none | pure scoring and lookup | the verdict is the strictest framework's |

### The blocks (`core/pipeline/blocks/`)

46 blocks in the canonical order. A block keeps no state between turns: it reads
and writes the metadata of its turn and calls a collaborator that
`block_factory.py` gave it, or does nothing without one. Eight criteria
(entropy, coherence, phi, ethics, conflict, confidence, drift, CEP) end in the
directive of `response_revision_gate`, which `response_build` obeys. Correct
when the text the user gets is the text that was judged, the severest criterion
decides, a stopped turn stays silent and every turn answers.

### Other services the blocks call

| component | state | operations | correct when |
|---|---|---|---|
| memory (`core/memory/`, `core/services/rag_service.py`) | vector store, retrieval cache with a lifetime; event table, log file, audit log | retrieve (awaits an embedding), store, evict; store, suppress, erase an event | an answer is at most a lifetime old; an erased event stays erased, a suppressed one suppressed |
| causality (`core/causality/`) | one live graph of all sessions: nodes, links, current values | observe, discover, import, intervene, simulate | acyclic; effects flow downstream; known directions are kept |
| world (`core/world/`) | bounded timelines, bounded versions with a parent each | update, query the past, snapshot, roll back | the past is answered as it was; a version number names one state |
| research engine (`core/research_engine/`) | source file, git history and stash, data directory with baseline and snapshot, budget | a session of experiments: edit, commit, measure, keep or revert | a refused experiment leaves no trace; the baseline is the best known state |
| learning gate (`core/services/learning_gate_service.py`, `outcome_observer.py`) | evidence, proposed and applied updates, zones | observe, propose, judge, apply, roll back | what is applied is in an adaptive zone, rests on evidence and is small |
| planning (`core/planning/`) | goals of a session, a file per session | add, progress, block, revise | what was changed last is what the next process finds |
| meta cognition (`core/meta/`) | self-model; active and archived notifications, a file of both | notify, mark, clear a session | each notification is in one place; AIs talk through the founder |
| agent control tools (`tools/`) | a signed control state on disk | command-line hooks | an override expires and is used once |
| echo state and physics (`core/physics/`, `core/state/`) | real-valued state | numerical | numerical |

`PROJECT.json` lists every component with its files, and for each its status.

## What is hard

The turns of all sessions share mutable objects that were written with one turn
in mind; asyncio interleaves them at awaits. The loop of `execute_pipeline` has
a dozen ways to go on to the next block, two halves that can both call a block,
and a third path (the retry) outside the loop. A block can fail after having
written. A skip can come from eight places and travels. The services outlive
turns: reports arrive late, detectors raise between two gates, saves fail and
processes restart. What the real blocks do adds its own: signals measured before the
text they are about was replaced, gates that ask before the answer exists,
values of zero and empty strings that read as missing. The 40 hazards found are
listed in `PROJECT.json`, each at the line where it bites, with the properties that
would catch it.

## Modules and the code

| module | models | state ↔ code, actions ↔ code |
|---|---|---|
| `Pipeline` | `echo_orchestrator.py`, `execute_pipeline` and what it calls | `run[r]` holds the locals of one call (`at` is where the coroutine stands), `context[r]` is `current_context`, `results`, `executions` (history: calls of each block), `guard`, `rollback`, `store`, `clock` the shared objects. `Start`: load, reset of the guard. `Iterate`: head of the loop, `should_abort`, choice of a group. `RunGroup`: the group half with merge. `LoseGroup`: the executor's error path, which returns nothing for the whole group. `PassOver`: every reason to skip, and the guard's refusal. `CallBlock`, `BlockReturns`, `BlockFails`: the sequential half before, after and instead of the await. `Retry`: `_maybe_regenerate`. `Finish`: the save |
| `ExecutionGuard` | `execution_guard.py` | operators on a record that stands for the object; each check returns the next record and its verdict |
| `RollbackManager` | `rollback_manager.py` | operators on a record: checkpoint (which swallows a copy that fails), search, restore with the time floor |
| `CanonicalContract` | `core/profiles/runtime_profiles.py` (order, floor, profile *evidence*), `block_dependencies.json`, the always-on blocks, retry list and short circuits of the orchestrator | data |
| `TurnContract` | what a turn promises, abstractly | a phase, a place in the order, calls, answers, the exit |
| `PipelineRefinement` | — | the mapping from `Pipeline` to `TurnContract` |
| `TurnBlocks` | `core/pipeline/blocks/*.py`, `core/pipeline/coherence_qa.py` | no state: `Execute(b, context, triggered)` is the set of outcomes (status, context it leaves, exit, short circuit, fault) that block `b` can have. A criterion is a signal: a severity, which is the rank of the directive it asks for, and the version of the narrative it judges |
| `GovernedTurn` | `echo_orchestrator.py` in sequential mode with those blocks, the rollback manager and the kill switch | `turn` holds the locals of the call, `context` is `current_context`, `built` what `response_build` left. `Begin`, `PassOver`, `RunBlock`, `RetryBlock`; `Operate` is the operator between turns |
| `KillSwitch` | `kill_switch.py` | one variable per attribute, one action per method; `evaluate` is split by how it leaves (`EvaluateNaN`, `EvaluateIdle`, `EvaluateMeasured`) |
| `CircuitBreaker` | `circuit_breaker.py` and `pipeline/blocks/behavioral_drift_detection.py` | one variable per attribute (`circuit`, `failureCount`, times as ages), `turn` by task is where the block stands between the gates. `CheckBefore`, `ReportDrift`, `ReportClean`, `DetectionFails`, `ResetBreaker` |
| `HumanReviewQueue` | `human_in_the_loop.py` | `queue`, `archive`, `file`; `left` is the time to each deadline. `SubmitForReview` with sweep and eviction, `Review`, `ExpireStale`, `Save` with its three outcomes inside each of them, `Restart` |
| `HumanApproval` | `human_approval.py` | `requests`, `clock`. `Create` with eviction and the deadline that may raise, `Answer`, the sweep, the tick |
| `ResearchLoop` | `research_engine/loop.py` and what it calls: `git_manager`, `config_snapshot`, `baseline_store`, `budget`, `decide` | `surface` is the file under experiment, `commits`, `stashes`, `data` the repository, `session` the locals of `run_session`. One action per git command (`Commit`, `Stash`, `ResetHard`, `Pop`), since each may fail alone; `Kill` between any two |
| `LearningLoop` | `outcome_observer.py`, `learning_gate_service.py`, the block `learning_gate` | `evidence`, `updates`, `applied`. `Observe`, `Propose`, `ForgetEvidence`, `ProposeElsewhere`, `Gate`, `RollBack` |
| `CausalModel` | `core/causality/` (builder, structure learning, interventions, simulator) and the blocks that call it | `nodes`, `edges`, `simulated`. `UpdateGraph` is the whole block: the links of the physics, the observations, discovery and its merge; `AddLink`; `Simulate` |
| `MemoryCache` | `rag_service.py` (`retrieve_context`), `rag_cache.py`, `vector_store.py` | `cache`, `asking` by retrieval (where it awaits the embedding), `storedAt`. `AnswerFromCache`, `Ask`, `SearchAndPut`, `FallBack`, `AddMemory`, `Cleanup` |
| `TraceStore` | `trace_store.py` | `rows`, `auditLog`, `logged`. `StoreEvent`, `MarkSuppressed`, `EraseEvent` |
| `WorldState` | `temporal_tracker.py`, `state_versioning.py` | `states`, `snapshots`, `version`. `AdvanceTurn`, `Update`, `Snapshot`, `RollBackTo`; `Query` is the question about the past |
| `GoalPersistence` | `goal_persistence.py` | `goals`, `revisions`, `goalSession`, `autoSave`, `goalFiles`. One action per method, each with its `Save`; `LoadGoals` is a new process with `auto_load` |
| `NotificationLog` | `notification_log.py` | `notes`, `archived`, `noteFile`. `Add`, `Mark`, `ClearSession` with their `SaveNotes`; `RestartNotes` |
| `MCPipeline`, `MCCanonical`, `MCGoverned` | `MCGoverned`: the deployments of `block_factory.py` | the instances TLC checks |
| `MCServices`, `MCStores` | — | the services that share no state, side by side: a variable `focus` picks the one a behaviour follows, so that each is explored on its own and none multiplies another's states |
| `Pipeline_proofs`, `PipelineTurns_proofs`, `GovernedTurn_proofs`, `RollbackManager_proofs`, `KillSwitch_proofs`, `HumanReviewQueue_proofs`, `Services_proofs`, `Stores_proofs` | — | theorems and proofs; the last two are of the services of `MCServices` and `MCStores` |

`Pipeline` composes `ExecutionGuard` and `RollbackManager`; it extends both and
keeps their objects in variables, as the orchestrator keeps them in attributes.
A task yields the event loop only at an await, so an action of one run is
enabled only while every other run is at an await (`EventLoopFree`).

`Pipeline` and `GovernedTurn` look at the same loop from two sides. `Pipeline`
lets nine or 46 blocks do anything a block may do and asks what the loop makes of
it, in both modes and with several turns. `GovernedTurn` takes the loop in
sequential mode, one turn at a time, and asks what the real 46 blocks in it hand
to the user.

Operators whose name begins with `Bug` are used by no specification. Each is
what its neighbour would be with a plausible mistake in it; put in its
neighbour's place it makes TLC violate a property, which shows that the
property can fail. They stand before the definition they mutate.

## Runs

All bounds are constants of the `.cfg` files. Deadlock is checked in the runs of
`Pipeline` and `GovernedTurn`, which stutter explicitly when all turns are done;
in `services` and `stores` a component that is out of calls, experiments or
ticks stops at its bound, so there it is not.

### Passing

**`pipeline_sequential`** — two turns of one session, one after the other,
sequential mode, rollback on, at most two failures. Nine
blocks play every part the orchestrator knows by name: a gate that can exit,
the time block, a block that skips itself, the block that replaces
`unified_state`, a block that may decline, a state-mutating block that depends on
itself, an always-on block of the retry list, the revision gate, `response_build`. Checked: the
types; always-on blocks are called (`AlwaysOnExecuted`); an early exit stops the
rest (`EarlyExitStops`); the guard never aborts or turns unsafe (`GuardSilent`);
`response_build` finds the directive (`DirectiveDelivered`); in the first turn each failure costs
the work of one success at most (`LostWork`); restored contexts never bring
time back (`TimeFloorHolds`); and every step is one the contract of a turn allows
(`ImplementsTurnContract`). Two turns are needed because snapshots outlive the
turn; two failures because the second one searches a list that the first one shortened. Copies
succeed here (`CopiesFail` is off), as they do for metadata of plain values. With them failing
`LostWork` still holds (TLC finds so for one turn with three failures, and `AFailureCostsOneSuccess`
proves it), `TimeFloorHolds` does not (below).

**`pipeline_concurrent`** — two overlapping turns of different sessions on one
orchestrator, parallel mode with intent groups and intent skips, a profile
that leaves a block out, a block that is not registered, a block that declines,
short circuits, and a clock that may run out; no rollback, no failures. Checked:
contexts and stored states stay apart
(`SessionsIsolated`); nothing runs twice but by the one retry
(`NoDoubleExecution`). The guard is shared here, and refuses blocks and aborts
turns it would leave alone if they ran one after another (below). Rollback is
off because with it `SessionsIsolated` does not hold. `NoDoubleExecution`
depends on the intent's groups and does not hold for those of the intent
*question* (below); `GroupsStayAhead` names what it depends on, and `MCPipeline` and
`MCCanonical` assume it so that TLC evaluates it on every run.

**`canonical_parallel`** — one turn of the 46 canonical
blocks in their order with the real dependency graph and the guard's production
limits (`MaxIterations` 138 = 3 × 46, two executions, window of three), exits,
retry and one failure, in the default, parallel mode, whose
first group contains most blocks. The failure is of a block, of a checkpoint's copy, or of a
group as a whole: then the executor returns no result, and the loop takes the group for
executed (`parallel_executor.py:396-407`, `echo_orchestrator.py:643`). Without an exit every block of the safety/record
floor is called unless it was lost with its group (`FloorRuns`); a block that groups and order put
behind what it needs (`Followers`) is called when each registered dependency has its result or
was lost (`DependenciesFirst`); and the turn ends (`RunsEnd`, liveness). Six blocks are no
followers in this mode, and `NeedsAssumption` names them. Two blocks
may pass themselves over, as they do where their service is missing (`Unserved`). Concurrency is left
to the nine-block instance: it depends on the shared objects, not on the number of blocks.

**`governed`** — one turn of the 46 real blocks in sequence under the kill
switch, in three deployments (every collaborator; one with templates and
without clock, drift detection and breaker; the little the factory builds by
default), with the input short or not and the pipeline version old or new. At most
two things go badly: two criteria at their worst reading, or one and an
exception or lost checkpoint. Two, because the questions are about a signal that hides another
and about a failure after a bad reading; with the worst readings only, because a
weaker one asks for a weaker directive and `SeverestWins` compares the worst.
The operator may call the switch once before the turn; longer sequences are `services`'s. Checked: a
turn stopped before its narrative stays silent (`ExitIsSilent`), the severest
criterion decides to the end (`SeverestWins`), the delivered text is the judged
text (`JudgedAsDelivered`), every turn answers (`EveryTurnAnswers`). A narrative may match few
patterns of a leak or many (four or more), which makes coherence ask for a rewrite or for a rejection.
`JudgedAsDelivered` claims the entropy only where no entropy computer is injected: one that
answers ok without an entropy leaves the reading of the version before (below); the second
deployment has one.
`MayRaise` names one block of each kind of failure; `Depth` (6) snapshots are more
than a turn's failures pop.

**`services`** (1.2 million states) — the services beside the pipeline, each on its own bounds.
*Kill switch*: every reading of each measurement (fine, beyond its
threshold, NaN, not comparable), operator calls and clock in any order.
`DriftMax` 2 lets the count build up, be interrupted and trip; a log of three
events is cut many times; a cooldown of two ticks in a clock of four ends
before, at and after an evaluation. `MaxDrift` (4) bounds the counter for
configurations that fail open; with `fail_closed` it is never reached.
*Breaker*: three turns, more than the threshold and the trial limit
(two each), reports arbitrarily late, detections that raise, resets. Ages stop one
tick past the largest value they are compared with, so its behaviours are
unbounded in time. *Research*: three experiments in each of two sessions over
four values, of which one is out of range and the best one breaks a guardrail;
two failing git commands and a killed process, since the claim is that only two
things going wrong together leave an experiment in the file. *Learning*: two
experiments, the number that suffices, of a parameter whose values (0, 4, 5) make a step that is
moderate, one that is too large and one from zero, and an update, of the observer or of another module, submitted, rolled back and
submitted again. The other module declares any zone, names its target or not, cites up to two
experiments of its own, measured or not, demands nothing of them or as much as the observer, and
states its delta, none, or zero; it does so while the observer has no evidence, which it does not read. *Approvals*: five requests for two places against a clock that
passes the hour.

**`stores`** (1.6 million states) — what the runtime keeps beside the turn.
*Reviews*: four through a queue of two, so that sweeps that
free a place, sweeps that do not, and evictions occur; two items can expire at
once. Five filings exceed both the archive's saved length (two) and the number of
reviews, so trimming happens and a review forgotten by a failed save is decided again.
Saves fail or tear the file, and the process restarts, without bound.
*Causes*: three variables, entropy, coherence and arousal, with their two known
links; three calls reach a promotion (`MinObservations` 2) and a discovery
(`WarmUp` 1) before or after a simulation. Three nodes carry every way of closing a
cycle by one link. *Memories*: two overlapping retrievals of two questions through a
cache of one entry with a lifetime of one tick in a clock of four. *Events*: two ids,
two payloads, any order of storing, suppressing and erasing. *World*: timelines and versions
of length two under three turns, updates and snapshots, so both are cut. *Goals*: two, in five
calls: enough for a revision to be proposed, applied and saved, and for another session's file
to be written or loaded in between. *Notifications*: three, with two active and one
archived, so that clearing a session and adding at the limit both cut the archive. A save of
either succeeds, does not happen, or leaves a file that reads as none; `upToDate`, `unsaved` and
`forgotten` record which.

`executions`, `saved`, `lost`, `latest`, `sinceOpening`, `admitted`, `past`,
`forced`, `restricted`, `gone`, `told`, `current` and `made` are history
variables: actions record in them, no guard reads them but to bound a count.

### Violations

Each checks one statement of the repository that the code does not keep.

| run | what the counterexample shows |
|---|---|
| `pipeline_exit_in_parallel` | The group half of the loop does not look at `early_exit_triggered`, so the next iteration still executes a whole group (`echo_orchestrator.py:584-661`, against line 687: "Skip all remaining blocks except always-on blocks"). |
| `pipeline_rollback_session` | Snapshots are never cleared between turns; a failing block's search ends on a snapshot of another session's turn and its state is restored, and saved (`rollback_manager.py:124-142`, against line 105 and `echo_orchestrator.py:512`). |
| `canonical_evidence_floor` | Under the profile *evidence* the audit layer is active but depends on bypassed blocks, so the dependency rule skips it (`echo_orchestrator.py:722`, against 185-186: the floor is "never bypassable"). |
| `governed_leak_delivered` | A narrative that is nothing but a leak is redacted to the empty string, which reads as no redaction, and the original is delivered (`response_build.py:95`, against `tests/core/pipeline/test_coherence_enforcement.py:9`: "redacted text used in response"). |
| `governed_killswitch_blind` | The gate evaluates the switch before any block has measured anything, so on defaults; a turn whose ethics risk is beyond every threshold delivers its text under an armed switch (`kill_switch_gate.py:118`, against 29-36). |
| `causal_known_direction` | A value of zero counts as missing, so the known link is not added; the pair is observed all the same in alphabetical order and the known link is refused from then on (`causal_graph.py:557`, against 547-551). |

## Refinement

`TurnContract` says what a sequential turn promises without loop, guard,
snapshots or context: the blocks have their turn in the canonical order, each
is called or passed over once, an exit and a skipped dependency narrow what may
be called, always-on blocks are exempt from that, one retry may follow the
revision gate, a failure ends nothing. `PipelineRefinement` maps `Pipeline`'s
locals to it (`at` to the phase, `index` to the place, `executions`, `results` and
`earlyExit` as they are), and `pipeline_sequential` checks
`ImplementsTurnContract`: each of the steps of the loop is a step of the
contract or is not seen by it. `TheContractIsKept` proves it for every order, graph and
profile. The contract does not hold in parallel mode (`pipeline_exit_in_parallel`).

`GovernedTurn` in turn implements `KillSwitch` for every deployment and bound;
this is proved (`SwitchIsKept`).

## Fairness

Safety runs use none. `canonical_parallel` checks `RunsEnd` under `FairSpec`:
weak fairness of each run's `Step`. It stands for two facts: asyncio schedules
every ready task in turn, and a block's await ends (with a result, an error or
an exception). The second is an assumption about the blocks: the guard's
timeout is looked at between blocks and does not interrupt one. No fairness is
assumed between the outcomes of a block. The services make no progress of
their own — the breaker recovers, queues expire and caches age only when called,
a research session may be stopped before any experiment — so nothing is claimed
to happen in them eventually.

## Proofs

TLAPS checks all of these; assumptions are the `ASSUME`s of the component's
module, plus what is named here.

**`KillSwitch_proofs`**: `TypeCorrect`; `SustainedDriftTriggers`
(`DriftBounded`); `CooldownIsWhole` (`TimesConsistent`); `OnlyOperatorsRelease`
(`ReleaseIsAudited`); `AuditTrailIsChained` (`AuditChain`). The
properties are inductive together with the types. The chain needs a lemma about
`LogEvent`: cutting a sequence at its front keeps its neighbours neighbours.

**`Pipeline_proofs`**: `GuardIsSilent` and `AlwaysOnAreCalled`, in both modes,
for every order, graph, profile, grouping and fault budget, the second one in parallel mode
as long as copies succeed (a group that fails as a whole takes its always-on blocks with it), under
`OneTurnAtATime`: turns do not overlap, are not late, and the limits allow two
executions per block and one iteration per block. With the guard on, each of
these is needed: overlapping turns break the statement
(`echo_orchestrator.py:533`: a second turn's start resets the guard, and both count
into it), and with `max_block_executions = 1` the guard refuses
every block. The point of the theorem is that the guard counts each block
twice (in `should_abort` and in the pre-check) and records it up to three
times, so that its silence is not obvious. The invariant `TurnInv` says where
the one active turn is and what the guard has seen by then: nothing of the
blocks from the index on before an iteration (`Before`), one count after
`should_abort` (`Chosen`), two after the pre-check (`Counted`), and a record
that follows the block order with repetitions side by side (`FollowsOrder`).
Two halves of length N ≥ 2 of such a record cannot be equal: their first
elements are at least two places apart (`NoTwinHalves`). The always-on
blocks then follow from "every always-on block before the index was served",
because nothing but an abort ends the loop early. A block whose own
`should_skip` declines counts as served.

**`PipelineTurns_proofs`** is about everything else the loop promises, with any
number of overlapping turns and of failures. Where a theorem has hypotheses on the
constants, `MCPipeline` and `MCCanonical` state them as `ASSUME`s that TLC evaluates
(`GroupsAssumption`, `GateAssumption`, `FloorAssumption`), so that they are known to hold
of the canonical order and of the nine blocks; `NeedsAssumption` says which blocks `DependenciesFirst` is about there. Each action has one lemma that says
what it does to the locals of its run (`StartDoes` to `FinishDoes`); the theorems
rest on these and not on the text of the actions.

| theorem | property | hypotheses beside `PipelineAssumption` | inductive invariant |
|---|---|---|---|
| `TurnsAreTyped` | `TypeOK` | none | `TurnTypes`: also which of a group is due, and that the index is in the order while a block has its turn |
| `AnExitStops` | `EarlyExitStops` | no groups; the gate can neither exit nor is always-on, so that the retry, which asks nothing, never follows an exit | `ExitInv` |
| `NothingIsCalledTwice` | `NoDoubleExecution` | `GroupsStayAhead`: no group takes in a block whose place is behind. Without groups it holds (`SequentialStaysAhead`) | `CallsFit`: a block was called at most once if its place or its group has come, and once more if the retry is behind; what ran in groups is a function of the index (`GroupedAfter`) |
| `DependenciesComeFirst` | `DependenciesFirst` | `RetryEndsAtTheGate`. The property is about `Followers`, the blocks before whose group and before whose place all they need has its own | `Answered`: a block whose group has run, or whose place is behind, has a result or was lost; with `GroupsFit`, the part of `CallsFit` about groups |
| `TheFloorIsCalled` | `FloorRuns` | the floor has a closure under dependencies that nothing bypasses (`ClosesFloor`); with the guard on, `OneTurnAtATime` | `FloorServed`: without an exit no block of the closure was skipped and each one reached was called or lost |
| `SessionsAreIsolated` | `SessionsIsolated` | no rollback | `SessionInv`: what a run works on and saves it wrote itself, or a run of its session did |
| `TimeNeverGoesBack` | `TimeFloorHolds` | no rollback, or neither groups nor copies that fail | `TimeInv`: no time is ahead of the clock, and the floor has followed every context and snapshot |
| `AFailureCostsOneSuccess` | `LostWork` | not groups and rollback together | `LossBounded`: the snapshots lack one success more per place from the newest and per checkpoint not made, and are of blocks the run has left |
| `TheVerdictArrives` | `DirectiveDelivered` | no groups; with rollback, `response_build` follows the gate | `VerdictHolds` |
| `TheContractIsKept` | `ImplementsTurnContract` | no groups; the retry calls nothing behind the gate's place (`RetryEndsAtTheGate`); with the guard on, `OneTurnAtATime` | `KeepsOrder`: only blocks that were reached have calls, and what is answered as skipped is in `skipped_blocks` or declines |

The hypotheses are needed, and most mark a weakness of the code. Groups bypass an exit
(`pipeline_exit_in_parallel`) and lose the directive (below). `GroupsStayAhead` is
false for the intent *question*. With rollbacks a session sees another's writes
(`pipeline_rollback_session`): the manager, which is not keyed by session, is then
proved to be the only way between sessions. In the canonical order six blocks
are no `Followers` (below), and run before what they need. A group advances the time of the context
and leaves no checkpoint, so the floor does not follow, and a rollback after it forgets
the work of the whole group: TLC finds both on the nine blocks with other intent groups. `ClosesFloor` is false of the
profile *evidence* (`canonical_evidence_floor`), and with the short circuit that
`intent_classification` takes for a template answer: the skip travels to
`audit_layer` (below; `canonical_parallel` has no short circuits). A block between the gate
and `response_build` could fail and roll the directive back. The refinement maps each
of the contract's six actions to the orchestrator's: `Iterate` is the
step the contract does not see, unless the guard aborts, which `OneTurnAtATime` excludes.

The rollback manager's search and `GroupedAfter` are recursive functions; what is needed of them
is proved by the least counterexample (`LeastNumber`, from well-foundedness), since
the induction theorems of the library cannot be used here. **`RollbackManager_proofs`** has the
search, for both loops: what it finds is a place of a snapshot that the class keeps
(`KeptIsAPlace`).

**`HumanReviewQueue_proofs`**: `TypeCorrect`, `OnlyReviewersApprove`
(`ApprovalStands`), `ReviewsAreConserved`, `QueueStaysBounded`. `ApprovalStands`
is not inductive: a restart brings back whatever the file holds. `QueueInv`
says for the process *and* for the file that an archive entry of a review that
is not waiting carries its last decision (`Settled`), that reviews
not issued yet are nowhere, and that an unsaved change is the only
difference between the two. The bound likewise is proved of both queues
(`BothBounded`). `TheFileIsCurrent` (`FileIsCurrent`) rests on a count: an entry that
`LastKept` leaves out has more entries after it than any it keeps.

**`GovernedTurn_proofs`** is about the 46 real blocks, for every set of deployments, every
criterion and reading, every depth of snapshots (`GovernedAssumption`) and every budget of
trouble; what it takes of the readings is that a severity is one of the gate's ranks
(`ReadingsAssumption`). `SwitchIsKept`: `GovernedTurn` implements `KillSwitch`. Its lemma goes
through the actions of a turn: only `RunBlock` touches the switch, by one
`Evaluate`, and `Operate`, by one operator call. What is proved of the switch
alone therefore holds of it in the pipeline: `NoTurnReleases` (`ReleaseIsAudited`)
and `TurnsKeepTheTrail` (`AuditChain`).

What every turn promises:

| theorem | property | the part of `GovernedInv` that carries it |
|---|---|---|
| `TurnsAreTyped` | `GTypeOK` | `Typed`: the context, the built one and those in the snapshots have every key the blocks read |
| `StoppedTurnsAreSilent` | `ExitIsSilent` | `Silent`, and `Early`: before the narrative's place no context says anything, and no snapshot either, so that no rollback behind an exit brings a text back |
| `TurnsAnswer` | `EveryTurnAnswers` | `Answers`: from the place after `response_build` on there is an answer, by the block or by the exception it swallowed |
| `TheSeverestWins` | `SeverestWins` | `Decided`: once the gate has decided, the directive is the decision on what the context holds now, or a regeneration |
| `DeliveredIsJudged` | `JudgedAsDelivered` | `Told`: from `ethics_post_response` on, in the loop and at each of the retry's ten places, what was judged is the version that stands; from `entropy_amplitude_post_gate` on its entropy too |

`GovernedInv` is the conjunction of these and `Placed` (where the loop is when it retries or is
done); `TurnsAreGoverned` proves it, and TLC found it to hold on the states of `governed_turns` before. The
proof goes by blocks: for each of the 46, a lemma says which keys of the context its outcomes leave
alone (`BlockIsTame` puts them together), and the few that touch the text, a judgement or the directive
say what they make of it. `RunBlockDoes` and `RetryBlockDoes` take the loop's part, `KeptIsAPlace` that of a
rollback: a failure hands on the context of some snapshot, whichever it is.

**`Services_proofs`**: `LateAnswersDoNotCount` (`AnsweredInTime`);
`LearningIsJustified` (`AppliedIsJustified`); `RefusedExperimentsLeaveNoTrace` (`SurfaceRestored`)
and `TheRatchetHolds` (`BaselineRatchets`). The gate's reasons are on the update it judged, so
`LearningInv` says that an applied one is `Justified`, whoever proposed it, and that one of the
observer's carries the zone of the registry and moves by a moderate step or states its delta
honestly. Of another module's update no more is proved than the gate checks: the limits are its own. The research loop has two layers that bring a
value back, the commit and the snapshot in a data directory that is stashed around
the reset: `TwoLayers` says at which of eight places in an experiment which of the
two holds the kept value, `Located` where the directory is meanwhile, and `BestIsKept`
what the baseline says of it, as far as the history of failures allows.
Of the circuit breaker: `BreakerIsTyped`, `StateFitsCount`, `NeverStuckOpen`,
`RecoveryIsLimited`, `OpeningHoldsTurnsBack`, `OperatorClosesOpen` (no gate closes an
open breaker), for any number of turns. `BreakerInv` adds what the state alone does not say:
while half-open, the turns admitted are covered by the counted trials, and an
opening that is remembered in a breaker that is not open is over.

**`Stores_proofs`**: `TombstonesAreFinal` (`RestrictionsHold`): a gone event has an erased row and an
audit entry. `GoalsSurviveRestarts` (`GoalsAreSaved`): a file is whole or unreadable, and the
history says when it is the process's state. `RecallIsFresh` (`AnswersAreRecent`): a cache entry has
seen all that was stored before its timestamp (`EntriesSaw`), though a retrieval may
have awaited its embedding meanwhile. `VersionsAreForEver` (`VersionsKeepTheirState`): numbers
rise along the list, also after a rollback and the cut at its limit. `ThePastStands`
(`QueriesAreHistory`): the last entry before a turn is what was told then
(`KeptIsCurrent`), and something is missing only if the timeline is full.

Of the causal graph: `TheGraphIsAcyclic` (`Acyclic`) and `EffectsComeAfter`
(`EffectsFlowDownstream`), for any number of variables and any sequences of known links and of
pairs to observe (`LinksAssumption` gives their types). The two are inductive together,
and the work is in the loops. `Downstream` is the least set closed under the arrows
(`DownstreamIsClosed`, `DownstreamIsLeast`); an arrow whose target does not lead to its source closes no cycle
(`OneMoreArrow`); each round of a loop over links keeps the graph acyclic and only adds to it
(`AttemptedKeeps`), so all rounds do (`AllLinkedKeeps`, by the least counterexample), in
whatever order discovery lists its links and whatever cycles it proposes. A graph that
grows only adds descendants, so an effect stays one.

Of the notifications: `NotificationsAreKept` (`NotesAreKept`). `NoteInv` says of the lists *and* of the file that no
id is in them twice, and that the forgotten ones are exactly those in neither list; that a list
then has as many entries as ids is counted from it.

The proofs of the queue's bound, of the types of switch, queue and breaker, of `OpenIsTimed` and of
`OnlyResetClosesOpen` have no run of their own: they hold for every value of the constants, and
the runs ask harder questions of the same components.

Only model-checked: `RunsEnd`, because liveness under fairness is beyond the prover. Every other
property of a passing run has a theorem. The violation runs' statements are false and have none. No
module declares a `RECURSIVE` operator; recursive functions (the searches for a snapshot, the
groups behind an index, the rounds of a loop over links) are reasoned about by their least
counterexample. What the folds of `Oriented` compute is not: the theorems about the graph
hold for whatever arrows discovery proposes.

## Where the code and its documentation differ

Beyond the six violation runs, the modelling met the following. They are kept
here because the models either reproduce them or stop short of them.

Orchestrator (`core/orchestrator/`):

- Intent groups can call blocks twice. The sequential half does not add to
  `executed_blocks` (`echo_orchestrator.py:643`), so when the intent's groups are
  used up the static group contains blocks that already ran. With the groups of
  the intent *question* on the 46 blocks TLC finds it for `kill_switch_gate`
  and its neighbours. Lines 224-230 worry about double writes in the retry only.
- The intent is read from the metadata before the loop
  (`echo_orchestrator.py:536-541`), so the result of `intent_classification`
  never influences the grouping of its own turn.
- The retry calls every registered block of its list (`:460`), also those
  that the profile bypassed, against `:182-183`.
- Parallel groups ignore profile, intent skips, `should_skip` and dependencies
  on skipped blocks (`:611`).
- A short circuit enters its blocks into `skipped_blocks` (`:923`), but the loop
  uses that set only for the blocks that depend on them: the listed blocks are still
  called, and `audit_layer`, which the optimizer wants preserved
  (`early_exit_optimizer.py:69-75`), is skipped.
- The canonical order violates `block_dependencies.json`; the constructor logs
  a warning (`:172-174`). In the parallel mode the blocks that are no `Followers` are `cep_evaluation` (before `narrative_layer`), `phi_publish` (before
  `phi_computation`), and of `narrative_layer`, `unified_state_update_esc`,
  `entropy_amplitude_post_gate` and `neurotransmitter_memory_growth` (all before
  `state_update_physics`); in sequence also `entropy_amplitude_pre_gate` (before
  `cognitive_layer`).
- The failing block has no snapshot of its own, so a rollback discards the last
  successful block's work too, and in later turns it may go back to an earlier
  turn (`rollback_manager.py:124-142`). A restore also drops time keys the
  snapshot lacks (`:200`, against 36-37).
- `max_block_executions = 1`, which the profile schema accepts, refuses every
  block (`echo_orchestrator.py:782`), since the block was counted before.
- In parallel mode the revision directive is written into a copy and lost
  (`parallel_executor.py:274, 446-487`; `response_revision_gate.py:203`).
- `initialize_unified_state` builds a new state over the one loaded for the
  session (`block_factory.py:260`, against `docs/EXAMPLES.md:410`).
- `response_build.py:173-175` looks for `early_exit_triggered` in the metadata,
  where nothing writes it.

- A group that fails as a whole counts as executed. One copy of the metadata that fails makes the
  executor return nothing for the group (`parallel_executor.py:269-274, 396-407`), and the loop
  takes all of its blocks for executed (`echo_orchestrator.py:643`): of the first group the
  always-on computations, the kill switch's gate and the input gate are never called, against line
  942, "Always-on blocks must still execute even if previous blocks fail". With `CopiesFail` on, TLC
  finds `AlwaysOnExecuted` violated. An answer that is no `BlockResult`
  (`parallel_executor.py:371-373`) has the same effect, after all were called.
- A checkpoint whose copy fails is swallowed before it has raised the floor of the time
  (`rollback_manager.py:100`), so the next rollback sets the time back, against 36-37, "never rolled
  back". With `CopiesFail` on, TLC finds `TimeFloorHolds` violated in `pipeline_sequential`.
- A block's answer whose data is no dict raises outside every `try` (`:647`) and ends the call.

- Overlapping turns share one guard (`echo_orchestrator.py:533`): the start of one
  resets the counts of the other, and both count into it, so a turn may be
  aborted although none of its blocks ran twice. Snapshots are never cleared
  (`clear_checkpoints` has no caller), so their list grows for the process's life.
- Two overlapping turns of *one* session both load, change and save the state; the
  last save wins (`echo_orchestrator.py:1035`).

Blocks (`core/pipeline/blocks/`; reproduced by `TurnBlocks` unless said otherwise):

- The short circuit of a template answer puts `cognitive_layer`, which has already run,
  among the skipped blocks, and `ethics_post_response` depends on it: a
  template's text is judged by no block (`echo_orchestrator.py:923`).
- An injected entropy computer whose result has no entropy is ok and keeps the old reading
  (`entropy_computation.py:113-134`), so after a retry the gate judges the new text by the
  entropy of the old one with no block failed.
- A failure after the retry rolls the metadata back to before it, the narrative included.
- The drift breaker's exit comes after the narrative and passes over the revision gate:
  that narrative is delivered ungated. In legacy mode one exception in drift detection
  rolls back past `ethics_post_response`.
- The clarifying question of `input_safety_gate` is never delivered
  (`response_build.py:173-176`, above). "A human reviewer has been notified." is said where
  nothing notifies (`:131`). `audit_layer`, which the optimizer preserves when
  the safety gate exits, is not called.
- `rewrite` with an empty narrative delivers the bare prefix.
- With `fail_closed` the input gate blocks every turn: it needs the frame, which a block
  after it creates (`input_safety_gate.py:240`). An
  exception in `knowledge_boundary_check` makes the block fail, although it has a fallback.
- `entropy_amplitude_pre_gate` writes the entropy of the turn before, which can
  be the one the revision gate reads if the block that measures it fails.
- The counterfactual block waits for `drift_result`, which no block writes, and never
  analyses anything; the memory boost is left for the next turn in the metadata of this one
  (`outcome_feedback.py:107`);
  `workspace_broadcast` drops its events when `ethics_result` is there and `None`.
- The merge of a block's data drops values that are not primitive, lists or
  dicts, and replaces the frame object by a dict.

Services:

- With `fail_closed` off an evaluation that raises has already moved the drift
  count and logs nothing (`kill_switch.py:216`, against line 18).
- The breaker's failure count is documented as consecutive failures
  (`circuit_breaker.py:53, 63`) but successes less than a minute apart never
  clear it (`:202`). A clean report of a turn admitted before the opening closes a
  half-open breaker (`:194`). A risky vector in a half-open breaker opens it at
  once, because the count is still at the threshold. Its own `drift_threshold`
  is never read.
- `_review` does not ask `is_expired`: a verdict after the deadline is accepted
  when nothing has swept the queue (`human_in_the_loop.py:323`, against line 11:
  "unreviewed items auto-DENY"). Eviction ignores `CRITICAL` priority
  (`:198`, against line 10). `docs/mappings/owasp-agentic-ai-2025.md:273`
  sends expired entries to `kill_switch.evaluate()`; nothing does.
- `human_approval.py:133-135` computes a deadline with
  `replace(minute=minute + timeout)`, which raises in the second half of every
  hour with the default timeout of 30, after up to ten pending requests have
  been evicted. The eviction takes stale requests first and counts them, so more than
  `max_pending` (`:80`) can be alive.
- `NotificationLog.add` means that "AI participants always target founder"
  (`notification_log.py:134`, and 79), but lists all three participants as targets (`:138`), so
  an AI can notify the other.
- Goal store: `block()` reopens completed and abandoned goals; an applied
  revision sets `COMPLETED` without `completed_at` and progress, and keeps later
  proposals out (`goal_persistence.py:325`); an instance that was auto-loaded has
  auto-save off; an unknown status in a file is not caught; `set_session` to an existing id
  overwrites that session's file.

Research and learning:

- `park` cannot be reached. A process killed in an experiment leaves the changed file, and
  nothing looks for it later. The result of `git revert` is not looked at; a push
  to the stash that fails without a word leads to a pop of an older entry; after
  a pop that failed the audit directory is missing and the session raises.
- `_apply_parameter_edit` has no anchor at the end of the number, so 1.1 matches
  in 1.15; `config.py` and `scoring.py` have different tables of the complexity tax.
- `OutcomeObserver._create_update` clamps the proposed value but not the delta, and the gate
  rejects every update that was clamped. Its current value is the last experiment's old
  value, which a kept experiment has replaced. Each parameter is proposed once ever.
- The gate asks the registry only where an update declares "adaptive" (`:111`), and judges any zone
  but "gated" and "immutable" as adaptive (`:169-203`): an update of an immutable parameter with a
  zone of its own is applied, against line 73, "IMMUTABLE: Always rejected".
- The gate judges by the limits an update carries (`:214, 231`), skips the bound when the delta is missing or the current value zero
  or no number (`:187-200`), takes the delta as stated, approves evidence that is consistently
  negative, queues a "gated" update of an immutable parameter, can never
  apply a gated one, and applies a rolled-back one that is submitted again.

Causality:

- `_orient_edges` passes the arguments of its cycle test the wrong way round
  (`structure_learning.py:346-351`), so its result can be cyclic, against "ensuring
  acyclicity"; `add_causal_link` then refuses one of the links.
- Values are recorded once per pair (entropy five times a turn), so correlations mix
  turns and 20 observations are there after four; discovery counts the same data again.
- `preview_risk` ("without applying changes", `simulator.py:218-222`) writes into the live
  graph, and the block then simulates again; `compare_actions` simulates the second action on the
  result of the first; simultaneous interventions overwrite each other's forced value.
- At `max_nodes` links to nodes that are not registered are still added.
  `estimate_total_effect` sums all paths, `_propagate` follows the first.
  `import_from_graph_engine`, which a docstring names, does not exist.

Memory and world:

- A search that fails, or one with the zero vector of a failed embedding, is cached as an
  empty answer for the whole lifetime (`rag_service.py:165`). The limit is not part of the
  key. A memory stored with the zero vector is never found.
- `TraceStore(":memory:")`, the default, opens a new database per call.
- The erasure of an unknown event is audited, and the event can be stored afterwards
  (`trace_store.py:128-134, 365-373`; `AuditMatchesStore` says it and does not hold). The
  payload stays in the row and in the log file, against "permanently deleted". The
  `SELECT` and the `INSERT` of `store_event` are separate transactions.
- `ForgettingManager`: a second suppression overwrites the original intensity, and
  suppress, erase, restore brings a memory back.
- `temporal_tracker.py:140-166`: under "higher_confidence" the discarded value becomes
  the current one; `verify_chain` compares hashes, not parents.

## Abstractions

- A block is what the orchestrator can see of it: success, decline, error or
  exception, with or without partial writes, early exit, short circuit, the
  directive. What it writes is the pair ⟨run, block⟩; `unified_state` is the
  set of pairs that changed it. Values, metrics and telemetry are left out.
- Loading the state and resetting the guard is one action, since every await in
  between belongs to the load. A group is one step: its members run on deep
  copies and meet at the merge, so their interleaving is not observable.
- A deep copy may fail where `CopiesFail` says so; each failure of a copy, a group or a
  block counts against `MaxFaults`. A block that is reported ok while its checkpoint is lost is one fault.
- A parallel member's exit implies that it succeeded. A gate that can ask for an
  exit and a short circuit asks for both, as the optimizer's conditions do.
- The wall clock in the guard is a nondeterministic `late`; the kill switch,
  the breaker and the queue have ticks. The breaker's count stops at the
  threshold, the only value it is compared with.
- A block of `TurnBlocks` is what the turn reads of it: guards, exits, failures it swallows
  or lets through, and the keys another block or the user reads. The readings
  that may be bad in a turn are chosen at its start (`trouble`), the moment
  and version they show at is the blocks' doing. A text is its version, how
  much of it matches a leak pattern and whether many patterns match. Its snapshots are kept to a depth that no
  turn can exhaust.
- In `GovernedTurn` the operator acts before turns: nothing in a turn reads the switch
  after the first block.
- The three outcomes of a review save are success, failure to open (old file
  stays) and failure after truncation (empty file). A submission that sweeps
  saves twice; a crash between the two is a sweep followed by a restart. One
  process owns the file. Reviews expire in the order of submission because one
  configuration value sets all deadlines.
- Research: one parameter of one file, quality scores as numbers per value, costs and
  latency unmeasured (as the loop leaves them), strategies as arbitrary plans.
  Learning: fractions by multiplication; zero stands also for a value that is no number. Approvals: an hour of a few parts.
- Causality: which pairs depend, which triples collide and which links carry an effect are
  arbitrary; the strength of links is left out. Memory: relevance and limit are left out, any
  entry may have the lowest impact, one key is one question. Events: one process per database. World: one
  attribute of one entity; confidences, hashes and differences are left out. Goals: progress is
  done or not; one process at a time, as for the notifications.
- `Runs`, `MaxFaults`, `MaxTrouble`, `MaxTurns`, `MaxCalls`, `MayRaise`, `MaxItems`,
  `MaxFilings`, `MaxTime`, `MaxDrift`, `MaxSessions`, `MaxGitFailures`, `MaxRecords`,
  `MaxUpdates`, `MaxRequests`, `MaxClock`, `MaxGraphCalls`, `MaxMemories`, `MaxMemoryClock`,
  `MaxGoalCalls`, `MaxNotes`, `MaxTurn`, `MaxUpdatesSeen` and `MaxSnapshots` are bounds of the models and not of the code.

## Not modelled

Real-valued physics, fusion and estimation; scoring of text; cryptography,
schemas and migrations; SQL; loading of configuration; telemetry; the
wrappers that add no state (`run()`, the karpathy pipeline); command-line tools,
studies and experiments. These are most of the repository's lines: what is
modelled is the part that keeps state, orders steps or decides what the
user gets. Of the runtime profiles only *evidence* is used with
the canonical instance, and the declared reads and writes of blocks are not. The
goal store is not assembled with a session or auto-save, and no block adds a goal to it:
`GoalPersistence` stands beside the turn.
The response cache of safe mode, the embedding cache and the baselines of
drift detection are looked up by nothing that a turn depends on. Consolidation and
deliberative ethics are pure functions of their arguments. Root causes,
counterfactuals and effect estimates only read the causal graph. A research session's dry
run and its reports are left out. Overlapping turns of the *same* session, a lost update, are
in no run.

## Plan

Order of work, most important first; what is ticked is done.

1. ✓ Turn pipeline with guard, rollback, groups and retry; canonical instance;
   kill switch; circuit breaker around its await; review queue with its file.
2. ✓ `TurnContract` and its refinement by `Pipeline`.
3. ✓ `TurnBlocks` and `GovernedTurn`: the real blocks in the loop, under the kill
   switch, with the proof that the composition implements the switch.
4. ✓ `ResearchLoop`, `LearningLoop`, `HumanApproval`.
5. ✓ `CausalModel`, `MemoryCache`, `TraceStore`, `WorldState`, `GoalPersistence`, `NotificationLog`.
6. ✓ Theorems: every safety property of every passing run, the refinement of `TurnContract` by
   `Pipeline` and that of `KillSwitch` by `GovernedTurn`.
7. Models: the signed control state of the agent tools with its override; overlapping turns of one session on the store.
8. Pure algorithms against reference definitions: deliberative ethics, validation of the
   block order.

## Reproducing

```
tlc -config MCPipelineSequential.cfg MCPipeline
tlapm Pipeline_proofs.tla
```

and likewise for each run of `PROJECT.json`. The longest runs (`stores`, `governed`)
take between one and three minutes on two workers, the longest proof about two minutes.
