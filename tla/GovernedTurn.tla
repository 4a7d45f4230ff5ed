---------------------------- MODULE GovernedTurn ----------------------------
(***************************************************************************)
(* A turn of the 46 canonical blocks, in sequence, under the kill switch   *)
(* of the process: execute_pipeline (echo_orchestrator.py) composed with   *)
(* the blocks of TurnBlocks, the rollback manager and KillSwitch.          *)
(*                                                                         *)
(* Pipeline asks what the loop does with blocks that may do anything; this *)
(* module asks what the real blocks, in that loop, hand to the user.       *)
(* Operators reach the switch only between turns: nothing reads it after   *)
(* the first block, so a later call is the same as one after the turn.     *)
(***************************************************************************)
EXTENDS KillSwitch, TurnBlocks

CONSTANTS
    Configurations, \* the sets of collaborators a deployment may inject
    MayRaise,       \* bound: the blocks whose faults are enabled
    MaxTrouble,     \* bound: criteria that may read badly, plus faults
    MaxFaults,      \* bound: exceptions and lost checkpoints in a turn
    MaxTurns,       \* bound: turns in a behaviour
    MaxCalls,       \* bound: calls of the operator
    Depth           \* bound: snapshots kept, more than MaxFaults can pop

ASSUME GovernedAssumption == Depth \in Nat

Contract == INSTANCE CanonicalContract
Rollback == INSTANCE RollbackManager

VARIABLES
    turn,       \* the locals of execute_pipeline
    context,    \* current_context
    rollback,   \* self.rollback_manager
    built,      \* the context response_build left: a rollback may undo it
    calls       \* operator calls so far

gvars == <<vars, turn, context, rollback, built, calls>>

Order == Contract!CanonicalOrder
AlwaysOn == Contract!CanonicalAlwaysOn

RetryOrder == Contract!CanonicalRetryOrder

RegenMaxAttempts == 1           \* _REGEN_MAX_ATTEMPTS

Current == IF turn.at = "retry" THEN RetryOrder[turn.retry] ELSE Order[turn.index]

Idle == [at |-> "idle", index |-> 1, retry |-> 0, skipped |-> {}, exited |-> FALSE,
         silenced |-> FALSE, gated |-> FALSE, beyond |-> FALSE, faults |-> 0,
         count |-> 0]

NoContext == FreshContext({}, FALSE, FALSE, {}, Absent)

GInit ==
    /\ Init
    /\ turn = Idle
    /\ context = NoContext
    /\ rollback = Rollback!FreshManager
    /\ built = NoContext
    /\ calls = 0

\* A turn with its collaborators, its input and the readings in store for it.
\* The entropy of the turn before comes with the call.
Begin ==
    /\ turn.at \in {"idle", "over"}
    /\ turn.count < MaxTurns
    /\ turn' = [Idle EXCEPT !.at = "block", !.count = turn.count + 1]
    /\ \E services \in Configurations, legacy, short \in BOOLEAN,
          trouble \in SUBSET Criteria, sev \in Severe["entropy"] \cup {Pass} :
         /\ Contract!Cardinality(trouble) <= MaxTrouble
         /\ sev # Pass => "entropy" \in trouble
         /\ context' = FreshContext(services, legacy, short, trouble,
                                    [Absent EXCEPT !.sev = sev])
    /\ rollback' = Rollback!FreshManager
    /\ built' = NoContext
    /\ UNCHANGED <<vars, calls>>

-----------------------------------------------------------------------------
(* The loop *)

\* The reasons for which the loop passes the block over: an exit, the block's
\* own should_skip, a skipped dependency.
PassesOver(b) ==
    \/ turn.exited /\ b \notin AlwaysOn
    \/ ShouldSkip(b, context)
    \/ Contract!CanonicalDependencies[b] \cap turn.skipped # {} /\ b \notin AlwaysOn

BugPastTheEnd(t) ==
    IF t.index > Len(Order) THEN [t EXCEPT !.at = "over"]
    ELSE [t EXCEPT !.at = "block", !.index = @ + 1]

Advanced(t) ==
    IF t.index = Len(Order) THEN [t EXCEPT !.at = "over"]
    ELSE [t EXCEPT !.at = "block", !.index = @ + 1]

PassOver ==
    /\ turn.at = "block"
    /\ PassesOver(Current)
    /\ turn' = Advanced([turn EXCEPT !.skipped = @ \cup {Current}])
    /\ UNCHANGED <<vars, context, rollback, built, calls>>

\* Only Depth snapshots are kept: no more can be popped in a turn.
Trimmed(manager) ==
    LET s == manager.snapshots IN
    [manager EXCEPT !.snapshots =
        IF Len(s) > Depth THEN SubSeq(s, Len(s) - Depth + 1, Len(s)) ELSE s]

\* After a successful block a checkpoint, if the copy is made, after a failed
\* one the rollback, which the always-on blocks are spared; a declined one
\* leaves both alone.
Snapshots(b, o, copied) ==
    IF o.status = "ok"
    THEN [manager |-> Trimmed(Rollback!CreateCheckpoint(rollback, b, o.settled, copied)),
          context |-> o.settled]
    ELSE IF o.status = "error" /\ b \notin AlwaysOn
    THEN Rollback!RollbackToCheckpoint(rollback, b, o.settled)
    ELSE [manager |-> rollback, context |-> o.settled]

\* The bounds admit a fault of block b.
MayFault(b) ==
    /\ b \in MayRaise
    /\ turn.faults < MaxFaults
    /\ Contract!Cardinality(context.trouble) + turn.faults < MaxTrouble

Outcomes(b, triggered) ==
    {o \in Execute(b, context, triggered) : o.fault => MayFault(b)}

\* _maybe_regenerate is entered when the gate's block left this directive.
Regenerates(c) == c.directive = Regenerate /\ c.attempts < RegenMaxAttempts

\* Mutant of AfterBlock: nobody looks for the exit.
BugExitLost(b, o, copied) ==
    Advanced([turn EXCEPT !.silenced = @ \/ (o.exit /\ context.text = NoText),
                          !.faults   = IF o.fault \/ ~copied THEN @ + 1 ELSE @])

\* The exit, the short circuit and the retry, which only the end of the loop
\* body enters: a failure continues with the next block.
AfterBlock(b, o, copied) ==
    LET told == [turn EXCEPT
          !.exited   = @ \/ o.exit,
          !.silenced = @ \/ (o.exit /\ context.text = NoText),
          !.skipped  = @ \cup (IF o.cut THEN Contract!CanonicalShortCircuit[b] ELSE {}),
          !.gated    = @ \/ (b = "response_revision_gate" /\ o.status = "ok"),
          !.beyond   = @ \/ (b = "ethics_pre_response" /\ o.context.ethics.sev = Reject),
          !.faults   = IF o.fault \/ ~copied THEN @ + 1 ELSE @]
    IN  IF b = "response_revision_gate" /\ Regenerates(o.settled)
        THEN [told EXCEPT !.at = "retry", !.retry = 1]
        ELSE Advanced(told)

\* One block of the sequence.  The kill switch is evaluated by its gate, on
\* metadata that no block has written yet, so on the defaults.  A checkpoint
\* that was not made counts as a fault of the block.
RunBlock ==
    /\ turn.at = "block"
    /\ ~PassesOver(Current)
    /\ IF Current = "kill_switch_gate" /\ Has(context, "kill_switch")
       THEN Evaluate("fine", "fine", FALSE) ELSE UNCHANGED vars
    /\ \E o \in Outcomes(Current, state' = "triggered"), copied \in BOOLEAN :
         LET b == Current
             after == Snapshots(b, o, copied)
             enters == b = "response_revision_gate" /\ Regenerates(o.settled)
         IN  /\ ~copied => o.status = "ok" /\ MayFault(b)
             /\ turn' = AfterBlock(b, o, copied)
             /\ rollback' = after.manager
             /\ context' = IF enters THEN [after.context EXCEPT !.attempts = @ + 1]
                           ELSE after.context
             /\ built' = IF b = "response_build" THEN o.context ELSE built
    /\ UNCHANGED calls

\* One block of the retry: whatever it answers, its data are merged and the
\* next one called.
RetryBlock ==
    /\ turn.at = "retry"
    /\ \E o \in Outcomes(Current, FALSE) :
         LET told == [turn EXCEPT !.faults = IF o.fault THEN @ + 1 ELSE @] IN
         /\ context' = o.context
         /\ turn' = IF turn.retry = Len(RetryOrder)
                    THEN Advanced([told EXCEPT !.retry = 0])
                    ELSE [told EXCEPT !.retry = @ + 1]
    /\ UNCHANGED <<vars, rollback, built, calls>>

Operate ==
    /\ turn.at = "idle"
    /\ calls < MaxCalls
    /\ calls' = calls + 1
    /\ ManualTrigger \/ Reset \/ Disarm \/ Arm
    /\ UNCHANGED <<turn, context, rollback, built>>

Closed == turn.at = "over" /\ turn.count = MaxTurns /\ UNCHANGED gvars

GNext == Begin \/ PassOver \/ RunBlock \/ RetryBlock \/ Operate \/ Closed

GSpec == GInit /\ [][GNext]_gvars

-----------------------------------------------------------------------------
(* Properties *)

Over == turn.at = "over"
response == built.response
Texts == [version : 0 .. 1 + RegenMaxAttempts, kind : Kinds, matches : Matches]
Delivered == response.what \in {"narrative", "redacted"}

\* A template's short circuit puts cognitive_layer, which has run, among the
\* skipped blocks, and with it what depends on it: the judges of the text.
Template == "cognitive_layer" \in turn.skipped

GTypeOK ==
    /\ TypeOK
    /\ turn.index \in 1 .. Len(Order)
    /\ turn.retry \in 0 .. Len(RetryOrder)
    /\ turn.skipped \subseteq Contract!CanonicalBlocks
    /\ {context.text, context.qa, built.text, response.text} \subseteq Texts
    /\ context.directive \in NoDirective .. Reject
    /\ context.attempts \in 0 .. RegenMaxAttempts
    /\ Len(rollback.snapshots) <= Depth

(***************************************************************************)
(* A turn that was stopped before the narrative says nothing of its own:   *)
(* whatever the short circuits, rollbacks and always-on blocks do next, no *)
(* narrative of it reaches the user.  kill_switch_gate.py:36, "If any      *)
(* condition triggers, the pipeline is halted"; echo_orchestrator.py:687.  *)
(***************************************************************************)
ExitIsSilent == Over /\ turn.silenced => ~Delivered

(***************************************************************************)
(* The most severe signal wins to the end: a turn whose revision gate      *)
(* spoke delivers a text only if no criterion, as it stands when the       *)
(* answer is built, asks to regenerate or reject.  Neither a second        *)
(* reading in the retry nor one left over from before it may get around    *)
(* that.  response_revision_gate.py:395-469, response_build.py:124-170.    *)
(***************************************************************************)
SeverestWins ==
    Over /\ turn.gated /\ Delivered => \A s \in Severities(built) : s < Regenerate

(***************************************************************************)
(* The text that is delivered is the one that was judged: when no block    *)
(* failed, the coherence, the ethics and the entropy the revision gate saw *)
(* are of the delivered version, also after the retry has replaced the     *)
(* narrative.  A template's text is not judged at all, and an injected     *)
(* entropy computer may answer ok without an entropy, so that the old one  *)
(* stands: the built-in formula always gives one.                          *)
(* echo_orchestrator.py:231-242 and 453-473, ethics_post_response.py:85,   *)
(* entropy_computation.py:81-134.                                          *)
(***************************************************************************)
JudgedAsDelivered ==
    Over /\ Delivered /\ ~turn.exited /\ ~Template /\ turn.faults = 0 =>
        /\ built.qa.version = response.text.version
        /\ built.ethics # Absent => built.ethics.of = response.text.version
        /\ built.entropy # Absent /\ ~Has(built, "entropy_computer") =>
              built.entropy.of = response.text.version

(***************************************************************************)
(* Every turn answers: whatever exits, declines or fails, response_build   *)
(* has built something for the user.  echo_orchestrator.py:938-948.        *)
(***************************************************************************)
EveryTurnAnswers == Over => response.what # "nothing"

(***************************************************************************)
(* A text that matches a leak pattern is not delivered as it is.           *)
(* tests/core/pipeline/test_coherence_enforcement.py:9, "State leak ->     *)
(* redacted text used in response".                                        *)
(***************************************************************************)
LeakNeverDelivered == Over /\ response.what = "narrative" => ~Leaks(response.text)

(***************************************************************************)
(* With a risk beyond its threshold measured in the turn, a switch that    *)
(* is watching stops the turn.  Reject stands for every risk from the      *)
(* revision gate's 0.85 up, the switch's threshold included.               *)
(* kill_switch_gate.py:27-36, "Evaluates emergency shutdown conditions     *)
(* each turn: 1. Ethics max risk from ethics_pre_response".                *)
(***************************************************************************)
KillSwitchSees ==
    Over /\ turn.beyond /\ state \in Watching /\ Has(context, "kill_switch") =>
        ~Delivered
=============================================================================
