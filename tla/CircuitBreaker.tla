--------------------------- MODULE CircuitBreaker ---------------------------
(***************************************************************************)
(* The circuit breaker of phionyx_core/monitoring/circuit_breaker.py and   *)
(* its one caller, the block behavioral_drift_detection.                   *)
(*                                                                         *)
(* The block factory builds one breaker for all turns.  A turn asks the    *)
(* pre-gate, awaits the drift detector (which reads a baseline from a      *)
(* database and compares vectors), and hands the report to the post-gate.  *)
(* Each gate runs without suspension and is one action; other turns, the   *)
(* clock and an operator's reset come between the two.                     *)
(*                                                                         *)
(* The code keeps the times of the last failure and success and compares   *)
(* how long ago they were; the model keeps the ages themselves and lets    *)
(* them stop one tick beyond the largest value that makes a difference, as *)
(* the failure count stops at the threshold it is compared with.           *)
(***************************************************************************)
EXTENDS Integers

CONSTANTS Turns,              \* turns that use the breaker
          FailureThreshold,   \* failure_threshold
          RecoveryTimeout,    \* recovery_timeout, in ticks
          HalfOpenTestLimit,  \* half_open_test_limit
          GracePeriod         \* the 60 seconds of check_after_execution

ASSUME BreakerAssumption ==
    /\ FailureThreshold \in Nat \ {0}
    /\ RecoveryTimeout \in Nat
    /\ HalfOpenTestLimit \in Nat
    /\ GracePeriod \in Nat

VARIABLES circuit,       \* self.state
          failureCount,  \* self.failure_count, up to FailureThreshold
          sinceFailure,  \* age of self.last_failure_time
          sinceSuccess,  \* age of self.last_success_time
          trials,        \* self.half_open_executions
          turn,          \* what the drift block does for each turn
          sinceOpening,  \* history: age of the latest opening, until a reset
          admitted       \* history: turns let through in this half-open period

breaker == <<circuit, failureCount, sinceFailure, sinceSuccess, trials>>
bvars == <<breaker, turn, sinceOpening, admitted>>

Never == -1      \* the age of a time that is None

BreakerTypeOK ==
    /\ circuit \in {"closed", "open", "half_open"}
    /\ failureCount \in 0 .. FailureThreshold
    /\ sinceFailure \in {Never} \cup 0 .. RecoveryTimeout + 1
    /\ sinceSuccess \in {Never} \cup 0 .. GracePeriod + 1
    /\ trials \in 0 .. HalfOpenTestLimit
    /\ turn \in [Turns -> {"arriving", "detecting", "exited", "passed"}]
    /\ sinceOpening \in {Never} \cup 0 .. RecoveryTimeout + 1
    /\ admitted \in Nat

BreakerInit ==
    /\ circuit = "closed"
    /\ failureCount = 0
    /\ sinceFailure = Never
    /\ sinceSuccess = Never
    /\ trials = 0
    /\ turn = [t \in Turns |-> "arriving"]
    /\ sinceOpening = Never
    /\ admitted = 0

-----------------------------------------------------------------------------
(* check_before_execution(context) *)

TimedOut == sinceFailure # Never /\ sinceFailure > RecoveryTimeout

\* Mutant of Recovers: an open breaker lets the next turn try at once.
BugRecoversAtOnce == circuit = "open"

\* An open breaker whose recovery timeout has expired goes on as half-open,
\* with a new count of trials, within the same call.
Recovers == circuit = "open" /\ TimedOut
StateAtGate == IF Recovers THEN "half_open" ELSE circuit
TrialsAtGate == IF Recovers THEN 0 ELSE trials
AdmittedAtGate == IF Recovers THEN 0 ELSE admitted

\* self.failure_count += 1
OneMore(count) == IF count < FailureThreshold THEN count + 1 ELSE count

\* Every path to OPEN but the post-gate's sets the failure time itself.
Open ==
    /\ circuit' = "open"
    /\ sinceFailure' = 0
    /\ sinceOpening' = 0

\* Still open: the turn exits early, and nothing else changes.
RefuseOpen(t) ==
    /\ StateAtGate = "open"
    /\ turn' = [turn EXCEPT ![t] = "exited"]
    /\ UNCHANGED <<breaker, sinceOpening, admitted>>

\* Mutant of LimitReached: one trial too many.
BugLimitReached == TrialsAtGate > HalfOpenTestLimit

LimitReached == TrialsAtGate >= HalfOpenTestLimit

\* Too many trials without a report: back to open.
RefuseTrial(t) ==
    /\ StateAtGate = "half_open"
    /\ LimitReached
    /\ Open
    /\ trials' = TrialsAtGate
    /\ admitted' = AdmittedAtGate
    /\ turn' = [turn EXCEPT ![t] = "exited"]
    /\ UNCHANGED <<failureCount, sinceSuccess>>

\* Closed, or half-open with a trial left: the trial is counted, then a high
\* risk in the ethics vector is a failure that may open the breaker.
MayTry == /\ StateAtGate # "open"
          /\ StateAtGate = "half_open" => ~LimitReached
Tried == TrialsAtGate + (IF StateAtGate = "half_open" THEN 1 ELSE 0)

RefuseRisky(t) ==
    /\ MayTry
    /\ failureCount' = OneMore(failureCount)
    /\ failureCount' >= FailureThreshold
    /\ Open
    /\ trials' = Tried
    /\ admitted' = AdmittedAtGate
    /\ turn' = [turn EXCEPT ![t] = "exited"]
    /\ UNCHANGED sinceSuccess

Admit(t, risky) ==
    /\ MayTry
    /\ failureCount' = IF risky THEN OneMore(failureCount) ELSE failureCount
    /\ risky => failureCount' < FailureThreshold
    /\ circuit' = StateAtGate
    /\ trials' = Tried
    /\ admitted' = IF StateAtGate = "half_open" THEN AdmittedAtGate + 1
                                                ELSE AdmittedAtGate
    /\ turn' = [turn EXCEPT ![t] = "detecting"]
    /\ UNCHANGED <<sinceFailure, sinceSuccess, sinceOpening>>

CheckBefore(t, risky) ==
    /\ turn[t] = "arriving"
    /\ \/ RefuseOpen(t)
       \/ RefuseTrial(t)
       \/ risky /\ RefuseRisky(t)
       \/ Admit(t, risky)

-----------------------------------------------------------------------------
(* check_after_execution(drift_report) *)

\* A report with drift counts whatever has become of the breaker since the
\* turn was admitted; in an open breaker it only prolongs the opening.
ReportDrift(t) ==
    /\ turn[t] = "detecting"
    /\ failureCount' = OneMore(failureCount)
    /\ sinceFailure' = 0
    /\ circuit' = IF circuit = "half_open" \/ failureCount' >= FailureThreshold
                THEN "open" ELSE circuit
    /\ trials' = IF circuit = "half_open" THEN 0 ELSE trials
    /\ sinceOpening' = IF circuit # "open" /\ circuit' = "open" THEN 0
                                                            ELSE sinceOpening
    /\ turn' = [turn EXCEPT ![t] = "exited"]
    /\ UNCHANGED <<sinceSuccess, admitted>>

\* Mutant of Forgives: the success that closes the breaker keeps the count.
BugForgives == circuit = "closed" /\ sinceSuccess # Never /\ sinceSuccess > GracePeriod

\* A success resets the count when it closes the breaker, or when it comes
\* more than the grace period after the success before it.
Forgives == \/ circuit = "half_open"
            \/ circuit = "closed" /\ sinceSuccess # Never /\ sinceSuccess > GracePeriod

ReportClean(t) ==
    /\ turn[t] = "detecting"
    /\ circuit' = IF circuit = "half_open" THEN "closed" ELSE circuit
    /\ failureCount' = IF Forgives THEN 0 ELSE failureCount
    /\ sinceSuccess' = IF circuit = "open" THEN sinceSuccess ELSE 0
    /\ turn' = [turn EXCEPT ![t] = "passed"]
    /\ UNCHANGED <<sinceFailure, trials, sinceOpening, admitted>>

\* The detector raises between the gates: the block returns an error, and the
\* post-gate is never called.
DetectionFails(t) ==
    /\ turn[t] = "detecting"
    /\ turn' = [turn EXCEPT ![t] = "exited"]
    /\ UNCHANGED <<breaker, sinceOpening, admitted>>

-----------------------------------------------------------------------------

ResetBreaker ==
    /\ circuit' = "closed"
    /\ failureCount' = 0
    /\ sinceFailure' = Never
    /\ trials' = 0
    /\ sinceSuccess' = Never
    /\ sinceOpening' = Never
    /\ admitted' = 0
    /\ UNCHANGED turn

\* The next turn of the same session or worker.
Arrive(t) ==
    /\ turn[t] \in {"exited", "passed"}
    /\ turn' = [turn EXCEPT ![t] = "arriving"]
    /\ UNCHANGED <<breaker, sinceOpening, admitted>>

Older(age, limit) == IF age \in 0 .. limit THEN age + 1 ELSE age

BreakerTick ==
    /\ sinceFailure' = Older(sinceFailure, RecoveryTimeout)
    /\ sinceSuccess' = Older(sinceSuccess, GracePeriod)
    /\ sinceOpening' = Older(sinceOpening, RecoveryTimeout)
    /\ UNCHANGED <<circuit, failureCount, trials, turn, admitted>>

BreakerNext ==
    \/ \E t \in Turns :
          \/ \E risky \in BOOLEAN : CheckBefore(t, risky)
          \/ ReportDrift(t) \/ ReportClean(t) \/ DetectionFails(t)
          \/ Arrive(t)
    \/ ResetBreaker
    \/ BreakerTick

BreakerSpec == BreakerInit /\ [][BreakerNext]_bvars

-----------------------------------------------------------------------------
(***************************************************************************)
(* The state machine and the failure count tell the same story: the        *)
(* breaker is closed exactly while it has seen fewer failures than the     *)
(* threshold.  No order of late reports, trials, risky turns and resets    *)
(* leaves it closed with the threshold reached, or half-open with failures *)
(* already forgiven.  circuit_breaker.py:136-139, 172-183, 194-204.        *)
(***************************************************************************)
ClosedBelowThreshold == circuit = "closed" <=> failureCount < FailureThreshold

(***************************************************************************)
(* An open breaker knows when it last failed, and that was not before it   *)
(* opened: the test for recovery needs the time, and without it the        *)
(* breaker would refuse every turn until somebody resets it.               *)
(* circuit_breaker.py:97-98.                                               *)
(***************************************************************************)
OpenIsTimed ==
    circuit = "open" => sinceFailure # Never /\ sinceFailure <= sinceOpening

(***************************************************************************)
(* After an opening no turn is admitted until a whole recovery timeout has *)
(* passed, unless an operator resets the breaker: neither a late report    *)
(* nor a failed trial shortens the wait.  circuit_breaker.py:95-110.       *)
(***************************************************************************)
WaitsOutRecovery ==
    [][\A t \in Turns :
          turn[t] # "detecting" /\ turn'[t] = "detecting" =>
              sinceOpening = Never \/ sinceOpening > RecoveryTimeout]_bvars

(***************************************************************************)
(* One recovery attempt lets at most half_open_test_limit turns through,   *)
(* however many arrive at once and however many of them end without a      *)
(* report.  circuit_breaker.py:112-124.                                    *)
(***************************************************************************)
TrialsLimited == admitted <= HalfOpenTestLimit

(***************************************************************************)
(* Only an operator closes an open breaker: a clean report that arrives    *)
(* late, from a turn admitted before the opening, does not.                *)
(* circuit_breaker.py:193-205.                                             *)
(***************************************************************************)
OnlyResetClosesOpen ==
    [][circuit = "open" /\ circuit' = "closed" => sinceFailure' = Never]_bvars
=============================================================================
