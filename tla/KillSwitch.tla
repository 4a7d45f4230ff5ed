----------------------------- MODULE KillSwitch -----------------------------
(***************************************************************************)
(* The emergency stop of phionyx_core/governance/kill_switch.py.           *)
(*                                                                         *)
(* One instance serves every session of a process.  Each turn calls        *)
(* evaluate() with three measurements; an operator may call                *)
(* manual_trigger(), reset(), disarm() and arm() between turns.  All of    *)
(* these methods are synchronous, so each is one action here.  The wall    *)
(* clock is the variable now, which moves by Tick.                         *)
(***************************************************************************)
EXTENDS Integers, Sequences

CONSTANTS DriftMax,       \* config.consecutive_drift_max
          CooldownTime,   \* config.cooldown_duration_seconds, in ticks
          FailClosed,     \* config.fail_closed
          MaxLog,         \* _max_event_log
          MaxDrift,       \* bound on the counter, which fail-open lets grow
          MaxTime         \* bound: the last tick of the clock

ASSUME KillSwitchAssumption ==
    /\ DriftMax \in Nat
    /\ CooldownTime \in Nat
    /\ FailClosed \in BOOLEAN
    /\ MaxLog \in Nat \ {0}
    /\ MaxDrift \in Nat /\ MaxDrift > DriftMax
    /\ MaxTime \in Nat

VARIABLES state,          \* self.state
          drift,          \* self._consecutive_drift_count
          triggeredAt,    \* self._triggered_at
          cooldownUntil,  \* self._cooldown_until
          log,            \* self._event_log
          now             \* the wall clock

vars == <<state, drift, triggeredAt, cooldownUntil, log, now>>

States == {"armed", "triggered", "cooldown", "disarmed"}
Watching == {"armed", "cooldown"}       \* the property is_armed

\* None stands for "no trigger" in an event and for an unset timestamp.
None == "none"
NoTime == -1

Causes == {"ethics", "t_meta", "drift", "manual", "error"}

\* What a measurement can be: within its threshold, beyond it, NaN, or a value
\* that comparison rejects (None in a metadata record raises TypeError).
Readings == {"fine", "beyond", "nan", "bad"}

Events == [trigger : Causes \cup {None}, before : States, after : States]

-----------------------------------------------------------------------------

Last(s) == s[Len(s)]

\* _log_event: append, and keep only the newest MaxLog events.
LogEvent(trigger, before, after) ==
    LET appended == Append(log, [trigger |-> trigger, before |-> before,
                                 after |-> after])
    IN  log' = IF Len(appended) > MaxLog
               THEN SubSeq(appended, Len(appended) - MaxLog + 1, Len(appended))
               ELSE appended

\* _trigger, entered from state "before".
Trigger(cause, before) ==
    /\ state' = "triggered"
    /\ triggeredAt' = now
    /\ LogEvent(cause, before, "triggered")

Init ==
    /\ state = "armed"
    /\ drift = 0
    /\ triggeredAt = NoTime
    /\ cooldownUntil = NoTime
    /\ log = << >>
    /\ now = 0

-----------------------------------------------------------------------------
(* evaluate(ethics_max_risk, t_meta, drift_detected) *)

\* The NaN guard comes before every look at the state, so it also acts on a
\* disarmed or an already triggered switch, and whatever fail_closed says.
EvaluateNaN(risk, tmeta) ==
    /\ "nan" \in {risk, tmeta}
    /\ Trigger("error", state)
    /\ UNCHANGED <<drift, cooldownUntil, now>>

\* Mutant of EvaluateIdle: a fine reading ends the shutdown.
BugEvaluateReleases(risk, tmeta) ==
    /\ "nan" \notin {risk, tmeta}
    /\ state \in {"disarmed", "triggered"}
    /\ state' = IF state = "triggered" /\ {risk, tmeta} = {"fine"}
                THEN "armed" ELSE state
    /\ UNCHANGED <<drift, triggeredAt, cooldownUntil, log, now>>

\* A disarmed or triggered switch answers at once, and logs nothing.
EvaluateIdle(risk, tmeta) ==
    /\ "nan" \notin {risk, tmeta}
    /\ state \in {"disarmed", "triggered"}
    /\ UNCHANGED vars

\* The cooldown ends inside the first evaluation after its expiry.
CooldownOver == state = "cooldown" /\ cooldownUntil # NoTime /\ now >= cooldownUntil
Rearmed == IF CooldownOver THEN "armed" ELSE state

NextDrift(detected) == IF detected THEN drift + 1 ELSE 0

\* The outcome of the comparisons, in the order the code makes them.  A
\* reading that cannot be compared raises when its turn comes.
Verdict(risk, tmeta, detected) ==
    CASE risk = "bad" -> "error"
      [] risk = "beyond" -> "ethics"
      [] risk = "fine" /\ tmeta = "bad" -> "error"
      [] risk = "fine" /\ tmeta = "beyond" -> "t_meta"
      [] risk = "fine" /\ tmeta = "fine" ->
            IF NextDrift(detected) > DriftMax THEN "drift" ELSE None

EvaluateMeasured(risk, tmeta, detected) ==
    /\ "nan" \notin {risk, tmeta}
    /\ state \in Watching
    /\ NextDrift(detected) <= MaxDrift
    /\ drift' = NextDrift(detected)
    /\ cooldownUntil' = IF CooldownOver THEN NoTime ELSE cooldownUntil
    /\ LET verdict == Verdict(risk, tmeta, detected) IN
         \/ /\ verdict = None
            /\ state' = Rearmed
            /\ LogEvent(None, Rearmed, Rearmed)
            /\ UNCHANGED triggeredAt
         \/ /\ verdict # None
            /\ verdict = "error" => FailClosed
            /\ Trigger(verdict, Rearmed)
         \/ /\ verdict = "error"
            /\ ~FailClosed
            /\ state' = Rearmed
            /\ UNCHANGED <<triggeredAt, log>>
    /\ UNCHANGED now

Evaluate(risk, tmeta, detected) ==
    \/ EvaluateNaN(risk, tmeta)
    \/ EvaluateIdle(risk, tmeta)
    \/ EvaluateMeasured(risk, tmeta, detected)

-----------------------------------------------------------------------------
(* The operator's calls *)

\* Mutant of ManualTrigger: the state is set without going through _trigger.
BugManualTrigger ==
    /\ state' = "triggered"
    /\ LogEvent("manual", state, "triggered")
    /\ UNCHANGED <<drift, triggeredAt, cooldownUntil, now>>

ManualTrigger ==
    /\ Trigger("manual", state)
    /\ UNCHANGED <<drift, cooldownUntil, now>>

\* Mutant of Reset: the counter survives.
BugResetKeepsDrift ==
    /\ state = "triggered"
    /\ state' = "cooldown"
    /\ cooldownUntil' = now + CooldownTime
    /\ LogEvent(None, "triggered", "cooldown")
    /\ UNCHANGED <<drift, triggeredAt, now>>

Reset ==
    /\ state = "triggered"
    /\ state' = "cooldown"
    /\ cooldownUntil' = now + CooldownTime
    /\ drift' = 0
    /\ LogEvent(None, "triggered", "cooldown")
    /\ UNCHANGED <<triggeredAt, now>>

\* Mutant of Disarm: the event is built after the assignment to state.
BugDisarm ==
    /\ state' = "disarmed"
    /\ LogEvent(None, "disarmed", "disarmed")
    /\ UNCHANGED <<drift, triggeredAt, cooldownUntil, now>>

Disarm ==
    /\ state' = "disarmed"
    /\ LogEvent(None, state, "disarmed")
    /\ UNCHANGED <<drift, triggeredAt, cooldownUntil, now>>

\* arm() accepts every state, "triggered" included.
Arm ==
    /\ state' = "armed"
    /\ drift' = 0
    /\ LogEvent(None, state, "armed")
    /\ UNCHANGED <<triggeredAt, cooldownUntil, now>>

Tick ==
    /\ now < MaxTime
    /\ now' = now + 1
    /\ UNCHANGED <<state, drift, triggeredAt, cooldownUntil, log>>

Next ==
    \/ \E risk, tmeta \in Readings, detected \in BOOLEAN :
            Evaluate(risk, tmeta, detected)
    \/ ManualTrigger
    \/ Reset
    \/ Disarm
    \/ Arm
    \/ Tick

Spec == Init /\ [][Next]_vars

-----------------------------------------------------------------------------

TypeOK ==
    /\ state \in States
    /\ drift \in Nat
    /\ triggeredAt \in Nat \cup {NoTime}
    /\ cooldownUntil \in Nat \cup {NoTime}
    /\ log \in Seq(Events)
    /\ Len(log) <= MaxLog
    /\ now \in Nat

(***************************************************************************)
(* Sustained drift cannot get past a switch that is watching: when every   *)
(* evaluation error triggers (fail_closed), an armed or cooling switch     *)
(* has counted at most DriftMax consecutive drifting turns, and no state   *)
(* holds more than the one that triggered.  kill_switch.py:163-188: the    *)
(* counter moves before the comparisons, an earlier trigger or an          *)
(* exception may hide the drift test, and disarm() keeps the counter.      *)
(***************************************************************************)
DriftBounded ==
    FailClosed =>
        /\ drift <= DriftMax + 1
        /\ state \in Watching => drift <= DriftMax

(***************************************************************************)
(* The audit trail is a chain: each retained event starts in the state     *)
(* its predecessor ended in, and the last one ends in the present state.   *)
(* The only unlogged change is the expiry of a cooldown.                   *)
(* kill_switch.py:147-151 and every call of _log_event.                    *)
(***************************************************************************)
Follows(earlier, later) ==
    earlier = later \/ (earlier = "cooldown" /\ later = "armed")

AuditChain ==
    /\ \A i \in 1 .. Len(log) - 1 : Follows(log[i].after, log[i + 1].before)
    /\ IF log = << >> THEN state = "armed" ELSE Follows(Last(log).after, state)

(***************************************************************************)
(* The times agree with the state: a triggered switch knows when it        *)
(* tripped, and a cooling one has a deadline that is a whole cooldown      *)
(* after a trigger and at most a cooldown away.  kill_switch.py:233-237,   *)
(* 277-279; arm() and disarm() leave both fields as they were.             *)
(***************************************************************************)
TimesConsistent ==
    /\ triggeredAt <= now
    /\ state = "triggered" => triggeredAt # NoTime
    /\ state = "cooldown" => /\ triggeredAt # NoTime
                             /\ triggeredAt + CooldownTime <= cooldownUntil
                             /\ cooldownUntil <= now + CooldownTime

(***************************************************************************)
(* A triggered switch is released only by an operator, and the release is  *)
(* on the audit trail: reset, disarm and arm each log an event without a   *)
(* trigger, and no evaluation, whatever it measures, ends a shutdown.      *)
(***************************************************************************)
ReleaseIsAudited ==
    [][state = "triggered" /\ state' # "triggered" =>
          /\ Last(log') = [trigger |-> None, before |-> "triggered",
                           after |-> state']
          /\ state' \in Watching => drift' = 0]_vars
=============================================================================
