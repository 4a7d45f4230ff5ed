---------------------------- MODULE ResearchLoop ----------------------------
(***************************************************************************)
(* The experiment loop of phionyx_core/research_engine/loop.py: a session  *)
(* edits one parameter of a source file at a time, commits the edit,       *)
(* measures it and keeps it or takes it back, with the file, the commits,  *)
(* the data directory and git's stack of stashes as shared state.          *)
(*                                                                         *)
(* The data directory is neither committed nor ignored, so git stashes and *)
(* restores it with every revert.  Every git command may fail (a lock, a   *)
(* timeout) and the process may be killed between any two commands.        *)
(***************************************************************************)
EXTENDS Integers, Sequences

CONSTANTS
    Values,         \* values of the parameter
    InRange,        \* those between range_min and range_max
    Quality,        \* [Values -> Nat], the composite quality score
    Violating,      \* the values whose benchmark violates a guardrail
    Tax,            \* compute_complexity_tax(1)
    MaxExperiments, \* max_experiments
    MaxFailures,    \* max_consecutive_failures
    MaxSessions,    \* bound: sessions in a behaviour
    MaxGitFailures  \* bound: failing git commands

ASSUME ResearchAssumption ==
    /\ Values \subseteq Nat /\ InRange \subseteq Values /\ Violating \subseteq Values
    /\ Quality \in [Values -> Nat] /\ Tax \in Nat \ {0}

VARIABLES
    surface,    \* the value in the working tree
    commits,    \* the values in the history of HEAD
    data,       \* the data directory: whether it exists, baseline.json, snapshot
    stashes,    \* git's stack of stashed data directories
    session,    \* the locals of run_session and where it stands
    past        \* history: what was kept, what went wrong

rvars == <<surface, commits, data, stashes, session, past>>

Unset == -1

NoData == [there |-> FALSE, baseline |-> Unset, snapshot |-> Unset]
NoSession == [at |-> "off", plan |-> {}, old |-> Unset, new |-> Unset, used |-> 0,
              failures |-> 0]

Score(v) == IF v = Unset THEN 0 ELSE Quality[v]

Best(v) == IF Score(v) > past.best THEN Score(v) ELSE past.best

ResearchInit ==
    /\ surface \in InRange
    /\ commits = <<surface>>
    /\ data = NoData
    /\ stashes = <<>>
    /\ session = NoSession
    /\ past = [kept |-> surface, best |-> 0, sessions |-> 0, gitFailures |-> 0,
               resetFailed |-> FALSE, dataLost |-> FALSE, killed |-> FALSE]

-----------------------------------------------------------------------------

\* budget.consume_experiment; the plan's old values follow a kept one.
Consumed(success) ==
    [session EXCEPT !.at = "head", !.used = @ + 1,
                    !.failures = IF success THEN 0 ELSE @ + 1,
                    !.old = IF success THEN session.new ELSE @]

GitFails == past.gitFailures < MaxGitFailures
Failed == [past EXCEPT !.gitFailures = @ + 1]

\* A session reads the parameter from the file.  The directories come into
\* being; without a baseline the file is measured first, and a score of zero
\* ends the session.  The strategies differ in the values they plan only.
Begin ==
    /\ session.at = "off"
    /\ past.sessions < MaxSessions
    /\ LET measured == IF data.baseline = Unset /\ Quality[surface] > 0
                       THEN surface ELSE data.baseline
       IN  /\ data' = [NoData EXCEPT !.there = TRUE, !.baseline = measured]
           /\ past' = [past EXCEPT !.sessions = @ + 1,
                                   !.best = Best(measured)]
           /\ \E plan \in SUBSET Values :
                session' = IF measured = Unset THEN NoSession
                           ELSE [NoSession EXCEPT !.at = "head", !.plan = plan,
                                                  !.old = surface]
    /\ UNCHANGED <<surface, commits, stashes>>

\* Out of time, a STOP file, or nothing planned any more.
End ==
    /\ session.at = "head"
    /\ session' = NoSession
    /\ UNCHANGED <<surface, commits, data, stashes, past>>

\* The edit replaces the old value the plan knows, if the file still has it.
Edit ==
    /\ session.at = "head"
    /\ session.used < MaxExperiments /\ session.failures < MaxFailures
    /\ \E v \in session.plan :
         LET planned == [session EXCEPT !.plan = @ \ {v}, !.new = v] IN
         IF v \in InRange /\ surface = session.old
         THEN /\ surface' = v
              /\ data' = [data EXCEPT !.snapshot = surface]
              /\ session' = [planned EXCEPT !.at = "edited"]
         ELSE /\ session' = [Consumed(FALSE) EXCEPT !.plan = planned.plan]
              /\ UNCHANGED <<surface, data>>
    /\ UNCHANGED <<commits, stashes, past>>

Cleaned == [data EXCEPT !.snapshot = Unset]

\* git has nothing to commit when the file is as in HEAD.
Commit ==
    /\ session.at = "edited"
    /\ surface # commits[Len(commits)]
    /\ commits' = Append(commits, surface)
    /\ session' = [session EXCEPT !.at = "committed"]
    /\ UNCHANGED <<surface, data, stashes, past>>

CommitFails ==
    /\ session.at = "edited"
    /\ IF surface = commits[Len(commits)] THEN past' = past
       ELSE GitFails /\ past' = Failed
    /\ surface' = data.snapshot
    /\ data' = Cleaned
    /\ session' = Consumed(FALSE)
    /\ UNCHANGED <<commits, stashes>>

\* Mutant of Keeps: an improvement is any change.
BugKeeps(v) ==
    /\ v \notin Violating
    /\ \/ Score(v) - Score(data.baseline) >= Tax
       \/ Score(data.baseline) - Score(v) >= Tax

\* decide: a tier A edit of one line whose latency and cost are not measured
\* is never parked, and past the tax its decision score is positive.
Keeps(v) == v \notin Violating /\ Score(v) - Score(data.baseline) >= Tax

Keep ==
    /\ session.at = "committed"
    /\ Keeps(surface)
    /\ data' = [Cleaned EXCEPT !.baseline = surface]
    /\ session' = Consumed(TRUE)
    /\ past' = [past EXCEPT !.kept = surface, !.best = Best(surface)]
    /\ UNCHANGED <<surface, commits, stashes>>

\* Refused, or the benchmark crashed, which it may do with any value.
Refuse ==
    /\ session.at = "committed"
    /\ session' = [session EXCEPT !.at = "stash"]
    /\ UNCHANGED <<surface, commits, data, stashes, past>>

\* revert_last_commit: stash, reset, pop, each going on after a failure.  A
\* push that fails without a word counts as a stash.
Stash ==
    /\ session.at = "stash"
    /\ session' = [session EXCEPT !.at = "reset"]
    /\ \/ /\ stashes' = Append(stashes, data)
          /\ data' = NoData
          /\ past' = past
       \/ /\ GitFails /\ past' = Failed
          /\ UNCHANGED <<data, stashes>>
    /\ UNCHANGED <<surface, commits>>

ResetHard ==
    /\ session.at = "reset"
    /\ session' = [session EXCEPT !.at = "pop"]
    /\ \/ /\ commits' = SubSeq(commits, 1, Len(commits) - 1)
          /\ surface' = commits[Len(commits) - 1]
          /\ past' = past
       \/ /\ GitFails /\ past' = [Failed EXCEPT !.resetFailed = TRUE]
          /\ UNCHANGED <<surface, commits>>
    /\ UNCHANGED <<data, stashes>>

\* An older entry is not popped over a directory that is there.
Pop ==
    /\ session.at = "pop"
    /\ session' = [session EXCEPT !.at = "restore"]
    /\ \/ /\ ~data.there
          /\ data' = stashes[Len(stashes)]
          /\ stashes' = SubSeq(stashes, 1, Len(stashes) - 1)
          /\ past' = past
       \/ /\ data.there
          /\ UNCHANGED <<data, stashes, past>>
       \/ /\ ~data.there
          /\ GitFails /\ past' = [Failed EXCEPT !.dataLost = TRUE]
          /\ UNCHANGED <<data, stashes>>
    /\ UNCHANGED <<surface, commits>>

\* Mutant of Restored: git has already restored the file.
BugRestored == surface

Restored == IF data.snapshot = Unset THEN surface ELSE data.snapshot

\* Without its directory the audit log cannot be opened: the session raises.
Restore ==
    /\ session.at = "restore"
    /\ surface' = Restored
    /\ data' = Cleaned
    /\ session' = IF data.there THEN Consumed(FALSE) ELSE NoSession
    /\ UNCHANGED <<commits, stashes, past>>

\* The process is killed; nothing looks for an unfinished experiment later.
Kill ==
    /\ session.at # "off"
    /\ ~past.killed
    /\ session' = NoSession
    /\ past' = [past EXCEPT !.killed = TRUE, !.dataLost = @ \/ ~data.there]
    /\ UNCHANGED <<surface, commits, data, stashes>>

ResearchNext ==
    \/ Begin \/ End \/ Edit \/ Commit \/ CommitFails \/ Keep \/ Refuse
    \/ Stash \/ ResetHard \/ Pop \/ Restore \/ Kill

ResearchSpec == ResearchInit /\ [][ResearchNext]_rvars

-----------------------------------------------------------------------------
AtRest == session.at \in {"off", "head"}

(***************************************************************************)
(* A refused experiment leaves no trace in the file: between experiments   *)
(* it holds the last value that was kept, whatever one layer of the revert *)
(* got wrong.  Only a reset that failed together with a lost data          *)
(* directory, or a killed process, leaves an experiment behind.            *)
(* git_manager.py:1-5, config_snapshot.py:11, "an additional safety layer  *)
(* beyond git".                                                            *)
(***************************************************************************)
SurfaceRestored ==
    AtRest /\ ~past.killed /\ ~(past.resetFailed /\ past.dataLost) =>
        surface = past.kept

(***************************************************************************)
(* The ratchet: the baseline that experiments are compared with is the     *)
(* best ever recorded, over sessions, kills and failing git commands, as   *)
(* long as the data directory was not lost while an experiment was still   *)
(* in the file.  baseline_store.py:8-13, "the current best known state".   *)
(***************************************************************************)
BaselineRatchets ==
    data.baseline # Unset /\ ~(past.dataLost /\ (past.resetFailed \/ past.killed)) =>
        Score(data.baseline) = past.best
=============================================================================
