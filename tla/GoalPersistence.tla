--------------------------- MODULE GoalPersistence ---------------------------
(***************************************************************************)
(* The goals of phionyx_core/planning/goal_persistence.py: one object of   *)
(* goals and revision proposals, which saves itself after each change,     *)
(* once this is enabled, to the file of its current session.  The file is  *)
(* written in place, and a later process loads it.                         *)
(***************************************************************************)
EXTENDS Integers, FiniteSets

CONSTANTS
    GoalIds,        \* ids of goals
    GoalSessions,   \* session ids
    MaxGoalCalls    \* bound: calls and restarts

VARIABLES
    goals,        \* _goals: from the ids present to goals
    revisions,    \* _pending_revisions: from ids of goals to applied or not
    goalSession,  \* _session_id
    autoSave,     \* _auto_save_enabled
    goalFiles,    \* {base_path}/{session}.json
    upToDate,     \* history: whether the last change reached the session's file
    goalCalls     \* calls so far

gvars == <<goals, revisions, goalSession, autoSave, goalFiles, upToDate, goalCalls>>

GoalStatuses == {"pending", "active", "completed", "abandoned", "blocked"}
NoSession == "no session"
Orphan == "no parent"
Empty == [x \in {} |-> x]

\* What a session's file holds; there may be none, or one that does not parse.
FileOf(gs, rs) == [readable |-> TRUE, goals |-> gs, revisions |-> rs]
Unreadable == [readable |-> FALSE, goals |-> Empty, revisions |-> Empty]

NewGoal(parent) ==
    [status |-> "pending", done |-> FALSE, parent |-> parent, subs |-> {}]

GoalInit ==
    /\ goals = Empty /\ revisions = Empty
    /\ goalSession = NoSession /\ autoSave = FALSE
    /\ goalFiles = [s \in GoalSessions |-> Unreadable]
    /\ upToDate = FALSE /\ goalCalls = 0

With(f, key, value) == [k \in DOMAIN f \cup {key} |-> IF k = key THEN value ELSE f[k]]

Call == goalCalls < MaxGoalCalls /\ goalCalls' = goalCalls + 1

-----------------------------------------------------------------------------
\* _trigger_auto_save: off, without a session, written, not opened, or torn.
SaveGoals ==
    IF autoSave /\ goalSession # NoSession
    THEN \E file \in {FileOf(goals', revisions'), goalFiles[goalSession], Unreadable} :
           /\ goalFiles' = [goalFiles EXCEPT ![goalSession] = file]
           /\ upToDate' = (file = FileOf(goals', revisions'))
    ELSE goalFiles' = goalFiles /\ upToDate' = FALSE

\* A change of the goals, of the revisions, or of both, and its save.
ChangeBoth(gs, rs) ==
    /\ Call
    /\ goals' = gs /\ revisions' = rs
    /\ UNCHANGED <<goalSession, autoSave>>
    /\ SaveGoals
Change(gs) == ChangeBoth(gs, revisions)

\* add_goal; a parent that is there lists its new goal.
AddGoal(g, parent) ==
    /\ g \notin DOMAIN goals
    /\ LET listed == IF parent \in DOMAIN goals
                     THEN [goals EXCEPT ![parent].subs = @ \cup {g}] ELSE goals
       IN  Change(With(listed, g, NewGoal(parent)))

Activate(g) ==
    /\ goals[g].status \in {"pending", "blocked"}
    /\ Change([goals EXCEPT ![g].status = "active"])

Complete(g) ==
    /\ goals[g].status # "completed"
    /\ Change([goals EXCEPT ![g].status = "completed", ![g].done = TRUE])

Abandon(g) ==
    /\ goals[g].status # "completed"
    /\ Change([goals EXCEPT ![g].status = "abandoned"])

\* block asks for no status.
Block(g) == Change([goals EXCEPT ![g].status = "blocked"])

UpdateProgress(g, done) == Change([goals EXCEPT ![g].done = done])

\* propose_revision, once for a goal, as applied proposals stay in the list.
ProposeRevision(g) ==
    /\ g \notin DOMAIN revisions
    /\ ChangeBoth(goals, With(revisions, g, "proposed"))

\* Mutant of ApplyRevision: nothing is saved.
BugApplyRevision(g, status) ==
    /\ g \in DOMAIN revisions /\ revisions[g] = "proposed"
    /\ Call
    /\ goals' = [goals EXCEPT ![g].status = status]
    /\ revisions' = [revisions EXCEPT ![g] = "applied"]
    /\ UNCHANGED <<goalSession, autoSave, goalFiles, upToDate>>

\* apply_revision sets the status and nothing that goes with it.
ApplyRevision(g, status) ==
    /\ g \in DOMAIN revisions /\ revisions[g] = "proposed"
    /\ ChangeBoth([goals EXCEPT ![g].status = status],
                  [revisions EXCEPT ![g] = "applied"])

-----------------------------------------------------------------------------
SetSession(s) ==
    /\ s # goalSession
    /\ Call
    /\ goalSession' = s /\ upToDate' = FALSE
    /\ UNCHANGED <<goals, revisions, autoSave, goalFiles>>

SwitchAutoSave(on) ==
    /\ on # autoSave
    /\ Call
    /\ autoSave' = on
    /\ UNCHANGED <<goals, revisions, goalSession, goalFiles, upToDate>>

\* A new process, and auto_load of a session: without a readable file it
\* starts with nothing; auto-save has to be enabled again.
LoadGoals(s) ==
    /\ Call
    /\ LET file == goalFiles[s] IN
       /\ goals' = file.goals /\ revisions' = file.revisions
       /\ goalSession' = IF file.readable THEN s ELSE NoSession
       /\ upToDate' = file.readable
    /\ autoSave' = FALSE
    /\ UNCHANGED goalFiles

GoalNext ==
    \/ \E g \in GoalIds, parent \in GoalIds \cup {Orphan} : AddGoal(g, parent)
    \/ \E g \in DOMAIN goals :
          \/ Activate(g) \/ Complete(g) \/ Abandon(g) \/ Block(g)
          \/ \E done \in BOOLEAN : UpdateProgress(g, done)
          \/ ProposeRevision(g)
          \/ \E status \in GoalStatuses : ApplyRevision(g, status)
    \/ \E s \in GoalSessions : SetSession(s) \/ LoadGoals(s)
    \/ \E on \in BOOLEAN : SwitchAutoSave(on)

GoalSpec == GoalInit /\ [][GoalNext]_gvars

-----------------------------------------------------------------------------
(***************************************************************************)
(* What a process was told last is what the next one finds: whichever      *)
(* method made the change, and whatever other sessions and processes wrote *)
(* before, the session's file holds all goals and all proposals, applied   *)
(* ones included, unless the save of the last change failed.               *)
(* goal_persistence.py:370, "Saves to {base_path}/{session_id}.json on *)
(* every state change".                                                    *)
(***************************************************************************)
GoalsAreSaved ==
    upToDate => goalFiles[goalSession] = FileOf(goals, revisions)
=============================================================================
