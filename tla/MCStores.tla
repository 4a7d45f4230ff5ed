------------------------------ MODULE MCStores ------------------------------
(***************************************************************************)
(* What the runtime keeps beside the turn, each part on its own bounds:    *)
(* the review queue, the causal graph, the memory cache, the event store,  *)
(* the world's histories, the goals and the notifications.  They share no  *)
(* state, so a behaviour follows one of them, the one in focus, and the    *)
(* others stay as they start.                                              *)
(***************************************************************************)
EXTENDS HumanReviewQueue, CausalModel, MemoryCache, TraceStore, WorldState,
        GoalPersistence, NotificationLog

VARIABLE focus

\* Arousal is 1, coherence 2 and entropy 3: entropy, which comes last in the
\* alphabet, lowers coherence, and arousal raises entropy.
SomeKnownLinks ==
    <<[from |-> 3, to |-> 2, mechanism |-> "direct"],
      [from |-> 1, to |-> 3, mechanism |-> "direct"]>>

SomePairs == << <<3, 2>>, <<1, 3>> >>

Parts == {"reviews", "causes", "memories", "events", "world", "goals", "notes"}

StoresInit ==
    /\ focus \in Parts
    /\ Init
    /\ CausalInit
    /\ MemoryInit
    /\ TraceInit
    /\ WorldInit
    /\ GoalInit
    /\ NotificationInit

\* Only the part in focus moves.
OthersRest ==
    /\ focus = "reviews" \/ UNCHANGED vars
    /\ focus = "causes" \/ UNCHANGED cvars
    /\ focus = "memories" \/ UNCHANGED mvars
    /\ focus = "events" \/ UNCHANGED tvars
    /\ focus = "world" \/ UNCHANGED wvars
    /\ focus = "goals" \/ UNCHANGED gvars
    /\ focus = "notes" \/ UNCHANGED nvars

StoresNext ==
    /\ \/ focus = "reviews" /\ Next
       \/ focus = "causes" /\ CausalNext
       \/ focus = "memories" /\ MemoryNext
       \/ focus = "events" /\ TraceNext
       \/ focus = "world" /\ WorldNext
       \/ focus = "goals" /\ GoalNext
       \/ focus = "notes" /\ NotificationNext
    /\ UNCHANGED focus /\ OthersRest

StoresSpec ==
    StoresInit
    /\ [][StoresNext]_<<focus, vars, cvars, mvars, tvars, wvars, gvars, nvars>>
=============================================================================
