----------------------------- MODULE MCServices -----------------------------
(***************************************************************************)
(* The services beside the pipeline, each on its own bounds.  They share   *)
(* no state, so a behaviour follows one of them, the one in focus, and     *)
(* the others stay as they start.                                          *)
(***************************************************************************)
EXTENDS KillSwitch, CircuitBreaker, ResearchLoop, LearningLoop, HumanApproval

VARIABLE focus

\* Value 4 is out of range, 3 scores best but breaks a guardrail.
Scores == [v \in Values |-> <<2, 4, 6, 3>>[v]]

SomeGains == {-1, 1}

\* Nothing, and what the observer demands.
SomeDemands == {[experiments |-> 0, gain |-> 0], [experiments |-> 2, gain |-> 1]}

ServicesInit ==
    /\ focus \in {"kill_switch", "breaker", "research", "learning", "approval"}
    /\ Init
    /\ BreakerInit
    /\ ResearchInit
    /\ focus # "research" => surface = CHOOSE v \in InRange : TRUE
    /\ LearningInit
    /\ focus # "learning" => registry = "gated"
    /\ ApprovalInit

\* Bound: another module, which reads none of the observer's evidence, proposes
\* before the observer has any, and then the observer gathers none.
LearningStep ==
    \/ (\A i \in DOMAIN updates : updates[i].observed) /\ Observe
    \/ evidence = <<>> /\ ProposeElsewhere
    \/ Propose \/ ForgetEvidence \/ Gate \/ RollBack

ServicesNext ==
    /\ UNCHANGED focus
    /\ \/ focus = "kill_switch" /\ Next /\ UNCHANGED <<bvars, rvars, lvars, avars>>
       \/ focus = "breaker" /\ BreakerNext /\ UNCHANGED <<vars, rvars, lvars, avars>>
       \/ focus = "research" /\ ResearchNext /\ UNCHANGED <<vars, bvars, lvars, avars>>
       \/ focus = "learning" /\ LearningStep /\ UNCHANGED <<vars, bvars, rvars, avars>>
       \/ focus = "approval" /\ ApprovalNext /\ UNCHANGED <<vars, bvars, rvars, lvars>>

ServicesSpec ==
    ServicesInit /\ [][ServicesNext]_<<focus, vars, bvars, rvars, lvars, avars>>
=============================================================================
