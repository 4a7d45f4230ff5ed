---------------------------- MODULE TurnContract ----------------------------
(***************************************************************************)
(* What a turn of the sequential pipeline promises, without saying how:    *)
(* the blocks have their turn one by one in the canonical order; each is   *)
(* called or passed over, once; what may be called narrows after an early  *)
(* exit and behind a skipped dependency; the always-on blocks are exempt;  *)
(* one retry may follow the revision gate; a failed block ends nothing.    *)
(* Pipeline implements it (PipelineRefinement).                            *)
(***************************************************************************)
EXTENDS Integers, Sequences

CONSTANTS Runs, Order, Dependencies, Registered, AlwaysOn,
          RetryBlocks, RevisionGate,
          ExitBlocks,  \* blocks whose answer may be an early exit
          SelfSkips,   \* blocks that may ask to be passed over
          Decliners    \* blocks that may answer "skipped" when called

VARIABLES
    phase,    \* [Runs -> "ready" | "open" | "called" | "again" | "closed"]
    place,    \* [Runs -> the place in the order whose turn it is]
    calls,    \* [Runs -> [block -> how often it was called]]
    answers,  \* [Runs -> [block -> "none" | "ok" | "skipped" | "error"]]
    exited    \* [Runs -> whether a block asked for the early exit]

cvars == <<phase, place, calls, answers, exited>>

Due(r) == Order[place[r]]

ContractInit ==
    /\ phase = [r \in Runs |-> "ready"]
    /\ place = [r \in Runs |-> 1]
    /\ calls = [r \in Runs |-> [i \in {Order[j] : j \in 1 .. Len(Order)} |-> 0]]
    /\ answers = [r \in Runs |-> [i \in {Order[j] : j \in 1 .. Len(Order)} |-> "none"]]
    /\ exited = [r \in Runs |-> FALSE]

Open(r) ==
    /\ phase[r] = "ready"
    /\ phase' = [phase EXCEPT ![r] = "open"]
    /\ UNCHANGED <<place, calls, answers, exited>>

\* A block may be called when nothing stands against it.
MayCall(r, b) ==
    /\ b \in Registered
    /\ calls[r][b] = 0
    /\ b \notin AlwaysOn =>
         /\ ~exited[r]
         /\ \A d \in (Dependencies[b] \cap DOMAIN answers[r]) \ Decliners :
               answers[r][d] # "skipped"

Call(r) ==
    /\ phase[r] = "open" /\ place[r] <= Len(Order)
    /\ MayCall(r, Due(r))
    /\ phase' = [phase EXCEPT ![r] = "called"]
    /\ calls' = [calls EXCEPT ![r][Due(r)] = 1]
    /\ UNCHANGED <<place, answers, exited>>

\* A registered always-on block is passed over at its own wish only.
Pass(r) ==
    /\ phase[r] = "open" /\ place[r] <= Len(Order)
    /\ Due(r) \in AlwaysOn \cap Registered => Due(r) \in SelfSkips
    /\ answers' = IF Due(r) \in Registered
                  THEN [answers EXCEPT ![r][Due(r)] = "skipped"] ELSE answers
    /\ place' = [place EXCEPT ![r] = @ + 1]
    /\ UNCHANGED <<phase, calls, exited>>

Answer(r) ==
    /\ phase[r] = "called"
    /\ \E a \in {"ok", "skipped", "error"}, exits, again \in BOOLEAN :
         /\ a = "skipped" => Due(r) \in Decliners
         /\ exits => a = "ok" /\ Due(r) \in ExitBlocks
         /\ again => a # "error" /\ Due(r) = RevisionGate
         /\ answers' = [answers EXCEPT ![r][Due(r)] = a]
         /\ exited' = [exited EXCEPT ![r] = @ \/ exits]
         /\ phase' = [phase EXCEPT ![r] = IF again THEN "again" ELSE "open"]
         /\ place' = [place EXCEPT ![r] = IF again THEN @ ELSE @ + 1]
    /\ UNCHANGED calls

\* The one retry; its answers replace none.
Again(r) ==
    /\ phase[r] = "again"
    /\ calls' = [calls EXCEPT ![r] = [b \in DOMAIN @ |->
                    IF b \in RetryBlocks \cap Registered THEN @[b] + 1 ELSE @[b]]]
    /\ phase' = [phase EXCEPT ![r] = "open"]
    /\ place' = [place EXCEPT ![r] = @ + 1]
    /\ UNCHANGED <<answers, exited>>

Close(r) ==
    /\ phase[r] = "open" /\ place[r] > Len(Order)
    /\ phase' = [phase EXCEPT ![r] = "closed"]
    /\ UNCHANGED <<place, calls, answers, exited>>

ContractNext ==
    \E r \in Runs : \/ Open(r) \/ Call(r) \/ Pass(r) \/ Answer(r) \/ Again(r)
                    \/ Close(r)

ContractSpec == ContractInit /\ [][ContractNext]_cvars
=============================================================================
