--------------------------- MODULE HumanApproval ---------------------------
(***************************************************************************)
(* The approval requests of phionyx_core/monitoring/human_approval.py,     *)
(* opened where the circuit breaker blocks an output.  They are kept in    *)
(* memory; a request that ran out of time stays "pending" until a call     *)
(* notices.                                                                *)
(***************************************************************************)
EXTENDS Integers, Sequences, FiniteSets

CONSTANTS
    ApprovalTimeout,    \* approval_timeout, in parts of the hour
    Hour,               \* parts of an hour
    MaxPendingRequests, \* max_pending
    EvictionBatch,      \* the 10 of _expire_oldest_requests(10)
    MaxRequests,        \* bound: requests created
    MaxClock            \* bound: the last tick

ASSUME ApprovalAssumption ==
    /\ ApprovalTimeout \in Nat /\ Hour \in Nat \ {0}
    /\ MaxPendingRequests \in Nat \ {0} /\ EvictionBatch \in Nat \ {0}

VARIABLES
    requests,    \* _requests in the order of creation
    clock        \* the wall clock

avars == <<requests, clock>>

ApprovalInit == requests = <<>> /\ clock = 0

\* Mutant of IsPending: the status is believed.
BugIsPending(request) == request.status = "pending"

IsPending(request) == request.status = "pending" /\ clock <= request.expires

Stale == {i \in DOMAIN requests : /\ requests[i].status = "pending"
                                  /\ clock > requests[i].expires}
Live == {i \in DOMAIN requests : /\ requests[i].status = "pending"
                                 /\ clock <= requests[i].expires}

\* The requests with these indices, given up.
Expired(indices) == [i \in DOMAIN requests |->
    IF i \in indices THEN [requests[i] EXCEPT !.status = "expired"] ELSE requests[i]]

Full == Cardinality(Live) >= MaxPendingRequests

\* _expire_oldest_requests takes what is still called pending, in time or not.
Oldest ==
    {i \in Stale \cup Live :
        Cardinality({j \in Stale \cup Live : j < i}) < EvictionBatch}

\* create_approval_request.  The expiry is the current time with its minute
\* replaced, which raises where the minute would pass the hour, after the
\* eviction.
Create ==
    /\ Len(requests) < MaxRequests
    /\ LET evicted == IF Full THEN Oldest ELSE {}
       IN  requests' =
               IF (clock % Hour) + ApprovalTimeout < Hour
               THEN Append(Expired(evicted),
                           [expires |-> clock + ApprovalTimeout,
                            status |-> "pending", decidedAt |-> clock])
               ELSE Expired(evicted)
    /\ UNCHANGED clock

\* approve_request and reject_request.
Answer(decision) ==
    /\ \E i \in DOMAIN requests :
         /\ IsPending(requests[i])
         /\ requests' = [requests EXCEPT ![i].status = decision,
                                         ![i].decidedAt = clock]
    /\ UNCHANGED clock

Approve == Answer("approved")
Reject == Answer("rejected")

\* get_request notices one that is late, get_pending_requests all of them.
Notice ==
    /\ Stale # {}
    /\ \/ \E i \in Stale : requests' = Expired({i})
       \/ requests' = Expired(Stale)
    /\ UNCHANGED clock

PassTime ==
    /\ clock < MaxClock
    /\ clock' = clock + 1
    /\ UNCHANGED requests

ApprovalNext == Create \/ Approve \/ Reject \/ Notice \/ PassTime

ApprovalSpec == ApprovalInit /\ [][ApprovalNext]_avars

-----------------------------------------------------------------------------
(***************************************************************************)
(* No human releases a blocked output late: an answer counts only while    *)
(* the request is in time, also when nothing has noticed that it is late.  *)
(***************************************************************************)
AnsweredInTime ==
    \A i \in DOMAIN requests :
        requests[i].status \in {"approved", "rejected"} =>
            requests[i].decidedAt <= requests[i].expires
=============================================================================
