-------------------------- MODULE HumanReviewQueue --------------------------
(***************************************************************************)
(* The review queue of phionyx_core/governance/human_in_the_loop.py: what  *)
(* waits for a human, what was decided, and the JSON file that carries     *)
(* both over a restart.                                                    *)
(*                                                                         *)
(* Reviews are numbered in the order of their submission, so the list      *)
(* _queue is the set of the numbers in it, the first element the smallest. *)
(* The archive is the set of its entries; position says in which order     *)
(* they were appended.  All items wait equally long, so they also expire   *)
(* in the order of their numbers.                                          *)
(*                                                                         *)
(* Every operation is synchronous and saves at its end, except that        *)
(* submit_for_review on a full queue also saves after its sweep; a crash   *)
(* between its two saves is a Sweep and a Restart here.  A save can fail:  *)
(* _save logs the exception and goes on.  The priority of an item orders   *)
(* what get_pending returns and nothing else, so it is left out.           *)
(***************************************************************************)
EXTENDS Integers, FiniteSets

CONSTANTS Expiry,        \* config.expiry_hours, in ticks
          MaxQueue,      \* config.max_queue_size
          AutoDeny,      \* config.auto_deny_on_expiry
          ArchiveKept,   \* archive entries that are saved (100)
          MaxItems,      \* bound: items submitted in a behaviour
          MaxFilings     \* bound: decisions filed in a behaviour

ASSUME QueueAssumption ==
    /\ Expiry \in Nat
    /\ MaxQueue \in Nat \ {0}
    /\ AutoDeny \in BOOLEAN
    /\ ArchiveKept \in Nat \ {0}
    /\ MaxItems \in Nat
    /\ MaxFilings \in Nat

VARIABLES queue,     \* self._queue: the pending reviews
          archive,   \* self._archive: the decided ones
          position,  \* place of each review's last entry in the archive
          filings,   \* decisions filed so far
          left,      \* time until expires_at
          issued,    \* number of reviews submitted
          file,      \* the lists that _load would find
          saved,     \* history: the file holds the lists of the process
          latest,    \* history: the last decision on each review
          lost       \* history: a restart came while saved was false

decisions == <<archive, position, filings, latest>>
vars == <<queue, decisions, left, issued, file, saved, lost>>

Reviews == 1 .. MaxItems
Statuses == {"approved", "denied", "expired"}
Entries == [review : Reviews, status : Statuses]

TypeOK ==
    /\ queue \subseteq 1 .. issued
    /\ archive \subseteq Entries
    /\ position \in [Reviews -> 0 .. filings]
    /\ filings \in 0 .. MaxFilings
    /\ left \in [Reviews -> 0 .. Expiry]
    /\ issued \in 0 .. MaxItems
    /\ file \in [queue : SUBSET (1 .. issued), archive : SUBSET Entries]
    /\ saved \in BOOLEAN
    /\ latest \in [Reviews -> Statuses \cup {"none"}]
    /\ lost \in BOOLEAN

Init ==
    /\ queue = {}
    /\ archive = {}
    /\ position = [i \in Reviews |-> 0]
    /\ filings = 0
    /\ left = [i \in Reviews |-> 0]
    /\ issued = 0
    /\ file = [queue |-> {}, archive |-> {}]
    /\ saved = TRUE
    /\ latest = [i \in Reviews |-> "none"]
    /\ lost = FALSE

-----------------------------------------------------------------------------
(* _save and _load *)

\* self._archive[-100:]
LastKept(entries) ==
    {e \in entries : Cardinality({f \in entries :
        position'[f.review] > position'[e.review]}) < ArchiveKept}

\* The file is rewritten; or it cannot be opened and stays as it is; or the
\* write fails after open() has truncated it, and _load will find nothing.
Save ==
    \/ /\ file' = [queue |-> queue', archive |-> LastKept(archive')]
       /\ saved' = TRUE
    \/ /\ UNCHANGED file
       /\ saved' = FALSE
    \/ /\ file' = [queue |-> {}, archive |-> {}]
       /\ saved' = FALSE

\* The process ends, at any time, and a new one loads the file.
Restart ==
    /\ queue' = file.queue
    /\ archive' = file.archive
    /\ lost' = (lost \/ ~saved)
    /\ saved' = TRUE
    /\ UNCHANGED <<position, filings, left, issued, file, latest>>

-----------------------------------------------------------------------------

IsExpired(i) == left[i] = 0

Stale == IF AutoDeny THEN {i \in queue : IsExpired(i)} ELSE {}

Oldest(S) == CHOOSE i \in S : \A j \in S : i <= j

\* Mutant of File: an expired review is filed as approved.
BugFile(reviews, status) ==
    /\ filings + Cardinality(reviews) <= MaxFilings
    /\ filings' = filings + Cardinality(reviews)
    /\ archive' = archive \cup [review : reviews, status : {"approved"}]
    /\ position' = [i \in Reviews |->
          IF i \in reviews
          THEN filings + Cardinality({j \in reviews : j <= i})
          ELSE position[i]]
    /\ latest' = [i \in Reviews |-> IF i \in reviews THEN status ELSE latest[i]]

\* Append the reviews, oldest first, to the archive with their new status.
File(reviews, status) ==
    /\ filings + Cardinality(reviews) <= MaxFilings
    /\ filings' = filings + Cardinality(reviews)
    /\ archive' = archive \cup [review : reviews, status : {status}]
    /\ position' = [i \in Reviews |->
          IF i \in reviews
          THEN filings + Cardinality({j \in reviews : j <= i})
          ELSE position[i]]
    /\ latest' = [i \in Reviews |-> IF i \in reviews THEN status ELSE latest[i]]

\* A queue that is still full after the sweep gives up its oldest item.
Evicted(waiting) == IF Cardinality(waiting) >= MaxQueue THEN {Oldest(waiting)} ELSE {}

\* What submit_for_review removes first; an evicted item is marked expired too.
Leaving ==
    LET swept == IF Cardinality(queue) >= MaxQueue THEN Stale ELSE {}
    IN  swept \cup Evicted(queue \ swept)

\* submit_for_review(...)
SubmitForReview ==
    /\ issued < MaxItems
    /\ issued' = issued + 1
    /\ left' = [left EXCEPT ![issued + 1] = Expiry]
    /\ queue' = (queue \ Leaving) \cup {issued + 1}
    /\ File(Leaving, "expired")
    /\ Save
    /\ UNCHANGED lost

\* Mutant of Review: the decision is not saved.
BugReview(i, status) ==
    /\ i \in queue
    /\ queue' = queue \ {i}
    /\ File({i}, status)
    /\ UNCHANGED <<left, issued, file, saved, lost>>

\* approve(review_id) and deny(review_id), through _review, which looks for
\* the item in the queue and does not ask whether it has expired.
Review(i, status) ==
    /\ i \in queue
    /\ queue' = queue \ {i}
    /\ File({i}, status)
    /\ Save
    /\ UNCHANGED <<left, issued, lost>>

\* Mutant of ExpireStale: the expiry is not saved.
BugExpireStale ==
    /\ Stale # {}
    /\ queue' = queue \ Stale
    /\ File(Stale, "expired")
    /\ UNCHANGED <<left, issued, file, saved, lost>>

\* _expire_stale, called by pending_count, queue, get_pending and to_dict.
ExpireStale ==
    /\ Stale # {}
    /\ queue' = queue \ Stale
    /\ File(Stale, "expired")
    /\ Save
    /\ UNCHANGED <<left, issued, lost>>

Tick ==
    /\ left' = [i \in Reviews |-> IF left[i] > 0 THEN left[i] - 1 ELSE 0]
    /\ UNCHANGED <<queue, decisions, issued, file, saved, lost>>

Next ==
    \/ SubmitForReview
    \/ \E i \in Reviews, status \in {"approved", "denied"} : Review(i, status)
    \/ ExpireStale
    \/ Restart
    \/ Tick

Spec == Init /\ [][Next]_vars

\* is_approved(review_id): get_item looks in the queue before the archive.
IsApproved(i) ==
    i \notin queue /\ \E e \in archive : e.review = i /\ e.status = "approved"

-----------------------------------------------------------------------------
(***************************************************************************)
(* The queue never holds more than max_queue_size items, also after it was *)
(* loaded from a file that an earlier, failed save left behind.            *)
(* human_in_the_loop.py:193-203.                                           *)
(***************************************************************************)
QueueBounded == Cardinality(queue) <= MaxQueue

(***************************************************************************)
(* Whatever saves fail and whenever the process restarts, is_approved      *)
(* answers yes only if the last decision on the review was a reviewer's    *)
(* approval: no expiry, eviction, torn file or old file turns into one,    *)
(* and none outlives a later denial.  human_in_the_loop.py:301-304.        *)
(***************************************************************************)
ApprovalStands == \A i \in Reviews : IsApproved(i) => latest[i] = "approved"

(***************************************************************************)
(* As long as no restart hits an unsaved change, every submitted review is *)
(* either waiting or decided, and never both: none is dropped on the way   *)
(* through sweep, eviction, review and restart, and none comes back.       *)
(* human_in_the_loop.py:193-203, 332-341, 354-368, 398-399.                *)
(***************************************************************************)
Conserved ==
    ~lost => \A i \in 1 .. issued : i \in queue <=> latest[i] = "none"

(***************************************************************************)
(* After a save that succeeded a restart finds what the process knew: the  *)
(* whole queue and the end of the archive.  Every path that changes the    *)
(* lists saves them.  human_in_the_loop.py:371-386.                        *)
(***************************************************************************)
FileIsCurrent ==
    saved => /\ file.queue = queue
             /\ file.archive \subseteq archive
             /\ \A e \in archive \ file.archive : \A f \in file.archive :
                   position[e.review] < position[f.review]

=============================================================================
