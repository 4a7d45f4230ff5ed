----------------------- MODULE HumanReviewQueue_proofs -----------------------
(***************************************************************************)
(* Proofs about HumanReviewQueue for every value of its constants.         *)
(*                                                                         *)
(* The inductive invariant ties three things together: what the process    *)
(* holds, what the file holds, and the last decision taken.  Its core is   *)
(* Settled: an entry of either archive carries the last decision on a      *)
(* review that no longer waits in the process, so no step can decide it    *)
(* differently while an entry of it exists.                                *)
(***************************************************************************)
EXTENDS HumanReviewQueue, FiniteSetTheorems, WellFoundedInduction, TLAPS

(* The oldest of some reviews is one of them: a nonempty set of positive   *)
(* numbers has a least element.                                            *)
LEMMA OldestIsIn ==
    ASSUME NEW S \in SUBSET (Nat \ {0}), S # {}
    PROVE  Oldest(S) \in S
<1> DEFINE T == {1 .. i : i \in S}
<1>1. T \subseteq FiniteSubsetsOf(Nat) /\ T # {}
  <2>1. ASSUME NEW i \in S PROVE 1 .. i \in FiniteSubsetsOf(Nat)
    <3>1. i \in Int /\ 1 \in Int /\ 1 .. i \in SUBSET Nat
      OBVIOUS
    <3>2. IsFiniteSet(1 .. i)
      BY <3>1, FS_Interval
    <3> QED
      BY <3>1, <3>2 DEF FiniteSubsetsOf
  <2> QED
    BY <2>1
<1>2. PICK x \in T : \A y \in T : ~ (<<y, x>> \in StrictSubsetOrdering(Nat))
  BY <1>1, FS_StrictSubsetOrderingWellFounded, WFMin
<1>3. PICK i \in S : x = 1 .. i
  OBVIOUS
<1>4. ASSUME NEW j \in S, j < i PROVE FALSE
  <2>1. 1 .. j \in T /\ 1 .. j \subseteq Nat /\ x \subseteq Nat
    BY <1>3
  <2>2. 1 .. j \subseteq x /\ i \in x /\ i \notin 1 .. j
    BY <1>3, <1>4
  <2>3. <<1 .. j, x>> \in StrictSubsetOrdering(Nat)
    BY <2>1, <2>2 DEF StrictSubsetOrdering
  <2> QED
    BY <1>2, <2>1, <2>3
<1>5. \A j \in S : i <= j
  BY <1>4
<1> QED
  BY <1>5 DEF Oldest

(* Sets of reviews are finite. *)
LEMMA ReviewsFinite ==
    ASSUME NEW S \in SUBSET Reviews
    PROVE  IsFiniteSet(S) /\ Cardinality(S) \in Nat
<1>1. IsFiniteSet(Reviews)
  BY QueueAssumption, FS_Interval DEF Reviews
<1>2. IsFiniteSet(S)
  BY <1>1, FS_Subset
<1> QED
  BY <1>2, FS_CardinalityType

(***************************************************************************)
(* The operators the actions share.                                        *)
(***************************************************************************)
LEMMA LeavingType ==
    ASSUME queue \subseteq Reviews
    PROVE  Leaving \subseteq queue
<1> DEFINE swept == IF Cardinality(queue) >= MaxQueue THEN Stale ELSE {}
           waiting == queue \ swept
<1>1. swept \subseteq queue
  BY DEF Stale
<1>2. Cardinality(waiting) \in Nat /\ IsFiniteSet(waiting)
  BY ReviewsFinite
<1>3. ASSUME Cardinality(waiting) >= MaxQueue PROVE waiting # {}
  BY <1>2, <1>3, FS_EmptySet, QueueAssumption
<1>4. ASSUME waiting # {} PROVE Oldest(waiting) \in waiting
  <2>1. Reviews \subseteq Nat \ {0}
    BY QueueAssumption DEF Reviews
  <2>2. waiting \subseteq Reviews
    OBVIOUS
  <2>3. waiting \in SUBSET (Nat \ {0})
    BY <2>1, <2>2
  <2> QED
    BY <1>4, <2>3, OldestIsIn
<1>5. Evicted(waiting) \subseteq queue
  BY <1>3, <1>4 DEF Evicted
<1> QED
  BY <1>1, <1>5 DEF Leaving

LEMMA FileType ==
    ASSUME TypeOK, NEW S \in SUBSET Reviews, NEW status \in Statuses,
           File(S, status)
    PROVE  /\ archive' \subseteq Entries
           /\ position' \in [Reviews -> 0 .. filings']
           /\ filings' \in 0 .. MaxFilings
           /\ latest' \in [Reviews -> Statuses \cup {"none"}]
<1>1. IsFiniteSet(S) /\ Cardinality(S) \in Nat
  BY ReviewsFinite
<1>2. filings \in Nat /\ filings' = filings + Cardinality(S)
  BY DEF TypeOK, File
<1>3. ASSUME NEW i \in S
      PROVE  /\ Cardinality({j \in S : j <= i}) \in Nat
             /\ Cardinality({j \in S : j <= i}) <= Cardinality(S)
  BY <1>1, ReviewsFinite, FS_Subset
<1>4. filings' \in 0 .. MaxFilings
  BY <1>1, <1>2, QueueAssumption DEF File
<1>5. ASSUME NEW i \in Reviews PROVE position'[i] \in 0 .. filings'
  <2>1. position'[i] = IF i \in S
                       THEN filings + Cardinality({j \in S : j <= i})
                       ELSE position[i]
    BY DEF File
  <2>2. position[i] \in 0 .. filings
    BY DEF TypeOK
  <2> QED
    BY <1>1, <1>2, <1>3, <2>1, <2>2
<1>6. position' \in [Reviews -> 0 .. filings']
  BY <1>5 DEF File
<1>7. archive' \subseteq Entries
  BY DEF File, TypeOK, Entries
<1>8. latest' \in [Reviews -> Statuses \cup {"none"}]
  BY DEF File, TypeOK
<1> QED
  BY <1>4, <1>6, <1>7, <1>8

LEMMA SaveType ==
    ASSUME TypeOK, Save, queue' \subseteq 1 .. issued',
           archive' \subseteq Entries, issued' \in 0 .. MaxItems,
           issued <= issued'
    PROVE  /\ file' \in [queue : SUBSET (1 .. issued'), archive : SUBSET Entries]
           /\ saved' \in BOOLEAN
<1>1. LastKept(archive') \subseteq Entries
  BY DEF LastKept
<1>2. issued \in Nat /\ issued' \in Nat
  BY QueueAssumption DEF TypeOK
<1>3. 1 .. issued \subseteq 1 .. issued'
  BY <1>2
<1>4. file \in [queue : SUBSET (1 .. issued'), archive : SUBSET Entries]
  <2>1. file \in [queue : SUBSET (1 .. issued), archive : SUBSET Entries]
    BY DEF TypeOK
  <2> QED
    BY <1>3, <2>1
<1>5. CASE file' = [queue |-> queue', archive |-> LastKept(archive')] /\ saved' = TRUE
  BY <1>1, <1>5
<1>6. CASE file' = file /\ saved' = FALSE
  BY <1>4, <1>6
<1>7. CASE file' = [queue |-> {}, archive |-> {}] /\ saved' = FALSE
  BY <1>7
<1> QED
  BY <1>5, <1>6, <1>7 DEF Save

LEMMA IssuedType == TypeOK => queue \subseteq Reviews
BY QueueAssumption DEF TypeOK, Reviews

(***************************************************************************)
(* The type invariant.                                                     *)
(***************************************************************************)
LEMMA InitType == Init => TypeOK
<1> SUFFICES ASSUME Init PROVE TypeOK
  OBVIOUS
<1>1. file \in [queue : SUBSET (1 .. issued), archive : SUBSET Entries]
  BY DEF Init
<1>2. /\ position \in [Reviews -> 0 .. filings] /\ left \in [Reviews -> 0 .. Expiry]
      /\ latest \in [Reviews -> Statuses \cup {"none"}]
  BY QueueAssumption DEF Init
<1>3. /\ queue \subseteq 1 .. issued /\ archive \subseteq Entries
      /\ saved \in BOOLEAN /\ lost \in BOOLEAN
  BY DEF Init
<1>4. filings \in 0 .. MaxFilings /\ issued \in 0 .. MaxItems
  BY QueueAssumption DEF Init
<1> QED
  BY <1>1, <1>2, <1>3, <1>4 DEF TypeOK

LEMMA StepType == TypeOK /\ [Next]_vars => TypeOK'
<1> SUFFICES ASSUME TypeOK, [Next]_vars PROVE TypeOK'
  OBVIOUS
<1> USE QueueAssumption
<1>0. issued \in 0 .. MaxItems /\ queue \subseteq 1 .. issued
  BY DEF TypeOK
<1>1. queue \subseteq Reviews
  BY IssuedType
<1>2. CASE SubmitForReview
  <2>1. Leaving \in SUBSET Reviews /\ "expired" \in Statuses
    BY <1>1, LeavingType DEF Statuses
  <2>2. /\ archive' \subseteq Entries
        /\ position' \in [Reviews -> 0 .. filings']
        /\ filings' \in 0 .. MaxFilings
        /\ latest' \in [Reviews -> Statuses \cup {"none"}]
    BY <1>2, <2>1, FileType DEF SubmitForReview
  <2>3. issued' \in 0 .. MaxItems /\ issued <= issued'
        /\ queue' \subseteq 1 .. issued'
    <3>1. /\ issued < MaxItems /\ issued' = issued + 1
          /\ queue' = (queue \ Leaving) \cup {issued + 1}
      BY <1>2 DEF SubmitForReview
    <3>2. 1 .. issued \subseteq 1 .. issued + 1 /\ issued + 1 \in 1 .. issued + 1
      BY <1>0
    <3>3. queue' \subseteq 1 .. issued'
      BY <1>0, <3>1, <3>2
    <3>4. issued' \in 0 .. MaxItems /\ issued <= issued'
      BY <1>0, <3>1
    <3> QED
      BY <3>3, <3>4
  <2>4. file' \in [queue : SUBSET (1 .. issued'), archive : SUBSET Entries]
        /\ saved' \in BOOLEAN
    BY <1>2, <2>2, <2>3, SaveType DEF SubmitForReview
  <2>5. left' \in [Reviews -> 0 .. Expiry] /\ lost' \in BOOLEAN
    <3>1. left \in [Reviews -> 0 .. Expiry] /\ lost \in BOOLEAN
      BY DEF TypeOK
    <3>2. left' = [left EXCEPT ![issued + 1] = Expiry] /\ lost' = lost
      BY <1>2 DEF SubmitForReview
    <3>3. Expiry \in 0 .. Expiry
      OBVIOUS
    <3>4. left' \in [Reviews -> 0 .. Expiry]
      BY <3>1, <3>2, <3>3
    <3>5. lost' \in BOOLEAN
      BY <3>1, <3>2
    <3> QED
      BY <3>4, <3>5
  <2> QED
    BY <2>2, <2>3, <2>4, <2>5 DEF TypeOK
<1>3. ASSUME NEW i \in Reviews, NEW status \in {"approved", "denied"},
             Review(i, status)
      PROVE  TypeOK'
  <2>1. /\ archive' \subseteq Entries
        /\ position' \in [Reviews -> 0 .. filings']
        /\ filings' \in 0 .. MaxFilings
        /\ latest' \in [Reviews -> Statuses \cup {"none"}]
    BY <1>3, FileType DEF Review, Statuses
  <2>2. /\ issued' \in 0 .. MaxItems /\ issued <= issued'
        /\ queue' \subseteq 1 .. issued'
    BY <1>3 DEF Review, TypeOK
  <2>3. file' \in [queue : SUBSET (1 .. issued'), archive : SUBSET Entries]
        /\ saved' \in BOOLEAN
    BY <1>3, <2>1, <2>2, SaveType DEF Review
  <2> QED
    BY <1>3, <2>1, <2>2, <2>3 DEF Review, TypeOK
<1>4. CASE ExpireStale
  <2>1. Stale \in SUBSET Reviews /\ "expired" \in Statuses
    BY <1>1 DEF Stale, Statuses
  <2>2. /\ archive' \subseteq Entries
        /\ position' \in [Reviews -> 0 .. filings']
        /\ filings' \in 0 .. MaxFilings
        /\ latest' \in [Reviews -> Statuses \cup {"none"}]
    BY <1>4, <2>1, FileType DEF ExpireStale
  <2>3. /\ issued' \in 0 .. MaxItems /\ issued <= issued'
        /\ queue' \subseteq 1 .. issued'
    <3>1. issued' = issued /\ queue' = queue \ Stale
      BY <1>4 DEF ExpireStale
    <3>2. queue' \subseteq 1 .. issued'
      BY <1>0, <3>1
    <3>3. issued' \in 0 .. MaxItems /\ issued <= issued'
      BY <1>0, <3>1
    <3> QED
      BY <3>2, <3>3
  <2>4. file' \in [queue : SUBSET (1 .. issued'), archive : SUBSET Entries]
        /\ saved' \in BOOLEAN
    BY <1>4, <2>2, <2>3, SaveType DEF ExpireStale
  <2> QED
    BY <1>4, <2>2, <2>3, <2>4 DEF ExpireStale, TypeOK
<1>5. CASE Restart
  BY <1>5 DEF Restart, TypeOK
<1>6. CASE Tick
  BY <1>6 DEF Tick, decisions, TypeOK
<1>7. CASE UNCHANGED vars
  BY <1>7 DEF vars, decisions, TypeOK
<1> QED
  BY <1>2, <1>3, <1>4, <1>5, <1>6, <1>7 DEF Next

THEOREM TypeCorrect == Spec => []TypeOK
BY InitType, StepType, PTL DEF Spec

-----------------------------------------------------------------------------

Settled ==
    /\ \A e \in archive \cup file.archive :
          /\ latest[e.review] = e.status
          /\ e.review \notin queue
          /\ e.review \in 1 .. issued
    /\ \A e \in file.archive : e.review \notin file.queue

Unissued == \A i \in Reviews : i > issued => latest[i] = "none"

SavedQueue == saved => file.queue = queue

QueueInv == TypeOK /\ Settled /\ Unissued /\ SavedQueue /\ Conserved

(* Filing the reviews S, which leave the queue, keeps the archives settled *)
(* whatever becomes of the save.                                           *)
LEMMA FilingSettles ==
    ASSUME QueueInv, TypeOK', NEW S \in SUBSET queue,
           NEW status \in Statuses, File(S, status), Save,
           issued' \in {issued, issued + 1},
           queue' \subseteq (queue \ S) \cup {issued + 1}
    PROVE  Settled'
<1> USE QueueAssumption
<1>1. S \subseteq 1 .. issued /\ issued \in Nat /\ queue \subseteq 1 .. issued
  BY DEF QueueInv, TypeOK
<1>2. archive' = archive \cup [review : S, status : {status}]
  BY DEF File
<1>3. \A i \in Reviews : latest'[i] = IF i \in S THEN status ELSE latest[i]
  BY DEF File
<1>4. ASSUME NEW e \in archive \cup file.archive
      PROVE  /\ e.review \in Reviews /\ e.review \notin S
             /\ e.review \in 1 .. issued /\ latest[e.review] = e.status
             /\ e.review \notin queue
  BY <1>4 DEF QueueInv, Settled, TypeOK, Entries
<1>5. ASSUME NEW e \in archive' \cup file.archive
      PROVE  /\ latest'[e.review] = e.status
             /\ e.review \notin queue'
             /\ e.review \in 1 .. issued'
  <2>1. CASE e \in archive \cup file.archive
    BY <1>1, <1>3, <1>4, <2>1
  <2>2. CASE e \in [review : S, status : {status}]
    <3>1. e.review \in S /\ e.status = status
      BY <2>2
    <3>2. e.review \in Reviews /\ e.review \in 1 .. issued
      BY <1>1, <3>1, IssuedType DEF QueueInv
    <3> QED
      BY <1>1, <1>3, <3>1, <3>2
  <2> QED
    BY <1>2, <2>1, <2>2
<1>6. LastKept(archive') \subseteq archive'
  BY DEF LastKept
<1>7. file'.archive \subseteq archive' \cup file.archive
  BY <1>6 DEF Save
<1>8. ASSUME NEW e \in file'.archive PROVE e.review \notin file'.queue
  BY <1>5, <1>6, <1>8 DEF Save, QueueInv, Settled
<1> QED
  BY <1>5, <1>7, <1>8 DEF Settled

LEMMA SavingSyncs == Save => SavedQueue'
BY DEF Save, SavedQueue

LEMMA StepQueue == QueueInv /\ [Next]_vars => QueueInv'
<1> SUFFICES ASSUME QueueInv, [Next]_vars PROVE QueueInv'
  OBVIOUS
<1> USE QueueAssumption
<1>1. TypeOK /\ TypeOK'
  BY StepType DEF QueueInv
<1>2. queue \subseteq Reviews /\ queue \subseteq 1 .. issued /\ issued \in Nat
  BY <1>1, IssuedType DEF TypeOK
<1>3. CASE SubmitForReview
  <2>1. Leaving \in SUBSET queue /\ "expired" \in Statuses
    BY <1>2, LeavingType DEF Statuses
  <2>2. /\ issued' = issued + 1 /\ issued + 1 \in Reviews
        /\ queue' = (queue \ Leaving) \cup {issued + 1}
    BY <1>2, <1>3 DEF SubmitForReview, Reviews
  <2>3. Settled'
    BY <1>1, <1>3, <2>1, <2>2, FilingSettles DEF SubmitForReview
  <2>4. \A i \in Reviews :
           latest'[i] = IF i \in Leaving THEN "expired" ELSE latest[i]
    BY <1>3 DEF SubmitForReview, File
  <2>5. Unissued'
    BY <1>2, <2>1, <2>2, <2>4 DEF Unissued, QueueInv, Reviews
  <2>6. Conserved'
    <3> SUFFICES ASSUME ~lost', NEW i \in 1 .. issued'
                 PROVE  i \in queue' <=> latest'[i] = "none"
      BY DEF Conserved
    <3>1. i \in Reviews
      BY <2>2 DEF Reviews
    <3>2. ~lost
      BY <1>3 DEF SubmitForReview
    <3>3. CASE i = issued + 1
      BY <1>2, <2>1, <2>2, <2>4, <3>1, <3>3 DEF QueueInv, Unissued
    <3>4. CASE i # issued + 1
      BY <1>2, <2>1, <2>2, <2>4, <3>1, <3>2, <3>4 DEF QueueInv, Conserved
    <3> QED
      BY <3>3, <3>4
  <2>7. SavedQueue'
    BY <1>3, SavingSyncs DEF SubmitForReview
  <2> QED
    BY <1>1, <2>3, <2>5, <2>6, <2>7 DEF QueueInv
<1>4. ASSUME NEW S \in SUBSET queue, NEW status \in Statuses,
             File(S, status), Save, queue' = queue \ S,
             issued' = issued, lost' = lost
      PROVE  QueueInv'
  <2>1. Settled'
    BY <1>1, <1>4, FilingSettles
  <2>2. \A i \in Reviews :
           latest'[i] = IF i \in S THEN status ELSE latest[i]
    BY <1>4 DEF File
  <2>3. Unissued'
    BY <1>2, <1>4, <2>2 DEF Unissued, QueueInv, Reviews
  <2>4. status # "none"
    BY <1>4 DEF Statuses
  <2>5. Conserved'
    BY <1>2, <1>4, <2>2, <2>4 DEF Conserved, QueueInv, TypeOK, Reviews
  <2>6. SavedQueue'
    BY <1>4, SavingSyncs
  <2> QED
    BY <1>1, <2>1, <2>3, <2>5, <2>6 DEF QueueInv
<1>5. ASSUME NEW i \in Reviews, NEW status \in {"approved", "denied"},
             Review(i, status)
      PROVE  QueueInv'
  BY <1>4, <1>5 DEF Review, Statuses
<1>6. CASE ExpireStale
  <2>1. Stale \in SUBSET queue /\ "expired" \in Statuses
    BY DEF Stale, Statuses
  <2> QED
    BY <1>4, <1>6, <2>1 DEF ExpireStale
<1>7. CASE Restart
  BY <1>1, <1>7
     DEF Restart, QueueInv, Settled, Unissued, SavedQueue, Conserved
<1>8. CASE Tick
  BY <1>1, <1>8
     DEF Tick, decisions, QueueInv, Settled, Unissued, SavedQueue, Conserved
<1>9. CASE UNCHANGED vars
  BY <1>1, <1>9
     DEF vars, decisions, QueueInv, Settled, Unissued, SavedQueue, Conserved
<1> QED
  BY <1>3, <1>5, <1>6, <1>7, <1>8, <1>9 DEF Next

LEMMA InitQueue == Init => QueueInv
BY InitType, QueueAssumption
   DEF Init, QueueInv, Settled, Unissued, SavedQueue, Conserved

LEMMA QueueInvariant == Spec => []QueueInv
BY InitQueue, StepQueue, PTL DEF Spec

(***************************************************************************)
(* is_approved answers yes only while the last decision is a reviewer's    *)
(* approval, whatever saves fail and whenever the process restarts.        *)
(***************************************************************************)
THEOREM OnlyReviewersApprove == Spec => []ApprovalStands
<1>1. QueueInv => ApprovalStands
  BY DEF QueueInv, Settled, ApprovalStands, IsApproved
<1> QED
  BY <1>1, QueueInvariant, PTL

(***************************************************************************)
(* No review is lost or decided twice unless a restart hits an unsaved     *)
(* change.                                                                 *)
(***************************************************************************)
THEOREM ReviewsAreConserved == Spec => []Conserved
BY QueueInvariant, PTL DEF QueueInv

-----------------------------------------------------------------------------
(***************************************************************************)
(* The bound on the queue.  It needs the bound on the file as well, which  *)
(* a restart makes the queue; and that a full queue gives up an item       *)
(* before it takes one: by the sweep or, if that freed nothing, by the     *)
(* eviction of the oldest.                                                 *)
(***************************************************************************)
BothBounded == QueueBounded /\ Cardinality(file.queue) <= MaxQueue

LEMMA RoomIsMade ==
    ASSUME queue \subseteq Reviews, QueueBounded
    PROVE  Cardinality(queue \ Leaving) <= MaxQueue - 1
<1> DEFINE swept == IF Cardinality(queue) >= MaxQueue THEN Stale ELSE {}
           waiting == queue \ swept
<1> USE QueueAssumption
<1>1. waiting \in SUBSET Reviews /\ IsFiniteSet(queue) /\ Cardinality(queue) \in Nat
  BY ReviewsFinite
<1>2. IsFiniteSet(waiting) /\ Cardinality(waiting) \in Nat
  BY <1>1, ReviewsFinite
<1>3. Cardinality(waiting) <= Cardinality(queue)
  BY <1>1, FS_Subset
<1>4. queue \ Leaving = waiting \ Evicted(waiting)
  BY DEF Leaving
<1>5. CASE Cardinality(waiting) >= MaxQueue
  <2>1. waiting # {}
    BY <1>2, <1>5, FS_EmptySet
  <2>2. Reviews \subseteq Nat \ {0}
    BY DEF Reviews
  <2>3. waiting \in SUBSET (Nat \ {0})
    BY <1>1, <2>2
  <2>4. Oldest(waiting) \in waiting
    BY <2>1, <2>3, OldestIsIn
  <2>5. Cardinality(waiting \ {Oldest(waiting)}) = Cardinality(waiting) - 1
    BY <1>2, <2>4, FS_RemoveElement
  <2>6. queue \ Leaving = waiting \ {Oldest(waiting)}
    BY <1>4, <1>5 DEF Evicted
  <2>7. Cardinality(queue \ Leaving) = Cardinality(waiting) - 1
    BY <2>5, <2>6
  <2> HIDE DEF waiting
  <2> QED
    BY <1>1, <1>2, <1>3, <2>7 DEF QueueBounded
<1>6. CASE ~(Cardinality(waiting) >= MaxQueue)
  <2>1. queue \ Leaving = waiting
    BY <1>4, <1>6 DEF Evicted
  <2>2. Cardinality(queue \ Leaving) = Cardinality(waiting)
    BY <2>1
  <2> HIDE DEF waiting
  <2> QED
    BY <1>2, <1>6, <2>2
<1> QED
  BY <1>5, <1>6

(* What Save leaves in the file is the new queue, the old one, or nothing. *)
LEMMA SaveBounded ==
    ASSUME BothBounded, Save, QueueBounded'
    PROVE  BothBounded'
<1>1. Cardinality({}) = 0
  BY FS_EmptySet
<1>2. CASE file' = [queue |-> queue', archive |-> LastKept(archive')]
  <2>1. file'.queue = queue'
    BY <1>2
  <2> QED
    BY <2>1 DEF BothBounded, QueueBounded
<1>3. CASE file' = file
  BY <1>3 DEF BothBounded
<1>4. CASE file' = [queue |-> {}, archive |-> {}]
  <2>1. file'.queue = {}
    BY <1>4
  <2> QED
    BY <1>1, <2>1, QueueAssumption DEF BothBounded
<1> QED
  BY <1>2, <1>3, <1>4 DEF Save

LEMMA StepBounded == TypeOK /\ BothBounded /\ [Next]_vars => BothBounded'
<1> SUFFICES ASSUME TypeOK, BothBounded, [Next]_vars PROVE BothBounded'
  OBVIOUS
<1> USE QueueAssumption
<1>1. queue \subseteq Reviews
  BY IssuedType
<1>2. CASE SubmitForReview
  <2>1. queue \ Leaving \subseteq Reviews
    BY <1>1
  <2>2. /\ IsFiniteSet(queue \ Leaving)
        /\ Cardinality(queue \ Leaving) \in Nat
        /\ Cardinality(queue \ Leaving) <= MaxQueue - 1
    BY <1>1, <2>1, ReviewsFinite, RoomIsMade DEF BothBounded
  <2>3. queue' = (queue \ Leaving) \cup {issued + 1}
    BY <1>2 DEF SubmitForReview
  <2>4. Cardinality(queue') <= Cardinality(queue \ Leaving) + 1
    BY <2>2, <2>3, FS_AddElement
  <2>5. Cardinality(queue') \in Nat
    BY <2>2, <2>3, FS_AddElement
  <2>6. QueueBounded'
    BY <2>2, <2>4, <2>5 DEF QueueBounded
  <2> QED
    BY <1>2, <2>6, SaveBounded DEF SubmitForReview
<1>3. ASSUME queue' \subseteq queue, Save PROVE BothBounded'
  <2>1. IsFiniteSet(queue) /\ Cardinality(queue) \in Nat
    BY <1>1, ReviewsFinite
  <2>2. Cardinality(queue') <= Cardinality(queue)
    BY <1>3, <2>1, FS_Subset
  <2>3. Cardinality(queue') \in Nat
    BY <1>1, <1>3, ReviewsFinite
  <2>4. QueueBounded'
    BY <2>1, <2>2, <2>3 DEF QueueBounded, BothBounded
  <2> QED
    BY <1>3, <2>4, SaveBounded
<1>4. ASSUME NEW i \in Reviews, NEW status \in {"approved", "denied"},
             Review(i, status)
      PROVE  BothBounded'
  BY <1>3, <1>4 DEF Review
<1>5. CASE ExpireStale
  BY <1>3, <1>5 DEF ExpireStale
<1>6. CASE Restart
  BY <1>6 DEF Restart, BothBounded, QueueBounded
<1>7. CASE Tick
  BY <1>7 DEF Tick, BothBounded, QueueBounded
<1>8. CASE UNCHANGED vars
  BY <1>8 DEF vars, BothBounded, QueueBounded
<1> QED
  BY <1>2, <1>4, <1>5, <1>6, <1>7, <1>8 DEF Next

(***************************************************************************)
(* The queue never outgrows max_queue_size.                                *)
(***************************************************************************)
THEOREM QueueStaysBounded == Spec => []QueueBounded
<1>1. Init => BothBounded
  BY FS_EmptySet, QueueAssumption DEF Init, BothBounded, QueueBounded
<1>2. BothBounded => QueueBounded
  BY DEF BothBounded
<1> QED
  BY <1>1, <1>2, StepBounded, TypeCorrect, PTL DEF Spec
-----------------------------------------------------------------------------
(* The archive is finite. *)
LEMMA EntriesFinite == IsFiniteSet(Entries)
<1>1. IsFiniteSet(Reviews) /\ IsFiniteSet(Statuses)
  <2>1. IsFiniteSet({}) /\ Statuses = (({} \cup {"approved"}) \cup {"denied"}) \cup {"expired"}
    BY FS_EmptySet DEF Statuses
  <2>2. IsFiniteSet(Statuses)
    BY <2>1, FS_AddElement
  <2> QED
    BY <2>2, ReviewsFinite
<1>2. IsFiniteSet(Reviews \X Statuses)
  BY <1>1, FS_Product
<1> DEFINE entry == [p \in Reviews \X Statuses |-> [review |-> p[1], status |-> p[2]]]
<1>3. entry \in [Reviews \X Statuses -> Entries]
  BY DEF Entries
<1>4. ASSUME NEW e \in Entries PROVE \E p \in Reviews \X Statuses : entry[p] = e
  <2>1. <<e.review, e.status>> \in Reviews \X Statuses
    BY DEF Entries
  <2>2. entry[<<e.review, e.status>>] = e
    BY <2>1 DEF Entries
  <2> QED
    BY <2>1, <2>2
<1> HIDE DEF entry
<1>5. entry \in Surjection(Reviews \X Statuses, Entries)
  BY <1>3, <1>4 DEF Surjection
<1> QED
  BY <1>2, <1>5, FS_Surjection

(* What the saved end of the archive leaves out was filed before it. *)
LEMMA KeptAreLatest ==
    ASSUME TypeOK', NEW e \in archive' \ LastKept(archive'), NEW f \in LastKept(archive')
    PROVE  position'[e.review] < position'[f.review]
<1> DEFINE after(g) == {h \in archive' : position'[h.review] > position'[g.review]}
<1>1. /\ f \in archive' /\ archive' \subseteq Entries
      /\ position' \in [Reviews -> 0 .. filings'] /\ filings' \in Nat
  BY DEF LastKept, TypeOK
<1>2. /\ \A g \in archive' : position'[g.review] \in Int
      /\ e \in archive'
  BY <1>1 DEF Entries
<1>3. Cardinality(after(f)) < ArchiveKept /\ ~(Cardinality(after(e)) < ArchiveKept)
  BY <1>1, <1>2 DEF LastKept
<1>4. IsFiniteSet(after(f))
  BY <1>1, EntriesFinite, FS_Subset
<1>5. ASSUME ~(position'[e.review] < position'[f.review]) PROVE FALSE
  <2>1. after(e) \subseteq after(f)
    BY <1>1, <1>2, <1>5
  <2> HIDE DEF after
  <2>2. /\ Cardinality(after(e)) <= Cardinality(after(f)) /\ Cardinality(after(e)) \in Nat
        /\ Cardinality(after(f)) \in Nat
    BY <1>4, <2>1, FS_Subset, FS_CardinalityType
  <2> QED
    BY <1>3, <2>2, QueueAssumption
<1> QED
  BY <1>5

(* Whatever else a step does, its save makes the file current or says so.  *)
LEMMA SavingIsCurrent == ASSUME TypeOK', Save PROVE FileIsCurrent'
<1>1. CASE file' = [queue |-> queue', archive |-> LastKept(archive')]
  <2>1. file'.queue = queue' /\ file'.archive = LastKept(archive')
    BY <1>1
  <2>2. LastKept(archive') \subseteq archive'
    BY DEF LastKept
  <2> QED
    BY <2>1, <2>2, KeptAreLatest DEF FileIsCurrent
<1>2. CASE ~saved'
  BY <1>2 DEF FileIsCurrent
<1> QED
  BY <1>1, <1>2 DEF Save

(***************************************************************************)
(* A save that succeeded holds what the process knows: the whole queue and *)
(* the end of the archive, for every number of entries that are kept; and  *)
(* no path that changes the lists goes without a save.                     *)
(* human_in_the_loop.py:371-386.                                           *)
(***************************************************************************)
THEOREM TheFileIsCurrent == Spec => []FileIsCurrent
<1>1. Init => FileIsCurrent
  BY DEF Init, FileIsCurrent
<1>2. ASSUME TypeOK, FileIsCurrent, [Next]_vars PROVE FileIsCurrent'
  <2>1. TypeOK'
    BY <1>2, StepType
  <2>2. CASE Save
    BY <2>1, <2>2, SavingIsCurrent
  <2>3. CASE Restart
    BY <2>3 DEF Restart, FileIsCurrent
  <2>4. CASE UNCHANGED <<queue, archive, position, file, saved>>
    BY <1>2, <2>4 DEF FileIsCurrent
  <2>5. Save \/ Restart \/ UNCHANGED <<queue, archive, position, file, saved>>
    BY <1>2 DEF Next, SubmitForReview, Review, ExpireStale, Tick, vars, decisions
  <2> QED
    BY <2>2, <2>3, <2>4, <2>5
<1> QED
  BY <1>1, <1>2, TypeCorrect, PTL DEF Spec
=============================================================================
