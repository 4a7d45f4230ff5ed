---------------------------- MODULE Stores_proofs ----------------------------
(***************************************************************************)
(* Proofs about what the runtime keeps beside the turn, for every value of *)
(* the constants: the event store, the goals, the memory cache, the two    *)
(* histories of the world, the causal graph and the notifications.  Each   *)
(* part has an inductive invariant of its own; the parts share no state.   *)
(***************************************************************************)
EXTENDS TraceStore, GoalPersistence, MemoryCache, WorldState, CausalModel,
        NotificationLog, FiniteSetTheorems, SequenceTheorems, WellFoundedInduction, TLAPS

-----------------------------------------------------------------------------
(***************************************************************************)
(* The event store.  What makes RestrictionsHold inductive is that an      *)
(* erased row stays in the table: its flag is what refuses the next        *)
(* storing.                                                                *)
(***************************************************************************)
Row == [payload : Payloads, suppressed : BOOLEAN, erased : BOOLEAN]

Tombstones == \A e \in gone : e \in DOMAIN rows /\ rows[e].erased /\ e \in auditLog

FlagsFollow ==
    /\ rows \in [DOMAIN rows -> Row]
    /\ restricted \subseteq DOMAIN rows
    /\ \A e \in DOMAIN rows : rows[e].suppressed <=> e \in restricted

TraceInv == Tombstones /\ FlagsFollow

LEMMA TraceInitInv == TraceInit => TraceInv
BY DEF TraceInit, TraceInv, Tombstones, FlagsFollow

(* Every operation keeps the tombstones and the suppression flags.         *)
LEMMA TraceStep == TraceInv /\ [TraceNext]_tvars => TraceInv'
<1> SUFFICES ASSUME TraceInv, [TraceNext]_tvars PROVE TraceInv'
  OBVIOUS
<1> USE DEF TraceInv, Tombstones, FlagsFollow, Row
<1>1. ASSUME NEW e \in EventIds, NEW payload \in Payloads, StoreEvent(e, payload)
      PROVE  TraceInv'
  <2>1. Replaced(e, payload) \in Row
        /\ (Replaced(e, payload).suppressed <=> e \in restricted)
    BY DEF Replaced
  <2>2. e \notin gone
    BY <1>1 DEF StoreEvent
  <2>3. DOMAIN rows' = DOMAIN rows \cup {e} /\ rows'[e] = Replaced(e, payload)
        /\ \A k \in DOMAIN rows : k # e => rows'[k] = rows[k]
    BY <1>1 DEF StoreEvent
  <2>4. rows' \in [DOMAIN rows' -> Row]
    BY <1>1, <2>1 DEF StoreEvent
  <2>5. UNCHANGED <<auditLog, restricted, gone>>
    BY <1>1 DEF StoreEvent
  <2> QED
    BY <2>1, <2>2, <2>3, <2>4, <2>5
<1>2. ASSUME NEW e \in EventIds, NEW suppressed \in BOOLEAN, MarkSuppressed(e, suppressed)
      PROVE  TraceInv'
  <2>1. DOMAIN rows' = DOMAIN rows /\ rows' \in [DOMAIN rows -> Row]
        /\ rows'[e].suppressed = suppressed
        /\ \A k \in DOMAIN rows : rows'[k].erased = rows[k].erased
                                  /\ (k # e => rows'[k] = rows[k])
    BY <1>2 DEF MarkSuppressed
  <2> QED
    BY <1>2, <2>1 DEF MarkSuppressed
<1>3. ASSUME NEW e \in EventIds, EraseEvent(e) PROVE TraceInv'
  <2>1. DOMAIN rows' = DOMAIN rows /\ rows' \in [DOMAIN rows -> Row]
        /\ (e \in DOMAIN rows => rows'[e].erased)
        /\ \A k \in DOMAIN rows : rows'[k].suppressed = rows[k].suppressed
                                  /\ (rows[k].erased => rows'[k].erased)
    BY <1>3 DEF EraseEvent
  <2> QED
    BY <1>3, <2>1 DEF EraseEvent
<1>4. CASE UNCHANGED tvars
  BY <1>4 DEF tvars
<1> QED
  BY <1>1, <1>2, <1>3, <1>4 DEF TraceNext

(***************************************************************************)
(* "A tombstone is final": no order of storing again, suppressing,         *)
(* releasing and erasing makes an erased event readable, and a suppressed  *)
(* event stays so until mark_suppressed releases it, for any number of     *)
(* events and payloads.  trace_store.py:147-182, 340-384.                  *)
(***************************************************************************)
THEOREM TombstonesAreFinal == TraceSpec => []RestrictionsHold
<1>1. TraceInv => RestrictionsHold
  BY DEF TraceInv, Tombstones, FlagsFollow, RestrictionsHold, Readable
<1> QED
  BY <1>1, TraceInitInv, TraceStep, PTL DEF TraceSpec

-----------------------------------------------------------------------------
(***************************************************************************)
(* The goals.  A file is one that does not parse or one that a save wrote  *)
(* in full, so what a process loads is what the file holds.                *)
(***************************************************************************)
Whole(file) == file = Unreadable \/ file = FileOf(file.goals, file.revisions)

GoalInv ==
    /\ goalFiles \in [GoalSessions -> {goalFiles[s] : s \in GoalSessions}]
    /\ \A s \in GoalSessions : Whole(goalFiles[s])
    /\ goalSession \in GoalSessions \cup {NoSession}
    /\ upToDate => /\ goalSession \in GoalSessions
                   /\ goalFiles[goalSession] = FileOf(goals, revisions)

LEMMA GoalInitInv == GoalInit => GoalInv
BY DEF GoalInit, GoalInv, Whole

(* A change, whichever method makes it, reaches the file or clears the     *)
(* history that says so: all callers go through _trigger_auto_save.        *)
LEMMA ChangeKeeps ==
    ASSUME GoalInv, NEW gs, NEW rs, ChangeBoth(gs, rs)
    PROVE  GoalInv'
<1>1. UNCHANGED <<goalSession, autoSave>> /\ SaveGoals
  BY DEF ChangeBoth
<1>2. CASE autoSave /\ goalSession # NoSession
  <2>1. PICK file \in {FileOf(goals', revisions'), goalFiles[goalSession], Unreadable} :
           /\ goalFiles' = [goalFiles EXCEPT ![goalSession] = file]
           /\ upToDate' = (file = FileOf(goals', revisions'))
    BY <1>1, <1>2 DEF SaveGoals
  <2>2. goalSession \in GoalSessions
    BY <1>2 DEF GoalInv
  <2>3. Whole(file)
    BY <2>1, <2>2 DEF GoalInv, Whole, FileOf, Unreadable
  <2>4. goalFiles'[goalSession] = file /\ DOMAIN goalFiles' = GoalSessions
        /\ \A s \in GoalSessions : s # goalSession => goalFiles'[s] = goalFiles[s]
    BY <2>1, <2>2 DEF GoalInv
  <2>5. goalFiles' \in [GoalSessions -> {goalFiles'[s] : s \in GoalSessions}]
    BY <2>1, <2>4 DEF GoalInv
  <2> QED
    BY <1>1, <2>1, <2>2, <2>3, <2>4, <2>5 DEF GoalInv
<1>3. CASE ~(autoSave /\ goalSession # NoSession)
  BY <1>1, <1>3 DEF SaveGoals, GoalInv
<1> QED
  BY <1>2, <1>3

(* Every operation keeps the invariant of the goals.                       *)
LEMMA GoalStep == GoalInv /\ [GoalNext]_gvars => GoalInv'
<1> SUFFICES ASSUME GoalInv, [GoalNext]_gvars PROVE GoalInv'
  OBVIOUS
<1>1. ASSUME NEW g \in GoalIds, NEW parent \in GoalIds \cup {Orphan}, AddGoal(g, parent)
      PROVE  GoalInv'
  BY <1>1, ChangeKeeps DEF AddGoal, Change
<1>2. ASSUME NEW g \in DOMAIN goals, Activate(g) \/ Complete(g) \/ Abandon(g) \/ Block(g)
      PROVE  GoalInv'
  BY <1>2, ChangeKeeps DEF Activate, Complete, Abandon, Block, Change
<1>3. ASSUME NEW g \in DOMAIN goals, NEW done \in BOOLEAN, UpdateProgress(g, done)
      PROVE  GoalInv'
  BY <1>3, ChangeKeeps DEF UpdateProgress, Change
<1>4. ASSUME NEW g \in DOMAIN goals, ProposeRevision(g) PROVE GoalInv'
  BY <1>4, ChangeKeeps DEF ProposeRevision
<1>5. ASSUME NEW g \in DOMAIN goals, NEW status \in GoalStatuses, ApplyRevision(g, status)
      PROVE  GoalInv'
  BY <1>5, ChangeKeeps DEF ApplyRevision
<1>6. ASSUME NEW s \in GoalSessions, SetSession(s) PROVE GoalInv'
  BY <1>6 DEF SetSession, GoalInv
<1>7. ASSUME NEW s \in GoalSessions, LoadGoals(s) PROVE GoalInv'
  <2>1. Whole(goalFiles[s])
    BY DEF GoalInv
  <2>2. goalFiles[s].readable =>
            goalFiles[s] = FileOf(goalFiles[s].goals, goalFiles[s].revisions)
    BY <2>1 DEF Whole, Unreadable
  <2>3. /\ goals' = goalFiles[s].goals /\ revisions' = goalFiles[s].revisions
        /\ goalSession' = IF goalFiles[s].readable THEN s ELSE NoSession
        /\ upToDate' = goalFiles[s].readable
        /\ UNCHANGED goalFiles
    BY <1>7 DEF LoadGoals
  <2> QED
    BY <2>2, <2>3 DEF GoalInv
<1>8. ASSUME NEW on \in BOOLEAN, SwitchAutoSave(on) PROVE GoalInv'
  BY <1>8 DEF SwitchAutoSave, GoalInv
<1>9. CASE UNCHANGED gvars
  BY <1>9 DEF gvars, GoalInv
<1> QED
  BY <1>1, <1>2, <1>3, <1>4, <1>5, <1>6, <1>7, <1>8, <1>9 DEF GoalNext

(***************************************************************************)
(* Whichever methods were called, whatever other sessions and processes    *)
(* wrote in between, the session's file holds all goals and all proposals  *)
(* unless the save of the last change failed: for any goals and sessions   *)
(* and any number of calls and restarts.  goal_persistence.py:370-402.     *)
(***************************************************************************)
THEOREM GoalsSurviveRestarts == GoalSpec => []GoalsAreSaved
<1>1. GoalInv => GoalsAreSaved
  BY DEF GoalInv, GoalsAreSaved
<1> QED
  BY <1>1, GoalInitInv, GoalStep, PTL DEF GoalSpec

-----------------------------------------------------------------------------
(***************************************************************************)
(* The memory cache.  An entry made at some time has seen every memory     *)
(* stored before that time: the search and the caching happen in one step, *)
(* after the embedding was awaited.  The age of an entry bounds what a hit *)
(* may miss.                                                               *)
(***************************************************************************)
Entry == [seen : Nat, failed : BOOLEAN, timestamp : Nat]

CacheType ==
    /\ memoryClock \in Nat
    /\ storedAt \in Seq(Nat)
    /\ cache \in [DOMAIN cache -> Entry]
    /\ answer \in [seen : Nat, failed : BOOLEAN, at : Nat]

PastOnly ==
    /\ \A i \in DOMAIN storedAt : storedAt[i] <= memoryClock
    /\ answer.at <= memoryClock

EntriesSaw ==
    \A q \in DOMAIN cache :
        ~cache[q].failed =>
            \A i \in DOMAIN storedAt : i > cache[q].seen => storedAt[i] >= cache[q].timestamp

StampsPast == \A q \in DOMAIN cache : cache[q].timestamp <= memoryClock

CacheInv == CacheType /\ PastOnly /\ EntriesSaw /\ StampsPast /\ AnswersAreRecent

LEMMA CacheInitInv == MemoryInit => CacheInv
<1> SUFFICES ASSUME MemoryInit PROVE CacheInv
  OBVIOUS
<1>1. storedAt = <<>> /\ storedAt \in Seq(Nat) /\ DOMAIN storedAt = {} /\ DOMAIN cache = {}
  BY DEF MemoryInit
<1>2. cache \in [DOMAIN cache -> Entry]
  BY DEF MemoryInit
<1>3. answer = [seen |-> 0, failed |-> TRUE, at |-> 0] /\ memoryClock = 0
  BY DEF MemoryInit, NoAnswer
<1> QED
  BY <1>1, <1>2, <1>3
     DEF CacheInv, CacheType, PastOnly, EntriesSaw, StampsPast, AnswersAreRecent

(* A cache whose entries are entries of the old one, while no memory is    *)
(* stored, the clock stands and the answer stays or is harmless.           *)
LEMMA FewerEntries ==
    ASSUME CacheInv, UNCHANGED <<storedAt, memoryClock>>,
           cache' \in [DOMAIN cache' -> Entry],
           \A q \in DOMAIN cache' : q \in DOMAIN cache /\ cache'[q] = cache[q]
    PROVE  (CacheType /\ PastOnly /\ AnswersAreRecent)' => CacheInv'
BY DEF CacheInv, EntriesSaw, StampsPast, CacheType

LEMMA CacheStep == CacheInv /\ [MemoryNext]_mvars => CacheInv'
<1> SUFFICES ASSUME CacheInv, [MemoryNext]_mvars PROVE CacheInv'
  OBVIOUS
<1> USE MemoryCacheAssumption
<1>1. ASSUME NEW q \in Questions, AnswerFromCache(q) PROVE CacheInv'
  <2>1. q \in DOMAIN cache /\ memoryClock - cache[q].timestamp <= Ttl
    BY <1>1 DEF AnswerFromCache, EntryExpired, CacheInv, CacheType, Entry
  <2>2. cache' = cache /\ UNCHANGED <<storedAt, memoryClock>>
    BY <1>1 DEF AnswerFromCache, HitEntry, CacheInv, CacheType
  <2>3. answer' = [seen |-> cache[q].seen, failed |-> cache[q].failed, at |-> memoryClock]
    BY <1>1 DEF AnswerFromCache, Give
  <2>4. cache[q] \in Entry
    BY <2>1 DEF CacheInv, CacheType
  <2>5. ASSUME ~cache[q].failed, NEW i \in DOMAIN storedAt, i > cache[q].seen
        PROVE  memoryClock - storedAt[i] <= Ttl
    <3>1. storedAt[i] >= cache[q].timestamp /\ storedAt[i] \in Nat
      BY <2>1, <2>5 DEF CacheInv, EntriesSaw, CacheType
    <3> QED
      BY <2>1, <2>4, <3>1 DEF CacheInv, CacheType, Entry
  <2>6. AnswersAreRecent'
    BY <2>2, <2>3, <2>5 DEF AnswersAreRecent
  <2>7. (CacheType /\ PastOnly)'
    BY <2>2, <2>3, <2>4 DEF CacheInv, CacheType, PastOnly, Entry
  <2> QED
    BY <2>2, <2>6, <2>7 DEF CacheInv, EntriesSaw, StampsPast
<1>2. ASSUME NEW evicted, cache' = Without(evicted), UNCHANGED <<storedAt, answer, memoryClock>>
      PROVE  CacheInv'
  <2>1. cache' \in [DOMAIN cache' -> Entry]
        /\ \A k \in DOMAIN cache' : k \in DOMAIN cache /\ cache'[k] = cache[k]
    BY <1>2 DEF Without, CacheInv, CacheType
  <2>2. (CacheType /\ PastOnly /\ AnswersAreRecent)'
    BY <1>2, <2>1 DEF CacheInv, CacheType, PastOnly, AnswersAreRecent
  <2> QED
    BY <1>2, <2>1, <2>2, FewerEntries
<1>3. ASSUME NEW q \in Questions, NEW r \in Retrievals, Ask(r, q) PROVE CacheInv'
  BY <1>2, <1>3 DEF Ask
<1>4. ASSUME NEW r \in Retrievals, SearchAndPut(r) PROVE CacheInv'
  <2>1. UNCHANGED <<storedAt, memoryClock>> /\ Len(storedAt) \in Nat
        /\ DOMAIN storedAt = 1 .. Len(storedAt)
    BY <1>4, LenProperties DEF SearchAndPut, CacheInv, CacheType
  <2>2. PICK failed \in BOOLEAN :
           LET seen == IF failed THEN 0 ELSE Len(storedAt)
           IN  /\ Put(asking[r], [seen |-> seen, failed |-> failed, timestamp |-> memoryClock])
               /\ Give(seen, failed)
    BY <1>4 DEF SearchAndPut
  <2> DEFINE seen == IF failed THEN 0 ELSE Len(storedAt)
             new  == [seen |-> seen, failed |-> failed, timestamp |-> memoryClock]
  <2>3. seen \in Nat /\ new \in Entry
    BY <2>1 DEF Entry, CacheInv, CacheType
  <2>4. Put(asking[r], new) /\ answer' = [seen |-> seen, failed |-> failed, at |-> memoryClock]
    BY <2>2 DEF Give
  <2>5. PICK evicted : cache' = [k \in (DOMAIN cache \ evicted) \cup {asking[r]} |->
                                 IF k = asking[r] THEN new ELSE cache[k]]
    BY <2>4 DEF Put
  <2> HIDE DEF new
  <2>6. cache' \in [DOMAIN cache' -> Entry]
        /\ \A k \in DOMAIN cache' : cache'[k] = new \/ (k \in DOMAIN cache /\ cache'[k] = cache[k])
    BY <2>3, <2>5 DEF CacheInv, CacheType
  <2>7. new.timestamp = memoryClock
        /\ (~new.failed => \A i \in DOMAIN storedAt : ~(i > new.seen))
    BY <2>1 DEF new
  <2>8. (EntriesSaw /\ StampsPast)'
    <3> SUFFICES ASSUME NEW k \in DOMAIN cache'
                 PROVE  /\ ~cache'[k].failed =>
                              \A i \in DOMAIN storedAt :
                                  i > cache'[k].seen => storedAt[i] >= cache'[k].timestamp
                        /\ cache'[k].timestamp <= memoryClock
      BY <2>1 DEF EntriesSaw, StampsPast
    <3>1. CASE cache'[k] = new
      BY <2>7, <3>1 DEF CacheInv, CacheType
    <3>2. CASE k \in DOMAIN cache /\ cache'[k] = cache[k]
      BY <3>2 DEF CacheInv, EntriesSaw, StampsPast
    <3> QED
      BY <2>6, <3>1, <3>2
  <2>9. (CacheType /\ PastOnly)'
    BY <2>1, <2>3, <2>4, <2>6 DEF CacheInv, CacheType, PastOnly
  <2>10. AnswersAreRecent'
    BY <2>1, <2>4 DEF AnswersAreRecent
  <2> QED
    BY <2>8, <2>9, <2>10 DEF CacheInv
<1>5. ASSUME NEW r \in Retrievals, FallBack(r) PROVE CacheInv'
  BY <1>5 DEF FallBack, Give, CacheInv, CacheType, PastOnly, EntriesSaw, StampsPast,
              AnswersAreRecent
<1>6. ASSUME AddMemory PROVE CacheInv'
  <2>1. storedAt' = Append(storedAt, memoryClock) /\ UNCHANGED <<cache, answer, memoryClock>>
    BY <1>6 DEF AddMemory
  <2>2. /\ storedAt' \in Seq(Nat)
        /\ \A i \in DOMAIN storedAt' :
               \/ i \in DOMAIN storedAt /\ storedAt'[i] = storedAt[i]
               \/ storedAt'[i] = memoryClock
    <3>1. storedAt \in Seq(Nat) /\ memoryClock \in Nat
      BY DEF CacheInv, CacheType
    <3>2. /\ storedAt' \in Seq(Nat) /\ Len(storedAt') = Len(storedAt) + 1
          /\ \A i \in 1 .. Len(storedAt) : storedAt'[i] = storedAt[i]
          /\ storedAt'[Len(storedAt) + 1] = memoryClock
      BY <2>1, <3>1, AppendProperties
    <3>3. /\ Len(storedAt) \in Nat /\ DOMAIN storedAt = 1 .. Len(storedAt)
          /\ DOMAIN storedAt' = 1 .. Len(storedAt')
      BY <3>1, <3>2, LenProperties
    <3> QED
      BY <3>2, <3>3
  <2>3. (CacheType /\ PastOnly)'
    <3>1. CacheType'
      BY <2>1, <2>2 DEF CacheInv, CacheType
    <3>2. \A i \in DOMAIN storedAt' : storedAt'[i] <= memoryClock
      <4>1. \A i \in DOMAIN storedAt : storedAt[i] <= memoryClock
        BY DEF CacheInv, PastOnly
      <4>2. memoryClock <= memoryClock
        BY DEF CacheInv, CacheType
      <4> QED
        BY <2>2, <4>1, <4>2
    <3>3. PastOnly'
      BY <2>1, <3>2 DEF CacheInv, PastOnly
    <3> QED
      BY <3>1, <3>3
  <2>4. (EntriesSaw /\ StampsPast)'
    <3>1. StampsPast'
      BY <2>1 DEF CacheInv, StampsPast
    <3>2. EntriesSaw'
      BY <2>1, <2>2 DEF CacheInv, EntriesSaw, StampsPast
    <3> QED
      BY <3>1, <3>2
  <2>5. AnswersAreRecent'
    <3>1. answer.at \in Nat /\ answer.at <= memoryClock /\ memoryClock \in Nat
      BY DEF CacheInv, CacheType, PastOnly
    <3> QED
      BY <2>1, <2>2, <3>1 DEF CacheInv, AnswersAreRecent
  <2> QED
    BY <2>3, <2>4, <2>5 DEF CacheInv
<1>7. ASSUME Cleanup PROVE CacheInv'
  BY <1>2, <1>7 DEF Cleanup
<1>8. ASSUME MemoryTick PROVE CacheInv'
  <2>1. memoryClock' = memoryClock + 1 /\ UNCHANGED <<cache, storedAt, answer>>
    BY <1>8 DEF MemoryTick
  <2>2. CacheType' /\ memoryClock \in Nat
    BY <2>1 DEF CacheInv, CacheType
  <2>3. (EntriesSaw /\ AnswersAreRecent)'
    BY <2>1 DEF CacheInv, EntriesSaw, AnswersAreRecent
  <2>4. PastOnly'
    <3>1. answer.at \in Nat /\ answer.at <= memoryClock
      BY DEF CacheInv, CacheType, PastOnly
    <3>2. \A i \in DOMAIN storedAt : storedAt[i] \in Nat /\ storedAt[i] <= memoryClock
      BY DEF CacheInv, CacheType, PastOnly
    <3> QED
      BY <2>1, <2>2, <3>1, <3>2 DEF PastOnly
  <2>5. StampsPast'
    <3>1. \A q \in DOMAIN cache : /\ cache[q].timestamp \in Nat
                               /\ cache[q].timestamp <= memoryClock
      BY DEF CacheInv, CacheType, StampsPast, Entry
    <3> QED
      BY <2>1, <2>2, <3>1 DEF StampsPast
  <2> QED
    BY <2>2, <2>3, <2>4, <2>5 DEF CacheInv
<1>9. CASE UNCHANGED mvars
  BY <1>9 DEF mvars, CacheInv, CacheType, PastOnly, EntriesSaw, StampsPast, AnswersAreRecent
<1> QED
  BY <1>1, <1>3, <1>4, <1>5, <1>6, <1>7, <1>8, <1>9 DEF MemoryNext

(***************************************************************************)
(* However retrievals overlap and whatever is evicted or hit in between,   *)
(* an answer whose search did not fail misses no memory stored more than a *)
(* ttl before it: for every ttl, cache size and number of retrievals.      *)
(* rag_service.py:115-165, rag_cache.py:196-211.                           *)
(***************************************************************************)
THEOREM RecallIsFresh == MemorySpec => []AnswersAreRecent
<1>1. CacheInv => AnswersAreRecent
  BY DEF CacheInv
<1> QED
  BY <1>1, CacheInitInv, CacheStep, PTL DEF MemorySpec

-----------------------------------------------------------------------------
(* A sequence cut at its limit keeps its end.                              *)
LEMMA LastOfKeepsTheEnd ==
    ASSUME NEW S, NEW s \in Seq(S), NEW n \in Nat \ {0}
    PROVE  /\ LastOf(s, n) \in Seq(S)
           /\ Len(LastOf(s, n)) = IF Len(s) > n THEN n ELSE Len(s)
           /\ \A i \in 1 .. Len(LastOf(s, n)) :
                  LastOf(s, n)[i] = s[i + (Len(s) - Len(LastOf(s, n)))]
<1>1. Len(s) \in Nat /\ \A i \in 1 .. Len(s) : s[i] \in S
  BY LenProperties, ElementOfSeq
<1>2. CASE Len(s) > n
  <2> DEFINE m == Len(s) - n + 1
  <2>1. m \in Int /\ m >= 1 /\ \A i \in m .. Len(s) : s[i] \in S
    BY <1>1, <1>2
  <2>2. LastOf(s, n) = SubSeq(s, m, Len(s))
    BY <1>2 DEF LastOf
  <2>3. /\ SubSeq(s, m, Len(s)) \in Seq(S)
        /\ Len(SubSeq(s, m, Len(s))) = IF m <= Len(s) THEN Len(s) - m + 1 ELSE 0
        /\ \A i \in 1 .. Len(s) - m + 1 : SubSeq(s, m, Len(s))[i] = s[m + i - 1]
    BY <1>1, <2>1, SubSeqProperties
  <2>4. m <= Len(s) /\ Len(s) - m + 1 = n
    BY <1>1
  <2>5. Len(LastOf(s, n)) = n
    BY <2>2, <2>3, <2>4
  <2>6. \A i \in 1 .. n : m + i - 1 = i + (Len(s) - n)
    BY <1>1
  <2> HIDE DEF m
  <2>7. \A i \in 1 .. n : LastOf(s, n)[i] = s[i + (Len(s) - n)]
    BY <2>2, <2>3, <2>4, <2>6
  <2> QED
    BY <1>2, <2>2, <2>3, <2>5, <2>7
<1>3. CASE ~(Len(s) > n)
  BY <1>1, <1>3 DEF LastOf
<1> QED
  BY <1>2, <1>3

(* A nonempty set of numbers has a least one, and one of positions a last. *)
LEMMA LeastNumber ==
    ASSUME NEW S \in SUBSET Nat, S # {}
    PROVE  \E m \in S : \A k \in S : m <= k
<1> DEFINE T == {1 .. n : n \in S}
<1>1. T \in SUBSET FiniteSubsetsOf(Nat) /\ T # {}
  <2>1. ASSUME NEW i \in S PROVE 1 .. i \in FiniteSubsetsOf(Nat)
    <3>1. i \in Int /\ 1 \in Int /\ 1 .. i \in SUBSET Nat
      OBVIOUS
    <3>2. IsFiniteSet(1 .. i)
      BY <3>1, FS_Interval
    <3> QED
      BY <3>1, <3>2 DEF FiniteSubsetsOf
  <2> QED
    BY <2>1
<1>2. PICK x \in T : \A y \in T : ~ (<<y, x>> \in StrictSubsetOrdering(Nat))
  BY <1>1, FS_StrictSubsetOrderingWellFounded, WFMin
<1>3. PICK i \in S : x = 1 .. i
  OBVIOUS
<1>4. ASSUME NEW j \in S, j < i PROVE FALSE
  <2>1. 1 .. j \in T /\ 1 .. j \subseteq Nat /\ x \subseteq Nat
    BY <1>3
  <2>2. 1 .. j \subseteq x /\ i \in x /\ i \notin 1 .. j
    BY <1>3, <1>4
  <2>3. <<1 .. j, x>> \in StrictSubsetOrdering(Nat)
    BY <2>1, <2>2 DEF StrictSubsetOrdering
  <2> QED
    BY <1>2, <2>1, <2>3
<1> QED
  BY <1>4

LEMMA LastIsIn ==
    ASSUME NEW n \in Nat, NEW S \in SUBSET (1 .. n), S # {}
    PROVE  \E i \in S : \A j \in S : j <= i
<1> DEFINE T == {n - i : i \in S}
<1>1. T \in SUBSET Nat
  <2>1. \A i \in S : n - i \in Nat
    OBVIOUS
  <2> QED
    BY <2>1
<1>2. T # {}
  OBVIOUS
<1> HIDE DEF T
<1>3. PICK m \in T : \A k \in T : m <= k
  BY <1>1, <1>2, LeastNumber
<1> USE DEF T
<1>4. PICK i \in S : m = n - i
  BY <1>3
<1>5. \A j \in S : n - i <= n - j
  BY <1>3, <1>4
<1> QED
  BY <1>5

(***************************************************************************)
(* The versions: a number is used once, for the state it was made with,    *)
(* and the last snapshot is of the current version whatever was dropped.   *)
(***************************************************************************)
Version == [version : Nat, state : WorldValues]

VersionsInv ==
    /\ version \in Nat
    /\ made \in Seq(WorldValues) /\ Len(made) = version
    /\ snapshots \in Seq(Version)
    /\ \A i \in 1 .. Len(snapshots) :
          /\ snapshots[i].version \in 1 .. version
          /\ snapshots[i].state = made[snapshots[i].version]
    /\ version > 0 => Len(snapshots) > 0 /\ snapshots[Len(snapshots)].version = version

LEMMA SnapshotKeeps ==
    ASSUME VersionsInv, NEW s \in WorldValues, Snapshot(s)
    PROVE  VersionsInv'
<1> USE WorldAssumption
<1> DEFINE new == [version |-> version + 1, state |-> s]
           all == Append(snapshots, new)
<1>1. version' = version + 1 /\ version' \in Nat /\ made' = Append(made, s)
      /\ snapshots' = LastOf(all, MaxVersions)
  BY DEF Snapshot, VersionsInv
<1>2. made' \in Seq(WorldValues) /\ Len(made') = version'
      /\ made'[version'] = s /\ \A v \in 1 .. version : made'[v] = made[v]
  BY <1>1 DEF VersionsInv
<1>3. new \in Version /\ new.version = version' /\ new.state = s
  BY <1>1 DEF VersionsInv, Version
<1> HIDE DEF new
<1>4. all \in Seq(Version) /\ Len(all) = Len(snapshots) + 1 /\ all[Len(all)] = new
      /\ Len(snapshots) \in Nat
      /\ \A i \in 1 .. Len(snapshots) : all[i] = snapshots[i]
  BY <1>3 DEF VersionsInv
<1> HIDE DEF all
<1>5. ASSUME NEW i \in 1 .. Len(all)
      PROVE  all[i].version \in 1 .. version' /\ all[i].state = made'[all[i].version]
  <2>1. CASE i = Len(all)
    BY <1>1, <1>2, <1>3, <1>4, <2>1 DEF VersionsInv
  <2>2. CASE i # Len(all)
    <3>1. i \in 1 .. Len(snapshots) /\ all[i] = snapshots[i]
      BY <1>4, <2>2
    <3>2. snapshots[i].version \in 1 .. version
          /\ snapshots[i].state = made[snapshots[i].version]
      BY <3>1 DEF VersionsInv
    <3> QED
      BY <1>1, <1>2, <3>1, <3>2 DEF VersionsInv
  <2> QED
    BY <2>1, <2>2
<1>7. /\ snapshots' \in Seq(Version)
      /\ Len(snapshots') = IF Len(all) > MaxVersions THEN MaxVersions ELSE Len(all)
      /\ \A i \in 1 .. Len(snapshots') :
             snapshots'[i] = all[i + (Len(all) - Len(snapshots'))]
  BY <1>1, <1>4, LastOfKeepsTheEnd
<1>8. Len(all) \in Nat \ {0} /\ Len(snapshots') \in 1 .. Len(all)
  BY <1>4, <1>7
<1>9. \A i \in 1 .. Len(snapshots') :
        /\ snapshots'[i].version \in 1 .. version'
        /\ snapshots'[i].state = made'[snapshots'[i].version]
  <2> SUFFICES ASSUME NEW i \in 1 .. Len(snapshots')
               PROVE  /\ snapshots'[i].version \in 1 .. version'
                      /\ snapshots'[i].state = made'[snapshots'[i].version]
    OBVIOUS
  <2> DEFINE j == i + (Len(all) - Len(snapshots'))
  <2>1. j \in 1 .. Len(all)
    BY <1>8
  <2>2. snapshots'[i] = all[j]
    BY <1>7
  <2> HIDE DEF j
  <2> QED
    BY <1>5, <2>1, <2>2
<1>10. snapshots'[Len(snapshots')] = all[Len(all)]
  <2> DEFINE n == Len(snapshots')
  <2>1. n \in 1 .. Len(snapshots') /\ n + (Len(all) - n) = Len(all)
    BY <1>8
  <2> QED
    BY <1>7, <2>1
<1> QED
  BY <1>1, <1>2, <1>3, <1>4, <1>7, <1>8, <1>9, <1>10 DEF VersionsInv

(***************************************************************************)
(* The timeline, without the search that a query makes: for each past turn *)
(* the last state told before its end, if any is kept, has the value that  *)
(* was current; if none is kept and one was told, the timeline is full.    *)
(***************************************************************************)
Told == [value : WorldValues, turn : Nat]

LastBefore(i, t) ==
    states[i].turn < t /\ (i = Len(states) \/ states[i + 1].turn >= t)

TimelineType ==
    /\ worldTurn \in Nat
    /\ states \in Seq(Told) /\ Len(states) <= MaxHistory
    /\ Len(current) = worldTurn /\ current \in Seq(WorldValues \cup {NoValue})
    /\ told \in WorldValues \cup {NoValue}

InOrder ==
    /\ \A i \in 1 .. Len(states) : states[i].turn <= worldTurn
    /\ \A i, j \in 1 .. Len(states) : i <= j => states[i].turn <= states[j].turn

ToldLast == told = IF states = <<>> THEN NoValue ELSE states[Len(states)].value

KeptIsCurrent ==
    \A t \in 1 .. worldTurn :
        \A i \in 1 .. Len(states) : LastBefore(i, t) => current[t] = states[i].value

LostOnlyWhenFull ==
    \A t \in 1 .. worldTurn :
        (states = <<>> \/ states[1].turn >= t)
            => \/ current[t] = NoValue
               \/ Len(states) = MaxHistory

TimelineInv ==
    TimelineType /\ InOrder /\ ToldLast /\ KeptIsCurrent /\ LostOnlyWhenFull

LEMMA AdvanceKeeps ==
    ASSUME TimelineInv, AdvanceTurn
    PROVE  TimelineInv'
<1> USE DEF TimelineInv
<1>1. worldTurn' = worldTurn + 1 /\ current' = Append(current, told)
      /\ UNCHANGED <<states, told>>
  BY DEF AdvanceTurn, tracker
<1>2. /\ current' \in Seq(WorldValues \cup {NoValue})
      /\ Len(current') = worldTurn' /\ worldTurn' \in Nat
      /\ current'[worldTurn'] = told
      /\ \A t \in 1 .. worldTurn : current'[t] = current[t]
  BY <1>1 DEF TimelineType
<1>3. /\ Len(states) \in Nat /\ worldTurn \in Nat
      /\ \A i \in 1 .. Len(states) : states[i] \in Told /\ states[i].turn \in Nat
  <2>1. \A i \in 1 .. Len(states) : states[i] \in Told
    BY ElementOfSeq DEF TimelineType
  <2> QED
    BY <2>1, LenProperties DEF TimelineType, Told
<1>4. (TimelineType /\ ToldLast)'
  BY <1>1, <1>2 DEF TimelineType, ToldLast
<1>5. InOrder'
  <2>1. \A i \in 1 .. Len(states) : states[i].turn <= worldTurn + 1
    BY <1>3 DEF InOrder
  <2> QED
    BY <1>1, <2>1 DEF InOrder
<1>6. ASSUME NEW i \in 1 .. Len(states), LastBefore(i, worldTurn') PROVE told = states[i].value
  <2>1. i # Len(states) => i + 1 \in 1 .. Len(states)
    BY <1>3
  <2>2. i + 1 \in 1 .. Len(states) => states[i + 1].turn <= worldTurn /\ states[i + 1].turn \in Nat
    BY <1>3 DEF InOrder
  <2>3. i = Len(states) \/ states[i + 1].turn >= worldTurn + 1
    BY <1>1, <1>6 DEF LastBefore
  <2>4. i = Len(states)
    BY <1>3, <2>1, <2>2, <2>3
  <2>5. states # <<>>
    BY <2>4
  <2> QED
    BY <2>4, <2>5 DEF ToldLast
<1>7. KeptIsCurrent'
  <2> SUFFICES ASSUME NEW t \in 1 .. worldTurn', NEW i \in 1 .. Len(states'), LastBefore(i, t)'
               PROVE  current'[t] = states'[i].value
    BY DEF KeptIsCurrent
  <2>0. i \in 1 .. Len(states) /\ LastBefore(i, t)
    BY <1>1 DEF LastBefore
  <2>1. CASE t = worldTurn'
    BY <1>1, <1>2, <1>6, <2>0, <2>1
  <2>2. CASE t # worldTurn'
    <3>1. t \in 1 .. worldTurn
      BY <1>3, <1>1, <2>2
    <3> QED
      BY <1>1, <1>2, <2>0, <3>1 DEF KeptIsCurrent
  <2> QED
    BY <2>1, <2>2
<1>8. (states = <<>> \/ states[1].turn >= worldTurn') => told = NoValue
  <2>1. states # <<>> => 1 \in 1 .. Len(states)
    BY <1>3 DEF TimelineType
  <2> QED
    BY <1>1, <1>3, <2>1 DEF InOrder, ToldLast
<1>9. LostOnlyWhenFull'
  BY <1>1, <1>2, <1>8 DEF LostOnlyWhenFull, TimelineType
<1> QED
  BY <1>4, <1>5, <1>7, <1>9

LEMMA UpdateKeeps ==
    ASSUME TimelineInv, NEW v \in WorldValues, Update(v)
    PROVE  TimelineInv'
<1> USE WorldAssumption DEF TimelineInv
<1> DEFINE new == [value |-> v, turn |-> worldTurn]
           all == Append(states, new)
<1>1. states' = LastOf(all, MaxHistory) /\ told' = v /\ UNCHANGED <<worldTurn, current>>
  BY DEF Update, Kept
<1>2. new \in Told
  BY DEF TimelineType, Told
<1>3. Len(states) \in Nat /\ \A i \in 1 .. Len(states) : states[i] \in Told
  BY LenProperties, ElementOfSeq DEF TimelineType
<1>4. all \in Seq(Told) /\ Len(all) = Len(states) + 1 /\ all[Len(all)] = new
      /\ \A i \in 1 .. Len(states) : all[i] = states[i]
  BY <1>2 DEF TimelineType
<1> HIDE DEF all
<1> DEFINE cut == Len(all) - Len(states')
<1>5. /\ states' \in Seq(Told)
      /\ Len(states') = IF Len(all) > MaxHistory THEN MaxHistory ELSE Len(all)
      /\ \A i \in 1 .. Len(states') : states'[i] = all[i + cut]
  BY <1>1, <1>4, LastOfKeepsTheEnd
<1>6. Len(states') \in 1 .. Len(all) /\ cut \in {0, 1} /\ (cut = 1 => Len(states') = MaxHistory)
      /\ Len(states') <= MaxHistory /\ Len(states') + cut = Len(states) + 1
  BY <1>3, <1>4, <1>5 DEF TimelineType
<1> HIDE DEF cut
<1>7. states'[Len(states')] = new
  BY <1>4, <1>5, <1>6
<1>8. \A i \in 1 .. Len(states') : i # Len(states') =>
          i + cut \in 1 .. Len(states) /\ states'[i] = states[i + cut]
  BY <1>3, <1>4, <1>5, <1>6
<1>9. new.turn = worldTurn /\ new.value = v
  OBVIOUS
<1> HIDE DEF new
<1>10. (TimelineType /\ ToldLast)'
  BY <1>1, <1>5, <1>6, <1>7, <1>9 DEF TimelineType, ToldLast
<1>11. InOrder'
  <2>1. ASSUME NEW i \in 1 .. Len(states') PROVE states'[i].turn <= worldTurn
    <3>1. CASE i = Len(states')
      BY <1>7, <1>9, <3>1 DEF TimelineType
    <3>2. CASE i # Len(states')
      BY <1>8, <3>2 DEF InOrder
    <3> QED
      BY <3>1, <3>2
  <2>2. ASSUME NEW i \in 1 .. Len(states'), NEW j \in 1 .. Len(states'), i <= j
        PROVE  states'[i].turn <= states'[j].turn
    <3>1. CASE j = Len(states')
      BY <1>7, <1>9, <2>1, <3>1
    <3>2. CASE j # Len(states')
      <4>1. i # Len(states') /\ i + cut <= j + cut
        BY <1>6, <2>2, <3>2
      <4> QED
        BY <1>8, <3>2, <4>1 DEF InOrder
    <3> QED
      BY <3>1, <3>2
  <2> QED
    BY <1>1, <2>1, <2>2 DEF InOrder
<1>12. KeptIsCurrent'
  <2> SUFFICES ASSUME NEW t \in 1 .. worldTurn, NEW i \in 1 .. Len(states'),
                      states'[i].turn < t,
                      i = Len(states') \/ states'[i + 1].turn >= t
               PROVE  current[t] = states'[i].value
    BY <1>1 DEF KeptIsCurrent, LastBefore
  <2>1. i # Len(states') /\ i + 1 \in 1 .. Len(states')
    BY <1>6, <1>7, <1>9 DEF TimelineType
  <2>2. i + cut \in 1 .. Len(states) /\ states'[i] = states[i + cut]
    BY <1>8, <2>1
  <2>3. i + cut = Len(states) \/ states[i + cut + 1].turn >= t
    <3>1. CASE i + 1 = Len(states')
      BY <1>3, <1>6, <3>1
    <3>2. CASE i + 1 # Len(states')
      <4>1. states'[i + 1] = states[i + 1 + cut] /\ i + 1 + cut = i + cut + 1
        BY <1>6, <1>8, <2>1, <3>2
      <4> QED
        BY <2>1, <4>1
    <3> QED
      BY <3>1, <3>2
  <2> QED
    BY <2>2, <2>3 DEF KeptIsCurrent, LastBefore
<1>13. LostOnlyWhenFull'
  <2> SUFFICES ASSUME NEW t \in 1 .. worldTurn, states'[1].turn >= t, cut = 0
               PROVE  current[t] = NoValue \/ Len(states') = MaxHistory
    BY <1>1, <1>6 DEF LostOnlyWhenFull
  <2>1. CASE Len(states') = 1
    <3>1. states = <<>>
      BY <1>3, <1>6, <2>1 DEF TimelineType
    <3> QED
      BY <1>3, <1>6, <3>1 DEF LostOnlyWhenFull
  <2>2. CASE Len(states') # 1
    <3>1. states[1].turn >= t /\ Len(states) < MaxHistory
      BY <1>3, <1>6, <1>8, <2>2
    <3> QED
      BY <1>3, <3>1 DEF LostOnlyWhenFull
  <2> QED
    BY <2>1, <2>2
<1> QED
  BY <1>10, <1>11, <1>12, <1>13

(* A step of one history leaves the other alone.                           *)
LEMMA TrackerRests == TimelineInv /\ UNCHANGED tracker => TimelineInv'
BY DEF TimelineInv, TimelineType, InOrder, ToldLast, KeptIsCurrent, LostOnlyWhenFull,
       LastBefore, tracker

LEMMA VersionsRest == VersionsInv /\ UNCHANGED versions => VersionsInv'
BY DEF VersionsInv, versions

LEMMA WorldInitInv == WorldInit => TimelineInv /\ VersionsInv
BY WorldAssumption DEF WorldInit, TimelineInv, TimelineType, InOrder, ToldLast, KeptIsCurrent,
       LostOnlyWhenFull, LastBefore, VersionsInv

LEMMA WorldStep == TimelineInv /\ VersionsInv /\ [WorldNext]_wvars
                   => (TimelineInv /\ VersionsInv)'
<1> SUFFICES ASSUME TimelineInv, VersionsInv, [WorldNext]_wvars
             PROVE  (TimelineInv /\ VersionsInv)'
  OBVIOUS
<1>1. ASSUME AdvanceTurn PROVE (TimelineInv /\ VersionsInv)'
  <2>1. UNCHANGED versions
    BY <1>1 DEF AdvanceTurn
  <2> QED
    BY <1>1, <2>1, AdvanceKeeps, VersionsRest
<1>2. ASSUME NEW v \in WorldValues, Update(v) PROVE (TimelineInv /\ VersionsInv)'
  <2>1. UNCHANGED versions
    BY <1>2 DEF Update
  <2> QED
    BY <1>2, <2>1, UpdateKeeps, VersionsRest
<1>3. ASSUME NEW s \in WorldValues, Snapshot(s) PROVE (TimelineInv /\ VersionsInv)'
  <2>1. UNCHANGED tracker
    BY <1>3 DEF Snapshot
  <2> QED
    BY <1>3, <2>1, SnapshotKeeps, TrackerRests
<1>4. ASSUME NEW target \in 1 .. version, RollBackTo(target)
      PROVE  (TimelineInv /\ VersionsInv)'
  <2>1. PICK i \in DOMAIN snapshots : Snapshot(snapshots[i].state)
    BY <1>4 DEF RollBackTo
  <2>2. snapshots[i] \in Version
    BY <2>1, LenProperties, ElementOfSeq DEF VersionsInv
  <2> QED
    BY <1>3, <2>1, <2>2 DEF Version
<1>5. CASE UNCHANGED wvars
  <2>1. UNCHANGED tracker /\ UNCHANGED versions
    BY <1>5 DEF wvars, tracker, versions
  <2> QED
    BY <2>1, TrackerRests, VersionsRest
<1> QED
  BY <1>1, <1>2, <1>3, <1>4, <1>5 DEF WorldNext

(***************************************************************************)
(* A version number names one state for ever, and the current version can  *)
(* be looked up, through any number of rollbacks and whatever was dropped  *)
(* at the limit.  state_versioning.py:107-126, 172-191.                    *)
(***************************************************************************)
THEOREM VersionsAreForEver == WorldSpec => []VersionsKeepTheirState
<1>1. VersionsInv => VersionsKeepTheirState
  BY LenProperties DEF VersionsInv, VersionsKeepTheirState
<1> QED
  BY <1>1, WorldInitInv, WorldStep, PTL DEF WorldSpec

(***************************************************************************)
(* A query about a past turn is answered with the value told last before   *)
(* that turn ended, or with nothing if the timeline is full and begins     *)
(* later: for every limit of the history and any number of updates and     *)
(* turns.  temporal_tracker.py:160-164, 193-211.                           *)
(***************************************************************************)
THEOREM ThePastStands == WorldSpec => []QueriesAreHistory
<1>1. ASSUME TimelineInv, NEW t \in 1 .. worldTurn
      PROVE  \/ Query(t - 1) = current[t]
             \/ Query(t - 1) = NoValue /\ Len(states) = MaxHistory /\ states[1].turn >= t
  <2> DEFINE known == {i \in DOMAIN states : states[i].turn <= t - 1}
  <2>0. states \in Seq(Told)
    BY <1>1 DEF TimelineInv, TimelineType
  <2>1. Len(states) \in Nat /\ DOMAIN states = 1 .. Len(states)
        /\ \A i \in 1 .. Len(states) : states[i].turn \in Nat
    <3>1. Len(states) \in Nat /\ DOMAIN states = 1 .. Len(states)
      BY <2>0, LenProperties
    <3>2. \A i \in 1 .. Len(states) : states[i] \in Told
      BY <2>0, ElementOfSeq
    <3> QED
      BY <3>1, <3>2 DEF Told
  <2>2. t \in Nat
    BY <1>1 DEF TimelineInv, TimelineType
  <2>3. Query(t - 1) = IF known = {} THEN NoValue
                       ELSE states[CHOOSE i \in known : \A j \in known : j <= i].value
    BY DEF Query
  <2>4. CASE known = {}
    <3>1. states = <<>> \/ states[1].turn >= t
      BY <1>1, <2>1, <2>2, <2>4 DEF TimelineInv, TimelineType
    <3>2. current[t] = NoValue \/ Len(states) = MaxHistory
      BY <1>1, <3>1 DEF TimelineInv, LostOnlyWhenFull
    <3>3. Len(states) = MaxHistory => states # <<>>
      BY WorldAssumption
    <3> QED
      BY <2>3, <2>4, <3>1, <3>2, <3>3
  <2>5. CASE known # {}
    <3>1. \E i \in known : \A j \in known : j <= i
      BY <2>1, <2>5, LastIsIn
    <3> DEFINE i == CHOOSE k \in known : \A j \in known : j <= k
    <3>2. i \in known /\ \A j \in known : j <= i
      BY <3>1
    <3> HIDE DEF i
    <3>3. i \in 1 .. Len(states) /\ states[i].turn < t
      BY <2>1, <2>2, <3>2
    <3>4. i = Len(states) \/ states[i + 1].turn >= t
      <4> SUFFICES ASSUME i # Len(states), ~(states[i + 1].turn >= t) PROVE FALSE
        OBVIOUS
      <4>0. Len(states) \in Nat /\ i \in 1 .. Len(states) /\ i # Len(states)
        BY <2>1, <3>3
      <4>1. i + 1 \in 1 .. Len(states) /\ ~(i + 1 <= i)
        BY <4>0
      <4>2. i + 1 \in known
        BY <2>1, <2>2, <4>1
      <4> QED
        BY <3>2, <4>1, <4>2
    <3>5. current[t] = states[i].value
      BY <1>1, <3>3, <3>4 DEF TimelineInv, KeptIsCurrent, LastBefore
    <3> QED
      BY <2>3, <2>5, <3>5 DEF i
  <2> QED
    BY <2>4, <2>5
<1>2. TimelineInv => QueriesAreHistory
  BY <1>1 DEF QueriesAreHistory
<1> QED
  BY <1>2, WorldInitInv, WorldStep, PTL DEF WorldSpec

-----------------------------------------------------------------------------
(***************************************************************************)
(* The causal graph.  A link is added where its target does not lead to    *)
(* its source, so no link closes a cycle, in whatever order the formulas,  *)
(* the observations and the discovery bring them; and since links are      *)
(* never taken away, what lay downstream of a forced variable still does.  *)
(***************************************************************************)

(* What arrows lead to is closed under them, and is in every closed set.   *)
LEMMA DownstreamIsClosed ==
    ASSUME NEW arrows, NEW from
    PROVE  /\ Downstream(arrows, from) \in SUBSET Variables
           /\ Along(arrows, from \cup Downstream(arrows, from)) \subseteq Downstream(arrows, from)
<1> DEFINE D == Downstream(arrows, from)
<1>1. D \in SUBSET Variables
  BY DEF Downstream
<1>2. ASSUME NEW v \in Along(arrows, from \cup D),
             NEW S \in SUBSET Variables, Along(arrows, from \cup S) \subseteq S
      PROVE  v \in S
  <2>1. D \subseteq S
    BY <1>2 DEF Downstream
  <2>2. v \in Along(arrows, from \cup S)
    BY <1>2, <2>1 DEF Along
  <2> QED
    BY <1>2, <2>2
<1>3. \A v \in Along(arrows, from \cup D) : v \in Variables
  BY DEF Along
<1>4. \A v \in Along(arrows, from \cup D) : v \in D
  BY <1>2, <1>3 DEF Downstream
<1> QED
  BY <1>1, <1>4

LEMMA DownstreamIsLeast ==
    ASSUME NEW arrows, NEW from, NEW S \in SUBSET Variables,
           Along(arrows, from \cup S) \subseteq S
    PROVE  Downstream(arrows, from) \subseteq S
BY DEF Downstream

(* More arrows from more variables lead to more.                           *)
LEMMA DownstreamGrows ==
    ASSUME NEW arrows, NEW more, arrows \subseteq more, NEW from, NEW wider, from \subseteq wider
    PROVE  Downstream(arrows, from) \subseteq Downstream(more, wider)
<1> DEFINE S == Downstream(more, wider)
<1>1. S \in SUBSET Variables /\ Along(more, wider \cup S) \subseteq S
  BY DownstreamIsClosed
<1> HIDE DEF S
<1>2. Along(arrows, from \cup S) \subseteq Along(more, wider \cup S)
  BY DEF Along
<1>3. Downstream(arrows, from) \subseteq S
  BY <1>1, <1>2, DownstreamIsLeast
<1> QED
  BY <1>3 DEF S

LoopFree(arrows) == \A v \in Variables : v \notin Downstream(arrows, {v})

(* The test that add_causal_link makes is enough: an arrow from a to b     *)
(* closes no cycle if b does not lead to a.                                *)
LEMMA OneMoreArrow ==
    ASSUME NEW arrows, LoopFree(arrows), NEW a \in Variables, NEW b \in Variables,
           a # b, a \notin Downstream(arrows, {b})
    PROVE  LoopFree(arrows \cup {<<a, b>>})
<1> DEFINE more == arrows \cup {<<a, b>>}
           D == {b} \cup Downstream(arrows, {b})
<1>1. D \in SUBSET Variables /\ Along(arrows, D) \subseteq D /\ a \notin D
  BY DownstreamIsClosed
<1> HIDE DEF D
<1>2. \A S : Along(more, S) \subseteq Along(arrows, S) \cup {b}
  BY DEF Along
<1>3. \A S : a \notin S => Along(more, S) \subseteq Along(arrows, S)
  BY DEF Along
<1>4. \A S, T : Along(arrows, S \cup T) = Along(arrows, S) \cup Along(arrows, T)
  BY DEF Along
<1> HIDE DEF more
<1>5. ASSUME NEW v \in Variables PROVE v \notin Downstream(more, {v})
  <2> DEFINE E == Downstream(arrows, {v})
  <2>1. E \in SUBSET Variables /\ Along(arrows, {v} \cup E) \subseteq E /\ v \notin E
    BY DownstreamIsClosed DEF LoopFree
  <2>2. CASE v \in D
    <3>1. Along(arrows, {v} \cup D) \subseteq D
      BY <1>1, <2>2
    <3>2. E \subseteq D
      <4>1. Along(arrows, {v} \cup D) \subseteq D /\ D \in SUBSET Variables
        BY <3>1, <1>1
      <4> QED
        BY <4>1, DownstreamIsLeast
    <3> HIDE DEF E
    <3>3. a \notin {v} \cup E
      BY <1>1, <2>2, <3>2
    <3>4. Along(more, {v} \cup E) \subseteq E
      BY <1>3, <2>1, <3>3
    <3>5. Downstream(more, {v}) \subseteq E
      BY <2>1, <3>4, DownstreamIsLeast
    <3> QED
      BY <2>1, <3>5
  <2>3. CASE v \notin D
    <3> HIDE DEF E
    <3>1. b \in D
      BY DEF D
    <3>2. Along(more, {v} \cup (E \cup D)) \subseteq E \cup D
      <4>1. Along(arrows, {v} \cup (E \cup D)) \subseteq E \cup D
        BY <1>1, <1>4, <2>1
      <4> QED
        BY <4>1, <1>2, <3>1
    <3>3. Downstream(more, {v}) \subseteq E \cup D
      <4>1. E \cup D \in SUBSET Variables
        BY <1>1, <2>1
      <4> QED
        BY <3>2, <4>1, DownstreamIsLeast
    <3> QED
      BY <2>1, <2>3, <3>3
  <2> QED
    BY <2>2, <2>3
<1> QED
  BY <1>5 DEF LoopFree, more

(* The graph x is acyclic and has the links of old.                        *)
Grown(x, old) == LoopFree(DOMAIN x.edges) /\ old \subseteq DOMAIN x.edges

LEMMA LinkedKeeps ==
    ASSUME NEW g, NEW old, Grown(g, old), NEW a \in Variables, NEW b \in Variables,
           NEW mechanism, NEW h \in Linked(g, a, b, mechanism)
    PROVE  Grown(h, old)
<1>1. CASE WouldCreateCycle(g.edges, a, b)
  <2>1. h.edges = g.edges
    BY <1>1 DEF Linked
  <2> QED
    BY <2>1 DEF Grown
<1>2. CASE ~WouldCreateCycle(g.edges, a, b)
  <2>1. DOMAIN h.edges = DOMAIN g.edges \cup {<<a, b>>}
    BY <1>2 DEF Linked
  <2>2. a # b /\ a \notin Downstream(DOMAIN g.edges, {b})
    BY <1>2 DEF WouldCreateCycle
  <2>3. LoopFree(DOMAIN h.edges)
    BY <2>1, <2>2, OneMoreArrow DEF Grown
  <2> QED
    BY <2>1, <2>3 DEF Grown
<1> QED
  BY <1>1, <1>2

Ended(l) == l.from \in Variables /\ l.to \in Variables

LEMMA AttemptedKeeps ==
    ASSUME NEW g, NEW old, Grown(g, old), NEW l, Ended(l), NEW loop, NEW seen,
           NEW h \in Attempted(g, l, loop, seen)
    PROVE  Grown(h, old)
<1>1. \A mechanism : h \in Linked(g, l.from, l.to, mechanism) => Grown(h, old)
  BY LinkedKeeps DEF Ended
<1>2. ASSUME h \in Observed(g, l.from, l.to) PROVE Grown(h, old)
  <2> DEFINE known == Registered(Registered(g.nodes, l.from), l.to)
             f == [g EXCEPT !.nodes = known]
             p == Alphabetical(<<l.from, l.to>>)
  <2>1. f.edges = g.edges \/ f = g
    OBVIOUS
  <2>2. Grown(f, old)
    BY <2>1 DEF Grown
  <2>3. p[1] \in Variables /\ p[2] \in Variables
    BY DEF Alphabetical, Ended
  <2>4. h \in Linked(f, p[1], p[2], "observed")
    BY <1>2 DEF Observed
  <2> HIDE DEF f, p
  <2> QED
    BY <2>2, <2>3, <2>4, LinkedKeeps
<1>3. \/ \E mechanism : h \in Linked(g, l.from, l.to, mechanism)
      \/ h \in Observed(g, l.from, l.to)
      \/ h = g
  BY DEF Attempted
<1> QED
  BY <1>1, <1>2, <1>3

(* One round of AllLinked, f being what it has made of the graphs before.  *)
Round(gs, links, loop, seen, f, k) ==
    IF k = 0 THEN gs ELSE UNION {Attempted(x, links[k], loop, seen) : x \in f[k - 1]}

LEMMA RoundsAreDefined ==
    ASSUME NEW gs, NEW links, NEW loop, NEW seen, NEW n \in Nat
    PROVE  \E f : f = [k \in 0 .. n |-> Round(gs, links, loop, seen, f, k)]
<1> DEFINE R(f, k) == Round(gs, links, loop, seen, f, k)
           Good(m, f) == f = [k \in 0 .. m |-> R(f, k)]
           S == {m \in Nat : ~ \E f : Good(m, f)}
<1> SUFFICES ASSUME S # {} PROVE FALSE
  OBVIOUS
<1>1. PICK m \in S : \A k \in S : m <= k
  BY LeastNumber
<1>4. CASE m = 0
  <2> DEFINE f == [k \in 0 .. 0 |-> gs]
  <2>1. Good(0, f)
    BY DEF Round
  <2> QED
    BY <1>4, <2>1
<1>5. CASE m # 0
  <2>1. m - 1 \in Nat /\ m - 1 \notin S /\ m \in Nat
    BY <1>1, <1>5
  <2>2. PICK g : Good(m - 1, g)
    BY <2>1
  <2> DEFINE h == [k \in 0 .. m |-> R(g, k)]
  <2>3. \A k \in 0 .. m - 1 : h[k] = g[k] /\ k \in 0 .. m
    <3> HIDE DEF R
    <3> QED
      BY <2>1, <2>2
  <2>4. ASSUME NEW k \in 0 .. m PROVE R(h, k) = R(g, k)
    <3>1. CASE k = 0
      BY <3>1 DEF Round
    <3>2. CASE k # 0
      <4>1. k - 1 \in 0 .. m - 1
        BY <2>1, <3>2
      <4>2. h[k - 1] = g[k - 1]
        BY <2>3, <4>1
      <4> HIDE DEF h
      <4> QED
        BY <3>2, <4>2 DEF Round
    <3> QED
      BY <3>1, <3>2
  <2>5. Good(m, h)
    BY <2>4
  <2> QED
    BY <2>5
<1> QED
  BY <1>4, <1>5

(* A loop adds links, closes no cycle, and takes no link away, whatever of *)
(* its links it passes over.                                               *)
LEMMA AllLinkedKeeps ==
    ASSUME NEW gs, NEW old, \A x \in gs : Grown(x, old),
           NEW links, Len(links) \in Nat, \A i \in 1 .. Len(links) : Ended(links[i]),
           NEW loop, NEW seen, NEW h \in AllLinked(gs, links, loop, seen)
    PROVE  Grown(h, old)
<1> DEFINE n == Len(links)
           R(f, k) == Round(gs, links, loop, seen, f, k)
           after == CHOOSE f : f = [k \in 0 .. n |-> R(f, k)]
<1>1. after = [k \in 0 .. n |-> R(after, k)]
  BY RoundsAreDefined
<1>2. AllLinked(gs, links, loop, seen) = after[n]
  BY DEF AllLinked, Round
<1> HIDE DEF after
<1>3. after[0] = gs
  BY <1>1 DEF Round
<1>4. ASSUME NEW k \in 1 .. n
      PROVE  after[k] = UNION {Attempted(x, links[k], loop, seen) : x \in after[k - 1]}
  <2>1. k \in 0 .. n /\ k # 0
    OBVIOUS
  <2> QED
    BY <1>1, <2>1 DEF Round
<1> DEFINE S == {k \in 0 .. n : \E x \in after[k] : ~Grown(x, old)}
<1>5. S = {}
  <2> SUFFICES ASSUME S # {} PROVE FALSE
    OBVIOUS
  <2>1. PICK m \in S : \A k \in S : m <= k
    <3>1. S \in SUBSET Nat
      OBVIOUS
    <3> QED
      BY <3>1, LeastNumber
  <2>2. m \in 1 .. n
    BY <1>3, <2>1
  <2>3. m - 1 \in 0 .. n /\ m - 1 \notin S
    BY <2>1, <2>2
  <2>4. \A x \in after[m - 1] : Grown(x, old)
    BY <2>3
  <2>5. Ended(links[m])
    BY <2>2
  <2>6. \A x \in after[m - 1] : \A y \in Attempted(x, links[m], loop, seen) : Grown(y, old)
    BY <2>4, <2>5, AttemptedKeeps
  <2>7. \A y \in after[m] : \E x \in after[m - 1] : y \in Attempted(x, links[m], loop, seen)
    BY <1>4, <2>2
  <2> QED
    BY <2>1, <2>6, <2>7
<1>6. \A x \in after[n] : Grown(x, old)
  <2>1. n \in 0 .. n
    OBVIOUS
  <2> QED
    BY <1>5, <2>1
<1> QED
  BY <1>2, <1>6

LEMMA LinksOfAre ==
    ASSUME NEW n \in Nat, NEW pairs, DOMAIN pairs = 1 .. n,
           \A i \in 1 .. n : pairs[i] \in Variables \X Variables
    PROVE  /\ Len(LinksOf(pairs)) \in Nat
           /\ \A i \in 1 .. Len(LinksOf(pairs)) : Ended(LinksOf(pairs)[i])
<1> DEFINE l(i) == [from |-> pairs[i][1], to |-> pairs[i][2], mechanism |-> "observed"]
<1>1. LinksOf(pairs) = [i \in 1 .. n |-> l(i)]
  BY DEF LinksOf
<1>2. ASSUME NEW i \in 1 .. n PROVE Ended(l(i))
  BY DEF Ended
<1> HIDE DEF l
<1>3. Len(LinksOf(pairs)) = n
  BY <1>1
<1> QED
  BY <1>1, <1>2, <1>3

(* What is discovered are finitely many pairs, so that each order of them  *)
(* is a sequence.                                                          *)
LEMMA MergedKeeps ==
    ASSUME NEW g, NEW old, Grown(g, old), NEW found \in SUBSET (Variables \X Variables),
           NEW h \in Merged(g, found)
    PROVE  Grown(h, old)
<1>1. Cardinality(found) \in Nat
  <2>1. IsFiniteSet(Variables)
    BY FS_Interval, CausalAssumption DEF Variables
  <2>2. IsFiniteSet(Variables \X Variables)
    BY <2>1, FS_Product
  <2> QED
    BY <2>2, FS_Subset, FS_CardinalityType
<1>2. PICK o \in Orders(found) : h \in AllLinked({g}, LinksOf(o), "discovered", Variables)
  BY DEF Merged
<1> DEFINE n == Cardinality(found)
<1>3. DOMAIN o = 1 .. n /\ \A i \in 1 .. n : o[i] \in Variables \X Variables
  BY DEF Orders
<1> HIDE DEF n
<1>4. n \in Nat
  BY <1>1 DEF n
<1>5. /\ Len(LinksOf(o)) \in Nat
      /\ \A i \in 1 .. Len(LinksOf(o)) : Ended(LinksOf(o)[i])
  BY <1>3, <1>4, LinksOfAre
<1>6. \A x \in {g} : Grown(x, old)
  OBVIOUS
<1> QED
  BY <1>2, <1>5, <1>6, AllLinkedKeeps

LEMMA DiscoveredKeeps ==
    ASSUME NEW g, NEW old, Grown(g, old), NEW h \in Discovered(g)
    PROVE  Grown(h, old)
<1>1. CASE h = g
  BY <1>1
<1>2. CASE h # g
  <2>1. PICK f \in Findings(g.nodes) : h \in Merged(g, Oriented(f.skeleton, f.colliders, g.edges))
    BY <1>2 DEF Discovered
  <2> DEFINE found == Oriented(f.skeleton, f.colliders, g.edges)
  <2>2. found \in SUBSET (Variables \X Variables)
    BY DEF Oriented
  <2> HIDE DEF found
  <2>3. h \in Merged(g, found)
    BY <2>1 DEF found
  <2> QED
    BY <2>2, <2>3, MergedKeeps
<1> QED
  BY <1>1, <1>2

LEMMA UpdatesKeep ==
    ASSUME NEW old, Grown(Graph, old), NEW r, NEW u \in Updates(r)
    PROVE  Grown(u.graph, old)
<1> DEFINE begun == IF r.state THEN PhysicsAdded(Graph, r.physics) ELSE {Graph}
<1>1. ASSUME NEW x \in PhysicsAdded(Graph, r.physics) PROVE Grown(x, old)
  <2> DEFINE gs == {[Graph EXCEPT !.nodes = ns] : ns \in Filled(Graph.nodes, r.physics)}
  <2>1. \A y \in gs : Grown(y, old)
    BY DEF Grown, Graph
  <2>2. Len(KnownLinks) \in Nat /\ \A i \in 1 .. Len(KnownLinks) : Ended(KnownLinks[i])
    <3> DEFINE L == [from : Variables, to : Variables, mechanism : {"direct", "mediated"}]
    <3>1. \A l \in L : Ended(l)
      BY DEF Ended
    <3>2. KnownLinks \in Seq(L)
      BY LinksAssumption
    <3> HIDE DEF L
    <3>3. Len(KnownLinks) \in Nat /\ \A i \in 1 .. Len(KnownLinks) : KnownLinks[i] \in L
      BY <3>2
    <3> QED
      BY <3>1, <3>3
  <2>3. x \in AllLinked(gs, KnownLinks, "known", Variables)
    BY <1>1 DEF PhysicsAdded
  <2> HIDE DEF gs
  <2> QED
    BY <2>1, <2>2, <2>3, AllLinkedKeeps
<1>2. \A x \in begun : Grown(x, old)
  BY <1>1
<1> DEFINE links == LinksOf(ObservationPairs)
<1>3. Len(links) \in Nat /\ \A i \in 1 .. Len(links) : Ended(links[i])
  <2>1. /\ Len(ObservationPairs) \in Nat
        /\ DOMAIN ObservationPairs = 1 .. Len(ObservationPairs)
        /\ \A i \in 1 .. Len(ObservationPairs) : ObservationPairs[i] \in Variables \X Variables
    BY LinksAssumption
  <2> QED
    BY <2>1, LinksOfAre
<1>4. u.graph \in AllLinked(begun, links, "observed", r.seen)
  BY DEF Updates
<1> HIDE DEF begun, links
<1> QED
  BY <1>2, <1>3, <1>4, AllLinkedKeeps

(* What simulations have touched lies downstream of what was forced.       *)
LEMMA TouchedIsDownstream ==
    ASSUME NEW v \in Variables, NEW carrying \in SUBSET DOMAIN edges,
           NEW causes, v \in causes
    PROVE  Touched(v, carrying) \subseteq Downstream(DOMAIN edges, causes)
<1>1. {v} \subseteq causes
  OBVIOUS
<1>2. Downstream(carrying, {v}) \subseteq Downstream(DOMAIN edges, causes)
  BY <1>1, DownstreamGrows
<1> QED
  BY <1>2 DEF Touched

CausalInv == Acyclic /\ EffectsFlowDownstream

(* Whatever grows the graph and lets simulated values go keeps both.       *)
LEMMA GrowthKeeps ==
    ASSUME CausalInv, NEW g, Grown(g, DOMAIN edges), edges' = g.edges,
           simulated' \subseteq simulated, UNCHANGED forced
    PROVE  CausalInv'
<1>1. DOMAIN edges \subseteq DOMAIN edges' /\ LoopFree(DOMAIN edges')
  BY DEF Grown
<1>2. Downstream(DOMAIN edges, forced) \subseteq Downstream(DOMAIN edges', forced)
  <2> DEFINE before == DOMAIN edges
             after == DOMAIN edges'
  <2>1. before \subseteq after
    BY <1>1
  <2> HIDE DEF before, after
  <2>2. Downstream(before, forced) \subseteq Downstream(after, forced)
    BY <2>1, DownstreamGrows
  <2> QED
    BY <2>2 DEF before, after
<1>3. Acyclic'
  BY <1>1 DEF Acyclic, LoopFree
<1>4. EffectsFlowDownstream'
  BY <1>2 DEF CausalInv, EffectsFlowDownstream
<1> QED
  BY <1>3, <1>4 DEF CausalInv

LEMMA CausalInitInv == CausalInit => CausalInv
<1> SUFFICES ASSUME CausalInit PROVE CausalInv
  OBVIOUS
<1>1. DOMAIN edges = {} /\ simulated = {}
  BY DEF CausalInit
<1>2. \A from : Downstream({}, from) = {}
  <2>1. ASSUME NEW from PROVE Downstream({}, from) \subseteq {}
    <3>1. Along({}, from \cup {}) \subseteq {} /\ {} \in SUBSET Variables
      BY DEF Along
    <3> QED
      BY <3>1, DownstreamIsLeast
  <2> QED
    BY <2>1
<1> QED
  BY <1>1, <1>2 DEF CausalInv, Acyclic, EffectsFlowDownstream

(* Observations, links and simulations keep both.                          *)
LEMMA CausalStep == CausalInv /\ [CausalNext]_cvars => CausalInv'
<1> SUFFICES ASSUME CausalInv, [CausalNext]_cvars PROVE CausalInv'
  OBVIOUS
<1>0. Grown(Graph, DOMAIN edges)
  BY DEF CausalInv, Acyclic, Grown, LoopFree, Graph
<1>1. CASE UpdateGraph
  <2>1. PICK r \in Readings : \E u \in Updates(r) :
           /\ \E g \in Discovered(u.graph) : nodes' = g.nodes /\ edges' = g.edges
           /\ simulated' = simulated \ u.read
    BY <1>1 DEF UpdateGraph
  <2>2. PICK u \in Updates(r) :
           /\ \E g \in Discovered(u.graph) : nodes' = g.nodes /\ edges' = g.edges
           /\ simulated' = simulated \ u.read
    BY <2>1
  <2>3. PICK g \in Discovered(u.graph) : edges' = g.edges
    BY <2>2
  <2>4. Grown(g, DOMAIN edges)
    BY <1>0, UpdatesKeep, DiscoveredKeeps
  <2>5. simulated' \subseteq simulated /\ UNCHANGED forced
    BY <1>1, <2>2 DEF UpdateGraph
  <2> QED
    BY <2>3, <2>4, <2>5, GrowthKeeps
<1>2. CASE AddLink
  <2>1. PICK a \in Variables, b \in Variables, mechanism \in {"direct", "mediated"} :
           \E g \in Linked(Graph, a, b, mechanism) : nodes' = g.nodes /\ edges' = g.edges
    BY <1>2 DEF AddLink
  <2>2. PICK g \in Linked(Graph, a, b, mechanism) : edges' = g.edges
    BY <2>1
  <2>3. Grown(g, DOMAIN edges)
    BY <1>0, LinkedKeeps
  <2>4. UNCHANGED <<simulated, forced>>
    BY <1>2 DEF AddLink
  <2> QED
    BY <2>2, <2>3, <2>4, GrowthKeeps
<1>3. CASE Simulate
  <2>1. UNCHANGED edges
    BY <1>3 DEF Simulate
  <2>2. PICK values \in SUBSET Variables \ {{}} :
           /\ \E carrying \in [values -> SUBSET DOMAIN edges] :
                LET touched == UNION {Touched(v, carrying[v]) : v \in values}
                IN  simulated' = simulated \cup (nodes \cap (values \cup touched))
           /\ forced' = forced \cup values
    BY <1>3 DEF Simulate
  <2>3. PICK carrying \in [values -> SUBSET DOMAIN edges] :
           simulated' = simulated
              \cup (nodes \cap (values \cup UNION {Touched(v, carrying[v]) : v \in values}))
    BY <2>2
  <2> DEFINE now == forced \cup values
             reached == Downstream(DOMAIN edges, now)
  <2>4. ASSUME NEW v \in values PROVE Touched(v, carrying[v]) \subseteq reached
    <3>1. v \in Variables /\ v \in now /\ carrying[v] \in SUBSET DOMAIN edges
      BY <2>2
    <3> HIDE DEF now
    <3> QED
      BY <3>1, TouchedIsDownstream
  <2>5. Downstream(DOMAIN edges, forced) \subseteq reached
    <3>1. forced \subseteq now
      OBVIOUS
    <3> HIDE DEF now
    <3> QED
      BY <3>1, DownstreamGrows
  <2>6. forced' = now /\ simulated \subseteq forced \cup Downstream(DOMAIN edges, forced)
    BY <2>2 DEF CausalInv, EffectsFlowDownstream
  <2> HIDE DEF reached
  <2>7. simulated' \subseteq now \cup reached
    BY <2>3, <2>4, <2>5, <2>6
  <2>8. EffectsFlowDownstream'
    BY <2>1, <2>6, <2>7 DEF EffectsFlowDownstream, reached
  <2>9. Acyclic'
    BY <2>1 DEF CausalInv, Acyclic
  <2> QED
    BY <2>8, <2>9 DEF CausalInv
<1>4. CASE UNCHANGED cvars
  BY <1>4 DEF cvars, CausalInv, Acyclic, EffectsFlowDownstream
<1> QED
  BY <1>1, <1>2, <1>3, <1>4 DEF CausalNext

(***************************************************************************)
(* The graph stays acyclic, whatever is observed, discovered, imported and *)
(* added, for any number of variables, nodes and links.                    *)
(* causal_graph.py:669-674.                                                *)
(***************************************************************************)
THEOREM TheGraphIsAcyclic == CausalSpec => []Acyclic
<1>1. CausalInv => Acyclic
  BY DEF CausalInv
<1> QED
  BY <1>1, CausalInitInv, CausalStep, PTL DEF CausalSpec

(***************************************************************************)
(* A simulated value is of a forced variable or of an effect of one in the *)
(* graph of now, however it has grown.  intervention.py:263-318.           *)
(***************************************************************************)
THEOREM EffectsComeAfter == CausalSpec => []EffectsFlowDownstream
<1>1. CausalInv => EffectsFlowDownstream
  BY DEF CausalInv
<1> QED
  BY <1>1, CausalInitInv, CausalStep, PTL DEF CausalSpec

-----------------------------------------------------------------------------
(***************************************************************************)
(* The notifications.  An id is in one place once; the file holds, if not  *)
(* the lists of now, then lists of which the same is true, so that a       *)
(* restart brings no notification back twice.                              *)
(***************************************************************************)
Note == [id : Nat, source : Roles, target : Roles, session : NoteSessions,
         status : {"unread", "read", "acknowledged"}]

OncePerId(list) == \A i, j \in DOMAIN list : list[i].id = list[j].id => i = j

(* Two lists of notifications issued so far, with no id twice.             *)
InOnePlace(active, kept, last) ==
    /\ active \in Seq(Note) /\ kept \in Seq(Note)
    /\ OncePerId(active) /\ OncePerId(kept)
    /\ IdsOf(active) \cap IdsOf(kept) = {}
    /\ IdsOf(active) \cup IdsOf(kept) \subseteq 1 .. last

NoteInv ==
    /\ notified \in Nat
    /\ InOnePlace(notes, archived, notified)
    /\ forgotten = 1 .. notified \ (IdsOf(notes) \cup IdsOf(archived))
    /\ noteFile = [notes |-> noteFile.notes, archived |-> noteFile.archived]
    /\ InOnePlace(noteFile.notes, noteFile.archived, notified)
    /\ ~unsaved => noteFile = [notes |-> notes, archived |-> archived]

LEMMA NoteIs == ASSUME NEW list \in Seq(Note)
                PROVE  /\ Len(list) \in Nat /\ DOMAIN list = 1 .. Len(list)
                       /\ \A i \in 1 .. Len(list) : list[i] \in Note
<1> HIDE DEF Note
<1> QED
  BY LenProperties, ElementOfSeq

(* What is at some places of a list are those entries, each once.          *)
LEMMA AtPlacesAre ==
    ASSUME NEW list \in Seq(Note), OncePerId(list),
           NEW places \in SUBSET DOMAIN list, NEW sub \in AtPlaces(list, places)
    PROVE  /\ sub \in Seq(Note) /\ OncePerId(sub)
           /\ IdsOf(sub) = {list[i].id : i \in places}
<1> DEFINE c == Cardinality(places)
<1>1. IsFiniteSet(places) /\ c \in Nat
  <2>1. IsFiniteSet(1 .. Len(list)) /\ DOMAIN list = 1 .. Len(list)
    BY NoteIs, FS_Interval
  <2> QED
    BY <2>1, FS_Subset, FS_CardinalityType
<1>2. PICK p \in [1 .. c -> places] :
         /\ \A j, k \in 1 .. c : j < k => p[j] < p[k]
         /\ sub = [k \in 1 .. c |-> list[p[k]]]
  BY DEF AtPlaces
<1>3. Cardinality(1 .. c) = c
  BY <1>1, FS_Interval
<1> HIDE DEF c
<1>4. \A j, k \in 1 .. c : p[j] = p[k] => j = k
  <2> SUFFICES ASSUME NEW j \in 1 .. c, NEW k \in 1 .. c, p[j] = p[k], j # k PROVE FALSE
    OBVIOUS
  <2>1. p[j] \in 1 .. Len(list) /\ p[k] \in 1 .. Len(list) /\ Len(list) \in Nat
    BY <1>2, NoteIs
  <2>2. j < k \/ k < j
    BY <1>1
  <2>3. p[j] < p[k] \/ p[k] < p[j]
    BY <1>2, <2>2
  <2> QED
    BY <2>1, <2>3
<1>5. \A i \in places : \E k \in 1 .. c : p[k] = i
  <2>1. p \in Injection(1 .. c, places)
    BY <1>2, <1>4 DEF Injection, IsInjective
  <2>2. Cardinality(1 .. c) = Cardinality(places)
    BY <1>3 DEF c
  <2>3. p \in Surjection(1 .. c, places)
    BY <1>1, <2>1, <2>2, FS_Injection
  <2> QED
    BY <2>3 DEF Surjection
<1>6. \A k \in 1 .. c : list[p[k]] \in Note
  BY <1>2, NoteIs
<1>7. sub \in Seq(Note)
  <2> HIDE DEF Note
  <2>1. sub \in [1 .. c -> Note]
    BY <1>2, <1>6
  <2> QED
    BY <1>1, <2>1, SeqDef
<1>8. OncePerId(sub)
  BY <1>2, <1>4 DEF OncePerId
<1>9. IdsOf(sub) = {list[i].id : i \in places}
  <2>1. DOMAIN sub = 1 .. c /\ \A k \in 1 .. c : sub[k] = list[p[k]] /\ p[k] \in places
    BY <1>2
  <2>2. \A x \in IdsOf(sub) : x \in {list[i].id : i \in places}
    BY <2>1 DEF IdsOf
  <2>3. ASSUME NEW i \in places PROVE list[i].id \in IdsOf(sub)
    <3>1. PICK k \in 1 .. c : p[k] = i
      BY <1>5
    <3> QED
      BY <2>1, <3>1 DEF IdsOf
  <2> QED
    BY <2>2, <2>3
<1> QED
  BY <1>7, <1>8, <1>9

(* Archiving moves ids to the archive, and those it is cut by are gone.    *)
LEMMA ArchiveNotesIs ==
    ASSUME archived \in Seq(Note), OncePerId(archived),
           NEW more \in Seq(Note), OncePerId(more), IdsOf(more) \cap IdsOf(archived) = {},
           ArchiveNotes(more)
    PROVE  /\ archived' \in Seq(Note) /\ OncePerId(archived')
           /\ IdsOf(archived') \subseteq IdsOf(archived) \cup IdsOf(more)
           /\ forgotten' = forgotten
                 \cup ((IdsOf(archived) \cup IdsOf(more)) \ IdsOf(archived'))
<1> DEFINE all == archived \o more
           n == Len(archived)
           m == Len(more)
<1>1. n \in Nat /\ m \in Nat /\ DOMAIN archived = 1 .. n /\ DOMAIN more = 1 .. m
  BY NoteIs
<1>2. /\ all \in Seq(Note) /\ Len(all) = n + m
      /\ \A i \in 1 .. n + m : all[i] = IF i <= n THEN archived[i] ELSE more[i - n]
  <2> HIDE DEF Note
  <2> QED
    BY ConcatProperties
<1>3. DOMAIN all = 1 .. n + m
  BY <1>2, NoteIs
<1>0. /\ \A i \in 1 .. n : archived[i].id \in IdsOf(archived)
      /\ \A i \in 1 .. m : more[i].id \in IdsOf(more)
  BY <1>1 DEF IdsOf
<1> HIDE DEF all, n, m
<1>4. IdsOf(all) = IdsOf(archived) \cup IdsOf(more)
  <2>1. ASSUME NEW i \in 1 .. n + m PROVE all[i].id \in IdsOf(archived) \cup IdsOf(more)
    <3>1. CASE i <= n
      <4>1. i \in 1 .. n /\ all[i] = archived[i]
        BY <1>1, <1>2, <3>1
      <4> QED
        BY <1>0, <4>1
    <3>2. CASE ~(i <= n)
      <4>1. i - n \in 1 .. m /\ all[i] = more[i - n]
        BY <1>1, <1>2, <3>2
      <4> QED
        BY <1>0, <4>1
    <3> QED
      BY <3>1, <3>2
  <2>2. ASSUME NEW i \in 1 .. n PROVE archived[i].id \in IdsOf(all)
    <3>1. i \in 1 .. n + m /\ all[i] = archived[i]
      BY <1>1, <1>2
    <3> QED
      BY <1>3, <3>1 DEF IdsOf
  <2>3. ASSUME NEW i \in 1 .. m PROVE more[i].id \in IdsOf(all)
    <3>1. n + i \in 1 .. n + m /\ all[n + i] = more[i]
      BY <1>1, <1>2
    <3> QED
      BY <1>3, <3>1 DEF IdsOf
  <2>4. IdsOf(all) \subseteq IdsOf(archived) \cup IdsOf(more)
    BY <1>3, <2>1 DEF IdsOf
  <2>5. IdsOf(archived) \subseteq IdsOf(all)
    <3>1. IdsOf(archived) = {archived[i].id : i \in 1 .. n}
      BY <1>1 DEF IdsOf
    <3> QED
      BY <2>2, <3>1
  <2>6. IdsOf(more) \subseteq IdsOf(all)
    <3>1. IdsOf(more) = {more[i].id : i \in 1 .. m}
      BY <1>1 DEF IdsOf
    <3> QED
      BY <2>3, <3>1
  <2> QED
    BY <2>4, <2>5, <2>6
<1>5. OncePerId(all)
  <2> SUFFICES ASSUME NEW i \in 1 .. n + m, NEW j \in 1 .. n + m, all[i].id = all[j].id
               PROVE  i = j
    BY <1>3 DEF OncePerId
  <2>0. \A k \in 1 .. n + m : k <= n => all[k] = archived[k] /\ k \in DOMAIN archived
    BY <1>1, <1>2
  <2>1. \A k \in 1 .. n + m : k <= n => all[k].id \in IdsOf(archived)
    BY <1>0, <1>1, <2>0
  <2>2. \A k \in 1 .. n + m : ~(k <= n) => all[k] = more[k - n] /\ k - n \in DOMAIN more
    BY <1>1, <1>2
  <2>3. \A k \in 1 .. n + m : ~(k <= n) => all[k].id \in IdsOf(more)
    BY <1>0, <1>1, <2>2
  <2>4. CASE i <= n /\ j <= n
    BY <2>0, <2>4 DEF OncePerId
  <2>5. CASE ~(i <= n) /\ ~(j <= n)
    <3>1. i - n = j - n
      BY <2>2, <2>5 DEF OncePerId
    <3> QED
      BY <1>1, <3>1
  <2> QED
    BY <2>1, <2>3, <2>4, <2>5
<1> DEFINE cut == IF Len(all) > ArchiveLimit THEN Len(all) - ArchiveLimit ELSE 0
<1>6. cut \in 0 .. n + m
  BY <1>1, <1>2, NotificationAssumption
<1>7. archived' = SubSeq(all, cut + 1, n + m)
      /\ forgotten' = forgotten \cup IdsOf(SubSeq(all, 1, cut))
  BY <1>2 DEF ArchiveNotes, all
<1> HIDE DEF cut
<1>8. /\ archived' \in Seq(Note) /\ Len(archived') = n + m - cut
      /\ \A i \in 1 .. n + m - cut : archived'[i] = all[cut + i]
  <2>1. \A i \in cut + 1 .. n + m : all[i] \in Note
    BY <1>1, <1>2, <1>6, NoteIs
  <2> DEFINE a == cut + 1
             b == n + m
  <2>2. a \in Int /\ b \in Int
    BY <1>1, <1>6
  <2>3. archived' = SubSeq(all, a, b) /\ \A i \in a .. b : all[i] \in Note
    BY <1>7, <2>1
  <2>4. b - a + 1 = n + m - cut /\ \A i \in 1 .. n + m : a + i - 1 = cut + i
    BY <1>1, <1>6
  <2>5. a <= b \/ (b - a + 1 = 0 /\ ~(a <= b))
    BY <1>1, <1>6
  <2> HIDE DEF Note, a, b
  <2>6. /\ archived' \in Seq(Note)
        /\ Len(archived') = IF a <= b THEN b - a + 1 ELSE 0
        /\ \A i \in 1 .. b - a + 1 : archived'[i] = all[a + i - 1]
    BY <2>2, <2>3, SubSeqProperties
  <2>7. Len(archived') = n + m - cut
    BY <2>4, <2>5, <2>6
  <2>8. \A i \in 1 .. n + m - cut : i \in 1 .. n + m
    BY <1>1, <1>6
  <2> QED
    BY <2>4, <2>6, <2>7, <2>8
<1>9. LET s == SubSeq(all, 1, cut) IN
      DOMAIN s = 1 .. cut /\ \A i \in 1 .. cut : s[i] = all[i]
  <2>1. \A i \in 1 .. cut : all[i] \in Note
    BY <1>1, <1>2, <1>6, NoteIs
  <2>2. 1 \in Int /\ cut \in Int
    BY <1>6
  <2> DEFINE s == SubSeq(all, 1, cut)
  <2>3. s \in Seq(Note) /\ Len(s) = (IF 1 <= cut THEN cut - 1 + 1 ELSE 0)
        /\ \A i \in 1 .. cut - 1 + 1 : s[i] = all[1 + i - 1]
    <3> HIDE DEF Note
    <3> QED
      BY <2>1, <2>2, SubSeqProperties
  <2> HIDE DEF s
  <2>4. Len(s) = cut /\ \A i \in 1 .. cut : s[i] = all[i]
    BY <1>6, <2>3
  <2>5. DOMAIN s = 1 .. cut
    BY <2>3, <2>4, NoteIs
  <2> QED
    BY <2>4, <2>5 DEF s
<1>10. DOMAIN archived' = 1 .. n + m - cut
  BY <1>8, LenProperties
<1>11. OncePerId(archived')
  <2> SUFFICES ASSUME NEW i \in 1 .. n + m - cut, NEW j \in 1 .. n + m - cut,
                      archived'[i].id = archived'[j].id
               PROVE  i = j
    BY <1>10 DEF OncePerId
  <2>0. archived'[i] = all[cut + i] /\ archived'[j] = all[cut + j]
    BY <1>8
  <2>1. cut + i \in DOMAIN all /\ cut + j \in DOMAIN all
    BY <1>1, <1>3, <1>6
  <2>2. cut + i = cut + j
    BY <1>5, <2>0, <2>1 DEF OncePerId
  <2> QED
    BY <1>6, <2>2
<1>12. IdsOf(archived') = {all[i].id : i \in cut + 1 .. n + m}
  <2>1. ASSUME NEW i \in 1 .. n + m - cut
        PROVE  archived'[i].id \in {all[k].id : k \in cut + 1 .. n + m}
    <3>1. cut + i \in cut + 1 .. n + m
      BY <1>1, <1>6
    <3> QED
      BY <1>8, <3>1
  <2>2. ASSUME NEW k \in cut + 1 .. n + m PROVE all[k].id \in IdsOf(archived')
    <3>1. k - cut \in 1 .. n + m - cut /\ archived'[k - cut] = all[k]
      BY <1>1, <1>6, <1>8
    <3> QED
      BY <1>10, <3>1 DEF IdsOf
  <2> QED
    BY <1>10, <2>1, <2>2 DEF IdsOf
<1>13. IdsOf(SubSeq(all, 1, cut)) = {all[i].id : i \in 1 .. cut}
  BY <1>9 DEF IdsOf
<1>14. IdsOf(all) = {all[i].id : i \in 1 .. cut} \cup {all[i].id : i \in cut + 1 .. n + m}
  BY <1>1, <1>3, <1>6 DEF IdsOf
<1>15. {all[i].id : i \in 1 .. cut} \cap {all[i].id : i \in cut + 1 .. n + m} = {}
  <2> SUFFICES ASSUME NEW i \in 1 .. cut, NEW j \in cut + 1 .. n + m, all[i].id = all[j].id
               PROVE  FALSE
    OBVIOUS
  <2>1. i \in 1 .. n + m /\ j \in 1 .. n + m /\ i # j
    BY <1>1, <1>6
  <2> QED
    BY <1>3, <1>5, <2>1 DEF OncePerId
<1> QED
  BY <1>4, <1>7, <1>8, <1>11, <1>12, <1>13, <1>14, <1>15

(* Whatever becomes of a save, what the file then holds has each id once.  *)
LEMMA SaveNotesKeeps ==
    ASSUME NoteInv, notified' \in Nat, notified <= notified',
           InOnePlace(notes', archived', notified'), SaveNotes
    PROVE  /\ noteFile' = [notes |-> noteFile'.notes, archived |-> noteFile'.archived]
           /\ InOnePlace(noteFile'.notes, noteFile'.archived, notified')
           /\ ~unsaved' => noteFile' = [notes |-> notes', archived |-> archived']
<1> DEFINE lists == [notes |-> notes', archived |-> archived']
<1>1. noteFile' \in {lists, noteFile, NoLists} /\ unsaved' = (noteFile' # lists)
  BY DEF SaveNotes
<1>2. CASE noteFile' = lists
  BY <1>2
<1>3. CASE noteFile' = noteFile
  <2>1. 1 .. notified \subseteq 1 .. notified'
    BY DEF NoteInv
  <2>2. InOnePlace(noteFile.notes, noteFile.archived, notified)
    BY DEF NoteInv
  <2>3. InOnePlace(noteFile.notes, noteFile.archived, notified')
    <3> HIDE DEF Note
    <3> QED
      BY <2>1, <2>2 DEF InOnePlace
  <2>4. noteFile = [notes |-> noteFile.notes, archived |-> noteFile.archived]
    BY DEF NoteInv
  <2> QED
    BY <1>1, <1>3, <2>3, <2>4
<1>4. CASE noteFile' = NoLists
  <2>1. InOnePlace(<<>>, <<>>, notified')
    <3> HIDE DEF Note
    <3> QED
      BY DEF InOnePlace, OncePerId, IdsOf
  <2> QED
    BY <1>1, <1>4, <2>1 DEF NoLists
<1> QED
  BY <1>1, <1>2, <1>3, <1>4

(* Notifications that leave the list for the archive stay in one place.    *)
LEMMA MovedKeeps ==
    ASSUME NoteInv, notified' \in Nat, notified <= notified',
           NEW more \in Seq(Note), OncePerId(more),
           notes' \in Seq(Note), OncePerId(notes'),
           IdsOf(notes') \cap IdsOf(more) = {},
           IdsOf(notes') \cup IdsOf(more)
              = IdsOf(notes) \cup (1 .. notified' \ 1 .. notified),
           ArchiveNotes(more), SaveNotes
    PROVE  NoteInv'
<1> DEFINE A == IdsOf(archived)
           B == IdsOf(more)
           C == IdsOf(archived')
           N == IdsOf(notes)
           M == IdsOf(notes')
           old == 1 .. notified
           new == 1 .. notified'
<1>1. /\ archived \in Seq(Note) /\ OncePerId(archived)
      /\ N \cap A = {} /\ N \cup A \subseteq old
      /\ forgotten = old \ (N \cup A)
  BY DEF NoteInv, InOnePlace
<1>2. old \subseteq new
  BY DEF NoteInv
<1>3. M \cap B = {} /\ M \cup B = N \cup (new \ old)
  OBVIOUS
<1>4. B \cap A = {}
  <2> HIDE DEF A, B, M, N, old, new
  <2> QED
    BY <1>1, <1>3
<1>5. /\ archived' \in Seq(Note) /\ OncePerId(archived')
      /\ C \subseteq A \cup B
      /\ forgotten' = forgotten \cup ((A \cup B) \ C)
  BY <1>1, <1>4, ArchiveNotesIs
<1> HIDE DEF A, B, C, M, N, old, new
<1>6. M \cap C = {} /\ M \cup C \subseteq new /\ forgotten' = new \ (M \cup C)
  BY <1>1, <1>2, <1>3, <1>4, <1>5
<1>7. InOnePlace(notes', archived', notified')
  BY <1>5, <1>6 DEF InOnePlace, M, C, new
<1>8. /\ noteFile' = [notes |-> noteFile'.notes, archived |-> noteFile'.archived]
      /\ InOnePlace(noteFile'.notes, noteFile'.archived, notified')
      /\ ~unsaved' => noteFile' = [notes |-> notes', archived |-> archived']
  BY <1>7, SaveNotesKeeps
<1> QED
  BY <1>6, <1>7, <1>8 DEF NoteInv, M, C, new

(* What is displaced to make room for one more was active before.          *)
LEMMA DisplacedIs ==
    ASSUME notes \in Seq(Note), OncePerId(notes)
    PROVE  LET more == IF Len(notes) >= MaxActive THEN <<Head(notes)>> ELSE <<>> IN
           /\ Displaced \in Seq(Note) /\ OncePerId(Displaced)
           /\ more \in Seq(Note) /\ OncePerId(more)
           /\ IdsOf(Displaced) \cap IdsOf(more) = {}
           /\ IdsOf(Displaced) \cup IdsOf(more) = IdsOf(notes)
<1> DEFINE n == Len(notes)
<1>1. n \in Nat /\ DOMAIN notes = 1 .. n /\ MaxActive \in Nat \ {0}
  BY NoteIs, NotificationAssumption
<1>2. CASE ~(n >= MaxActive)
  <2>1. Displaced = notes
    BY <1>2 DEF Displaced
  <2>2. <<>> \in Seq(Note) /\ OncePerId(<<>>) /\ IdsOf(<<>>) = {}
    <3> HIDE DEF Note
    <3> QED
      BY DEF OncePerId, IdsOf
  <2> QED
    BY <1>2, <2>1, <2>2
<1>3. CASE n >= MaxActive
  <2> DEFINE d == Displaced
             more == <<Head(notes)>>
  <2>1. notes # <<>> /\ d = Tail(notes) /\ Head(notes) = notes[1] /\ 1 \in 1 .. n
    BY <1>1, <1>3 DEF Displaced
  <2>2. /\ d \in Seq(Note) /\ Len(d) = n - 1 /\ notes[1] \in Note
        /\ \A i \in 1 .. n - 1 : d[i] = notes[i + 1]
    <3>1. d \in Seq(Note) /\ Len(d) = n - 1 /\ \A i \in 1 .. Len(d) : d[i] = notes[i + 1]
      <4> HIDE DEF Note, d
      <4> QED
        BY <2>1, HeadTailProperties
    <3> QED
      BY <2>1, <3>1, NoteIs
  <2>3. DOMAIN d = 1 .. n - 1 /\ \A i \in 1 .. n - 1 : i + 1 \in 1 .. n /\ i + 1 # 1
    BY <1>1, <2>2, NoteIs
  <2>4. more \in Seq(Note) /\ DOMAIN more = {1} /\ more[1] = notes[1]
    <3> HIDE DEF Note
    <3> QED
      BY <2>1, <2>2
  <2> HIDE DEF d, more
  <2>5. OncePerId(d)
    <3> SUFFICES ASSUME NEW i \in 1 .. n - 1, NEW j \in 1 .. n - 1, d[i].id = d[j].id
                 PROVE  i = j
      BY <2>3 DEF OncePerId
    <3>1. /\ i + 1 \in DOMAIN notes /\ j + 1 \in DOMAIN notes
          /\ notes[i + 1].id = notes[j + 1].id
      BY <1>1, <2>2, <2>3
    <3>2. i + 1 = j + 1
      BY <3>1 DEF OncePerId
    <3> QED
      BY <3>2
  <2>6. OncePerId(more)
    BY <2>4 DEF OncePerId
  <2>7. IdsOf(more) = {notes[1].id}
    BY <2>4 DEF IdsOf
  <2>8. IdsOf(d) = {notes[i + 1].id : i \in 1 .. n - 1}
    BY <2>2, <2>3 DEF IdsOf
  <2>9. IdsOf(d) \cap IdsOf(more) = {}
    <3> SUFFICES ASSUME NEW i \in 1 .. n - 1, notes[i + 1].id = notes[1].id PROVE FALSE
      BY <2>7, <2>8
    <3> QED
      BY <1>1, <2>1, <2>3 DEF OncePerId
  <2>10. IdsOf(d) \cup IdsOf(more) = IdsOf(notes)
    <3>1. \A i \in 1 .. n : i = 1 \/ (i - 1 \in 1 .. n - 1 /\ notes[i].id = notes[(i - 1) + 1].id)
      BY <1>1
    <3>2. \A i \in 1 .. n : notes[i].id \in IdsOf(d) \cup IdsOf(more)
      BY <2>7, <2>8, <3>1
    <3>3. IdsOf(d) \cup IdsOf(more) \subseteq {notes[i].id : i \in 1 .. n}
      BY <2>1, <2>3, <2>7, <2>8
    <3> QED
      BY <1>1, <3>2, <3>3 DEF IdsOf
  <2> QED
    BY <1>3, <2>2, <2>4, <2>5, <2>6, <2>9, <2>10 DEF d, more
<1> QED
  BY <1>2, <1>3

LEMMA NoteInitInv == NotificationInit => NoteInv
<1> SUFFICES ASSUME NotificationInit PROVE NoteInv
  OBVIOUS
<1>1. InOnePlace(<<>>, <<>>, 0) /\ IdsOf(<<>>) = {}
  <2> HIDE DEF Note
  <2> QED
    BY DEF InOnePlace, OncePerId, IdsOf
<1>2. 1 .. 0 = {}
  OBVIOUS
<1> QED
  BY <1>1, <1>2 DEF NotificationInit, NoteInv, NoLists

LEMMA AddKeeps == NoteInv /\ Add => NoteInv'
<1> SUFFICES ASSUME NoteInv, Add PROVE NoteInv'
  OBVIOUS
<1> DEFINE d == Displaced
           more == IF Len(notes) >= MaxActive THEN <<Head(notes)>> ELSE <<>>
<1>1. notes \in Seq(Note) /\ OncePerId(notes) /\ IdsOf(notes) \subseteq 1 .. notified
      /\ notified \in Nat
  BY DEF NoteInv, InOnePlace
<1>2. /\ d \in Seq(Note) /\ OncePerId(d) /\ more \in Seq(Note) /\ OncePerId(more)
      /\ IdsOf(d) \cap IdsOf(more) = {} /\ IdsOf(d) \cup IdsOf(more) = IdsOf(notes)
  BY <1>1, DisplacedIs
<1>3. notified' = notified + 1 /\ ArchiveNotes(more) /\ SaveNotes
  BY DEF Add
<1>4. PICK source \in Roles, target \in Roles, s \in NoteSessions :
         notes' = Append(d, [id |-> notified + 1, source |-> source, target |-> target,
                             session |-> s, status |-> "unread"])
  BY DEF Add
<1> DEFINE new == [id |-> notified + 1, source |-> source, target |-> target,
                   session |-> s, status |-> "unread"]
           n == Len(d)
<1>5. new \in Note /\ new.id = notified + 1
  BY <1>1 DEF Note
<1>6. n \in Nat /\ DOMAIN d = 1 .. n
  BY <1>2, NoteIs
<1> HIDE DEF d, new
<1>7. /\ notes' \in Seq(Note) /\ DOMAIN notes' = 1 .. n + 1
      /\ notes'[n + 1] = new /\ \A i \in 1 .. n : notes'[i] = d[i]
  <2> HIDE DEF Note
  <2> QED
    BY <1>2, <1>4, <1>5, <1>6 DEF new
<1> HIDE DEF n, more
<1>8. \A i \in 1 .. n + 1 : i = n + 1 \/ i \in 1 .. n
  BY <1>6
<1>9. IdsOf(notes') = IdsOf(d) \cup {notified + 1}
  <2>1. \A i \in 1 .. n + 1 : notes'[i].id \in IdsOf(d) \cup {notified + 1}
    BY <1>5, <1>6, <1>7, <1>8 DEF IdsOf
  <2>2. \A i \in 1 .. n : i \in 1 .. n + 1 /\ d[i].id = notes'[i].id
    BY <1>6, <1>7
  <2>3. n + 1 \in 1 .. n + 1
    BY <1>6
  <2>4. IdsOf(d) \subseteq IdsOf(notes')
    BY <1>6, <1>7, <2>2 DEF IdsOf
  <2>5. notified + 1 \in IdsOf(notes')
    BY <1>5, <1>7, <2>3 DEF IdsOf
  <2> QED
    BY <1>7, <2>1, <2>4, <2>5 DEF IdsOf
<1>10. notified + 1 \notin IdsOf(notes)
  BY <1>1
<1>11. OncePerId(notes')
  <2> SUFFICES ASSUME NEW i \in 1 .. n + 1, NEW j \in 1 .. n + 1, notes'[i].id = notes'[j].id
               PROVE  i = j
    BY <1>7 DEF OncePerId
  <2>1. \A k \in 1 .. n : d[k].id \in IdsOf(notes)
    BY <1>2, <1>6 DEF IdsOf
  <2>2. \A k \in 1 .. n : notes'[k].id # notified + 1
    BY <1>7, <1>10, <2>1
  <2>3. CASE i \in 1 .. n /\ j \in 1 .. n
    BY <1>2, <1>6, <1>7, <2>3 DEF OncePerId
  <2>4. notes'[n + 1].id = notified + 1
    BY <1>5, <1>7
  <2> QED
    BY <1>8, <2>2, <2>3, <2>4
<1>12. notified' \in Nat /\ notified <= notified'
       /\ 1 .. notified' \ 1 .. notified = {notified + 1}
  BY <1>1, <1>3
<1>13. IdsOf(notes') \cap IdsOf(more) = {}
       /\ IdsOf(notes') \cup IdsOf(more) = IdsOf(notes) \cup (1 .. notified' \ 1 .. notified)
  BY <1>2, <1>9, <1>10, <1>12
<1> QED
  BY <1>2, <1>3, <1>7, <1>11, <1>12, <1>13, MovedKeeps

LEMMA ClearSessionKeeps ==
    ASSUME NoteInv, NEW s, ClearSession(s)
    PROVE  NoteInv'
<1> DEFINE cleared == {i \in DOMAIN notes : notes[i].session = s}
           rest == DOMAIN notes \ cleared
<1>1. notes \in Seq(Note) /\ OncePerId(notes) /\ notified \in Nat
  BY DEF NoteInv, InOnePlace
<1>2. /\ notes' \in AtPlaces(notes, rest) /\ UNCHANGED notified /\ SaveNotes
      /\ \E more \in AtPlaces(notes, cleared) : ArchiveNotes(more)
  BY DEF ClearSession
<1>3. PICK more \in AtPlaces(notes, cleared) : ArchiveNotes(more)
  BY <1>2
<1>4. rest \in SUBSET DOMAIN notes /\ cleared \in SUBSET DOMAIN notes
      /\ rest \cap cleared = {} /\ rest \cup cleared = DOMAIN notes
  OBVIOUS
<1> HIDE DEF rest, cleared
<1>5. /\ notes' \in Seq(Note) /\ OncePerId(notes')
      /\ IdsOf(notes') = {notes[i].id : i \in rest}
  BY <1>1, <1>2, <1>4, AtPlacesAre
<1>6. /\ more \in Seq(Note) /\ OncePerId(more)
      /\ IdsOf(more) = {notes[i].id : i \in cleared}
  BY <1>1, <1>3, <1>4, AtPlacesAre
<1>7. IdsOf(notes') \cap IdsOf(more) = {}
  <2> SUFFICES ASSUME NEW i \in rest, NEW j \in cleared, notes[i].id = notes[j].id PROVE FALSE
    BY <1>5, <1>6
  <2> QED
    BY <1>1, <1>4 DEF OncePerId
<1>8. IdsOf(notes') \cup IdsOf(more) = IdsOf(notes)
  <2>1. \A i \in DOMAIN notes : notes[i].id \in IdsOf(notes') \cup IdsOf(more)
    BY <1>4, <1>5, <1>6
  <2>2. IdsOf(notes') \cup IdsOf(more) \subseteq {notes[i].id : i \in DOMAIN notes}
    BY <1>4, <1>5, <1>6
  <2> QED
    BY <2>1, <2>2 DEF IdsOf
<1>9. notified' \in Nat /\ notified <= notified' /\ 1 .. notified' \ 1 .. notified = {}
  BY <1>1, <1>2
<1>10. IdsOf(notes') \cup IdsOf(more) = IdsOf(notes) \cup (1 .. notified' \ 1 .. notified)
  BY <1>8, <1>9
<1> QED
  BY <1>2, <1>3, <1>5, <1>6, <1>7, <1>9, <1>10, MovedKeeps

LEMMA MarkKeeps ==
    ASSUME NoteInv, NEW i \in DOMAIN notes, NEW status \in {"read", "acknowledged"},
           Mark(i, status)
    PROVE  NoteInv'
<1>1. /\ notes \in Seq(Note) /\ OncePerId(notes) /\ notified \in Nat
      /\ InOnePlace(notes, archived, notified)
  BY DEF NoteInv, InOnePlace
<1>2. /\ notes' = [notes EXCEPT ![i].status = status]
      /\ UNCHANGED <<archived, notified, forgotten>> /\ SaveNotes
  BY DEF Mark
<1> DEFINE n == Len(notes)
           e == [notes[i] EXCEPT !.status = status]
<1>3. n \in Nat /\ DOMAIN notes = 1 .. n /\ notes[i] \in Note
  BY <1>1, NoteIs
<1>4. e \in Note /\ e.id = notes[i].id
  BY <1>3 DEF Note
<1>5. notes' = [notes EXCEPT ![i] = e]
  BY <1>2
<1> HIDE DEF e
<1>6. /\ notes' \in Seq(Note) /\ DOMAIN notes' = 1 .. n
      /\ \A j \in 1 .. n : notes'[j] = IF j = i THEN e ELSE notes[j]
  <2> HIDE DEF Note
  <2>1. /\ notes' \in Seq(Note) /\ Len(notes') = n
        /\ \A j \in 1 .. n : notes'[j] = IF j = i THEN e ELSE notes[j]
    BY <1>1, <1>3, <1>4, <1>5, ExceptSeq
  <2> QED
    BY <2>1, LenProperties
<1>7. \A j \in 1 .. n : notes'[j].id = notes[j].id
  BY <1>4, <1>6
<1>8. IdsOf(notes') = IdsOf(notes) /\ OncePerId(notes')
  BY <1>1, <1>3, <1>6, <1>7 DEF IdsOf, OncePerId
<1>9. InOnePlace(notes', archived', notified')
  <2> HIDE DEF Note
  <2> QED
    BY <1>1, <1>2, <1>6, <1>8 DEF InOnePlace
<1>10. /\ noteFile' = [notes |-> noteFile'.notes, archived |-> noteFile'.archived]
       /\ InOnePlace(noteFile'.notes, noteFile'.archived, notified')
       /\ ~unsaved' => noteFile' = [notes |-> notes', archived |-> archived']
  <2>1. notified' \in Nat /\ notified <= notified'
    BY <1>1, <1>2
  <2> QED
    BY <1>2, <1>9, <2>1, SaveNotesKeeps
<1>11. forgotten' = 1 .. notified' \ (IdsOf(notes') \cup IdsOf(archived'))
  BY <1>2, <1>8 DEF NoteInv
<1> QED
  BY <1>1, <1>2, <1>9, <1>10, <1>11 DEF NoteInv

(* No change, no save that fails and no restart puts an id in two places.  *)
LEMMA NoteStep == NoteInv /\ [NotificationNext]_nvars => NoteInv'
<1> SUFFICES ASSUME NoteInv, [NotificationNext]_nvars PROVE NoteInv'
  OBVIOUS
<1>1. CASE Add
  BY <1>1, AddKeeps
<1>2. ASSUME NEW i \in DOMAIN notes, NEW status \in {"read", "acknowledged"}, Mark(i, status)
      PROVE  NoteInv'
  BY <1>2, MarkKeeps
<1>3. ASSUME NEW s \in NoteSessions, ClearSession(s) PROVE NoteInv'
  BY <1>3, ClearSessionKeeps
<1>4. CASE RestartNotes
  <2>1. /\ notes' = noteFile.notes /\ archived' = noteFile.archived
        /\ forgotten' = 1 .. notified \ (IdsOf(notes') \cup IdsOf(archived'))
        /\ UNCHANGED <<noteFile, notified>> /\ unsaved' = FALSE
    BY <1>4 DEF RestartNotes
  <2>2. InOnePlace(notes', archived', notified')
    BY <2>1 DEF NoteInv
  <2>3. notified' \in Nat /\ InOnePlace(noteFile'.notes, noteFile'.archived, notified')
    BY <2>1 DEF NoteInv
  <2>4. noteFile' = [notes |-> notes', archived |-> archived']
        /\ noteFile' = [notes |-> noteFile'.notes, archived |-> noteFile'.archived]
    BY <2>1 DEF NoteInv
  <2> QED
    BY <2>1, <2>2, <2>3, <2>4 DEF NoteInv
<1>5. CASE UNCHANGED nvars
  <2>1. UNCHANGED <<notes, archived, noteFile, notified, forgotten, unsaved>>
    BY <1>5 DEF nvars
  <2>2. InOnePlace(notes', archived', notified')
    BY <2>1 DEF NoteInv
  <2>3. InOnePlace(noteFile'.notes, noteFile'.archived, notified')
    BY <2>1 DEF NoteInv
  <2>4. forgotten' = 1 .. notified' \ (IdsOf(notes') \cup IdsOf(archived'))
    BY <2>1 DEF NoteInv
  <2> QED
    BY <2>1, <2>2, <2>3, <2>4 DEF NoteInv
<1> QED
  BY <1>1, <1>2, <1>3, <1>4, <1>5 DEF NotificationNext

(* A list has as many entries as ids.                                      *)
LEMMA IdsAreCounted ==
    ASSUME NEW list \in Seq(Note), OncePerId(list)
    PROVE  IsFiniteSet(IdsOf(list)) /\ Cardinality(IdsOf(list)) = Len(list)
<1> DEFINE n == Len(list)
           f == [i \in 1 .. n |-> list[i].id]
<1>1. n \in Nat /\ DOMAIN list = 1 .. n
  BY NoteIs
<1>2. IsFiniteSet(1 .. n) /\ Cardinality(1 .. n) = n
  BY <1>1, FS_Interval
<1>3. f \in Surjection(1 .. n, IdsOf(list))
  BY <1>1 DEF Surjection, IdsOf
<1>4. f \in Injection(1 .. n, IdsOf(list))
  BY <1>1 DEF Injection, IsInjective, IdsOf, OncePerId
<1> HIDE DEF f
<1> QED
  BY <1>2, <1>3, <1>4, FS_Surjection

LEMMA InvCountsNotes == NoteInv => NotesAreKept
<1> SUFFICES ASSUME NoteInv PROVE NotesAreKept
  OBVIOUS
<1> DEFINE N == IdsOf(notes)
           A == IdsOf(archived)
           all == 1 .. notified
<1>1. /\ notes \in Seq(Note) /\ archived \in Seq(Note)
      /\ OncePerId(notes) /\ OncePerId(archived)
      /\ N \cap A = {} /\ N \cup A \subseteq all /\ forgotten = all \ (N \cup A)
      /\ notified \in Nat /\ (~unsaved => noteFile = [notes |-> notes, archived |-> archived])
  BY DEF NoteInv, InOnePlace
<1>2. /\ IsFiniteSet(N) /\ Cardinality(N) = Len(notes) /\ Len(notes) \in Nat
      /\ IsFiniteSet(A) /\ Cardinality(A) = Len(archived) /\ Len(archived) \in Nat
  BY <1>1, IdsAreCounted, NoteIs
<1>3. IsFiniteSet(all) /\ Cardinality(all) = notified
  BY <1>1, FS_Interval
<1> HIDE DEF N, A, all
<1>4. IsFiniteSet(N \cup A) /\ Cardinality(N \cup A) = Len(notes) + Len(archived)
  <2>1. Cardinality(N \cap A) = 0
    BY <1>1, FS_EmptySet
  <2>2. IsFiniteSet(N \cup A)
        /\ Cardinality(N \cup A) = Cardinality(N) + Cardinality(A) - Cardinality(N \cap A)
    BY <1>2, FS_Union
  <2> QED
    BY <1>2, <2>1, <2>2
<1>5. IsFiniteSet(forgotten) /\ Cardinality(forgotten) \in Nat
  BY <1>1, <1>3, FS_Subset, FS_CardinalityType
<1>6. Cardinality((N \cup A) \cup forgotten)
        = Len(notes) + Len(archived) + Cardinality(forgotten)
  <2>1. (N \cup A) \cap forgotten = {}
    BY <1>1
  <2>2. Cardinality((N \cup A) \cap forgotten) = 0
    BY <2>1, FS_EmptySet
  <2>3. Cardinality((N \cup A) \cup forgotten)
          = Cardinality(N \cup A) + Cardinality(forgotten) - Cardinality((N \cup A) \cap forgotten)
    BY <1>4, <1>5, FS_Union
  <2> QED
    BY <1>2, <1>4, <1>5, <2>2, <2>3
<1>7. (N \cup A) \cup forgotten = all
  BY <1>1
<1> QED
  BY <1>1, <1>3, <1>6, <1>7 DEF NotesAreKept, N, A, all

(***************************************************************************)
(* Whatever saves fail, every notification is active, archived or          *)
(* forgotten, and none of them twice, for any limits and participants; and *)
(* a restart finds all if the last save went well.                         *)
(* notification_log.py:73-80.                                              *)
(***************************************************************************)
THEOREM NotificationsAreKept == NotificationSpec => []NotesAreKept
BY NoteInitInv, NoteStep, InvCountsNotes, PTL DEF NotificationSpec
=============================================================================
