----------------------------- MODULE MemoryCache -----------------------------
(***************************************************************************)
(* RAGService.retrieve_context with its RAGCache over the vector store.    *)
(*                                                                         *)
(* One cache serves all turns.  A retrieval looks into it, awaits the      *)
(* embedding of its query, and then searches, filters and caches without   *)
(* another suspension; memories are stored meanwhile, which the cache is   *)
(* not told of.  A search finds what was stored up to then: an answer is   *)
(* the number of the memories it has seen.  Relevance and limit, which     *)
(* pick some of them, are left out, and so is the impact by which an       *)
(* eviction chooses: it may choose any entry.                              *)
(***************************************************************************)
EXTENDS Integers, FiniteSets, Sequences

CONSTANTS
    Questions,       \* cache keys: query, intent and actor
    Retrievals,      \* retrievals that may overlap
    Ttl,             \* ttl of the cache, in ticks
    MaxCacheSize,    \* max_size
    MaxMemories,     \* bound: memories stored
    MaxMemoryClock   \* bound: the clock

ASSUME MemoryCacheAssumption ==
    /\ Ttl \in Nat /\ MaxCacheSize \in Nat \ {0}
    /\ MaxMemories \in Nat /\ MaxMemoryClock \in Nat

VARIABLES
    cache,       \* RAGCache._cache: from some questions to their entries
    asking,      \* for each retrieval, the question whose embedding it awaits
    storedAt,    \* when each memory was stored, in order
    answer,      \* the last answer given
    memoryClock  \* time.time()

mvars == <<cache, asking, storedAt, answer, memoryClock>>

Nothing == "nothing"

NoAnswer == [seen |-> 0, failed |-> TRUE, at |-> 0]

MemoryInit ==
    /\ cache = [q \in {} |-> q]
    /\ asking = [r \in Retrievals |-> Nothing]
    /\ storedAt = <<>>
    /\ answer = NoAnswer
    /\ memoryClock = 0

Without(questions) == [q \in DOMAIN cache \ questions |-> cache[q]]

-----------------------------------------------------------------------------

EntryExpired(entry) == memoryClock - entry.timestamp > Ttl

\* Mutant of HitEntry: a hit makes the entry young again.
BugHitEntry(entry) == [entry EXCEPT !.timestamp = memoryClock]

\* A hit moves the entry to the end and counts it; its age stays.
HitEntry(entry) == entry

Give(seen, failed) == answer' = [seen |-> seen, failed |-> failed, at |-> memoryClock]

\* RAGCache.get finds the question: the cached memories are the answer, also
\* when they are none.
AnswerFromCache(q) ==
    /\ q \in DOMAIN cache
    /\ ~EntryExpired(cache[q])
    /\ cache' = [cache EXCEPT ![q] = HitEntry(@)]
    /\ Give(cache[q].seen, cache[q].failed)
    /\ UNCHANGED <<asking, storedAt, memoryClock>>

\* It does not, or the entry is expired and deleted.
Ask(r, q) ==
    /\ asking[r] = Nothing
    /\ q \in DOMAIN cache => EntryExpired(cache[q])
    /\ cache' = Without({q})
    /\ asking' = [asking EXCEPT ![r] = q]
    /\ UNCHANGED <<storedAt, answer, memoryClock>>

\* _evict_lowest_impact: whatever is below the threshold; if that does not
\* make room, one more.
Evictions ==
    {gone \in SUBSET DOMAIN cache :
        Cardinality(DOMAIN cache \ gone) < MaxCacheSize \/ gone = DOMAIN cache}

\* RAGCache.put; a question that is there already needs no room.
Put(q, entry) ==
    \E gone \in IF q \in DOMAIN cache \/ Cardinality(DOMAIN cache) < MaxCacheSize
                THEN {{}} ELSE Evictions :
        cache' = [k \in (DOMAIN cache \ gone) \cup {q} |->
                      IF k = q THEN entry ELSE cache[k]]

\* The embedding has come: search, cache, answer.  A failed search, or one with
\* the zero vector of a failed embedding, reads like a search without results.
SearchAndPut(r) ==
    /\ asking[r] # Nothing
    /\ \E failed \in BOOLEAN :
         LET seen == IF failed THEN 0 ELSE Len(storedAt)
         IN  /\ Put(asking[r], [seen |-> seen, failed |-> failed, timestamp |-> memoryClock])
             /\ Give(seen, failed)
    /\ asking' = [asking EXCEPT ![r] = Nothing]
    /\ UNCHANGED <<storedAt, memoryClock>>

\* An exception after the search: the answer is empty and nothing is cached.
FallBack(r) ==
    /\ asking[r] # Nothing
    /\ Give(0, TRUE)
    /\ asking' = [asking EXCEPT ![r] = Nothing]
    /\ UNCHANGED <<cache, storedAt, memoryClock>>

\* add_memory, once it has its embedding.
AddMemory ==
    /\ Len(storedAt) < MaxMemories
    /\ storedAt' = Append(storedAt, memoryClock)
    /\ UNCHANGED <<cache, asking, answer, memoryClock>>

\* cleanup_expired, cleanup_below_threshold (any entry may be below), clear.
Cleanup ==
    /\ \E gone \in SUBSET DOMAIN cache : gone # {} /\ cache' = Without(gone)
    /\ UNCHANGED <<asking, storedAt, answer, memoryClock>>

MemoryTick ==
    /\ memoryClock < MaxMemoryClock
    /\ memoryClock' = memoryClock + 1
    /\ UNCHANGED <<cache, asking, storedAt, answer>>

MemoryNext ==
    \/ \E q \in Questions : AnswerFromCache(q) \/ \E r \in Retrievals : Ask(r, q)
    \/ \E r \in Retrievals : SearchAndPut(r) \/ FallBack(r)
    \/ AddMemory
    \/ Cleanup
    \/ MemoryTick

MemorySpec == MemoryInit /\ [][MemoryNext]_mvars

-----------------------------------------------------------------------------
(***************************************************************************)
(* Storing a memory invalidates nothing, and hits may go on for ever; all  *)
(* the same no answer misses a memory that was stored more than a ttl      *)
(* before it, however retrievals overlap, unless the search behind the     *)
(* answer failed.  rag_service.py:115-165, rag_cache.py:196-211.           *)
(***************************************************************************)
AnswersAreRecent ==
    ~answer.failed =>
        \A i \in DOMAIN storedAt : i > answer.seen => answer.at - storedAt[i] <= Ttl
=============================================================================
