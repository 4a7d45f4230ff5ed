------------------------------ MODULE TraceStore ------------------------------
(***************************************************************************)
(* The event store of phionyx_core/memory/trace_store.py: a database table *)
(* and an append-only log file, with suppression, erasure and the audit    *)
(* log of erasures.  Every operation opens its own connection and commits  *)
(* once; between two operations the process may end, and inside            *)
(* store_event it may end after the commit and before the log is written.  *)
(* One process uses the database.                                          *)
(***************************************************************************)
EXTENDS Integers, FiniteSets

CONSTANTS EventIds,    \* ids of events
          Payloads     \* what an event may hold

VARIABLES rows,        \* table events: from the ids present to their rows
          auditLog,    \* ids in erasure_audit_log
          logged,      \* [id, payload] lines in the JSONL file
          restricted,  \* history: ids suppressed and not released since
          gone         \* history: ids erased while the store had them

tvars == <<rows, auditLog, logged, restricted, gone>>

TraceInit ==
    /\ rows = [e \in {} |-> e]
    /\ auditLog = {} /\ logged = {}
    /\ restricted = {} /\ gone = {}

Lines == [id : EventIds, payload : Payloads]

\* Mutant of Replaced: INSERT OR REPLACE with a literal 0 for both flags.
BugReplaced(e, payload) == [payload |-> payload, suppressed |-> FALSE, erased |-> FALSE]

\* The flags are exempt from the overwrite.
Replaced(e, payload) ==
    [payload |-> payload, erased |-> FALSE,
     suppressed |-> e \in DOMAIN rows /\ rows[e].suppressed]

\* store_event, which refuses an erased id; a crash may lose the line.
StoreEvent(e, payload) ==
    /\ e \in DOMAIN rows => ~rows[e].erased
    /\ rows' = [k \in DOMAIN rows \cup {e} |-> IF k = e THEN Replaced(e, payload) ELSE rows[k]]
    /\ logged' \in {logged, logged \cup {[id |-> e, payload |-> payload]}}
    /\ UNCHANGED <<auditLog, restricted, gone>>

\* mark_suppressed changes a row that is there, an erased one as well.
MarkSuppressed(e, suppressed) ==
    /\ e \in DOMAIN rows
    /\ rows' = [rows EXCEPT ![e].suppressed = suppressed]
    /\ restricted' = IF suppressed THEN restricted \cup {e} ELSE restricted \ {e}
    /\ UNCHANGED <<auditLog, logged, gone>>

\* erase_event flags the row, if there is one, and writes the audit log in any
\* case.  The payload stays in the row and in the file.
EraseEvent(e) ==
    /\ rows' = [k \in DOMAIN rows |->
                   IF k = e THEN [rows[k] EXCEPT !.erased = TRUE] ELSE rows[k]]
    /\ auditLog' = auditLog \cup {e}
    /\ gone' = gone \cup ({e} \cap DOMAIN rows)
    /\ UNCHANGED <<logged, restricted>>

TraceNext ==
    \E e \in EventIds :
        \/ \E payload \in Payloads : StoreEvent(e, payload)
        \/ \E suppressed \in BOOLEAN : MarkSuppressed(e, suppressed)
        \/ EraseEvent(e)

TraceSpec == TraceInit /\ [][TraceNext]_tvars

-----------------------------------------------------------------------------
\* What get_event and get_events_by_tags read.
Readable(e) == e \in DOMAIN rows /\ ~rows[e].erased

(***************************************************************************)
(* No order of storing again, suppressing and erasing brings an erased     *)
(* event back, or lifts a restriction that mark_suppressed did not lift:   *)
(* "A tombstone is final".  trace_store.py:147-182, 340-384.               *)
(***************************************************************************)
RestrictionsHold ==
    /\ \A e \in gone : ~Readable(e) /\ e \in auditLog
    /\ \A e \in DOMAIN rows : rows[e].suppressed <=> e \in restricted

(***************************************************************************)
(* What the audit log calls erased cannot be read.  It does not hold: an   *)
(* erasure that comes before the event it is about leaves no tombstone.    *)
(* trace_store.py:128-134, 365-373.                                        *)
(***************************************************************************)
AuditMatchesStore == \A e \in auditLog : ~Readable(e)
=============================================================================
