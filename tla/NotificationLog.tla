--------------------------- MODULE NotificationLog ---------------------------
(***************************************************************************)
(* The notification log of phionyx_core/meta/notification_log.py: a list   *)
(* of active notifications, an archive cut at its limit, and one file that *)
(* is written in place by every change and read by the next process.       *)
(***************************************************************************)
EXTENDS Integers, FiniteSets, Sequences

CONSTANTS
    Founder, AIs,       \* ParticipantRole
    NoteSessions,       \* session ids
    MaxActive,          \* max_active
    ArchiveLimit,       \* archive_limit
    MaxNotes            \* bound: notifications added

ASSUME NotificationAssumption ==
    MaxActive \in Nat \ {0} /\ ArchiveLimit \in Nat \ {0} /\ Founder \notin AIs

VARIABLES
    notes,        \* _notifications
    archived,     \* _archive
    noteFile,     \* storage_path: both lists as the next process reads them
    notified,     \* history: notifications added, which are their ids
    forgotten,    \* history: ids the archive was cut by, or a restart lost
    unsaved       \* history: whether the file is behind the lists

nvars == <<notes, archived, noteFile, notified, forgotten, unsaved>>

Roles == AIs \cup {Founder}
\* What is read from no file, or from one that does not parse.
NoLists == [notes |-> <<>>, archived |-> <<>>]

NotificationInit ==
    /\ notes = <<>> /\ archived = <<>>
    /\ noteFile = NoLists
    /\ notified = 0 /\ forgotten = {} /\ unsaved = FALSE

IdsOf(list) == {list[i].id : i \in DOMAIN list}

-----------------------------------------------------------------------------
\* _save: written, not opened, or torn by an error that nobody hears of.
SaveNotes ==
    LET lists == [notes |-> notes', archived |-> archived'] IN
    /\ noteFile' \in {lists, noteFile, NoLists}
    /\ unsaved' = (noteFile' # lists)

\* The archive with more notifications at its end, cut at its front.
ArchiveNotes(more) ==
    LET all == archived \o more
        cut == IF Len(all) > ArchiveLimit THEN Len(all) - ArchiveLimit ELSE 0
    IN  /\ archived' = SubSeq(all, cut + 1, Len(all))
        /\ forgotten' = forgotten \cup IdsOf(SubSeq(all, 1, cut))

\* add refuses a participant's messages to itself, and of an AI those to
\* anybody that is none of the three participants, of which there is no other.
MayAddress(source, target) == source # target /\ target \in Roles

\* Mutant of Displaced: at the limit the newest goes.
BugDisplaced ==
    IF Len(notes) >= MaxActive THEN SubSeq(notes, 1, Len(notes) - 1) ELSE notes

\* What stays active when one more is added.
Displaced == IF Len(notes) >= MaxActive THEN Tail(notes) ELSE notes

Add ==
    /\ notified < MaxNotes
    /\ notified' = notified + 1
    /\ \E source, target \in Roles, s \in NoteSessions :
         /\ MayAddress(source, target)
         /\ notes' = Append(Displaced, [id |-> notified + 1, source |-> source,
                                        target |-> target, session |-> s,
                                        status |-> "unread"])
    /\ ArchiveNotes(IF Len(notes) >= MaxActive THEN <<Head(notes)>> ELSE <<>>)
    /\ SaveNotes

\* mark_read and mark_acknowledged look among the active ones only.
Mark(i, status) ==
    /\ notes[i].status \in (IF status = "read" THEN {"unread"} ELSE {"unread", "read"})
    /\ notes' = [notes EXCEPT ![i].status = status]
    /\ UNCHANGED <<archived, notified, forgotten>>
    /\ SaveNotes

\* What a list has at some of its positions, in the order of the list.
AtPlaces(list, places) ==
    {[k \in DOMAIN p |-> list[p[k]]] :
        p \in {q \in [1 .. Cardinality(places) -> places] :
                  \A j, k \in DOMAIN q : j < k => q[j] < q[k]}}

\* clear_session
ClearSession(s) ==
    LET cleared == {i \in DOMAIN notes : notes[i].session = s} IN
    /\ cleared # {}
    /\ notes' \in AtPlaces(notes, DOMAIN notes \ cleared)
    /\ \E more \in AtPlaces(notes, cleared) : ArchiveNotes(more)
    /\ UNCHANGED notified
    /\ SaveNotes

\* The next process reads the file; from a torn one it starts with nothing.
RestartNotes ==
    /\ notes' = noteFile.notes
    /\ archived' = noteFile.archived
    /\ forgotten' = 1 .. notified \ (IdsOf(noteFile.notes) \cup IdsOf(noteFile.archived))
    /\ unsaved' = FALSE
    /\ UNCHANGED <<noteFile, notified>>

NotificationNext ==
    \/ Add
    \/ \E i \in DOMAIN notes, status \in {"read", "acknowledged"} : Mark(i, status)
    \/ \E s \in NoteSessions : ClearSession(s)
    \/ RestartNotes

NotificationSpec == NotificationInit /\ [][NotificationNext]_nvars

-----------------------------------------------------------------------------
(***************************************************************************)
(* Every notification is in one place once: active, in the archive, or     *)
(* forgotten by the archive's limit or a restart that found less than was  *)
(* there; and as long as the last save went well, a restart would find     *)
(* them all.  notification_log.py:73-80, "append-only semantics",          *)
(* "per-mutation persistence".                                             *)
(***************************************************************************)
NotesAreKept ==
    /\ Len(notes) + Len(archived) + Cardinality(forgotten) = notified
    /\ IdsOf(notes) \cup IdsOf(archived) \cup forgotten = 1 .. notified
    /\ ~unsaved => noteFile = [notes |-> notes, archived |-> archived]
=============================================================================
