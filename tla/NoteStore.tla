----------------------------- MODULE NoteStore -----------------------------
(***************************************************************************)
(* The server's tables of notes and of trashed notes, as one account sees  *)
(* them (backend/internal/notes, backend/internal/trash).  The pool holds  *)
(* a single SQLite connection, so one SQL statement is one step; a handler *)
(* that runs several statements is a request whose steps interleave with   *)
(* the other requests and with the background jobs.                        *)
(*                                                                         *)
(* Time is abstracted to the two comparisons the jobs make: a note is      *)
(* `stale' once its updated_at is older than the auto-lock window, and     *)
(* `expired' once its deleted_at is older than the retention period.       *)
(***************************************************************************)
EXTENDS Naturals, FiniteSets

CONSTANTS
  Note,       \* note ids; AUTOINCREMENT never hands one out twice
  Content,    \* what a title and body can hold
  Request     \* slots for handlers running at the same time

ASSUME NonEmpty == Note # {} /\ Content # {}

VARIABLES
  rows,       \* ids with a row in the notes table
  gone,       \* ids whose row has been deleted
  note,       \* the columns of each row
  trash,      \* ids with a row in the trash table
  expired,    \* those of them whose retention period has ended
  req         \* the handler in each slot

vars == <<rows, gone, note, trash, expired, req>>

Op == {"none", "lock", "update", "trash", "archive", "deleteOne", "empty"}
At == {"idle", "write", "reload", "check", "delete"}

Row == [content: Content, locked: BOOLEAN, archived: BOOLEAN, stale: BOOLEAN]

\* `seen': what the first statement read; `did': whether this request wrote;
\* `ids': the notes Empty has collected and not yet deleted.
Handler == [op: Op, note: Note, at: At, seen: BOOLEAN, did: BOOLEAN,
            ids: SUBSET Note]

NewRow(c) == [content |-> c, locked |-> FALSE, archived |-> FALSE, stale |-> FALSE]
Blank     == NewRow(CHOOSE c \in Content : TRUE)
NoHandler == [op |-> "none", note |-> CHOOSE n \in Note : TRUE, at |-> "idle",
              seen |-> FALSE, did |-> FALSE, ids |-> {}]

TypeOK ==
  /\ rows \subseteq Note
  /\ gone \subseteq Note \ rows
  /\ note \in [Note -> Row]
  /\ trash \subseteq rows
  /\ expired \subseteq trash
  /\ req \in [Request -> Handler]

Init ==
  /\ rows = {} /\ gone = {} /\ trash = {} /\ expired = {}
  /\ note = [n \in Note |-> Blank]
  /\ req = [r \in Request |-> NoHandler]

-----------------------------------------------------------------------------
\* What Get and Update can see: neither archived nor in the trash.
Visible(n)  == n \in rows /\ ~note[n].archived /\ n \notin trash
Known       == rows \cup gone
Running(r, op, at) == req[r].op = op /\ req[r].at = at

\* A handler's first statement has run; the next is `at'.
Begin(r, op, n, at, seen, did, ids) ==
  req' = [req EXCEPT ![r] = [op |-> op, note |-> n, at |-> at, seen |-> seen,
                             did |-> did, ids |-> ids]]

\* The handler has answered.
Finish(r) == req' = [req EXCEPT ![r] = NoHandler]

\* Faulty variant: without the cascade the trash row stays behind.
DeleteRows_NoCascade(S) ==
  /\ rows' = rows \ S
  /\ gone' = gone \cup (S \cap rows)
  /\ note' = [n \in Note |-> IF n \in S THEN Blank ELSE note[n]]
  /\ UNCHANGED <<trash, expired>>

\* DELETE FROM notes; the trash rows go with them (ON DELETE CASCADE).
DeleteRows(S) ==
  /\ rows' = rows \ S
  /\ gone' = gone \cup (S \cap rows)
  /\ trash' = trash \ S
  /\ expired' = expired \ S
  /\ note' = [n \in Note |-> IF n \in S THEN Blank ELSE note[n]]

-----------------------------------------------------------------------------
(* Handlers of one statement.                                              *)

Create(n, c) ==
  /\ n \notin Known
  /\ rows' = rows \cup {n}
  /\ note' = [note EXCEPT ![n] = NewRow(c)]
  /\ UNCHANGED <<gone, trash, expired, req>>

Unarchive(n) ==
  /\ n \in rows
  /\ note' = [note EXCEPT ![n].archived = FALSE]
  /\ UNCHANGED <<rows, gone, trash, expired, req>>

Restore(n) ==
  /\ n \in trash
  /\ trash' = trash \ {n}
  /\ expired' = expired \ {n}
  /\ UNCHANGED <<rows, gone, note, req>>

-----------------------------------------------------------------------------
(* ToggleLock: IsLocked, SetLocked with the opposite value, Get.           *)

LockRead(r, n) ==
  /\ req[r].at = "idle"
  /\ n \in rows
  /\ Begin(r, "lock", n, "write", note[n].locked, FALSE, {})
  /\ UNCHANGED <<rows, gone, note, trash, expired>>

LockWrite(r) ==
  /\ Running(r, "lock", "write")
  /\ LET n == req[r].note IN
     IF n \in rows
       THEN /\ note' = [note EXCEPT ![n].locked = ~req[r].seen]
            /\ req' = [req EXCEPT ![r].at = "reload", ![r].did = TRUE]
       ELSE Finish(r) /\ UNCHANGED note
  /\ UNCHANGED <<rows, gone, trash, expired>>

LockAnswer(r) == IF Visible(req[r].note) THEN "ok" ELSE "notfound"

-----------------------------------------------------------------------------
(* Update: one UPDATE that carries the lock in its WHERE clause, then Get, *)
(* for the answer or to tell a locked note from a missing one.             *)

UpdateWrite(r, n, c) ==
  /\ req[r].at = "idle"
  /\ n \in Known
  /\ LET applies == Visible(n) /\ ~note[n].locked IN
     /\ Begin(r, "update", n, "reload", FALSE, applies, {})
     /\ note' = IF applies THEN [note EXCEPT ![n].content = c, ![n].stale = FALSE]
                           ELSE note
  /\ UNCHANGED <<rows, gone, trash, expired>>

\* Faulty variant: the row count of the UPDATE is not looked at.
UpdateAnswer_Optimistic(r) ==
  IF ~Visible(req[r].note) THEN "notfound"
  ELSE IF note[req[r].note].locked /\ ~req[r].did THEN "locked" ELSE "ok"

UpdateAnswer(r) ==
  LET n == req[r].note IN
  CASE Visible(n) /\ req[r].did                      -> "ok"
    [] Visible(n) /\ ~req[r].did /\ note[n].locked   -> "locked"
    [] OTHER                                         -> "notfound"

-----------------------------------------------------------------------------
(* SoftDelete: INSERT OR IGNORE into the trash where not locked; when no   *)
(* row went in, IsLocked decides the answer.                               *)

\* Faulty variant: the INSERT has lost its locked = 0.
TrashInsert_IgnoresLock(r, n) ==
  /\ req[r].at = "idle"
  /\ n \in Known
  /\ IF n \in rows /\ n \notin trash
       THEN trash' = trash \cup {n} /\ UNCHANGED req
       ELSE Begin(r, "trash", n, "check", n \in trash, FALSE, {}) /\ UNCHANGED trash
  /\ UNCHANGED <<rows, gone, note, expired>>

TrashInsert(r, n) ==
  /\ req[r].at = "idle"
  /\ n \in Known
  /\ IF n \in rows /\ ~note[n].locked /\ n \notin trash
       THEN trash' = trash \cup {n} /\ UNCHANGED req
       ELSE Begin(r, "trash", n, "check", n \in trash, FALSE, {}) /\ UNCHANGED trash
  /\ UNCHANGED <<rows, gone, note, expired>>

TrashAnswer(r) ==
  IF req[r].note \notin rows THEN "notfound"
  ELSE IF note[req[r].note].locked THEN "locked" ELSE "ok"

-----------------------------------------------------------------------------
(* Archive: one UPDATE where not locked, then IsLocked when it hit no row. *)

ArchiveWrite(r, n) ==
  /\ req[r].at = "idle"
  /\ n \in Known
  /\ IF n \in rows /\ ~note[n].locked
       THEN note' = [note EXCEPT ![n].archived = TRUE] /\ UNCHANGED req
       ELSE Begin(r, "archive", n, "check", FALSE, FALSE, {}) /\ UNCHANGED note
  /\ UNCHANGED <<rows, gone, trash, expired>>

ArchiveAnswer(r) ==
  IF req[r].note \in rows /\ note[req[r].note].locked THEN "locked" ELSE "notfound"

-----------------------------------------------------------------------------
\* The last statement of these four handlers only reads, and settles the answer.
AnswerOf(r) ==
  CASE req[r].op = "lock"    -> LockAnswer(r)
    [] req[r].op = "update"  -> UpdateAnswer(r)
    [] req[r].op = "trash"   -> TrashAnswer(r)
    [] req[r].op = "archive" -> ArchiveAnswer(r)

Answering(r) == req[r].at \in {"reload", "check"}

Answer(r) ==
  /\ Answering(r)
  /\ Finish(r)
  /\ UNCHANGED <<rows, gone, note, trash, expired>>

-----------------------------------------------------------------------------
(* DeleteOne and Empty: read the trash table, then delete note rows.       *)

\* Faulty variant: ownership is checked in the notes table, not in the trash.
DeleteOneCheck_AnyNote(r, n) ==
  /\ req[r].at = "idle"
  /\ n \in rows
  /\ Begin(r, "deleteOne", n, "delete", FALSE, FALSE, {n})
  /\ UNCHANGED <<rows, gone, note, trash, expired>>

DeleteOneCheck(r, n) ==
  /\ req[r].at = "idle"
  /\ n \in trash
  /\ Begin(r, "deleteOne", n, "delete", FALSE, FALSE, {n})
  /\ UNCHANGED <<rows, gone, note, trash, expired>>

EmptyList(r) ==
  /\ req[r].at = "idle"
  /\ trash # {}
  /\ Begin(r, "empty", NoHandler.note, "delete", FALSE, FALSE, trash)
  /\ UNCHANGED <<rows, gone, note, trash, expired>>

DeleteNext(r, n) ==
  /\ req[r].at = "delete"
  /\ n \in req[r].ids
  /\ DeleteRows({n})
  /\ IF req[r].ids = {n} THEN Finish(r)
                         ELSE req' = [req EXCEPT ![r].ids = @ \ {n}]

\* The client hangs up or the server restarts: the statements left over never
\* run (every one is issued under the request's context).
Abort(r) ==
  /\ req[r].at # "idle"
  /\ Finish(r)
  /\ UNCHANGED <<rows, gone, note, trash, expired>>

-----------------------------------------------------------------------------
(* The background jobs and the clock they read.                            *)

\* Faulty variant: the job passes over the archive.
AutoLockStale_ActiveOnly ==
  /\ note' = [n \in Note |-> IF Visible(n) /\ note[n].stale
                               THEN [note[n] EXCEPT !.locked = TRUE] ELSE note[n]]
  /\ UNCHANGED <<rows, gone, trash, expired, req>>

AutoLockStale ==
  /\ note' = [n \in Note |-> IF n \in rows /\ n \notin trash /\ note[n].stale
                               THEN [note[n] EXCEPT !.locked = TRUE] ELSE note[n]]
  /\ UNCHANGED <<rows, gone, trash, expired, req>>

\* Faulty variants: the purge forgets the cutoff, or passes over locked notes.
PurgeExpired_Everything == DeleteRows(trash) /\ UNCHANGED req
PurgeExpired_UnlockedOnly ==
  DeleteRows({n \in expired : ~note[n].locked}) /\ UNCHANGED req

PurgeExpired == DeleteRows(expired) /\ UNCHANGED req

GoStale(n) ==
  /\ n \in rows
  /\ note' = [note EXCEPT ![n].stale = TRUE]
  /\ UNCHANGED <<rows, gone, trash, expired, req>>

Expire(n) ==
  /\ n \in trash
  /\ expired' = expired \cup {n}
  /\ UNCHANGED <<rows, gone, note, trash, req>>

-----------------------------------------------------------------------------
Handle(r) == LockWrite(r) \/ Answer(r) \/ EmptyList(r) \/ Abort(r)

HandleNote(r, n) ==
  \/ LockRead(r, n)
  \/ \E c \in Content : UpdateWrite(r, n, c)
  \/ TrashInsert(r, n)
  \/ ArchiveWrite(r, n)
  \/ DeleteOneCheck(r, n)
  \/ DeleteNext(r, n)

Statement(n) ==
  \/ \E c \in Content : Create(n, c)
  \/ Unarchive(n)
  \/ Restore(n)

Next ==
  \/ \E r \in Request : Handle(r)
  \/ \E r \in Request, n \in Note : HandleNote(r, n)
  \/ \E n \in Note : Statement(n)
  \/ AutoLockStale
  \/ PurgeExpired
  \/ \E n \in Note : GoStale(n) \/ Expire(n)

\* Time passes and the tickers of cmd/server/main.go keep firing; nothing
\* makes a user or a request go on.
Fairness ==
  /\ WF_vars(AutoLockStale)
  /\ WF_vars(PurgeExpired)
  /\ \A n \in Note : WF_vars(Expire(n))

Spec == Init /\ [][Next]_vars /\ Fairness

-----------------------------------------------------------------------------
(* What the store promises.                                                *)

\* While a note is locked nothing rewrites it (which also resets its age),
\* archives it or moves it to the trash, whatever handlers were already running
\* when the lock was set: the lock is part of every writing statement
\* (notes/repository.go, Update, SoftDelete, Archive).
LockHolds ==
  [][\A n \in rows \cap rows' : note[n].locked =>
        /\ note'[n].content = note[n].content
        /\ note[n].stale => note'[n].stale
        /\ note'[n].archived => note[n].archived
        /\ n \in trash' => n \in trash]_vars

\* A handler that answers `locked' has written nothing, and one that answers an
\* update with success has written it, even when other handlers lock, unlock,
\* archive or trash the note between its statements.
AnswersMatchEffects ==
  \A r \in Request : Answering(r) =>
    /\ AnswerOf(r) = "locked" => ~req[r].did
    /\ req[r].op = "update" /\ AnswerOf(r) = "ok" => req[r].did

\* The ids some handler has read from the trash table and is still to delete.
Condemned == UNION {req[r].ids : r \in Request}

\* A trashed note keeps the whole of its retention period: repeating the delete
\* does not restart it, and before it ends the note disappears only for a
\* handler that has been asked to delete it for good.
RetentionHonoured ==
  [][/\ \A n \in trash \cap trash' : n \in expired => n \in expired'
     /\ (gone' \ gone) \subseteq (expired \cup Condemned)]_vars

\* Answering a delete with success means the note was in the trash: when the
\* handler's insert found it there, or when it answers.  (notes/repository.go
\* says so of the branch in which nothing was inserted.)
TrashAnswerIsTrue ==
  \A r \in Request : Running(r, "trash", "check") /\ TrashAnswer(r) = "ok"
                      => req[r].seen \/ req[r].note \in trash

\* Only a note that is in the trash at that moment is deleted for good
\* (trash/repository.go, DeleteOne and Empty).
OnlyTrashedNotesAreDeleted == [][(gone' \ gone) \subseteq trash]_vars

\* A note in the trash is restored or deleted in the end: the hourly purge sees
\* to it.
TrashedNotesLeave == \A n \in Note : n \in trash ~> n \notin trash

\* A note left unedited is locked in the end, archived or not, unless it goes to
\* the trash, and an unlock only puts it off.
StaleNotesGetLocked ==
  \A n \in Note : (n \in rows /\ n \notin trash /\ note[n].stale)
                   ~> (note[n].locked \/ n \in trash \/ ~note[n].stale)

\* The life of a note as the glossary tells it, implemented by these handlers.
Place(n) == IF n \in trash THEN "trashed" ELSE IF n \in rows THEN "kept"
            ELSE IF n \in gone THEN "gone" ELSE "absent"
Lifecycle == INSTANCE NoteLifecycle WITH
  place     <- [n \in Note |-> Place(n)],
  archived  <- {n \in rows : note[n].archived},
  locked    <- {n \in rows : note[n].locked},
  content   <- [n \in Note |-> note[n].content],
  doomed    <- Condemned \cup expired
ImplementsLifecycle == Lifecycle!Spec

=============================================================================
