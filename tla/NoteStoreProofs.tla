-------------------------- MODULE NoteStoreProofs --------------------------
(***************************************************************************)
(* Theorems about NoteStore for every set of notes, contents and handler   *)
(* slots.  What the proofs rest on is the type invariant, and that the     *)
(* handlers which answer after a write that did not apply carry did =      *)
(* FALSE.  The last part shows that NoteStore implements NoteLifecycle.    *)
(***************************************************************************)
EXTENDS NoteStore, TLAPS

\* Only the four handlers with a final read wait for an answer; a delete or an
\* archive that waits for its check has written nothing; and what a handler is
\* still to delete has been a note.
HandlersInv ==
  \A r \in Request :
    /\ Answering(r) => req[r].op \in {"lock", "update", "trash", "archive"}
    /\ req[r].op \in {"trash", "archive"} => ~req[r].did
    /\ req[r].ids \subseteq Known

IInv == TypeOK /\ HandlersInv

USE DEF Visible, Known, Running, Answering, Begin, Finish, DeleteRows

-----------------------------------------------------------------------------
LEMMA BlankIsRow == Blank \in Row /\ \A c \in Content : NewRow(c) \in Row
  BY NonEmpty DEF Blank, NewRow, Row

LEMMA NoHandlerIsHandler == NoHandler \in Handler /\ NoHandler.op = "none"
                            /\ NoHandler.at = "idle"
                            /\ NoHandler.ids = {} /\ NoHandler.note \in Note
  BY NonEmpty DEF NoHandler, Handler, Op, At

\* The state in which nothing has happened yet is in order.
LEMMA InitIInv == Init => IInv
  BY BlankIsRow, NoHandlerIsHandler DEF Init, IInv, TypeOK, HandlersInv

\* Every handler step, statement and job keeps the types and the handlers' shape.
LEMMA NextIInv == IInv /\ [Next]_vars => IInv'
<1> SUFFICES ASSUME IInv, [Next]_vars PROVE IInv'
  OBVIOUS
<1> USE BlankIsRow, NoHandlerIsHandler DEF IInv, TypeOK, HandlersInv
<1>1. ASSUME NEW r \in Request, LockWrite(r) PROVE IInv'
  <2> DEFINE n == req[r].note
  <2>1. n \in Note
    BY DEF Handler
  <2>2. CASE n \in rows
    <3>1. note' = [note EXCEPT ![n].locked = ~req[r].seen]
      BY <1>1, <2>2 DEF LockWrite
    <3>2. note' \in [Note -> Row]
      BY <3>1, <2>1, ZenonT(60) DEF Row, Handler
    <3>3. req' = [req EXCEPT ![r].at = "reload", ![r].did = TRUE]
      BY <1>1, <2>2 DEF LockWrite
    <3>4. req' \in [Request -> Handler]
      BY <3>3, ZenonT(60) DEF Handler, At
    <3>5. HandlersInv'
      BY <1>1, <3>3 DEF LockWrite, Handler
    <3> QED
      BY <1>1, <3>2, <3>4, <3>5 DEF LockWrite
  <2>3. CASE n \notin rows
    BY <1>1, <2>3 DEF LockWrite
  <2> QED
    BY <2>2, <2>3
<1>2. ASSUME NEW r \in Request, Answer(r) PROVE IInv'
  BY <1>2 DEF Answer
<1>3. ASSUME NEW r \in Request, EmptyList(r) PROVE IInv'
  BY <1>3 DEF EmptyList, Handler, Op, At
<1>4. ASSUME NEW r \in Request, Abort(r) PROVE IInv'
  BY <1>4 DEF Abort
<1>5. ASSUME NEW r \in Request, NEW n \in Note, LockRead(r, n) PROVE IInv'
  BY <1>5 DEF LockRead, Row, Handler, Op, At
<1>6. ASSUME NEW r \in Request, NEW n \in Note, NEW c \in Content,
             UpdateWrite(r, n, c) PROVE IInv'
  <2> DEFINE applies == Visible(n) /\ ~note[n].locked
             h == [op |-> "update", note |-> n, at |-> "reload", seen |-> FALSE,
                   did |-> applies, ids |-> {}]
  <2>1. note' \in [Note -> Row]
    BY <1>6, ZenonT(60) DEF UpdateWrite, Row
  <2>2. h \in Handler
    BY DEF Handler, Op, At
  <2>3. req' = [req EXCEPT ![r] = h]
    BY <1>6 DEF UpdateWrite
  <2> HIDE DEF h
  <2>4. req' \in [Request -> Handler]
    BY <2>2, <2>3
  <2>5. h.op = "update" /\ h.ids = {}
    BY DEF h
  <2>6. \A q \in Request : req'[q] = IF q = r THEN h ELSE req[q]
    BY <2>3
  <2>7. UNCHANGED Known
    BY <1>6 DEF UpdateWrite
  <2>8. HandlersInv'
    BY <2>5, <2>6, <2>7
  <2> QED
    BY <1>6, <2>1, <2>4, <2>8 DEF UpdateWrite
<1>7. ASSUME NEW r \in Request, NEW n \in Note, TrashInsert(r, n) PROVE IInv'
  <2>1. CASE n \in rows /\ ~note[n].locked /\ n \notin trash
    BY <1>7, <2>1 DEF TrashInsert
  <2>2. CASE ~(n \in rows /\ ~note[n].locked /\ n \notin trash)
    <3> DEFINE h == [op |-> "trash", note |-> n, at |-> "check", seen |-> n \in trash,
                     did |-> FALSE, ids |-> {}]
    <3>1. req' = [req EXCEPT ![r] = h] /\ UNCHANGED <<rows, gone, note, trash, expired>>
      BY <1>7, <2>2 DEF TrashInsert
    <3>2. h \in Handler /\ h.op = "trash" /\ ~h.did /\ h.ids = {}
      BY DEF Handler, Op, At
    <3> HIDE DEF h
    <3> QED
      BY <3>1, <3>2
  <2> QED
    BY <2>1, <2>2
<1>8. ASSUME NEW r \in Request, NEW n \in Note, ArchiveWrite(r, n) PROVE IInv'
  <2>1. CASE n \in rows /\ ~note[n].locked
    <3>1. note' = [note EXCEPT ![n].archived = TRUE] /\ UNCHANGED <<rows, gone, trash, expired, req>>
      BY <1>8, <2>1 DEF ArchiveWrite
    <3>2. note' \in [Note -> Row]
      BY <3>1 DEF Row
    <3> QED
      BY <3>1, <3>2
  <2>2. CASE ~(n \in rows /\ ~note[n].locked)
    <3> DEFINE h == [op |-> "archive", note |-> n, at |-> "check", seen |-> FALSE,
                     did |-> FALSE, ids |-> {}]
    <3>1. req' = [req EXCEPT ![r] = h] /\ UNCHANGED <<rows, gone, note, trash, expired>>
      BY <1>8, <2>2 DEF ArchiveWrite
    <3>2. h \in Handler /\ h.op = "archive" /\ ~h.did /\ h.ids = {}
      BY DEF Handler, Op, At
    <3> HIDE DEF h
    <3> QED
      BY <3>1, <3>2
  <2> QED
    BY <2>1, <2>2
<1>9. ASSUME NEW r \in Request, NEW n \in Note, DeleteOneCheck(r, n) PROVE IInv'
  BY <1>9 DEF DeleteOneCheck, Handler, Op, At
<1>10. ASSUME NEW r \in Request, NEW n \in Note, DeleteNext(r, n) PROVE IInv'
  <2>1. rows' \subseteq Note /\ gone' \subseteq Note \ rows' /\ note' \in [Note -> Row]
        /\ trash' \subseteq rows' /\ expired' \subseteq trash' /\ Known' = Known
    BY <1>10 DEF DeleteNext
  <2>2. CASE req[r].ids = {n}
    BY <1>10, <2>1, <2>2 DEF DeleteNext
  <2>3. CASE req[r].ids # {n}
    <3>1. req' = [req EXCEPT ![r].ids = @ \ {n}]
      BY <1>10, <2>3 DEF DeleteNext
    <3>2. req' \in [Request -> Handler]
      BY <3>1 DEF Handler
    <3>3. HandlersInv'
      BY <2>1, <3>1 DEF Handler
    <3> QED
      BY <2>1, <3>2, <3>3
  <2> QED
    BY <2>2, <2>3
<1>11. ASSUME NEW n \in Note, NEW c \in Content, Create(n, c) PROVE IInv'
  BY <1>11 DEF Create
<1>12. ASSUME NEW n \in Note, Unarchive(n) PROVE IInv'
  BY <1>12 DEF Unarchive, Row
<1>13. ASSUME NEW n \in Note, Restore(n) PROVE IInv'
  BY <1>13 DEF Restore
<1>14. CASE AutoLockStale
  BY <1>14 DEF AutoLockStale, Row
<1>15. CASE PurgeExpired
  BY <1>15 DEF PurgeExpired
<1>16. ASSUME NEW n \in Note, GoStale(n) PROVE IInv'
  BY <1>16 DEF GoStale, Row
<1>17. ASSUME NEW n \in Note, Expire(n) PROVE IInv'
  BY <1>17 DEF Expire
<1>18. CASE UNCHANGED vars
  BY <1>18 DEF vars
<1> QED
  BY <1>1, <1>2, <1>3, <1>4, <1>5, <1>6, <1>7, <1>8, <1>9, <1>10, <1>11, <1>12,
     <1>13, <1>14, <1>15, <1>16, <1>17, <1>18
  DEF Next, Handle, HandleNote, Statement

LEMMA SpecIInv == Spec => []IInv
  BY InitIInv, NextIInv, PTL DEF Spec

\* The tables and the handlers have the shape the model gives them: a trash row
\* has a note row, a deleted id has none.
THEOREM TypeCorrect == Spec => []TypeOK
  BY SpecIInv, PTL DEF IInv

\* Whatever runs between a handler's statements, `locked' means nothing was
\* written and a successful update was written.
THEOREM AnswersCorrect == Spec => []AnswersMatchEffects
<1>1. IInv => AnswersMatchEffects
  BY DEF IInv, TypeOK, HandlersInv, AnswersMatchEffects, AnswerOf, LockAnswer,
         UpdateAnswer, TrashAnswer, ArchiveAnswer, Answering, Handler, Op, At
<1> QED
  BY <1>1, SpecIInv, PTL

-----------------------------------------------------------------------------
\* No step rewrites, archives or trashes a note whose row is locked: the lock is
\* in the condition of every statement that could.
LEMMA StepLockHolds ==
  IInv /\ [Next]_vars =>
    \A n \in rows \cap rows' : note[n].locked =>
        /\ note'[n].content = note[n].content
        /\ note[n].stale => note'[n].stale
        /\ note'[n].archived => note[n].archived
        /\ n \in trash' => n \in trash
<1> SUFFICES ASSUME IInv, [Next]_vars,
                    NEW m \in rows \cap rows', note[m].locked
             PROVE  /\ note'[m].content = note[m].content
                    /\ note[m].stale => note'[m].stale
                    /\ note'[m].archived => note[m].archived
                    /\ m \in trash' => m \in trash
  OBVIOUS
<1> DEFINE Kept == /\ note'[m].content = note[m].content
                   /\ note[m].stale => note'[m].stale
                   /\ note'[m].archived => note[m].archived
                   /\ m \in trash' => m \in trash
<1>0. m \in Note /\ note \in [Note -> Row] /\ note[m] \in Row
  BY DEF IInv, TypeOK
<1>1. ASSUME NEW r \in Request, LockWrite(r) PROVE Kept
  BY <1>0, <1>1 DEF LockWrite, Row
<1>2. ASSUME UNCHANGED <<note, trash>> PROVE Kept
  BY <1>2
<1>3. ASSUME NEW r \in Request, Handle(r) PROVE Kept
  BY <1>1, <1>2, <1>3 DEF Handle, Answer, EmptyList, Abort
<1>4. ASSUME NEW r \in Request, NEW n \in Note, HandleNote(r, n) PROVE Kept
  <2>1. ASSUME NEW c \in Content, UpdateWrite(r, n, c) PROVE Kept
    BY <1>0, <2>1 DEF UpdateWrite, Row
  <2>2. CASE TrashInsert(r, n)
    BY <2>2 DEF TrashInsert
  <2>3. CASE ArchiveWrite(r, n)
    BY <1>0, <2>3 DEF ArchiveWrite, Row
  <2>4. CASE DeleteNext(r, n)
    BY <1>0, <2>4 DEF DeleteNext
  <2> QED
    BY <1>2, <1>4, <2>1, <2>2, <2>3, <2>4 DEF HandleNote, LockRead, DeleteOneCheck
<1>5. ASSUME NEW n \in Note, Statement(n) PROVE Kept
  BY <1>0, <1>5 DEF Statement, Create, Unarchive, Restore, Row
<1>6. CASE AutoLockStale
  BY <1>0, <1>6 DEF AutoLockStale, Row
<1>7. CASE PurgeExpired
  BY <1>0, <1>7 DEF PurgeExpired, IInv, TypeOK
<1>8. ASSUME NEW n \in Note, GoStale(n) \/ Expire(n) PROVE Kept
  BY <1>0, <1>8 DEF GoStale, Expire, Row
<1>9. CASE UNCHANGED vars
  BY <1>9 DEF vars
<1> QED
  BY <1>3, <1>4, <1>5, <1>6, <1>7, <1>8, <1>9 DEF Next

\* No interleaving of handlers and jobs rewrites, archives or trashes a note
\* while it is locked.
THEOREM LocksAreHonoured == Spec => LockHolds
<1>1. IInv /\ [Next]_vars => [\A n \in rows \cap rows' : note[n].locked =>
        /\ note'[n].content = note[n].content
        /\ note[n].stale => note'[n].stale
        /\ note'[n].archived => note[n].archived
        /\ n \in trash' => n \in trash]_vars
  BY StepLockHolds
<1> QED
  BY <1>1, SpecIInv, PTL DEF Spec, LockHolds

-----------------------------------------------------------------------------
\* Of the steps, only a purge and a handler's deletion make a note gone, and
\* only leaving the trash ends a note's expiry.
LEMMA StepRetention ==
  IInv /\ [Next]_vars =>
    /\ \A n \in trash \cap trash' : n \in expired => n \in expired'
    /\ (gone' \ gone) \subseteq (expired \cup Condemned)
<1> SUFFICES ASSUME IInv, [Next]_vars
             PROVE  /\ \A n \in trash \cap trash' : n \in expired => n \in expired'
                    /\ (gone' \ gone) \subseteq (expired \cup Condemned)
  OBVIOUS
<1> DEFINE Kept == /\ \A n \in trash \cap trash' : n \in expired => n \in expired'
                   /\ (gone' \ gone) \subseteq (expired \cup Condemned)
<1>1. ASSUME NEW S \in SUBSET (expired \cup Condemned), DeleteRows(S) PROVE Kept
  BY <1>1 DEF IInv, TypeOK
<1>2. ASSUME UNCHANGED gone, expired \cap trash' \subseteq expired' PROVE Kept
  BY <1>2
<1>3. ASSUME NEW r \in Request, NEW n \in Note, DeleteNext(r, n) PROVE Kept
  <2>1. {n} \in SUBSET (expired \cup Condemned)
    BY <1>3 DEF DeleteNext, Condemned
  <2>2. DeleteRows({n})
    BY <1>3 DEF DeleteNext
  <2> QED
    BY <1>1, <2>1, <2>2
<1>4. CASE PurgeExpired
  BY <1>1, <1>4 DEF PurgeExpired
<1>5. ASSUME NEW r \in Request, Handle(r) PROVE Kept
  BY <1>2, <1>5 DEF Handle, LockWrite, Answer, EmptyList, Abort
<1>6. ASSUME NEW r \in Request, NEW n \in Note, HandleNote(r, n) PROVE Kept
  BY <1>2, <1>3, <1>6 DEF HandleNote, LockRead, UpdateWrite, TrashInsert,
     ArchiveWrite, DeleteOneCheck
<1>7. ASSUME NEW n \in Note, Statement(n) PROVE Kept
  BY <1>2, <1>7 DEF Statement, Create, Unarchive, Restore
<1>8. CASE AutoLockStale
  BY <1>2, <1>8 DEF AutoLockStale
<1>9. ASSUME NEW n \in Note, GoStale(n) \/ Expire(n) PROVE Kept
  BY <1>2, <1>9 DEF GoStale, Expire
<1>10. CASE UNCHANGED vars
  BY <1>2, <1>10 DEF vars
<1> QED
  BY <1>4, <1>5, <1>6, <1>7, <1>8, <1>9, <1>10 DEF Next

\* Deleting again does not restart a note's retention period, and until that
\* period ends a note is gone only when a handler was asked to delete it.
THEOREM RetentionIsHonoured == Spec => RetentionHonoured
  BY StepRetention, SpecIInv, PTL DEF Spec, RetentionHonoured

-----------------------------------------------------------------------------
(* NoteStore implements NoteLifecycle.  The mapped state, by name.         *)

LPlace    == [n \in Note |-> Place(n)]
LArchived == {n \in rows : note[n].archived}
LLocked   == {n \in rows : note[n].locked}
LContent  == [n \in Note |-> note[n].content]
LDoomed   == Condemned \cup expired

\* A note is newly doomed only by a handler or a clock that found it in the trash.
LEMMA StepDooming == IInv /\ [Next]_vars => Lifecycle!Dooming
<1> SUFFICES ASSUME IInv, [Next]_vars PROVE LDoomed' \ LDoomed \subseteq trash
  BY DEF LDoomed, Lifecycle!Dooming, Lifecycle!In, Place, IInv, TypeOK
<1> USE DEF LDoomed
<1>0. req \in [Request -> Handler] /\ NoHandler.ids = {} /\ expired \subseteq trash
  BY NoHandlerIsHandler DEF IInv, TypeOK
<1>1. ASSUME \A r \in Request : req'[r].ids \subseteq req[r].ids \cup trash,
             expired' \subseteq expired \cup trash
      PROVE LDoomed' \ LDoomed \subseteq trash
  BY <1>1 DEF Condemned
<1>2. ASSUME UNCHANGED req, expired' \subseteq expired \cup trash
      PROVE LDoomed' \ LDoomed \subseteq trash
  BY <1>2 DEF Condemned
<1>3. ASSUME NEW r \in Request, NEW h, req' = [req EXCEPT ![r] = h],
             h.ids \subseteq req[r].ids \cup trash, expired' \subseteq expired \cup trash
      PROVE LDoomed' \ LDoomed \subseteq trash
  <2>1. \A q \in Request : req'[q] = IF q = r THEN h ELSE req[q]
    BY <1>0, <1>3
  <2> QED
    BY <1>1, <1>3, <2>1
<1>4. ASSUME NEW r \in Request, Finish(r), expired' \subseteq expired \cup trash
      PROVE LDoomed' \ LDoomed \subseteq trash
  BY <1>0, <1>3, <1>4
<1>5. ASSUME NEW r \in Request, Handle(r) PROVE LDoomed' \ LDoomed \subseteq trash
  <2>1. CASE LockWrite(r)
    <3>1. CASE req[r].note \in rows
      <4>1. req' = [req EXCEPT ![r].at = "reload", ![r].did = TRUE]
        BY <2>1, <3>1 DEF LockWrite
      <4>2. \A q \in Request : req'[q].ids = req[q].ids
        BY <1>0, <4>1 DEF Handler
      <4> QED
        BY <1>1, <2>1, <4>2 DEF LockWrite
    <3> QED
      BY <1>4, <2>1, <3>1 DEF LockWrite
  <2>2. CASE EmptyList(r)
    <3> DEFINE h == [op |-> "empty", note |-> NoHandler.note, at |-> "delete",
                     seen |-> FALSE, did |-> FALSE, ids |-> trash]
    <3>1. req' = [req EXCEPT ![r] = h] /\ h.ids = trash /\ UNCHANGED expired
      BY <2>2 DEF EmptyList
    <3> HIDE DEF h
    <3> QED
      BY <1>3, <3>1
  <2> QED
    BY <1>4, <1>5, <2>1, <2>2 DEF Handle, Answer, Abort
<1>6. ASSUME NEW r \in Request, NEW n \in Note, HandleNote(r, n)
      PROVE LDoomed' \ LDoomed \subseteq trash
  <2>1. CASE LockRead(r, n)
    <3>1. \A q \in Request : req'[q].ids \subseteq req[q].ids \cup trash
      BY <1>0, <2>1 DEF LockRead
    <3> QED
      BY <1>1, <3>1, <2>1 DEF LockRead
  <2>2. ASSUME NEW c \in Content, UpdateWrite(r, n, c)
        PROVE LDoomed' \ LDoomed \subseteq trash
    <3>1. \A q \in Request : req'[q].ids \subseteq req[q].ids \cup trash
      BY <1>0, <2>2 DEF UpdateWrite
    <3> QED
      BY <1>1, <3>1, <2>2 DEF UpdateWrite
  <2>3. CASE TrashInsert(r, n)
    <3>1. \A q \in Request : req'[q].ids \subseteq req[q].ids \cup trash
      BY <1>0, <2>3 DEF TrashInsert
    <3> QED
      BY <1>1, <3>1, <2>3 DEF TrashInsert
  <2>4. CASE ArchiveWrite(r, n)
    <3>1. \A q \in Request : req'[q].ids \subseteq req[q].ids \cup trash
      BY <1>0, <2>4 DEF ArchiveWrite
    <3> QED
      BY <1>1, <3>1, <2>4 DEF ArchiveWrite
  <2>5. CASE DeleteOneCheck(r, n)
    <3>1. \A q \in Request : req'[q].ids \subseteq req[q].ids \cup trash
      BY <1>0, <2>5 DEF DeleteOneCheck
    <3> QED
      BY <1>1, <3>1, <2>5 DEF DeleteOneCheck
  <2>6. CASE DeleteNext(r, n)
    <3>1. CASE req[r].ids = {n}
      BY <1>4, <2>6, <3>1 DEF DeleteNext
    <3>2. CASE req[r].ids # {n}
      <4>1. req' = [req EXCEPT ![r].ids = @ \ {n}]
        BY <2>6, <3>2 DEF DeleteNext
      <4>2. \A q \in Request : req'[q].ids \subseteq req[q].ids
        BY <1>0, <4>1 DEF Handler
      <4> QED
        BY <1>1, <2>6, <4>2 DEF DeleteNext
    <3> QED
      BY <3>1, <3>2
  <2> QED
    BY <1>6, <2>1, <2>2, <2>3, <2>4, <2>5, <2>6 DEF HandleNote
<1>7. ASSUME NEW n \in Note, Statement(n) PROVE LDoomed' \ LDoomed \subseteq trash
  BY <1>2, <1>7 DEF Statement, Create, Unarchive, Restore
<1>8. CASE AutoLockStale
  BY <1>2, <1>8 DEF AutoLockStale
<1>9. CASE PurgeExpired
  BY <1>2, <1>9 DEF PurgeExpired
<1>10. ASSUME NEW n \in Note, GoStale(n) \/ Expire(n)
       PROVE LDoomed' \ LDoomed \subseteq trash
  BY <1>2, <1>10 DEF GoStale, Expire
<1>11. CASE UNCHANGED vars
  BY <1>2, <1>11 DEF vars
<1> QED
  BY <1>5, <1>6, <1>7, <1>8, <1>9, <1>10, <1>11 DEF Next

USE DEF LPlace, LArchived, LLocked, LContent, LDoomed

\* A statement that only reads, or only moves a clock or a handler, changes
\* nothing the life of a note is told in.
LEMMA QuietStep ==
  UNCHANGED <<LPlace, LArchived, LLocked, LContent>> => Lifecycle!Step
  BY DEF Lifecycle!Step

\* Deleting rows of doomed notes destroys those notes and no other.
LEMMA DeleteIsDestroy ==
  ASSUME IInv, NEW S \in SUBSET (LDoomed \cap Known), DeleteRows(S)
  PROVE  Lifecycle!Step
<1> USE DEF IInv, TypeOK
<1>1. S \subseteq Note
  OBVIOUS
<1>2. LPlace' = [n \in Note |-> IF n \in S THEN "gone" ELSE LPlace[n]]
  BY DEF Place
<1>3. LArchived' = LArchived \ S /\ LLocked' = LLocked \ S
  BY <1>1
<1>4. LContent' \in {f \in [Note -> Content] : \A n \in Note \ S : f[n] = LContent[n]}
  BY BlankIsRow DEF Row
<1>5. Lifecycle!Destroy(S)
  BY <1>1, <1>2, <1>3, <1>4 DEF Lifecycle!Destroy
<1> QED
  BY <1>1, <1>5 DEF Lifecycle!Step

\* The step of every handler, statement and job is a step in a note's life.
LEMMA StepLifecycle == IInv /\ [Next]_vars => Lifecycle!Step
<1> SUFFICES ASSUME IInv, [Next]_vars PROVE Lifecycle!Step
  OBVIOUS
<1> USE DEF IInv, TypeOK
<1>1. ASSUME UNCHANGED <<rows, gone, trash, note>> PROVE Lifecycle!Step
  BY <1>1, QuietStep DEF Place
<1>2. ASSUME NEW r \in Request, LockWrite(r), req[r].note \in rows PROVE Lifecycle!Step
  <2> DEFINE n == req[r].note
  <2>1. n \in Note /\ note' = [note EXCEPT ![n].locked = ~req[r].seen]
        /\ UNCHANGED <<rows, gone, trash, expired>>
    BY <1>2 DEF LockWrite, Handler
  <2>2. UNCHANGED <<LPlace, LArchived, LContent>>
    BY <2>1 DEF Place, Row
  <2>3. PICK L \in SUBSET Note : L = {m \in rows : note'[m].locked}
    OBVIOUS
  <2>4. Lifecycle!SetLocked(L)
    BY <2>1, <2>2, <2>3 DEF Lifecycle!SetLocked, Lifecycle!In, Place
  <2> QED
    BY <2>4 DEF Lifecycle!Step
<1>3. ASSUME NEW r \in Request, Handle(r) PROVE Lifecycle!Step
  BY <1>1, <1>2, <1>3 DEF Handle, LockWrite, Answer, EmptyList, Abort
<1>4. ASSUME NEW r \in Request, NEW n \in Note, NEW c \in Content, UpdateWrite(r, n, c)
      PROVE Lifecycle!Step
  <2>1. CASE Visible(n) /\ ~note[n].locked
    <3>1. note' = [note EXCEPT ![n].content = c, ![n].stale = FALSE]
          /\ UNCHANGED <<rows, gone, trash, expired>>
      BY <1>4, <2>1 DEF UpdateWrite
    <3>2. UNCHANGED <<LPlace, LArchived, LLocked>> /\ LContent' = [LContent EXCEPT ![n] = c]
      BY <3>1 DEF Place, Row
    <3>3. Lifecycle!Edit(n, c)
      BY <2>1, <3>2 DEF Lifecycle!Edit, Place
    <3> QED
      BY <3>3 DEF Lifecycle!Step
  <2>2. CASE ~(Visible(n) /\ ~note[n].locked)
    BY <1>1, <1>4, <2>2 DEF UpdateWrite
  <2> QED
    BY <2>1, <2>2
<1>5. ASSUME NEW r \in Request, NEW n \in Note, TrashInsert(r, n) PROVE Lifecycle!Step
  <2>1. CASE n \in rows /\ ~note[n].locked /\ n \notin trash
    <3>1. trash' = trash \cup {n} /\ UNCHANGED <<rows, gone, note, expired>>
      BY <1>5, <2>1 DEF TrashInsert
    <3>2. LPlace' = [LPlace EXCEPT ![n] = "trashed"]
          /\ UNCHANGED <<LArchived, LLocked, LContent>>
      BY <3>1 DEF Place
    <3>3. Lifecycle!Trash(n)
      BY <2>1, <3>2 DEF Lifecycle!Trash, Lifecycle!Move, Place
    <3> QED
      BY <3>3 DEF Lifecycle!Step
  <2>2. CASE ~(n \in rows /\ ~note[n].locked /\ n \notin trash)
    BY <1>1, <1>5, <2>2 DEF TrashInsert
  <2> QED
    BY <2>1, <2>2
<1>6. ASSUME NEW n \in rows, NEW b \in BOOLEAN, b => ~note[n].locked,
             note' = [note EXCEPT ![n].archived = b], UNCHANGED <<rows, gone, trash>>
      PROVE Lifecycle!Step
  <2>1. UNCHANGED <<LPlace, LLocked, LContent>>
    BY <1>6 DEF Place, Row
  <2>2. PICK A \in SUBSET Note : A = {m \in rows : note'[m].archived}
    OBVIOUS
  <2>3. Lifecycle!SetArchived(A)
    BY <1>6, <2>1, <2>2 DEF Row, Lifecycle!SetArchived, Lifecycle!In, Place
  <2> QED
    BY <2>3 DEF Lifecycle!Step
<1>7. ASSUME NEW r \in Request, NEW n \in Note, ArchiveWrite(r, n) PROVE Lifecycle!Step
  BY <1>1, <1>6, <1>7 DEF ArchiveWrite
<1>8. ASSUME NEW r \in Request, NEW n \in Note, DeleteNext(r, n) PROVE Lifecycle!Step
  <2>1. {n} \in SUBSET (LDoomed \cap Known)
    BY <1>8 DEF DeleteNext, Condemned, HandlersInv
  <2>2. DeleteRows({n})
    BY <1>8 DEF DeleteNext
  <2> QED
    BY <2>1, <2>2, DeleteIsDestroy
<1>9. ASSUME NEW r \in Request, NEW n \in Note, HandleNote(r, n) PROVE Lifecycle!Step
  BY <1>1, <1>4, <1>5, <1>7, <1>8, <1>9 DEF HandleNote, LockRead, DeleteOneCheck
<1>10. ASSUME NEW n \in Note, NEW c \in Content, Create(n, c) PROVE Lifecycle!Step
  <2>1. LPlace' = [LPlace EXCEPT ![n] = "kept"] /\ LContent' = [LContent EXCEPT ![n] = c]
        /\ LPlace[n] = "absent"
    BY <1>10 DEF Create, Place, NewRow
  <2>2. UNCHANGED <<LArchived, LLocked>>
    BY <1>10 DEF Create, NewRow
  <2> QED
    BY <2>1, <2>2 DEF Lifecycle!Create, Lifecycle!Move, Lifecycle!Step
<1>11. ASSUME NEW n \in Note, Restore(n) PROVE Lifecycle!Step
  <2>1. LPlace' = [LPlace EXCEPT ![n] = "kept"] /\ LPlace[n] = "trashed"
        /\ UNCHANGED <<LArchived, LLocked, LContent>>
    BY <1>11 DEF Restore, Place
  <2> QED
    BY <2>1 DEF Lifecycle!Restore, Lifecycle!Move, Lifecycle!Step
<1>12. ASSUME NEW n \in Note, Statement(n) PROVE Lifecycle!Step
  BY <1>6, <1>10, <1>11, <1>12 DEF Statement, Unarchive
<1>13. CASE AutoLockStale
  <2>1. UNCHANGED <<LPlace, LArchived, LContent>>
    BY <1>13 DEF AutoLockStale, Place, Row
  <2>2. PICK L \in SUBSET Note : L = {m \in rows : note'[m].locked}
    OBVIOUS
  <2>3. Lifecycle!SetLocked(L)
    BY <1>13, <2>1, <2>2 DEF AutoLockStale, Lifecycle!SetLocked, Lifecycle!In, Place
  <2> QED
    BY <2>3 DEF Lifecycle!Step
<1>14. CASE PurgeExpired
  BY <1>14, DeleteIsDestroy DEF PurgeExpired
<1>15. ASSUME NEW n \in Note, GoStale(n) PROVE Lifecycle!Step
  <2>1. UNCHANGED <<LPlace, LArchived, LLocked, LContent>>
    BY <1>15 DEF GoStale, Place, Row
  <2> QED
    BY <2>1, QuietStep
<1>16. ASSUME NEW n \in Note, Expire(n) PROVE Lifecycle!Step
  BY <1>1, <1>16 DEF Expire
<1>17. CASE UNCHANGED vars
  BY <1>1, <1>17 DEF vars
<1> QED
  BY <1>3, <1>9, <1>12, <1>13, <1>14, <1>15, <1>16, <1>17 DEF Next

LEMMA InitLifecycle == Init => Lifecycle!Init
  BY BlankIsRow, NoHandlerIsHandler DEF Init, Lifecycle!Init, Place, Condemned, Row

\* Whatever handlers and jobs run side by side, each note lives the life of the
\* glossary: frozen while it is locked, and gone only once it was doomed in the
\* trash.
THEOREM LifecycleIsImplemented == Spec => ImplementsLifecycle
<1>1. IInv /\ [Next]_vars => [Lifecycle!Step /\ Lifecycle!Dooming]_(Lifecycle!lvars)
  BY StepLifecycle, StepDooming
<1> QED
  BY <1>1, InitLifecycle, SpecIInv, PTL DEF Spec, ImplementsLifecycle, Lifecycle!Spec

=============================================================================
