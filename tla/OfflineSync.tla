---------------------------- MODULE OfflineSync ----------------------------
(***************************************************************************)
(* One device's offline cache (frontend/src/lib/offlineDB.ts), the local   *)
(* writes to it (offlineActions.ts and the pages) and the replay that      *)
(* brings it to the server (offlineSync.ts), while other devices work on   *)
(* the same notes and requests, replies and the tab itself get lost.       *)
(*                                                                         *)
(* A request to the server is one step: its answer is the state it left.   *)
(* An IndexedDB transaction is one step.  Between two of them the replay,  *)
(* a local write and the refresh of the cache interleave freely.           *)
(***************************************************************************)
EXTENDS Naturals, FiniteSets

CONSTANTS
  Note,         \* ids the server hands out
  Cached,       \* those of the notes on the server and in the cache at first
  Temp,         \* temporary ids of notes born offline
  Mine,         \* what the user can write on this device
  Theirs,       \* what can be written on another device
  Original,     \* what a note held before this device went offline
  Flag, Lock,   \* Lock is the flag that guards content, Archive and Trash
  Rank,         \* the order in which the replay takes the flags: Lock is the last
  NoRow,        \* not a row
  MaxVersion, MaxRemote, MaxFaults, MaxMarks   \* bounds

Key     == Note \cup Temp
Text    == Mine \cup Theirs \cup {Original}
Version == 0..MaxVersion
Where   == {"none", "list", "archive", "trash", "gone"}

\* `version' stands for updated_at, which the server reports in whole seconds
\* (notes/handler.go): a later write may carry the same one.
ServerNote == [where: Where, content: Text, version: Version, flags: SUBSET Flag]

\* A cached note.  `base' is server_updated_at; flags_dirty is toggled # {};
\* is_new is having a temporary key.
Row == [content: Text, base: Version, dirty: BOOLEAN, deleted: BOOLEAN,
        archived: BOOLEAN, flags: SUBSET Flag, toggled: SUBSET Flag]
Rows == Row \cup {NoRow}

ASSUME Constants ==
  /\ Lock \in Flag /\ Flag \cap {"delete", "archive"} = {}
  /\ Rank \in [Flag -> Nat]
  /\ \A f \in Flag, g \in Flag : Rank[f] = Rank[g] => f = g
  /\ \A f \in Flag : Rank[f] <= Rank[Lock]
  /\ NoRow \notin Row
  /\ Note \cap Temp = {} /\ Note # {} /\ Cached \subseteq Note
  /\ Original \notin Mine \cup Theirs /\ Mine \cap Theirs = {}
  /\ MaxVersion \in Nat /\ MaxRemote \in Nat /\ MaxFaults \in Nat /\ MaxMarks \in Nat

VARIABLES
  srv,        \* the server's notes
  copies,     \* contents kept in "[sync conflict]" notes
  cache,      \* the device's store
  pc, todo,   \* the replay, and the rows of its snapshot still to be handled
  job,        \* the row being replayed
  mark,       \* a queued action (offlineActions.ts) between its read and its write
  refresh,    \* a row the refresh is about to cache, or read as clean and will delete
  spent,      \* how much of each bound is used up
  history     \* what has happened so far, for the properties only

vars == <<srv, copies, cache, pc, todo, job, mark, refresh, spent, history>>

Unseen  == [where |-> "none", content |-> Original, version |-> 0, flags |-> {}]
NoKey   == CHOOSE k \in Note : TRUE
NoJob   == [key |-> NoKey, id |-> NoKey, row |-> NoRow, unlocks |-> FALSE, seen |-> Unseen,
            changed |-> FALSE, left |-> {}]
NoMark  == [key |-> NoKey, seen |-> NoRow, row |-> NoRow]
NoRefresh == [op |-> "none", key |-> NoKey, row |-> NoRow]
Action  == {"delete", "archive"} \cup Flag
Phase   == {"idle", "next", "create", "unkey", "rekey", "getFlags", "toggle",
            "getContent", "copyServer", "put", "saveContent", "copyLocal",
            "acceptServer", "archive", "delete", "unlock", "deleteAgain",
            "abandon", "drop"}

\* No request ever carries a temporary id.
TempPhase == {"create", "unkey", "rekey", "drop"}

TypeOK ==
  /\ job.key \in Temp => pc \in TempPhase
  /\ srv \in [Note -> ServerNote] /\ copies \subseteq Text
  /\ cache \in [Key -> Rows] /\ todo \in [Key -> Rows]
  /\ pc \in Phase
  /\ job \in [key: Key, id: Note, row: Rows, unlocks: BOOLEAN, seen: ServerNote,
              changed: BOOLEAN, left: SUBSET Flag]
  /\ mark \in [key: Key, seen: Rows, row: Rows]
  /\ refresh \in [op: {"none", "cache", "evict"}, key: Note, row: Rows]
  /\ spent \in [remote: 0..MaxRemote, faults: 0..MaxFaults, marks: 0..MaxMarks]
  /\ history \in [written: SUBSET Text, stored: SUBSET Text, met: SUBSET Text,
                  asked: SUBSET (Key \X Flag), moved: SUBSET Note,
                  made: [Temp -> Nat], overlap: BOOLEAN, clash: BOOLEAN]

Fresh(c, f) == [content |-> c, base |-> 0, dirty |-> FALSE, deleted |-> FALSE,
                archived |-> FALSE, flags |-> f, toggled |-> {}]

\* Some notes are on the server, with the flags f, and cached; the others do not
\* exist yet.
Init ==
  /\ \E f \in SUBSET Flag :
       /\ srv = [n \in Note |-> IF n \in Cached
                                  THEN [Unseen EXCEPT !.where = "list", !.flags = f] ELSE Unseen]
       /\ cache = [k \in Key |-> IF k \in Cached THEN Fresh(Original, f) ELSE NoRow]
  /\ todo = [k \in Key |-> NoRow]
  /\ copies = {} /\ pc = "idle" /\ job = NoJob /\ mark = NoMark
  /\ refresh = NoRefresh
  /\ spent = [remote |-> 0, faults |-> 0, marks |-> 0]
  /\ history = [written |-> {Original}, stored |-> {Original}, met |-> {Original},
                asked |-> {}, moved |-> {}, made |-> [t \in Temp |-> 0],
                overlap |-> FALSE, clash |-> FALSE]

RowOf(s)  == [Fresh(s.content, s.flags) EXCEPT !.base = s.version]
Present(k) == cache[k] # NoRow
Queued(r)  == r.dirty \/ r.toggled # {} \/ r.deleted \/ r.archived
Visible(n) == srv[n].where = "list"
Locked(n)  == Lock \in srv[n].flags

-----------------------------------------------------------------------------
(* Writes to the store.                                                    *)

\* A write of row r by someone who believes the store still holds `believed'.
Write(k, r, believed) ==
  /\ cache' = [cache EXCEPT ![k] = r]
  /\ history' = [history EXCEPT
       !.overlap = @ \/ cache[k] # believed,
       !.met = IF r = NoRow THEN @ ELSE @ \cup {r.content}]

\* The user edits a note the cache holds and shows (saveOfflineEdit).  The list
\* page waits for a running replay first, the note page does not.
Edit(k, c) ==
  /\ Present(k) /\ c \in Mine \ history.written
  /\ Lock \notin cache[k].flags /\ ~cache[k].deleted /\ ~cache[k].archived
  /\ cache' = [cache EXCEPT ![k].content = c, ![k].dirty = TRUE]
  /\ history' = [history EXCEPT !.written = @ \cup {c}, !.met = @ \cup {c}]
  /\ UNCHANGED <<srv, copies, pc, todo, job, mark, refresh, spent>>

CreateOffline(t, c) ==
  /\ ~Present(t) /\ history.made[t] = 0 /\ todo[t] = NoRow /\ job.key # t /\ mark.key # t
  /\ c \in Mine \ history.written
  /\ cache' = [cache EXCEPT ![t] = [Fresh(c, {}) EXCEPT !.dirty = TRUE]]
  /\ history' = [history EXCEPT !.written = @ \cup {c}, !.met = @ \cup {c}]
  /\ UNCHANGED <<srv, copies, pc, todo, job, mark, refresh, spent>>

Flip(S, f) == IF f \in S THEN S \ {f} ELSE S \cup {f}

\* The note as a page may hold it in memory: what the cache holds, or what the
\* server lists, under the flags wanted here if any is queued
\* (mergeServerWithCache).  A note queued for removal is hidden.
Held(k) ==
  LET hidden == Present(k) /\ (cache[k].deleted \/ cache[k].archived)
      wanted == Present(k) /\ cache[k].toggled # {}
      kept   == IF Present(k) THEN {cache[k]} ELSE {}
      listed == IF k \in Note /\ Visible(k)
                  THEN {[RowOf(srv[k]) EXCEPT !.flags = IF wanted THEN cache[k].flags ELSE @]}
                  ELSE {}
  IN IF hidden THEN {} ELSE kept \cup listed

\* The row r with an action queued on the note.  A toggle takes every flag from
\* the note; a note born offline is dropped when it is deleted.
Marked(k, r, note, op) ==
  CASE op = "delete"  -> IF k \in Temp THEN NoRow ELSE [r EXCEPT !.deleted = TRUE]
    [] op = "archive" -> [r EXCEPT !.archived = TRUE]
    [] op \in Flag    -> [r EXCEPT !.flags = Flip(note.flags, op), !.toggled = @ \cup {op}]

\* The queued actions read the row in one transaction, and without one start from
\* the note itself ...
MarkRead(k, op, note) ==
  /\ mark = NoMark /\ spent.marks < MaxMarks
  /\ op \in {"delete", "archive"} => Lock \notin note.flags
  /\ LET r == IF Present(k) THEN cache[k] ELSE note IN
     /\ mark' = [key |-> k, seen |-> cache[k], row |-> Marked(k, r, note, op)]
     /\ history' = [history EXCEPT !.met = @ \cup {r.content},
                                   !.asked = @ \cup ({k} \X ({op} \cap Flag))]
  /\ spent' = [spent EXCEPT !.marks = @ + 1]
  /\ UNCHANGED <<srv, copies, cache, pc, todo, job, refresh>>

\* ... and write it back, changed, in another.
MarkWrite ==
  /\ mark # NoMark /\ mark' = NoMark
  /\ Write(mark.key, mark.row, mark.seen)
  /\ UNCHANGED <<srv, copies, pc, todo, job, refresh, spent>>

-----------------------------------------------------------------------------
(* The refresh of the cache from the list (cacheNotesForOffline).          *)

ListFetch(n) ==
  /\ refresh = NoRefresh /\ Visible(n)
  /\ refresh' = [op |-> "cache", key |-> n, row |-> RowOf(srv[n])]
  /\ UNCHANGED <<srv, copies, cache, pc, todo, job, mark, spent, history>>

\* Faulty variant: the check made before the tags were fetched is not repeated.
ListCache_NoRecheck ==
  /\ refresh.op = "cache" /\ refresh' = NoRefresh
  /\ cache' = [cache EXCEPT ![refresh.key] = refresh.row]
  /\ history' = [history EXCEPT !.met = @ \cup {refresh.row.content}]
  /\ UNCHANGED <<srv, copies, pc, todo, job, mark, spent>>

\* Read, check and write in one transaction: a row with something queued, or
\* newer than the list, is left alone.
ListCache ==
  /\ refresh.op = "cache" /\ refresh' = NoRefresh
  /\ LET k == refresh.key IN
     IF Present(k) /\ (Queued(cache[k]) \/ cache[k].base > refresh.row.base)
       THEN UNCHANGED <<cache, history>>
       ELSE /\ cache' = [cache EXCEPT ![k] = refresh.row]
            /\ history' = [history EXCEPT !.met = @ \cup {refresh.row.content}]
  /\ UNCHANGED <<srv, copies, pc, todo, job, mark, spent>>

\* Rows outside the list, or beyond its first notes, are collected, then deleted.
EvictRead(n) ==
  /\ refresh = NoRefresh /\ Present(n) /\ ~Queued(cache[n])
  /\ refresh' = [op |-> "evict", key |-> n, row |-> cache[n]]
  /\ UNCHANGED <<srv, copies, cache, pc, todo, job, mark, spent, history>>

EvictDelete ==
  /\ refresh.op = "evict" /\ refresh' = NoRefresh
  /\ Write(refresh.key, NoRow, refresh.row)
  /\ UNCHANGED <<srv, copies, pc, todo, job, mark, spent>>

-----------------------------------------------------------------------------
(* Another device.                                                         *)

Elsewhere(n) ==
  /\ spent.remote < MaxRemote
  /\ spent' = [spent EXCEPT !.remote = @ + 1]
  /\ UNCHANGED <<copies, cache, pc, todo, job, mark, refresh>>

\* The versions a content write may get: a new second, or still the same one.
Stamps(n) == {srv[n].version, srv[n].version + 1} \cap Version

RemoteEdit(n, c, v) ==
  /\ Elsewhere(n) /\ Visible(n) /\ ~Locked(n)
  /\ c \in Theirs \ history.written /\ v \in Stamps(n)
  /\ srv' = [srv EXCEPT ![n].content = c, ![n].version = v]
  /\ history' = [history EXCEPT !.written = @ \cup {c}, !.stored = @ \cup {c},
                                !.clash = @ \/ v = srv[n].version]

RemoteFlag(n, f) ==
  /\ Elsewhere(n) /\ Visible(n)
  /\ srv' = [srv EXCEPT ![n].flags = Flip(@, f)]
  /\ UNCHANGED history

\* Archive, trash, delete for good, restore, unarchive.  A lock stops the first
\* two; the auto-lock job of the server is a RemoteFlag.
RemoteMove(n, w) ==
  /\ Elsewhere(n)
  /\ \/ srv[n].where = "list"    /\ w \in {"archive", "trash"} /\ ~Locked(n)
     \/ srv[n].where = "archive" /\ w \in {"list", "trash"} /\ (w = "trash" => ~Locked(n))
     \/ srv[n].where = "trash"   /\ w \in {"list", "archive", "gone"}
  /\ srv' = [srv EXCEPT ![n].where = w]
  /\ history' = [history EXCEPT !.moved = @ \cup {n}]

-----------------------------------------------------------------------------
(* The replay (syncOfflineChanges).                                        *)

Idle == pc = "idle"

\* The dirty rows are read in one transaction; the run works from that snapshot.
Begin ==
  /\ Idle /\ \E k \in Key : Present(k) /\ Queued(cache[k])
  /\ todo' = [k \in Key |-> IF Present(k) /\ Queued(cache[k]) THEN cache[k] ELSE NoRow]
  /\ pc' = "next"
  /\ UNCHANGED <<srv, copies, cache, job, mark, refresh, spent, history>>

\* The phases of runReplayPhases and of syncArchivedNote, in their order.
AfterContent(r) == IF r.toggled # {} THEN "getFlags"
                   ELSE IF r.archived THEN "archive" ELSE "next"
AfterFlags(r)   == IF r.dirty THEN "getContent" ELSE AfterContent(r)

\* Faulty variant: an archived note goes straight to the archive call.
FirstPhase_ArchiveFirst(k, r) ==
  CASE r.deleted                               -> IF k \in Temp THEN "drop" ELSE "delete"
    [] ~r.deleted /\ r.archived                -> "archive"
    [] ~r.deleted /\ ~r.archived /\ k \in Temp -> "create"
    [] OTHER                                   -> AfterFlags(r)

FirstPhase(k, r) ==
  CASE r.deleted                                     -> IF k \in Temp THEN "drop" ELSE "delete"
    [] ~r.deleted /\ k \in Temp                      -> "create"
    [] ~r.deleted /\ k \notin Temp /\ r.toggled # {} -> "getFlags"
    [] OTHER                                         -> AfterFlags(r)

NextNote(k) ==
  /\ pc = "next" /\ todo[k] # NoRow
  /\ todo' = [todo EXCEPT ![k] = NoRow]
  /\ job' = [NoJob EXCEPT !.key = k, !.row = todo[k],
                          !.unlocks = Lock \in todo[k].toggled \ todo[k].flags]
  /\ pc' = FirstPhase(k, todo[k])
  /\ UNCHANGED <<srv, copies, cache, mark, refresh, spent, history>>

End ==
  /\ pc = "next" /\ todo = [k \in Key |-> NoRow]
  /\ pc' = "idle"
  /\ UNCHANGED <<srv, copies, cache, todo, job, mark, refresh, spent, history>>

\* The rest of the run: on to phase p with the row r, or done with this note.
Proceed(p, r) ==
  /\ pc' = p
  /\ job' = IF p = "next" THEN NoJob
            ELSE [job EXCEPT !.row = r, !.seen = Unseen, !.changed = FALSE, !.left = {}]

\* The error is counted and the run goes on with the next note.
Throw == pc' = "next" /\ job' = NoJob

Asking == UNCHANGED <<cache, todo, mark, refresh, spent>>
Saving == UNCHANGED <<srv, copies, todo, mark, refresh, spent>>

-----------------------------------------------------------------------------
(* A note born offline: create it, then give its row the server's id.      *)

Unused == {n \in Note : srv[n].where = "none"}

SyncCreate ==
  /\ pc = "create" /\ Unused # {}
  /\ LET n == CHOOSE x \in Unused : TRUE
         c == job.row.content IN
     /\ srv' = [srv EXCEPT ![n] = [Unseen EXCEPT !.where = "list", !.content = c]]
     /\ job' = [job EXCEPT !.id = n, !.seen = srv'[n]]
     /\ history' = [history EXCEPT !.stored = @ \cup {c}, !.made[job.key] = @ + 1]
  /\ pc' = "unkey"
  /\ UNCHANGED copies /\ Asking

\* Faulty variant: the row born offline is left in the store.
SyncUnkey_Keep ==
  /\ pc = "unkey" /\ pc' = "rekey"
  /\ UNCHANGED <<cache, job, history>> /\ Saving

SyncUnkey ==
  /\ pc = "unkey" /\ pc' = "rekey"
  /\ Write(job.key, NoRow, job.row)
  /\ UNCHANGED job /\ Saving

\* What is queued beside the content survives under the new key.
SyncRekey ==
  /\ pc = "rekey"
  /\ LET r == [job.row EXCEPT !.content = job.seen.content, !.base = job.seen.version,
                              !.dirty = FALSE,
                              !.flags = IF job.row.toggled = {} THEN job.seen.flags ELSE @]
     IN /\ cache' = [cache EXCEPT ![job.id] = r]
        /\ history' = [history EXCEPT
             !.overlap = @ \/ cache[job.id] # NoRow,
             !.met = @ \cup {r.content},
             !.asked = @ \cup {<<job.id, f>> : f \in {g \in Flag : <<job.key, g>> \in @}}]
        /\ pc' = AfterContent(r)
        /\ job' = IF pc' = "next" THEN NoJob
                  ELSE [NoJob EXCEPT !.key = job.id, !.row = r, !.unlocks = job.unlocks]
  /\ Saving

-----------------------------------------------------------------------------
(* Flags: compare with the server and toggle where they differ             *)
(* (reconcileFlagsCheckpoint).                                             *)

SyncGetFlags ==
  /\ pc = "getFlags"
  /\ LET s == srv[job.key] IN
     IF Visible(job.key)
       THEN /\ pc' = "toggle"
            /\ job' = [job EXCEPT !.seen = s, !.changed = s.version # job.row.base,
                                  !.left = job.row.toggled]
       ELSE pc' = "drop" /\ UNCHANGED job
  /\ UNCHANGED <<srv, copies, history>> /\ Asking

Differs(f) == (f \in job.row.flags) # (f \in job.seen.flags)

\* Locking waits while content is still to be sent: it would refuse the PUT.
Deferred == Lock \in job.left /\ Differs(Lock) /\ Lock \in job.row.flags /\ job.row.dirty

\* Each flag is compared once, with the newest answer.  The server toggles what it
\* holds by then and answers with the note, or with 404 if it has left the list.
SyncToggle(f) ==
  /\ pc = "toggle" /\ f \in job.left /\ Differs(f)
  /\ \A g \in job.left : Rank[g] < Rank[f] => ~Differs(g)
  /\ f = Lock => ~Deferred
  /\ LET n == job.key
         s == [srv[n] EXCEPT !.flags = Flip(@, f)] IN
     /\ srv' = IF srv[n].where = "gone" THEN srv ELSE [srv EXCEPT ![n] = s]
     /\ IF Visible(n)
          THEN /\ job' = [job EXCEPT !.seen = s, !.left = {g \in @ : Rank[g] > Rank[f]}]
               /\ UNCHANGED pc
          ELSE Throw
  /\ UNCHANGED <<copies, history>> /\ Asking

\* Faulty variant: the checkpoint takes the content for sent.
SyncSaveFlags_Clean ==
  /\ pc = "toggle" /\ \A f \in job.left : Differs(f) => f = Lock /\ Deferred
  /\ LET r == [job.row EXCEPT !.flags = job.seen.flags, !.toggled = {}, !.dirty = FALSE]
     IN Write(job.key, r, job.row) /\ Proceed(AfterFlags(r), r)
  /\ Saving

\* While a conflict is pending the old baseline stays, for the content push to see.
SyncSaveFlags ==
  /\ pc = "toggle" /\ \A f \in job.left : Differs(f) => f = Lock /\ Deferred
  /\ LET r == [job.row EXCEPT
                 !.flags = IF Deferred THEN job.seen.flags \cup {Lock} ELSE job.seen.flags,
                 !.toggled = IF Deferred THEN {Lock} ELSE {},
                 !.base = IF job.row.dirty /\ job.changed THEN @ ELSE job.seen.version]
     IN Write(job.key, r, job.row) /\ Proceed(AfterFlags(r), r)
  /\ Saving

-----------------------------------------------------------------------------
(* Content, under the conflict check (pushContentCheckpoint).              *)

\* Faulty variant: no conflict check.
SyncGetContent_Unchecked ==
  /\ pc = "getContent" /\ Visible(job.key)
  /\ job' = [job EXCEPT !.seen = srv[job.key]] /\ pc' = "put"
  /\ UNCHANGED <<srv, copies, history>> /\ Asking

\* On a conflict the later edit wins by the clocks of two devices, so either may.
SyncGetContent ==
  /\ pc = "getContent"
  /\ IF Visible(job.key)
       THEN /\ job' = [job EXCEPT !.seen = srv[job.key]]
            /\ pc' \in IF srv[job.key].version = job.row.base THEN {"put"}
                       ELSE {"copyServer", "copyLocal"}
       ELSE pc' = "drop" /\ UNCHANGED job
  /\ UNCHANGED <<srv, copies, history>> /\ Asking

SyncCopy ==
  /\ pc \in {"copyServer", "copyLocal"}
  /\ LET c == IF pc = "copyServer" THEN job.seen.content ELSE job.row.content IN
     /\ copies' = copies \cup {c}
     /\ history' = [history EXCEPT !.stored = @ \cup {c}]
  /\ pc' = IF pc = "copyServer" THEN "put" ELSE "acceptServer"
  /\ UNCHANGED <<srv, job>> /\ Asking

\* A locked note answers 423: the edit becomes a conflict copy instead.
SyncPut(v) ==
  /\ pc = "put"
  /\ LET n == job.key
         s == [srv[n] EXCEPT !.content = job.row.content, !.version = v] IN
     \/ /\ Visible(n) /\ ~Locked(n) /\ v \in Stamps(n)
        /\ srv' = [srv EXCEPT ![n] = s]
        /\ job' = [job EXCEPT !.seen = s]
        /\ pc' = "saveContent"
        /\ history' = [history EXCEPT !.stored = @ \cup {s.content},
                                      !.clash = @ \/ v = srv[n].version]
     \/ /\ Visible(n) /\ Locked(n) /\ v = srv[n].version
        /\ pc' = "copyLocal" /\ UNCHANGED <<srv, job, history>>
     \/ /\ ~Visible(n) /\ v = srv[n].version
        /\ Throw /\ UNCHANGED <<srv, history>>
  /\ UNCHANGED copies /\ Asking

SyncSaveContent ==
  /\ pc = "saveContent"
  /\ LET r == [job.row EXCEPT !.content = job.seen.content, !.base = job.seen.version,
                              !.dirty = FALSE]
     IN Write(job.key, r, job.row) /\ Proceed(AfterContent(r), r)
  /\ Saving

SyncAcceptServer ==
  /\ pc = "acceptServer"
  /\ LET r == [job.row EXCEPT !.content = job.seen.content, !.flags = job.seen.flags,
                              !.base = job.seen.version, !.dirty = FALSE]
     IN Write(job.key, r, job.row) /\ Proceed(AfterContent(r), r)
  /\ Saving

-----------------------------------------------------------------------------
(* Removals (syncDeletedNote, syncArchivedNote).                           *)

\* For the properties: the note has been out of the list.
Removes(n) == history' = [history EXCEPT !.moved =
                            IF srv'[n].where = "list" THEN @ ELSE @ \cup {n}]

\* A locked note answers 423, a missing one 404, which counts as done.
SyncArchive ==
  /\ pc = "archive"
  /\ LET n == job.key IN
     /\ pc' = IF srv[n].where # "gone" /\ Locked(n) THEN "abandon" ELSE "drop"
     /\ srv' = IF pc' = "drop" /\ srv[n].where = "list"
                 THEN [srv EXCEPT ![n].where = "archive"] ELSE srv
  /\ Removes(job.key) /\ UNCHANGED <<copies, job>> /\ Asking

\* Faulty variant: any lock is taken off to carry out the deletion.
SyncDelete_Unlock ==
  /\ pc = "delete"
  /\ LET n == job.key
         refused == srv[n].where # "gone" /\ Locked(n) IN
     /\ pc' = IF ~refused THEN "drop" ELSE "unlock"
     /\ srv' = IF ~refused /\ srv[n].where \in {"list", "archive"}
                 THEN [srv EXCEPT ![n].where = "trash"] ELSE srv
  /\ Removes(job.key) /\ UNCHANGED <<copies, job>> /\ Asking

\* A note the user unlocked here before deleting it is unlocked, then deleted.
SyncDelete ==
  /\ pc = "delete"
  /\ LET n == job.key
         refused == srv[n].where # "gone" /\ Locked(n) IN
     /\ pc' = IF ~refused THEN "drop"
              ELSE IF Lock \in job.row.toggled \ job.row.flags THEN "unlock" ELSE "abandon"
     /\ srv' = IF ~refused /\ srv[n].where \in {"list", "archive"}
                 THEN [srv EXCEPT ![n].where = "trash"] ELSE srv
  /\ Removes(job.key) /\ UNCHANGED <<copies, job>> /\ Asking

SyncUnlock ==
  /\ pc = "unlock"
  /\ LET n == job.key IN
     /\ srv' = IF srv[n].where = "gone" THEN srv ELSE [srv EXCEPT ![n].flags = Flip(@, Lock)]
     /\ IF Visible(n) THEN pc' = "deleteAgain" /\ UNCHANGED job ELSE Throw
  /\ UNCHANGED <<copies, history>> /\ Asking

\* This time any refusal is an error.
SyncDeleteAgain ==
  /\ pc = "deleteAgain"
  /\ LET n == job.key IN
     IF srv[n].where = "gone" \/ Locked(n)
       THEN Throw /\ UNCHANGED srv
       ELSE /\ srv' = [srv EXCEPT ![n].where = "trash"]
            /\ pc' = "drop" /\ UNCHANGED job
  /\ Removes(job.key) /\ UNCHANGED copies /\ Asking

\* Faulty variant: the removal stays queued.
SyncAbandon_KeepIntent ==
  /\ pc = "abandon"
  /\ Write(job.key, [job.row EXCEPT !.flags = @ \cup {Lock}], job.row)
  /\ Throw /\ Saving

\* The server's lock stands: the row stays, locked, and the removal is forgotten.
SyncAbandon ==
  /\ pc = "abandon"
  /\ Write(job.key, [job.row EXCEPT !.flags = @ \cup {Lock}, !.deleted = FALSE,
                                    !.archived = FALSE], job.row)
  /\ pc' = "next" /\ job' = NoJob /\ Saving

SyncDrop ==
  /\ pc = "drop"
  /\ Write(job.key, NoRow, job.row)
  /\ pc' = "next" /\ job' = NoJob /\ Saving

-----------------------------------------------------------------------------
\* The network fails before a request arrives or after it was carried out: the
\* note fails and the run goes on.
NetworkError ==
  /\ pc \notin {"idle", "next"} /\ spent.faults < MaxFaults
  /\ spent' = [spent EXCEPT !.faults = @ + 1]
  /\ Throw
  /\ UNCHANGED <<srv, copies, cache, todo, mark, refresh, history>>

\* The tab is closed: whatever it was doing is not finished.
TabClosed ==
  /\ ~Idle \/ mark # NoMark \/ refresh # NoRefresh
  /\ spent.faults < MaxFaults
  /\ spent' = [spent EXCEPT !.faults = @ + 1]
  /\ pc' = "idle" /\ todo' = [k \in Key |-> NoRow]
  /\ job' = NoJob /\ mark' = NoMark /\ refresh' = NoRefresh
  /\ UNCHANGED <<srv, copies, cache, history>>

Sync ==
  \/ Begin \/ End \/ \E k \in Key : NextNote(k)
  \/ SyncCreate \/ SyncUnkey \/ SyncRekey
  \/ SyncGetFlags \/ (\E f \in Flag : SyncToggle(f)) \/ SyncSaveFlags
  \/ SyncGetContent \/ SyncCopy \/ (\E v \in Version : SyncPut(v))
  \/ SyncSaveContent \/ SyncAcceptServer
  \/ SyncArchive \/ SyncDelete \/ SyncUnlock \/ SyncDeleteAgain
  \/ SyncAbandon \/ SyncDrop

User ==
  \/ \E k \in Key, c \in Mine : Edit(k, c)
  \/ \E t \in Temp, c \in Mine : CreateOffline(t, c)
  \/ \E k \in Key, op \in Action : \E note \in Held(k) : MarkRead(k, op, note)
  \/ MarkWrite

Refresh == ListCache \/ EvictDelete \/ \E n \in Note : ListFetch(n) \/ EvictRead(n)

Others ==
  \/ \E n \in Note, c \in Theirs, v \in Version : RemoteEdit(n, c, v)
  \/ \E n \in Note, f \in Flag : RemoteFlag(n, f)
  \/ \E n \in Note, w \in Where : RemoteMove(n, w)

Next == Sync \/ User \/ Refresh \/ Others \/ NetworkError \/ TabClosed

\* The heartbeat of the list page runs the replay again and again while the
\* device is online, and a run is one async function that always settles.
Spec == Init /\ [][Next]_vars /\ WF_vars(Sync)

-----------------------------------------------------------------------------
(* What the replay promises.                                               *)

\* Written on this device and still queued in the store, unless it is the
\* content of a note that the user has deleted.
Pending(c) == \E k \in Key : /\ Present(k) /\ ~cache[k].deleted
                             /\ k \in Temp \/ cache[k].dirty
                             /\ cache[k].content = c

\* The user has written over a text or deleted the note that holds it.
UsersDoing == history'.written # history.written \/ mark' # mark

\* Lost replies, failed requests, a closed tab, locks and edits of other devices
\* never lose a text written here: it stays queued until the server has held it,
\* in the note or in a conflict copy.  Two exceptions: the note has been out of
\* the list (EditsOutliveRemoval does not make this one), and two writers of the
\* store have overlapped.
WorkIsKept ==
  [][\A c \in Mine : Pending(c) /\ ~Pending(c)' =>
       \/ c \in history'.stored \/ UsersDoing
       \/ history'.overlap
       \/ \E n \in history.moved : Present(n) /\ cache[n].content = c]_vars

\* "If concurrent edits, a server lock, or a remote Archive or Trash action
\* prevents applying an offline edit, [...] preserve the offline title, body, and
\* tags in a separate recovered copy" (docs/adr/0001, Decision).
EditsOutliveRemoval ==
  [][\A c \in Mine : Pending(c) /\ ~Pending(c)' =>
       c \in history'.stored \/ UsersDoing \/ history'.overlap]_vars

\* A row that is not queued holds a text the server has held: nothing that only
\* this device knows is ever shown as synced, whatever overlaps.
CleanRowsAreStored ==
  \A k \in Key : Present(k) /\ ~cache[k].dirty => cache[k].content \in history.stored

\* The replay writes over a text from another device only if this device has
\* shown it, or if a conflict copy holds it: unless the text arrived after the
\* replay looked, or in the same second as another write.
Overwrites(n) == pc = "put" /\ srv'[n].content # srv[n].content
Noticed(n)    == \/ srv[n].content \in history.met \cup copies
                 \/ srv[n].content # job.seen.content
                 \/ history.clash

\* "When content edits are pending AND the server genuinely changed, the old
\* baseline is kept so the content push still detects the real conflict"
\* (offlineSync.ts, reconcileFlagsCheckpoint).
ConflictsAreNoticed == [][\A n \in Note : Overwrites(n) => Noticed(n)]_vars

\* The same, as far as it goes: for a device on which no flag has been toggled.
RemoteWorkIsKept ==
  [][\A n \in Note : Overwrites(n) => Noticed(n) \/ history.asked # {}]_vars

\* A flag of a note changes on the server only by another device, or because the
\* user has toggled it on that very note on this one: neither the reconciliation
\* of the flags nor the unlocking before a deletion ("a stale cached locked:false
\* plus some other toggle must never strip a lock another device set",
\* offlineSync.ts, syncDeletedNote) touches any other, whatever was lost,
\* repeated or overtaken in between.
OnlyAskedFlags ==
  [][\A n \in Note : \A f \in Flag :
       (f \in srv'[n].flags) # (f \in srv[n].flags) =>
         spent'.remote # spent.remote \/ <<n, f>> \in history.asked]_vars

\* The replay never takes off a lock the user has not taken off here
\* (offlineDB.ts, flags_toggled).
LockNeverStripped ==
  [][\A n \in Note : job' # job /\ Locked(n) /\ ~Locked(n)' =>
       job.unlocks]_vars

\* A note born offline is created once, and once more only after a fault or an
\* overlap: what follows the create may fail without repeating it.
CreatedOnce ==
  \A t \in Temp : ~history.overlap => history.made[t] <= 1 + spent.faults

\* In the end nothing is queued: no refusal of the server is retried for ever.
QueueDrains == <>[](\A k \in Key : Present(k) => ~Queued(cache[k]))

=============================================================================
