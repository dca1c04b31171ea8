------------------------- MODULE OfflineSyncProofs -------------------------
(***************************************************************************)
(* Theorems about OfflineSync for every set of notes, texts and flags and  *)
(* every bound.  The inductive invariant says what every copy of a row     *)
(* that is held anywhere (in the store, in the replay's snapshot, by the   *)
(* replay, by a queued action) and every answer of the server that is      *)
(* still to be used knows about the server's note, and what the replay     *)
(* has done to its note in each of its phases.                             *)
(***************************************************************************)
EXTENDS OfflineSync, Integers, TLAPS

Job == [key: Key, id: Note, row: Rows, unlocks: BOOLEAN, seen: ServerNote,
        changed: BOOLEAN, left: SUBSET Flag]
Mark == [key: Key, seen: Rows, row: Rows]
Listed == [op: {"none", "cache", "evict"}, key: Note, row: Rows]
Spent == [remote: 0..MaxRemote, faults: 0..MaxFaults, marks: 0..MaxMarks]
History == [written: SUBSET Text, stored: SUBSET Text, met: SUBSET Text,
            asked: SUBSET (Key \X Flag), moved: SUBSET Note,
            made: [Temp -> Nat], overlap: BOOLEAN, clash: BOOLEAN]
Server == [Note -> ServerNote]

\* TypeOK without what it says of the phases.
Typed ==
  /\ srv \in Server /\ copies \subseteq Text
  /\ cache \in [Key -> Rows] /\ todo \in [Key -> Rows]
  /\ pc \in Phase /\ job \in Job /\ mark \in Mark /\ refresh \in Listed
  /\ spent \in Spent /\ history \in History

\* The flags that the user has toggled on the note k.
Asked(h, k) == {f \in Flag : <<k, f>> \in h.asked}

\* With the history h and the server s, a row r for key k: its text has been in
\* the store, and on the server if the row is clean; it queues only the flags the
\* user has toggled on that note; its baseline is not ahead of the server, and where the two
\* agree the server's text is one this device has shown.
RowInv(h, s, k, r) == r # NoRow =>
  /\ r.content \in h.met
  /\ ~r.dirty => r.content \in h.stored
  /\ r.toggled \subseteq Asked(h, k)
  /\ k \in Note =>
       /\ s[k].where # "none"
       /\ r.base <= s[k].version
       /\ r.base = s[k].version /\ h.asked = {} /\ ~h.clash => s[k].content \in h.met

RowsInv ==
  /\ \A k \in Key : RowInv(history, srv, k, cache[k]) /\ RowInv(history, srv, k, todo[k])
  /\ \A k \in Key : todo[k] # NoRow => Queued(todo[k])
  /\ RowInv(history, srv, job.key, job.row)
  /\ RowInv(history, srv, mark.key, mark.row)

\* The same of an answer about note n, with text c and version v, that has not
\* reached the store: the server may still hold its text.
AnswerInv(h, s, n, c, v) ==
  /\ s[n].where # "none"
  /\ c \in h.stored
  /\ v <= s[n].version
  /\ v = s[n].version /\ h.asked = {} /\ ~h.clash => s[n].content \in h.met \cup {c}

SrvInv == \A n \in Note :
  /\ srv[n].content \in history.stored
  /\ srv[n].where = "none" => srv[n] = Unseen
  /\ srv[n].where \notin {"none", "list"} => n \in history.moved

\* The phases in which the replay holds an answer, and the note it is about.
SeenPhase == {"unkey", "rekey", "toggle", "put", "copyServer", "copyLocal",
              "saveContent", "acceptServer"}
Target == IF pc \in {"unkey", "rekey"} THEN job.id ELSE job.key

\* What the phases so far have established about the row being replayed.
JobInv ==
  /\ pc \in {"idle", "next"} => job = NoJob
  /\ pc \notin {"idle", "next"} => job.row # NoRow
  /\ job.key \in Temp => pc \in TempPhase /\ todo[job.key] = NoRow
  /\ pc \in {"create", "unkey", "rekey"} => job.key \in Temp
  /\ pc = "drop" /\ ~job.row.deleted =>
       job.key \in Note /\ (~job.row.dirty \/ job.key \in history.moved)
  /\ pc \in {"getFlags", "toggle"} => job.row.toggled # {}
  /\ pc = "toggle" => job.left \subseteq job.row.toggled
  /\ pc \in {"delete", "unlock", "deleteAgain"} => job.row.deleted
  /\ pc = "unlock" => Lock \in job.row.toggled
  /\ pc = "archive" => ~job.row.dirty
  /\ pc \in {"unkey", "saveContent", "acceptServer"} => job.row.content \in history.stored
  /\ pc = "put" => history.asked # {} \/ history.clash
                   \/ job.seen.content \in history.met \cup copies
  /\ pc \in SeenPhase =>
       AnswerInv(history, srv, Target, job.seen.content, job.seen.version)

\* A queued action makes a row only of a note that the server knows; the refresh
\* holds one it has just had from the server or one it read as clean.
MarkInv == mark.seen = NoRow => mark.key \in Note
RefreshInv ==
  /\ refresh.op = "cache" =>
       /\ refresh.row # NoRow /\ ~refresh.row.dirty /\ refresh.row.toggled = {}
       /\ AnswerInv(history, srv, refresh.key, refresh.row.content, refresh.row.base)
  /\ refresh.op = "evict" => refresh.row # NoRow /\ ~refresh.row.dirty

\* A note born offline that the replay has still to create, or may come to
\* create again.
Open(t) ==
  \/ cache[t] # NoRow /\ ~(job.key = t /\ pc = "unkey")
  \/ todo[t] # NoRow
  \/ job.key = t /\ pc = "create"
MadeInv == ~history.overlap =>
  \A t \in Temp : /\ history.made[t] <= 1 + spent.faults
                  /\ Open(t) => history.made[t] <= spent.faults

IInv == Typed /\ RowsInv /\ SrvInv /\ JobInv /\ MarkInv /\ RefreshInv /\ MadeInv

-----------------------------------------------------------------------------
(* The initial state, and what the rows are left with when the rest of the *)
(* world moves on.                                                         *)

LEMMA TypedIsTypeOK == Typed /\ JobInv => TypeOK
  BY DEF Typed, JobInv, TypeOK, Job, Mark, Listed, Spent, History, Server

LEMMA NoKeyIsNote == NoKey \in Note
  BY Constants DEF NoKey

LEMMA UnseenIsNote == Unseen \in ServerNote
  BY Constants DEF Unseen, ServerNote, Where, Text, Version

LEMMA FreshIsRow ==
  ASSUME NEW c \in Text, NEW f \in SUBSET Flag
  PROVE  /\ Fresh(c, f) \in Row /\ Fresh(c, f) # NoRow
         /\ Fresh(c, f).content = c /\ Fresh(c, f).base = 0
         /\ ~Fresh(c, f).dirty /\ Fresh(c, f).toggled = {}
<1>1. 0 \in Version
  BY Constants DEF Version
<1>2. Fresh(c, f) \in Row
  BY <1>1 DEF Fresh, Row
<1> QED
  BY <1>2, Constants DEF Fresh

LEMMA NoJobIsJob ==
  /\ NoJob \in Job /\ NoJob.row = NoRow /\ NoJob.key \in Note /\ NoJob.key \notin Temp
  BY NoKeyIsNote, UnseenIsNote, Constants DEF NoJob, Job, Key, Rows

LEMMA NoMarkIsMark ==
  /\ NoMark \in Mark /\ NoMark.seen = NoRow /\ NoMark.row = NoRow
  /\ NoMark.key \in Note
  BY NoKeyIsNote DEF NoMark, Mark, Key, Rows

LEMMA NoRefreshIsListed == NoRefresh \in Listed /\ NoRefresh.op = "none"
  BY NoKeyIsNote DEF NoRefresh, Listed, Rows

LEMMA InitIInv == Init => IInv
<1> SUFFICES ASSUME Init PROVE IInv
  OBVIOUS
<1>1. PICK f \in SUBSET Flag :
        /\ srv = [n \in Note |-> IF n \in Cached
                                   THEN [Unseen EXCEPT !.where = "list", !.flags = f] ELSE Unseen]
        /\ cache = [k \in Key |-> IF k \in Cached THEN Fresh(Original, f) ELSE NoRow]
  BY DEF Init
<1>2. Original \in Text
  BY DEF Text
<1>3. Typed
  <2>1. [Unseen EXCEPT !.where = "list", !.flags = f] \in ServerNote
    BY UnseenIsNote DEF ServerNote, Where
  <2>2. srv \in Server
    BY <1>1, <2>1, UnseenIsNote DEF Server
  <2>3. cache \in [Key -> Rows] /\ todo \in [Key -> Rows]
    BY <1>1, <1>2, FreshIsRow DEF Init, Rows
  <2>4. spent \in Spent /\ history \in History
    BY <1>2, Constants DEF Init, Spent, History
  <2> QED
    BY <2>2, <2>3, <2>4, NoJobIsJob, NoMarkIsMark, NoRefreshIsListed DEF Init, Typed, Phase
<1>4. \A n \in Note : /\ srv[n].content = Original /\ srv[n].version = 0
                      /\ srv[n].where \in {"none", "list"}
                      /\ srv[n].where = "none" => srv[n] = Unseen
                      /\ n \in Cached => srv[n].where = "list"
  BY <1>1 DEF Unseen
<1>5. RowsInv
  <2>1. \A k \in Key : RowInv(history, srv, k, cache[k])
    BY <1>1, <1>2, <1>4, FreshIsRow, Constants DEF Init, RowInv
  <2> QED
    BY <2>1, NoJobIsJob, NoMarkIsMark DEF Init, RowsInv, RowInv
<1>6. SrvInv
  BY <1>4 DEF SrvInv, Init
<1>7. JobInv /\ MarkInv /\ RefreshInv
  BY NoJobIsJob, NoMarkIsMark, NoRefreshIsListed DEF Init, JobInv, MarkInv, RefreshInv, SeenPhase
<1>8. MadeInv
  BY Constants DEF Init, MadeInv, Spent
<1> QED
  BY <1>3, <1>5, <1>6, <1>7, <1>8 DEF IInv

\* Nothing of the history is taken back.
Grows(h, g) ==
  /\ h.met \subseteq g.met /\ h.stored \subseteq g.stored
  /\ h.asked \subseteq g.asked /\ h.moved \subseteq g.moved
  /\ h.overlap => g.overlap
  /\ h.clash => g.clash

\* A note of the server does not become unseen, its version does not go back,
\* and a new text comes with a new version unless this device has shown it.
Evolves(g, s, z) == \A n \in Note : s[n].where # "none" =>
  /\ z[n].where # "none"
  /\ s[n].version <= z[n].version
  /\ z[n].version = s[n].version /\ g.asked = {} /\ ~g.clash =>
       z[n].content \in g.met \cup {s[n].content}

LEMMA RowStays ==
  ASSUME NEW h \in History, NEW g \in History, NEW s \in Server, NEW z \in Server,
         Grows(h, g), Evolves(g, s, z),
         NEW k \in Key, NEW r \in Rows, RowInv(h, s, k, r)
  PROVE  RowInv(g, z, k, r)
<1> SUFFICES ASSUME r # NoRow PROVE RowInv(g, z, k, r)
  BY DEF RowInv
<1>1. r \in Row
  BY DEF Rows
<1>2. Asked(h, k) \subseteq Asked(g, k)
  BY DEF Asked, Grows
<1>3. CASE k \in Note
  <2>1. r.base \in Int /\ s[k].version \in Int /\ z[k].version \in Int
    BY <1>1, <1>3, Constants DEF Row, Version, Server, ServerNote
  <2> QED
    BY <1>1, <1>2, <1>3, <2>1 DEF RowInv, Grows, Evolves, History
<1>4. CASE k \notin Note
  BY <1>2, <1>4 DEF RowInv, Grows
<1> QED
  BY <1>3, <1>4

LEMMA AnswerStays ==
  ASSUME NEW h \in History, NEW g \in History, NEW s \in Server, NEW z \in Server,
         Grows(h, g), Evolves(g, s, z),
         NEW n \in Note, NEW c \in Text, NEW v \in Version, AnswerInv(h, s, n, c, v)
  PROVE  AnswerInv(g, z, n, c, v)
<1>1. v \in Int /\ s[n].version \in Int /\ z[n].version \in Int
  BY Constants DEF Version, Server, ServerNote
<1> QED
  BY <1>1 DEF AnswerInv, Grows, Evolves, History

\* What holds of everything that is held when the history and the server move on.
LEMMA HeldStays ==
  ASSUME IInv, history' \in History, srv' \in Server,
         Grows(history, history'), Evolves(history', srv, srv')
  PROVE  /\ \A k \in Key : RowInv(history', srv', k, cache[k]) /\ RowInv(history', srv', k, todo[k])
         /\ RowInv(history', srv', job.key, job.row)
         /\ RowInv(history', srv', mark.key, mark.row)
         /\ pc \in SeenPhase =>
              AnswerInv(history', srv', Target, job.seen.content, job.seen.version)
         /\ refresh.op = "cache" =>
              AnswerInv(history', srv', refresh.key, refresh.row.content, refresh.row.base)
<1> USE DEF IInv
<1>1. history \in History /\ srv \in Server
  BY DEF Typed
<1>2. \A k \in Key : cache[k] \in Rows /\ todo[k] \in Rows
  BY DEF Typed
<1>3. job.key \in Key /\ job.row \in Rows /\ mark.key \in Key /\ mark.row \in Rows
  BY DEF Typed, Job, Mark
<1>4. ASSUME NEW k \in Key
      PROVE  RowInv(history', srv', k, cache[k]) /\ RowInv(history', srv', k, todo[k])
  BY <1>1, <1>2, RowStays DEF RowsInv
<1>5. RowInv(history', srv', job.key, job.row) /\ RowInv(history', srv', mark.key, mark.row)
  BY <1>1, <1>3, RowStays DEF RowsInv
<1>6. ASSUME pc \in SeenPhase
      PROVE  AnswerInv(history', srv', Target, job.seen.content, job.seen.version)
  <2>1. Target \in Note
    BY <1>6 DEF JobInv, Typed, Job, Key, Target, SeenPhase, TempPhase
  <2>2. job.seen.content \in Text /\ job.seen.version \in Version
    BY DEF Typed, Job, ServerNote
  <2> QED
    BY <1>1, <1>6, <2>1, <2>2, AnswerStays DEF JobInv
<1>7. ASSUME refresh.op = "cache"
      PROVE  AnswerInv(history', srv', refresh.key, refresh.row.content, refresh.row.base)
  <2>1. refresh.key \in Note /\ refresh.row \in Row
    BY <1>7 DEF Typed, Listed, RefreshInv, Rows
  <2>2. refresh.row.content \in Text /\ refresh.row.base \in Version
    BY <2>1 DEF Row
  <2> QED
    BY <1>1, <1>7, <2>1, <2>2, AnswerStays DEF RefreshInv
<1> QED
  BY <1>4, <1>5, <1>6, <1>7

\* Steps that leave the replay, a queued action or the refresh where it is.
LEMMA JobStays ==
  ASSUME IInv, history' \in History, srv' \in Server,
         Grows(history, history'), Evolves(history', srv, srv'),
         UNCHANGED <<pc, job, todo>>, copies \subseteq copies'
  PROVE  JobInv'
<1>1. pc \in SeenPhase =>
        AnswerInv(history', srv', Target, job.seen.content, job.seen.version)
  BY HeldStays
<1> QED
  BY <1>1 DEF IInv, JobInv, Grows, Target, Key, Typed, Job

LEMMA RefreshStays ==
  ASSUME IInv, history' \in History, srv' \in Server,
         Grows(history, history'), Evolves(history', srv, srv'), UNCHANGED refresh
  PROVE  RefreshInv'
  BY HeldStays DEF IInv, RefreshInv

LEMMA RowsStay ==
  ASSUME IInv, history' \in History, srv' \in Server,
         Grows(history, history'), Evolves(history', srv, srv'),
         UNCHANGED <<cache, todo, job, mark>>
  PROVE  RowsInv'
  BY HeldStays DEF IInv, RowsInv

LEMMA MadeStays ==
  ASSUME IInv, UNCHANGED <<pc, job, todo>>, history'.made = history.made,
         history.overlap => history'.overlap,
         spent' \in Spent, spent.faults <= spent'.faults,
         ~history'.overlap => \A t \in Temp : cache'[t] # NoRow => cache[t] # NoRow
  PROVE  MadeInv'
  BY DEF IInv, MadeInv, Open, Typed, Spent, History

LEMMA NothingMoves == IInv => Grows(history, history) /\ Evolves(history, srv, srv)
  BY Constants DEF IInv, Typed, Grows, Evolves, Server, ServerNote, Version

LEMMA FaultsAreCounted == IInv => spent \in Spent /\ spent.faults \in Nat /\ spent.faults <= spent.faults
  BY Constants DEF IInv, Typed, Spent

\* A write of row r under key k by someone who believes that b is there.
LEMMA WhatAWriteDoes ==
  ASSUME IInv, UNCHANGED srv, NEW k \in Key, NEW r \in Rows, NEW b, Write(k, r, b)
  PROVE  /\ cache' \in [Key -> Rows]
         /\ \A q \in Key : cache'[q] = IF q = k THEN r ELSE cache[q]
         /\ history' \in History /\ srv' \in Server
         /\ Grows(history, history') /\ Evolves(history', srv, srv')
         /\ history'.made = history.made /\ history'.asked = history.asked
         /\ history'.stored = history.stored /\ history'.moved = history.moved
         /\ history'.clash = history.clash
         /\ r # NoRow => r.content \in history'.met
         /\ ~history'.overlap => cache[k] = b
<1>1. cache' = [cache EXCEPT ![k] = r]
  BY DEF Write
<1>2. r # NoRow => r.content \in Text
  BY DEF Rows, Row
<1>3. history' = [history EXCEPT !.overlap = @ \/ cache[k] # b,
                                 !.met = IF r = NoRow THEN @ ELSE @ \cup {r.content}]
  BY DEF Write
<1>4. /\ history' \in History /\ Grows(history, history')
      /\ history'.made = history.made /\ history'.asked = history.asked
      /\ history'.stored = history.stored /\ history'.moved = history.moved
      /\ history'.clash = history.clash
      /\ r # NoRow => r.content \in history'.met
      /\ ~history'.overlap => cache[k] = b
  <2>1. CASE r = NoRow
    BY <1>3, <2>1 DEF IInv, Typed, History, Grows
  <2>2. CASE r # NoRow
    BY <1>2, <1>3, <2>2 DEF IInv, Typed, History, Grows
  <2> QED
    BY <2>1, <2>2
<1>5. Evolves(history', srv, srv') /\ srv' \in Server
  BY <1>4, NothingMoves DEF IInv, Typed, Evolves
<1> QED
  BY <1>1, <1>4, <1>5 DEF IInv, Typed

-----------------------------------------------------------------------------
(* The user's writes keep the invariant.                                   *)

LEMMA KeepEdit ==
  ASSUME IInv, NEW k \in Key, NEW c \in Mine, Edit(k, c) PROVE IInv'
<1> DEFINE r == cache'[k]
<1>1. cache[k] \in Row /\ c \in Text /\ cache \in [Key -> Rows]
  BY DEF Edit, IInv, Typed, Rows, Present, Text
<1>2. /\ r \in Row /\ r.content = c /\ r.dirty /\ r.toggled = cache[k].toggled
      /\ r.base = cache[k].base
  BY <1>1 DEF Edit, Row
<1>3. cache' \in [Key -> Rows] /\ \A q \in Key \ {k} : cache'[q] = cache[q]
  BY <1>1, <1>2 DEF Edit, Rows
<1>4. /\ UNCHANGED <<srv, copies, pc, todo, job, mark, refresh, spent>>
      /\ history' \in History /\ Grows(history, history') /\ c \in history'.met
      /\ history'.made = history.made /\ history'.overlap = history.overlap
      /\ history'.asked = history.asked /\ history'.clash = history.clash
  BY <1>1 DEF Edit, IInv, Typed, History, Grows
<1>5. Evolves(history', srv, srv') /\ srv' \in Server
  BY <1>4, NothingMoves DEF IInv, Typed, Evolves
<1>6. Typed'
  BY <1>3, <1>4, <1>5 DEF IInv, Typed
<1>7. RowsInv'
  <2>1. RowInv(history', srv', k, cache[k])
    BY <1>4, <1>5, HeldStays
  <2>2. RowInv(history', srv', k, cache'[k])
    BY <1>1, <1>2, <1>4, <2>1, Constants DEF RowInv
  <2> QED
    BY <1>3, <1>4, <1>5, <2>2, HeldStays DEF IInv, RowsInv
<1>8. SrvInv'
  BY <1>4 DEF IInv, SrvInv, Grows
<1>9. JobInv' /\ RefreshInv' /\ MarkInv'
  BY <1>4, <1>5, JobStays, RefreshStays DEF IInv, MarkInv
<1>10. MadeInv'
  <2>1. cache[k] # NoRow
    BY <1>1, Constants
  <2>2. \A t \in Temp : cache'[t] # NoRow => cache[t] # NoRow
    BY <1>3, <2>1 DEF Key
  <2>3. spent' \in Spent /\ spent.faults <= spent'.faults
    BY <1>4, FaultsAreCounted
  <2> QED
    BY <1>4, <2>2, <2>3, MadeStays
<1> QED
  BY <1>6, <1>7, <1>8, <1>9, <1>10 DEF IInv

LEMMA KeepCreateOffline ==
  ASSUME IInv, NEW t \in Temp, NEW c \in Mine, CreateOffline(t, c) PROVE IInv'
<1> DEFINE r == [Fresh(c, {}) EXCEPT !.dirty = TRUE]
<1>1. c \in Text /\ t \in Key /\ t \notin Note
  BY Constants DEF Text, Key
<1>2. r \in Row /\ r.content = c /\ r.dirty /\ r.toggled = {}
  <2>1. {} \in SUBSET Flag
    OBVIOUS
  <2>2. Fresh(c, {}) \in Row /\ Fresh(c, {}).content = c /\ Fresh(c, {}).toggled = {}
    BY <1>1, <2>1, FreshIsRow
  <2> QED
    BY <2>2 DEF Row
<1>3. cache' = [cache EXCEPT ![t] = r]
  BY DEF CreateOffline
<1> HIDE DEF r
<1>4. /\ UNCHANGED <<srv, copies, pc, todo, job, mark, refresh, spent>>
      /\ history' \in History /\ Grows(history, history') /\ c \in history'.met
      /\ history'.made = history.made /\ history'.overlap = history.overlap
      /\ history'.asked = history.asked /\ history'.clash = history.clash
  BY <1>1 DEF CreateOffline, IInv, Typed, History, Grows
<1>5. Evolves(history', srv, srv') /\ srv' \in Server
  BY <1>4, NothingMoves DEF IInv, Typed, Evolves
<1>6. Typed'
  BY <1>1, <1>2, <1>3, <1>4, <1>5 DEF IInv, Typed, Rows
<1>7. RowsInv'
  <2>1. RowInv(history', srv', t, r)
    BY <1>1, <1>2, <1>4 DEF RowInv
  <2> QED
    BY <1>1, <1>3, <1>4, <1>5, <2>1, HeldStays DEF IInv, RowsInv, Typed
<1>8. SrvInv'
  BY <1>4 DEF IInv, SrvInv, Grows
<1>9. JobInv' /\ RefreshInv' /\ MarkInv'
  BY <1>4, <1>5, JobStays, RefreshStays DEF IInv, MarkInv
<1>10. MadeInv'
  <2>1. history.made[t] = 0 /\ spent.faults \in Nat
    BY Constants DEF CreateOffline, IInv, Typed, Spent
  <2> QED
    BY <1>1, <1>3, <1>4, <2>1 DEF IInv, Typed, MadeInv, Open
<1> QED
  BY <1>6, <1>7, <1>8, <1>9, <1>10 DEF IInv

\* The row of a note of the server.
LEMMA ListedRow ==
  ASSUME NEW s \in ServerNote
  PROVE  /\ RowOf(s) \in Row /\ RowOf(s) # NoRow /\ RowOf(s).content = s.content
         /\ RowOf(s).base = s.version /\ ~RowOf(s).dirty /\ RowOf(s).toggled = {}
<1>1. s.content \in Text /\ s.flags \in SUBSET Flag /\ s.version \in Version
  BY DEF ServerNote
<1>2. Fresh(s.content, s.flags) \in Row
      /\ Fresh(s.content, s.flags).content = s.content
      /\ ~Fresh(s.content, s.flags).dirty
      /\ Fresh(s.content, s.flags).toggled = {}
  BY <1>1, FreshIsRow
<1>3. /\ RowOf(s) \in Row /\ RowOf(s).content = s.content /\ RowOf(s).base = s.version
      /\ ~RowOf(s).dirty /\ RowOf(s).toggled = {}
  BY <1>1, <1>2 DEF RowOf, Row
<1> QED
  BY <1>3, Constants

\* A note in memory is the cached row, or one the server lists.
LEMMA HeldNote ==
  ASSUME IInv, NEW k \in Key, NEW note \in Held(k)
  PROVE  /\ note \in Row
         /\ cache[k] # NoRow \/ (k \in Note /\ srv[k].where = "list"
                                 /\ note.content = srv[k].content /\ note.base = srv[k].version
                                 /\ ~note.dirty /\ note.toggled = {})
<1> DEFINE wanted == Present(k) /\ cache[k].toggled # {}
           r == RowOf(srv[k])
           n == [r EXCEPT !.flags = IF wanted THEN cache[k].flags ELSE @]
<1>1. cache[k] # NoRow => cache[k] \in Row
  BY DEF IInv, Typed, Rows
<1>2. \/ cache[k] # NoRow /\ note = cache[k]
      \/ k \in Note /\ srv[k].where = "list" /\ note = n
  BY DEF Held, Present, Visible
<1>3. ASSUME k \in Note
      PROVE  n \in Row /\ n.content = r.content /\ n.base = r.base /\ n.dirty = r.dirty
             /\ n.toggled = r.toggled
  <2>1. r \in Row
    BY <1>3, ListedRow DEF IInv, Typed, Server
  <2>2. (IF wanted THEN cache[k].flags ELSE r.flags) \in SUBSET Flag
    BY <1>1, <2>1 DEF Row, Present
  <2> QED
    BY <2>1, <2>2 DEF Row
<1>4. k \in Note => /\ r.content = srv[k].content /\ r.base = srv[k].version /\ ~r.dirty
                    /\ r.toggled = {}
  BY ListedRow DEF IInv, Typed, Server
<1> HIDE DEF n, r
<1> QED
  BY <1>1, <1>2, <1>3, <1>4

\* What an action makes of a row.
LEMMA MarkedRow ==
  ASSUME NEW k \in Key, NEW r \in Row, NEW note \in Row, NEW op \in Action
  PROVE  \/ k \in Temp /\ op = "delete" /\ Marked(k, r, note, op) = NoRow
         \/ /\ Marked(k, r, note, op) \in Row
            /\ Marked(k, r, note, op).content = r.content
            /\ Marked(k, r, note, op).dirty = r.dirty
            /\ Marked(k, r, note, op).base = r.base
            /\ Marked(k, r, note, op).toggled \subseteq r.toggled \cup ({op} \cap Flag)
<1>1. CASE op = "delete"
  <2>1. Marked(k, r, note, op) = IF k \in Temp THEN NoRow ELSE [r EXCEPT !.deleted = TRUE]
    BY <1>1, Constants DEF Marked
  <2> QED
    BY <1>1, <2>1 DEF Row
<1>2. CASE op = "archive" /\ op # "delete"
  <2>1. Marked(k, r, note, op) = [r EXCEPT !.archived = TRUE]
    BY <1>2, Constants DEF Marked
  <2> QED
    BY <2>1 DEF Row
<1>3. CASE op \in Flag /\ op # "delete" /\ op # "archive"
  <2>1. Marked(k, r, note, op) = [r EXCEPT !.flags = Flip(note.flags, op),
                                           !.toggled = r.toggled \cup {op}]
    BY <1>3 DEF Marked, Row
  <2>2. Flip(note.flags, op) \in SUBSET Flag /\ r.toggled \cup {op} \in SUBSET Flag
    BY <1>3 DEF Row, Flip
  <2> QED
    BY <1>3, <2>1, <2>2 DEF Row
<1> QED
  BY <1>1, <1>2, <1>3 DEF Action

\* What a queued action has read, and the row it is going to write.
LEMMA MarkReadDoes ==
  ASSUME IInv, NEW k \in Key, NEW op \in Action, NEW note \in Held(k), MarkRead(k, op, note)
  PROVE  /\ mark' \in Mark /\ mark'.key = k /\ mark'.seen = cache[k]
         /\ cache[k] = NoRow => k \in Note /\ mark'.row # NoRow
         /\ history' \in History /\ Grows(history, history')
         /\ history'.made = history.made /\ history'.overlap = history.overlap
         /\ RowInv(history', srv, k, mark'.row)
<1> DEFINE r == IF Present(k) THEN cache[k] ELSE note
           m == Marked(k, r, note, op)
           own == {k} \X ({op} \cap Flag)
<1>1. /\ mark' = [key |-> k, seen |-> cache[k], row |-> m]
      /\ history' = [history EXCEPT !.met = @ \cup {r.content}, !.asked = @ \cup own]
  BY DEF MarkRead
<1>2. /\ note \in Row /\ r \in Row /\ cache[k] \in Rows
      /\ cache[k] # NoRow => r = cache[k]
      /\ cache[k] = NoRow =>
           /\ k \in Note /\ k \notin Temp /\ r = note /\ srv[k].where = "list"
           /\ r.content = srv[k].content /\ r.base = srv[k].version /\ ~r.dirty /\ r.toggled = {}
  BY HeldNote, Constants DEF Present, IInv, Typed, Rows
<1> HIDE DEF r
<1>3. \/ k \in Temp /\ m = NoRow
      \/ /\ m \in Row /\ m # NoRow /\ m.content = r.content /\ m.dirty = r.dirty
         /\ m.base = r.base /\ m.toggled \subseteq r.toggled \cup ({op} \cap Flag)
  <2>1. \/ k \in Temp /\ m = NoRow
        \/ /\ m \in Row /\ m.content = r.content /\ m.dirty = r.dirty
           /\ m.base = r.base /\ m.toggled \subseteq r.toggled \cup ({op} \cap Flag)
    <3>1. note \in Row /\ r \in Row
      BY <1>2
    <3>2. ASSUME NEW x \in Row
          PROVE  \/ k \in Temp /\ Marked(k, x, note, op) = NoRow
                 \/ /\ Marked(k, x, note, op) \in Row
                    /\ Marked(k, x, note, op).content = x.content
                    /\ Marked(k, x, note, op).dirty = x.dirty
                    /\ Marked(k, x, note, op).base = x.base
                    /\ Marked(k, x, note, op).toggled \subseteq x.toggled \cup ({op} \cap Flag)
      BY <3>1, MarkedRow
    <3> QED
      BY <3>1, <3>2
  <2> QED
    BY <2>1, Constants
<1> HIDE DEF m
<1>4. r.content \in Text /\ own \subseteq Key \X Flag
      /\ \A f \in {op} \cap Flag : <<k, f>> \in own
  <2>1. own \subseteq Key \X Flag
    OBVIOUS
  <2>2. \A f \in {op} \cap Flag : <<k, f>> \in own
    OBVIOUS
  <2> QED
    BY <1>2, <2>1, <2>2 DEF Row
<1> HIDE DEF own
<1>5. mark' \in Mark /\ mark'.key = k /\ mark'.seen = cache[k] /\ mark'.row = m
  BY <1>1, <1>2, <1>3 DEF Mark, Rows
<1>6. /\ history' \in History /\ Grows(history, history')
      /\ history'.made = history.made /\ history'.overlap = history.overlap
      /\ history'.stored = history.stored
      /\ r.content \in history'.met /\ own \subseteq history'.asked
  BY <1>1, <1>4 DEF IInv, Typed, History, Grows
<1>7. srv \in Server /\ Evolves(history', srv, srv)
  BY <1>6, NothingMoves DEF IInv, Typed, Evolves, Grows
<1>8. RowInv(history', srv, k, r)
  <2>1. CASE cache[k] # NoRow
    <3>1. RowInv(history, srv, k, r)
      BY <1>2, <2>1 DEF IInv, RowsInv
    <3>2. history \in History /\ r \in Rows
      BY <1>2 DEF IInv, Typed, Rows
    <3> QED
      BY <1>6, <1>7, <3>1, <3>2, RowStays
  <2>2. CASE cache[k] = NoRow
    <3>1. srv[k].content \in history.stored /\ srv[k].version \in Int
      BY <1>2, <1>7, <2>2, Constants DEF IInv, SrvInv, Server, ServerNote, Version
    <3> QED
      BY <1>2, <1>6, <2>2, <3>1 DEF RowInv
  <2> QED
    BY <2>1, <2>2
<1>9. RowInv(history', srv, k, m)
  <2>1. CASE m = NoRow
    BY <2>1 DEF RowInv
  <2>2. CASE m # NoRow
    <3>1. r # NoRow
      BY <1>2, Constants
    <3>2. {op} \cap Flag \subseteq Asked(history', k)
      BY <1>4, <1>6 DEF Asked
    <3> QED
      BY <1>3, <1>8, <2>2, <3>1, <3>2 DEF RowInv
  <2> QED
    BY <2>1, <2>2
<1> QED
  BY <1>2, <1>3, <1>5, <1>6, <1>9

LEMMA KeepMarkRead ==
  ASSUME IInv, NEW k \in Key, NEW op \in Action, NEW note \in Held(k), MarkRead(k, op, note)
  PROVE  IInv'
<1>1. /\ UNCHANGED <<srv, copies, cache, pc, todo, job, refresh>>
      /\ spent' = [spent EXCEPT !.marks = @ + 1] /\ spent.marks < MaxMarks
  BY DEF MarkRead
<1>2. /\ mark' \in Mark /\ mark'.key = k /\ mark'.seen = cache[k]
      /\ cache[k] = NoRow => k \in Note
      /\ history' \in History /\ Grows(history, history')
      /\ history'.made = history.made /\ history'.overlap = history.overlap
      /\ RowInv(history', srv, k, mark'.row)
  BY MarkReadDoes
<1>3. spent' \in Spent /\ spent'.faults = spent.faults /\ spent.faults \in Nat
  BY <1>1, Constants DEF IInv, Typed, Spent
<1>4. Evolves(history', srv, srv') /\ srv' \in Server
  BY <1>1, <1>2, NothingMoves DEF IInv, Typed, Evolves, Grows
<1>5. Typed'
  BY <1>1, <1>2, <1>3, <1>4 DEF IInv, Typed
<1>6. RowsInv'
  BY <1>1, <1>2, <1>4, HeldStays DEF IInv, RowsInv
<1>7. SrvInv' /\ MarkInv'
  BY <1>1, <1>2 DEF IInv, SrvInv, MarkInv, Grows
<1>8. JobInv' /\ RefreshInv'
  BY <1>1, <1>2, <1>4, JobStays, RefreshStays
<1>9. MadeInv'
  BY <1>1, <1>2, <1>3 DEF IInv, MadeInv, Open
<1> QED
  BY <1>5, <1>6, <1>7, <1>8, <1>9 DEF IInv

LEMMA KeepMarkWrite == IInv /\ MarkWrite => IInv'
<1> SUFFICES ASSUME IInv, MarkWrite PROVE IInv'
  OBVIOUS
<1> DEFINE k == mark.key
           r == mark.row
<1>1. k \in Key /\ r \in Rows /\ mark.seen \in Rows
  BY DEF IInv, Typed, Mark
<1>2. Write(k, r, mark.seen) /\ mark' = NoMark
      /\ UNCHANGED <<srv, copies, pc, todo, job, refresh, spent>>
  BY DEF MarkWrite
<1> HIDE DEF k, r
<1>3. /\ cache' \in [Key -> Rows]
      /\ \A q \in Key : cache'[q] = IF q = k THEN r ELSE cache[q]
      /\ history' \in History /\ srv' \in Server
      /\ Grows(history, history') /\ Evolves(history', srv, srv')
      /\ history'.made = history.made
      /\ ~history'.overlap => cache[k] = mark.seen
  BY <1>1, <1>2, WhatAWriteDoes
<1>4. Typed'
  BY <1>2, <1>3, NoMarkIsMark DEF IInv, Typed
<1>5. RowsInv'
  <2>1. RowInv(history', srv', k, r)
    BY <1>3, HeldStays DEF k, r
  <2>2. RowInv(history', srv', mark'.key, mark'.row)
    BY <1>2, NoMarkIsMark DEF RowInv
  <2> QED
    BY <1>2, <1>3, <2>1, <2>2, HeldStays DEF IInv, RowsInv
<1>6. SrvInv' /\ MarkInv'
  BY <1>2, <1>3, NoMarkIsMark DEF IInv, SrvInv, Grows, MarkInv
<1>7. JobInv' /\ RefreshInv'
  BY <1>2, <1>3, JobStays, RefreshStays
<1>8. MadeInv'
  <2>1. ~history'.overlap => \A t \in Temp : cache'[t] # NoRow => cache[t] # NoRow
    BY <1>3, Constants DEF IInv, MarkInv, Key, k
  <2>2. (history.overlap => history'.overlap) /\ spent' = spent
    BY <1>2, <1>3 DEF Grows
  <2> QED
    BY <1>2, <1>3, <2>1, <2>2, MadeStays, FaultsAreCounted
<1> QED
  BY <1>4, <1>5, <1>6, <1>7, <1>8 DEF IInv


-----------------------------------------------------------------------------
(* The refresh.                                                            *)

LEMMA KeepListFetch == ASSUME IInv, NEW n \in Note, ListFetch(n) PROVE IInv'
<1> DEFINE r == RowOf(srv[n])
<1>1. srv[n] \in ServerNote
  BY DEF IInv, Typed, Server
<1>2. r \in Row /\ r # NoRow /\ r.content = srv[n].content /\ r.base = srv[n].version
      /\ ~r.dirty /\ r.toggled = {}
  BY <1>1, ListedRow
<1>3. /\ UNCHANGED <<srv, copies, cache, pc, todo, job, mark, spent, history>>
      /\ refresh' = [op |-> "cache", key |-> n, row |-> r] /\ srv[n].where = "list"
  BY DEF ListFetch, Visible
<1> HIDE DEF r
<1>4. refresh' \in Listed /\ refresh'.op = "cache" /\ refresh'.key = n /\ refresh'.row = r
  BY <1>2, <1>3 DEF Listed, Rows
<1>5. Typed'
  BY <1>3, <1>4 DEF IInv, Typed
<1>6. RowsInv' /\ SrvInv' /\ MarkInv' /\ MadeInv'
  BY <1>3 DEF IInv, RowsInv, SrvInv, MarkInv, MadeInv, Open
<1>7. JobInv'
  BY <1>3, <1>5, NothingMoves, JobStays DEF Typed
<1>8. RefreshInv'
  <2>1. AnswerInv(history, srv, n, srv[n].content, srv[n].version)
    BY <1>1, <1>3, Constants DEF AnswerInv, IInv, SrvInv, ServerNote, Version
  <2> QED
    BY <1>2, <1>3, <1>4, <2>1 DEF RefreshInv
<1> QED
  BY <1>5, <1>6, <1>7, <1>8 DEF IInv

LEMMA KeepEvictRead == ASSUME IInv, NEW n \in Note, EvictRead(n) PROVE IInv'
<1>1. /\ UNCHANGED <<srv, copies, cache, pc, todo, job, mark, spent, history>>
      /\ refresh' = [op |-> "evict", key |-> n, row |-> cache[n]]
      /\ cache[n] # NoRow /\ ~cache[n].dirty
  BY DEF EvictRead, Present, Queued
<1>2. refresh' \in Listed /\ refresh'.op = "evict" /\ refresh'.row = cache[n]
  BY <1>1 DEF IInv, Typed, Listed, Key
<1>3. Typed' /\ RefreshInv'
  BY <1>1, <1>2 DEF IInv, Typed, RefreshInv
<1>4. RowsInv' /\ SrvInv' /\ MarkInv' /\ MadeInv'
  BY <1>1 DEF IInv, RowsInv, SrvInv, MarkInv, MadeInv, Open
<1>5. JobInv'
  BY <1>1, <1>3, NothingMoves, JobStays DEF Typed
<1> QED
  BY <1>3, <1>4, <1>5 DEF IInv

LEMMA KeepListCache == IInv /\ ListCache => IInv'
<1> SUFFICES ASSUME IInv, ListCache PROVE IInv'
  OBVIOUS
<1> DEFINE n == refresh.key
           r == refresh.row
<1>1. /\ UNCHANGED <<srv, copies, pc, todo, job, mark, spent>>
      /\ refresh.op = "cache" /\ refresh' = NoRefresh
      /\ \/ UNCHANGED <<cache, history>>
         \/ /\ cache' = [cache EXCEPT ![n] = r]
            /\ history' = [history EXCEPT !.met = @ \cup {r.content}]
  BY DEF ListCache
<1>2. n \in Note /\ n \in Key /\ r \in Row /\ r # NoRow /\ r.content \in Text /\ r.base \in Version
  <2>1. n \in Note /\ r \in Rows /\ r # NoRow
    BY <1>1 DEF IInv, Typed, Listed, RefreshInv
  <2>2. r \in Row
    BY <2>1 DEF Rows
  <2> QED
    BY <2>1, <2>2 DEF Row, Key
<1> HIDE DEF n, r
<1>3. /\ history' \in History /\ Grows(history, history')
      /\ history'.made = history.made /\ history'.clash = history.clash
      /\ history'.asked = history.asked /\ history'.overlap = history.overlap
      /\ cache' # cache => r.content \in history'.met
  BY <1>1, <1>2 DEF IInv, Typed, History, Grows
<1>4. Evolves(history', srv, srv') /\ srv' \in Server
  BY <1>1, <1>3, NothingMoves DEF IInv, Typed, Evolves, Grows
<1>5. Typed'
  BY <1>1, <1>2, <1>3, NoRefreshIsListed DEF IInv, Typed, Rows
<1>6. RowsInv'
  <2>1. \A k \in Key : RowInv(history', srv', k, cache[k])
    BY <1>3, <1>4, HeldStays
  <2>2. CASE cache' = cache
    BY <1>1, <1>3, <1>4, <2>2, RowsStay
  <2>3. CASE cache' # cache
    <3>1. AnswerInv(history', srv', n, r.content, r.base) /\ ~r.dirty /\ r.toggled = {}
      BY <1>1, <1>3, <1>4, HeldStays DEF IInv, RefreshInv, n, r
    <3>2. RowInv(history', srv', n, r)
      BY <1>3, <2>3, <3>1 DEF RowInv, AnswerInv
    <3>3. \A k \in Key : cache'[k] = IF k = n THEN r ELSE cache[k]
      BY <1>1, <1>2, <2>3 DEF IInv, Typed
    <3> QED
      BY <1>1, <1>3, <1>4, <3>2, <3>3, HeldStays DEF IInv, RowsInv
  <2> QED
    BY <2>2, <2>3
<1>7. SrvInv' /\ MarkInv' /\ RefreshInv'
  BY <1>1, <1>3, NoRefreshIsListed DEF IInv, SrvInv, Grows, MarkInv, RefreshInv
<1>8. JobInv'
  BY <1>1, <1>3, <1>4, JobStays
<1>9. MadeInv'
  <2>1. \A t \in Temp : cache'[t] # NoRow => cache[t] # NoRow
    BY <1>1, <1>2, Constants DEF IInv, Typed, Key
  <2> QED
    BY <1>1, <1>3, <2>1, MadeStays, FaultsAreCounted
<1> QED
  BY <1>5, <1>6, <1>7, <1>8, <1>9 DEF IInv

LEMMA KeepEvictDelete == IInv /\ EvictDelete => IInv'
<1> SUFFICES ASSUME IInv, EvictDelete PROVE IInv'
  OBVIOUS
<1>1. /\ UNCHANGED <<srv, copies, pc, todo, job, mark, spent>> /\ refresh' = NoRefresh
      /\ refresh.key \in Key
      /\ cache' = [cache EXCEPT ![refresh.key] = NoRow]
      /\ history' = [history EXCEPT !.overlap = @ \/ cache[refresh.key] # refresh.row,
                                    !.met = @]
  BY DEF EvictDelete, Write, IInv, Typed, Listed, Key
<1>2. /\ history' \in History /\ Grows(history, history')
      /\ history'.made = history.made /\ history'.clash = history.clash
      /\ history'.asked = history.asked
  BY <1>1 DEF IInv, Typed, History, Grows
<1>3. Evolves(history', srv, srv') /\ srv' \in Server
  BY <1>1, <1>2, NothingMoves DEF IInv, Typed, Evolves, Grows
<1>4. Typed'
  BY <1>1, <1>2, NoRefreshIsListed DEF IInv, Typed, Rows
<1>5. \A k \in Key : cache'[k] \in {cache[k], NoRow}
  BY <1>1 DEF IInv, Typed
<1>6. RowsInv'
  <2>1. \A k \in Key : RowInv(history', srv', k, cache'[k])
    BY <1>2, <1>3, <1>5, HeldStays DEF RowInv
  <2> QED
    BY <1>1, <1>2, <1>3, <2>1, HeldStays DEF IInv, RowsInv
<1>7. SrvInv' /\ MarkInv' /\ RefreshInv'
  BY <1>1, <1>2, NoRefreshIsListed DEF IInv, SrvInv, Grows, MarkInv, RefreshInv
<1>8. JobInv'
  BY <1>1, <1>2, <1>3, JobStays
<1>9. MadeInv'
  BY <1>1, <1>2, <1>5, MadeStays, FaultsAreCounted DEF Key, Grows
<1> QED
  BY <1>4, <1>6, <1>7, <1>8, <1>9 DEF IInv

-----------------------------------------------------------------------------
(* Other devices, and what gets lost.                                      *)

\* A step that changes nothing but the server and the history keeps the
\* invariant when the server's notes stay in order.
LEMMA KeepServerStep ==
  ASSUME IInv, history' \in History, srv' \in Server, spent' \in Spent,
         spent.faults <= spent'.faults,
         Grows(history, history'), Evolves(history', srv, srv'),
         history'.made = history.made,
         UNCHANGED <<copies, cache, pc, todo, job, mark, refresh>>, SrvInv'
  PROVE  IInv'
<1>1. Typed' /\ MarkInv'
  BY DEF IInv, Typed, MarkInv
<1>2. RowsInv' /\ RefreshInv' /\ JobInv'
  BY RowsStay, RefreshStays, JobStays
<1>3. MadeInv'
  <2>1. history.overlap => history'.overlap
    BY DEF Grows
  <2> QED
    BY <2>1, MadeStays
<1> QED
  BY <1>1, <1>2, <1>3 DEF IInv

LEMMA RemoteIsCounted ==
  ASSUME IInv, NEW n \in Note, Elsewhere(n)
  PROVE  spent' \in Spent /\ spent.faults <= spent'.faults
         /\ UNCHANGED <<copies, cache, pc, todo, job, mark, refresh>>
  BY Constants DEF IInv, Typed, Spent, Elsewhere

LEMMA KeepRemoteEdit ==
  ASSUME IInv, NEW n \in Note, NEW c \in Theirs, NEW v \in Version, RemoteEdit(n, c, v)
  PROVE  IInv'
<1> DEFINE s == [srv[n] EXCEPT !.content = c, !.version = v]
<1>1. c \in Text /\ srv[n] \in ServerNote /\ srv[n].where = "list"
  BY DEF Text, IInv, Typed, Server, RemoteEdit, Visible
<1>2. s \in ServerNote /\ s.where = srv[n].where /\ s.content = c /\ s.version = v
  BY <1>1 DEF ServerNote
<1>3. srv' = [srv EXCEPT ![n] = s]
  BY <1>1 DEF RemoteEdit, IInv, Typed, Server
<1> HIDE DEF s
<1>4. /\ history' \in History /\ Grows(history, history')
      /\ history'.made = history.made /\ history'.asked = history.asked
      /\ c \in history'.stored
      /\ ~history'.clash => v # srv[n].version
  BY <1>1 DEF RemoteEdit, IInv, Typed, History, Grows
<1>5. srv[n].version \in Int /\ v \in Int /\ srv[n].version <= v
  BY <1>1, Constants DEF RemoteEdit, Stamps, Version, ServerNote
<1>6. srv' \in Server /\ \A m \in Note : srv'[m] = IF m = n THEN s ELSE srv[m]
  BY <1>2, <1>3 DEF IInv, Typed, Server
<1>7. Evolves(history', srv, srv')
  <2>1. Evolves(history, srv, srv)
    BY NothingMoves
  <2> QED
    BY <1>1, <1>2, <1>4, <1>5, <1>6, <2>1 DEF Evolves, Grows
<1>8. SrvInv'
  BY <1>1, <1>2, <1>4, <1>6 DEF IInv, SrvInv, Grows
<1> QED
  BY <1>4, <1>6, <1>7, <1>8, RemoteIsCounted, KeepServerStep DEF RemoteEdit

LEMMA KeepRemoteFlag ==
  ASSUME IInv, NEW n \in Note, NEW f \in Flag, RemoteFlag(n, f) PROVE IInv'
<1> DEFINE s == [srv[n] EXCEPT !.flags = Flip(@, f)]
<1>1. srv[n] \in ServerNote /\ srv[n].where = "list"
  BY DEF IInv, Typed, Server, RemoteFlag, Visible
<1>2. s \in ServerNote /\ s.where = srv[n].where /\ s.content = srv[n].content
      /\ s.version = srv[n].version
  BY <1>1 DEF ServerNote, Flip
<1>3. srv' = [srv EXCEPT ![n] = s] /\ history' = history
  BY DEF RemoteFlag
<1> HIDE DEF s
<1>4. srv' \in Server /\ \A m \in Note : srv'[m] = IF m = n THEN s ELSE srv[m]
  BY <1>2, <1>3 DEF IInv, Typed, Server
<1>5. Grows(history, history') /\ Evolves(history', srv, srv')
  BY <1>2, <1>3, <1>4, NothingMoves DEF Evolves
<1>6. SrvInv' /\ history' \in History
  BY <1>1, <1>2, <1>3, <1>4 DEF IInv, SrvInv, Typed
<1> QED
  BY <1>3, <1>4, <1>5, <1>6, RemoteIsCounted, KeepServerStep DEF RemoteFlag

LEMMA KeepRemoteMove ==
  ASSUME IInv, NEW n \in Note, NEW w \in Where, RemoteMove(n, w) PROVE IInv'
<1> DEFINE s == [srv[n] EXCEPT !.where = w]
<1>1. srv[n] \in ServerNote /\ srv[n].where # "none" /\ w # "none"
  BY DEF IInv, Typed, Server, RemoteMove
<1>2. s \in ServerNote /\ s.where = w /\ s.content = srv[n].content
      /\ s.version = srv[n].version
  BY <1>1 DEF ServerNote
<1>3. srv' = [srv EXCEPT ![n] = s]
  BY <1>1 DEF RemoteMove, IInv, Typed, Server
<1> HIDE DEF s
<1>4. srv' \in Server /\ \A m \in Note : srv'[m] = IF m = n THEN s ELSE srv[m]
  BY <1>2, <1>3 DEF IInv, Typed, Server
<1>5. /\ history' \in History /\ Grows(history, history')
      /\ history'.made = history.made /\ n \in history'.moved
  BY DEF RemoteMove, IInv, Typed, History, Grows
<1>6. Evolves(history', srv, srv')
  BY <1>1, <1>2, <1>4, <1>5, NothingMoves DEF Evolves, Grows
<1>7. SrvInv'
  BY <1>1, <1>2, <1>4, <1>5 DEF IInv, SrvInv, Grows
<1> QED
  BY <1>4, <1>5, <1>6, <1>7, RemoteIsCounted, KeepServerStep DEF RemoteMove

\* The replay drops what it holds and goes on with the next note, or stops: the
\* store, the server and the history stay.  A note may have been created before
\* its row was taken away only if a fault is counted.
LEMMA KeepDropJob ==
  ASSUME IInv, spent' \in Spent, spent.faults <= spent'.faults,
         UNCHANGED <<srv, copies, cache, history>>,
         job' = NoJob, pc' \in {"idle", "next"},
         todo' = todo \/ todo' = [k \in Key |-> NoRow],
         mark' = mark \/ mark' = NoMark,
         refresh' = refresh \/ refresh' = NoRefresh,
         pc = "unkey" => spent.faults < spent'.faults
  PROVE  IInv'
<1>1. Grows(history, history') /\ Evolves(history', srv, srv')
  BY NothingMoves
<1>2. Typed' /\ MarkInv' /\ SrvInv' /\ RefreshInv'
  BY NoJobIsJob, NoMarkIsMark, NoRefreshIsListed
  DEF IInv, Typed, MarkInv, SrvInv, RefreshInv, Phase, Rows
<1>3. RowsInv'
  BY NoJobIsJob, NoMarkIsMark DEF IInv, RowsInv, RowInv
<1>4. JobInv'
  BY NoJobIsJob DEF JobInv, SeenPhase
<1>5. MadeInv'
  BY NoJobIsJob, Constants DEF IInv, MadeInv, Open, Typed, History, Spent, Key
<1> QED
  BY <1>2, <1>3, <1>4, <1>5 DEF IInv

LEMMA KeepFaults == IInv /\ (NetworkError \/ TabClosed) => IInv'
<1> SUFFICES ASSUME IInv, NetworkError \/ TabClosed PROVE IInv'
  OBVIOUS
<1>1. spent' \in Spent /\ spent.faults < spent'.faults /\ spent.faults <= spent'.faults
  BY Constants DEF IInv, Typed, Spent, NetworkError, TabClosed
<1> QED
  BY <1>1, KeepDropJob DEF NetworkError, TabClosed, Throw

-----------------------------------------------------------------------------
(* The replay: its steps between the notes.                                *)

LEMMA AfterPhases ==
  ASSUME NEW r
  PROVE  /\ AfterContent(r) \in {"getFlags", "archive", "next"}
         /\ AfterContent(r) = "getFlags" => r.toggled # {}
         /\ AfterFlags(r) \in {"getContent", "getFlags", "archive", "next"}
         /\ AfterFlags(r) = "getFlags" => r.toggled # {}
         /\ AfterFlags(r) = "archive" => ~r.dirty
  BY DEF AfterContent, AfterFlags

LEMMA FirstPhases ==
  ASSUME NEW k, NEW r, Queued(r)
  PROVE  LET p == FirstPhase(k, r) IN
         /\ p \in {"drop", "delete", "create", "getFlags", "getContent", "archive"}
         /\ p = "create" => k \in Temp
         /\ k \in Temp => p \in {"drop", "create"}
         /\ p \in {"drop", "delete"} => r.deleted
         /\ p = "getFlags" => r.toggled # {}
         /\ p = "archive" => ~r.dirty
  BY DEF FirstPhase, Queued, AfterFlags, AfterContent

LEMMA KeepBegin == IInv /\ Begin => IInv'
<1> SUFFICES ASSUME IInv, Begin PROVE IInv'
  OBVIOUS
<1>1. /\ UNCHANGED <<srv, copies, cache, job, mark, refresh, spent, history>>
      /\ pc = "idle" /\ pc' = "next" /\ job = NoJob
      /\ todo' = [k \in Key |-> IF Present(k) /\ Queued(cache[k]) THEN cache[k] ELSE NoRow]
  BY DEF Begin, Idle, IInv, JobInv
<1>2. \A k \in Key : todo'[k] \in {cache[k], NoRow}
  BY <1>1
<1>3. Typed' /\ MarkInv' /\ SrvInv' /\ RefreshInv'
  BY <1>1 DEF IInv, Typed, MarkInv, SrvInv, RefreshInv, Phase, Rows
<1>4. RowsInv'
  BY <1>1, <1>2 DEF IInv, RowsInv, RowInv
<1>5. JobInv'
  BY <1>1, NoJobIsJob DEF JobInv, SeenPhase
<1>6. MadeInv'
  BY <1>1, <1>2, NoJobIsJob DEF IInv, MadeInv, Open, Key
<1> QED
  BY <1>3, <1>4, <1>5, <1>6 DEF IInv

LEMMA KeepEnd == IInv /\ End => IInv'
<1> SUFFICES ASSUME IInv, End PROVE IInv'
  OBVIOUS
<1>1. UNCHANGED <<srv, copies, cache, todo, job, mark, refresh, spent, history>>
      /\ pc = "next" /\ pc' = "idle" /\ job = NoJob
  BY DEF End, IInv, JobInv
<1> QED
  BY <1>1, KeepDropJob, FaultsAreCounted

LEMMA KeepNextNote == ASSUME IInv, NEW k \in Key, NextNote(k) PROVE IInv'
<1> DEFINE p == FirstPhase(k, todo[k])
           j == [NoJob EXCEPT !.key = k, !.row = todo[k],
                             !.unlocks = Lock \in todo[k].toggled \ todo[k].flags]
<1>1. todo[k] \in Row /\ todo[k] # NoRow /\ todo[k] \in Rows /\ Queued(todo[k])
  BY DEF NextNote, IInv, Typed, Rows, RowsInv
<1>2. j \in Job /\ j.key = k /\ j.row = todo[k]
  <2>1. (Lock \in todo[k].toggled \ todo[k].flags) \in BOOLEAN
    OBVIOUS
  <2> QED
    BY <1>1, <2>1, NoJobIsJob DEF Job
<1>3. /\ UNCHANGED <<srv, copies, cache, mark, refresh, spent, history>>
      /\ pc = "next" /\ pc' = p /\ job' = j /\ todo' = [todo EXCEPT ![k] = NoRow]
  BY DEF NextNote
<1>4. /\ p \in {"drop", "delete", "create", "getFlags", "getContent", "archive"}
      /\ p = "create" => k \in Temp
      /\ k \in Temp => p \in {"drop", "create"}
      /\ p \in {"drop", "delete"} => todo[k].deleted
      /\ p = "getFlags" => todo[k].toggled # {}
      /\ p = "archive" => ~todo[k].dirty
  BY <1>1, FirstPhases
<1> HIDE DEF p, j
<1>5. \A q \in Key : todo'[q] = IF q = k THEN NoRow ELSE todo[q]
  BY <1>3 DEF IInv, Typed
<1>6. Typed' /\ MarkInv' /\ SrvInv' /\ RefreshInv'
  BY <1>2, <1>3, <1>4 DEF IInv, Typed, MarkInv, SrvInv, RefreshInv, Phase, Rows
<1>7. RowsInv'
  BY <1>2, <1>3, <1>5 DEF IInv, RowsInv, RowInv
<1>8. JobInv'
  BY <1>1, <1>2, <1>3, <1>4, <1>5 DEF JobInv, SeenPhase, TempPhase, Key
<1>9. MadeInv'
  BY <1>1, <1>2, <1>3, <1>4, <1>5 DEF IInv, MadeInv, Open, Key
<1> QED
  BY <1>6, <1>7, <1>8, <1>9 DEF IInv

-----------------------------------------------------------------------------
(* The replay's requests.                                                  *)

\* A request leaves the store alone; the replay goes on with the same note or
\* drops it.
LEMMA KeepAsking ==
  ASSUME IInv, history' \in History, srv' \in Server, copies' \subseteq Text,
         Grows(history, history'), Evolves(history', srv, srv'),
         history'.made = history.made, Asking,
         pc \notin {"unkey", "create"}, pc' \in Phase \ {"create", "unkey"},
         job' \in Job,
         job' = NoJob \/ (job'.key = job.key /\ job'.row = job.row),
         SrvInv', JobInv'
  PROVE  IInv'
<1>1. Typed' /\ MarkInv'
  BY DEF IInv, Typed, MarkInv, Asking
<1>2. RefreshInv'
  BY RefreshStays DEF Asking
<1>3. RowsInv'
  BY HeldStays, NoJobIsJob DEF IInv, RowsInv, Asking, RowInv
<1>4. MadeInv'
  <2>1. \A t \in Temp : Open(t)' => Open(t)
    BY DEF Open, Asking
  <2> QED
    BY <2>1 DEF IInv, MadeInv, Asking, Grows
<1> QED
  BY <1>1, <1>2, <1>3, <1>4 DEF IInv

\* The same when nothing but the replay's own state changes.
LEMMA KeepReading ==
  ASSUME IInv, UNCHANGED <<srv, copies, history>>, Asking,
         pc \notin {"unkey", "create"}, pc' \in Phase \ {"create", "unkey"},
         job' \in Job,
         job' = NoJob \/ (job'.key = job.key /\ job'.row = job.row), JobInv'
  PROVE  IInv'
<1>1. history' \in History /\ srv' \in Server /\ copies' \subseteq Text /\ SrvInv'
  BY DEF IInv, Typed, SrvInv
<1>2. Grows(history, history') /\ Evolves(history', srv, srv')
  BY NothingMoves
<1> QED
  BY <1>1, <1>2, KeepAsking

\* What is known while the replay is at a note of the server.
LEMMA AtNote ==
  ASSUME IInv, pc \notin {"idle", "next"} \cup TempPhase
  PROVE  /\ job.key \in Note /\ job.key \in Key /\ job.row \in Row /\ job.row # NoRow
         /\ srv[job.key] \in ServerNote /\ srv[job.key].where # "none"
         /\ RowInv(history, srv, job.key, job.row)
  BY DEF IInv, JobInv, RowsInv, RowInv, Typed, Job, Key, Rows, Server

LEMMA KeepGetFlags == IInv /\ SyncGetFlags => IInv'
<1> SUFFICES ASSUME IInv, SyncGetFlags PROVE IInv'
  OBVIOUS
<1> DEFINE n == job.key
           j == [job EXCEPT !.seen = srv[n], !.changed = srv[n].version # job.row.base,
                            !.left = job.row.toggled]
<1>1. pc = "getFlags" /\ UNCHANGED <<srv, copies, history>> /\ Asking
  BY DEF SyncGetFlags
<1>2. n \in Note /\ job.row \in Row /\ srv[n] \in ServerNote /\ srv[n].where # "none"
      /\ RowInv(history, srv, n, job.row)
  BY <1>1, AtNote DEF TempPhase
<1>3. /\ j \in Job /\ j.key = job.key /\ j.row = job.row /\ j.left = job.row.toggled
      /\ j.seen = srv[n]
  BY <1>2 DEF IInv, Typed, Job, Row
<1>4. \/ srv[n].where = "list" /\ pc' = "toggle" /\ job' = j
      \/ srv[n].where # "list" /\ pc' = "drop" /\ job' = job
  BY DEF SyncGetFlags, Visible
<1> HIDE DEF n, j
<1>5. AnswerInv(history, srv, n, srv[n].content, srv[n].version)
  BY <1>2, Constants DEF AnswerInv, IInv, SrvInv, ServerNote, Version
<1>6. JobInv'
  <2>1. CASE pc' = "toggle" /\ job' = j
    <3>1. Target' = n
      BY <1>3, <2>1 DEF Target, n
    <3> QED
      BY <1>1, <1>2, <1>3, <1>5, <2>1, <3>1, Constants DEF IInv, JobInv, SeenPhase, n
  <2>2. CASE srv[n].where # "list" /\ pc' = "drop" /\ job' = job
    <3>1. n \in history.moved
      BY <1>2, <2>2 DEF IInv, SrvInv
    <3> QED
      BY <1>1, <1>2, <2>2, <3>1, Constants DEF IInv, JobInv, SeenPhase, n
  <2> QED
    BY <1>4, <2>1, <2>2
<1> QED
  BY <1>1, <1>3, <1>4, <1>6, KeepReading DEF Phase, IInv, Typed

LEMMA KeepGetContent == IInv /\ SyncGetContent => IInv'
<1> SUFFICES ASSUME IInv, SyncGetContent PROVE IInv'
  OBVIOUS
<1> DEFINE n == job.key
           j == [job EXCEPT !.seen = srv[n]]
<1>1. pc = "getContent" /\ UNCHANGED <<srv, copies, history>> /\ Asking
  BY DEF SyncGetContent
<1>2. n \in Note /\ job.row \in Row /\ srv[n] \in ServerNote /\ srv[n].where # "none"
      /\ RowInv(history, srv, n, job.row)
  BY <1>1, AtNote DEF TempPhase
<1>3. j \in Job /\ j.key = job.key /\ j.row = job.row /\ j.seen = srv[n]
  BY <1>2 DEF IInv, Typed, Job
<1>4. \/ /\ srv[n].where = "list" /\ job' = j
         /\ \/ pc' = "put" /\ srv[n].version = job.row.base
            \/ pc' \in {"copyServer", "copyLocal"}
      \/ srv[n].where # "list" /\ pc' = "drop" /\ job' = job
  BY DEF SyncGetContent, Visible
<1> HIDE DEF n, j
<1>5. AnswerInv(history, srv, n, srv[n].content, srv[n].version)
  BY <1>2, Constants DEF AnswerInv, IInv, SrvInv, ServerNote, Version
<1>6. JobInv'
  <2>1. CASE job' = j /\ pc' \in {"put", "copyServer", "copyLocal"}
    <3>1. Target' = n
      BY <1>3, <2>1 DEF Target, n
    <3>2. pc' = "put" => history.asked # {} \/ history.clash \/ srv[n].content \in history.met
      BY <1>2, <1>4, <2>1, Constants DEF RowInv
    <3> QED
      BY <1>1, <1>2, <1>3, <1>5, <2>1, <3>1, <3>2, Constants DEF IInv, JobInv, SeenPhase, n
  <2>2. CASE srv[n].where # "list" /\ pc' = "drop" /\ job' = job
    <3>1. n \in history.moved
      BY <1>2, <2>2 DEF IInv, SrvInv
    <3> QED
      BY <1>1, <1>2, <2>2, <3>1, Constants DEF IInv, JobInv, SeenPhase, n
  <2> QED
    BY <1>4, <2>1, <2>2
<1> QED
  BY <1>1, <1>3, <1>4, <1>6, KeepReading DEF Phase, IInv, Typed

LEMMA KeepCopy == IInv /\ SyncCopy => IInv'
<1> SUFFICES ASSUME IInv, SyncCopy PROVE IInv'
  OBVIOUS
<1> DEFINE c == IF pc = "copyServer" THEN job.seen.content ELSE job.row.content
<1>1. /\ pc \in {"copyServer", "copyLocal"} /\ UNCHANGED <<srv, job>> /\ Asking
      /\ copies' = copies \cup {c}
      /\ history' = [history EXCEPT !.stored = @ \cup {c}]
      /\ pc' = IF pc = "copyServer" THEN "put" ELSE "acceptServer"
  BY DEF SyncCopy
<1>2. job.key \in Note /\ job.row \in Row /\ job \in Job
  BY <1>1, AtNote DEF TempPhase, IInv, Typed
<1>3. c \in Text
  BY <1>2 DEF Job, Row, ServerNote
<1>4. history' \in History /\ Grows(history, history') /\ history'.made = history.made
      /\ history'.asked = history.asked /\ history'.clash = history.clash
      /\ c \in history'.stored
  BY <1>1, <1>3 DEF IInv, Typed, History, Grows
<1>5. Evolves(history', srv, srv') /\ srv' \in Server /\ copies' \subseteq Text
  BY <1>1, <1>3, <1>4, NothingMoves DEF IInv, Typed, Evolves, Grows
<1>6. SrvInv'
  BY <1>1, <1>4 DEF IInv, SrvInv, Grows
<1>7. JobInv'
  <2>1. AnswerInv(history', srv', Target, job.seen.content, job.seen.version)
    BY <1>1, <1>4, <1>5, HeldStays DEF SeenPhase
  <2>2. Target' = Target
    BY <1>1 DEF Target
  <2> QED
    BY <1>1, <1>2, <2>1, <2>2, <1>4, Constants DEF IInv, JobInv, SeenPhase
<1> QED
  BY <1>1, <1>4, <1>5, <1>6, <1>7, KeepAsking DEF Phase, IInv, Typed

\* A request that may change one note of the server, but not its text, and
\* nothing that the history says of texts.
LEMMA FlagsOrPlaceMove ==
  ASSUME IInv, NEW n \in Note, srv' \in Server, history' \in History, srv[n].where # "none",
         \A m \in Note \ {n} : srv'[m] = srv[m],
         srv'[n].where # "none", srv'[n].content = srv[n].content,
         srv'[n].version = srv[n].version,
         Grows(history, history'), history'.asked = history.asked,
         history'.clash = history.clash,
         srv'[n].where # "list" => n \in history'.moved
  PROVE  Evolves(history', srv, srv') /\ SrvInv'
<1>1. Evolves(history', srv, srv')
  BY NothingMoves DEF Evolves, Grows
<1>2. SrvInv'
  BY DEF IInv, SrvInv, Grows
<1> QED
  BY <1>1, <1>2

LEMMA KeepToggle == ASSUME IInv, NEW f \in Flag, SyncToggle(f) PROVE IInv'
<1> DEFINE n == job.key
           s == [srv[n] EXCEPT !.flags = Flip(@, f)]
           j == [job EXCEPT !.seen = s, !.left = {g \in @ : Rank[g] > Rank[f]}]
<1>1. /\ pc = "toggle" /\ UNCHANGED <<copies, history>> /\ Asking
      /\ srv' = IF srv[n].where = "gone" THEN srv ELSE [srv EXCEPT ![n] = s]
      /\ \/ srv[n].where = "list" /\ job' = j /\ pc' = pc
         \/ srv[n].where # "list" /\ job' = NoJob /\ pc' = "next"
  BY DEF SyncToggle, Visible, Throw
<1>2. n \in Note /\ job.row \in Row /\ srv[n] \in ServerNote /\ srv[n].where # "none"
  BY <1>1, AtNote DEF TempPhase
<1>3. s \in ServerNote /\ s.where = srv[n].where /\ s.content = srv[n].content
      /\ s.version = srv[n].version
  BY <1>2 DEF ServerNote, Flip
<1>4. j \in Job /\ j.key = job.key /\ j.row = job.row /\ j.seen = s /\ j.left \subseteq job.left
  BY <1>3 DEF IInv, Typed, Job
<1> HIDE DEF s, j
<1>5. /\ srv' \in Server /\ srv'[n] \in {s, srv[n]} /\ (srv[n].where = "list" => srv'[n] = s)
      /\ \A m \in Note \ {n} : srv'[m] = srv[m]
  BY <1>1, <1>2, <1>3 DEF IInv, Typed, Server
<1> HIDE DEF n
<1>6. /\ history' \in History /\ copies' \subseteq Text /\ Grows(history, history')
      /\ srv[n].where # "list" => n \in history'.moved
  BY <1>1, <1>2, NothingMoves DEF IInv, Typed, SrvInv
<1>7. Evolves(history', srv, srv') /\ SrvInv'
  BY <1>1, <1>2, <1>3, <1>5, <1>6, FlagsOrPlaceMove
<1>8. JobInv'
  <2>1. CASE srv[n].where = "list" /\ job' = j /\ pc' = pc
    <3>1. Target' = n
      BY <1>1, <1>4, <2>1 DEF Target, n
    <3>2. AnswerInv(history', srv', n, s.content, s.version)
      BY <1>1, <1>2, <1>3, <1>5, <2>1, Constants
      DEF AnswerInv, IInv, SrvInv, ServerNote, Version
    <3> QED
      BY <1>1, <1>2, <1>4, <2>1, <3>1, <3>2, Constants DEF IInv, JobInv, SeenPhase, n
  <2>2. CASE job' = NoJob /\ pc' = "next"
    BY <2>2, NoJobIsJob DEF JobInv, SeenPhase
  <2> QED
    BY <1>1, <2>1, <2>2
<1> QED
  BY <1>1, <1>4, <1>5, <1>6, <1>7, <1>8, KeepAsking, NoJobIsJob DEF Phase

LEMMA KeepPut == ASSUME IInv, NEW v \in Version, SyncPut(v) PROVE IInv'
<1> DEFINE n == job.key
           s == [srv[n] EXCEPT !.content = job.row.content, !.version = v]
           j == [job EXCEPT !.seen = s]
<1>1. pc = "put" /\ UNCHANGED copies /\ Asking
  BY DEF SyncPut
<1>2. n \in Note /\ job.row \in Row /\ job.row # NoRow /\ srv[n] \in ServerNote
      /\ srv[n].where # "none" /\ job.row.content \in history.met /\ job.row.content \in Text
  BY <1>1, AtNote DEF TempPhase, RowInv, Row
<1>3. s \in ServerNote /\ s.where = srv[n].where /\ s.content = job.row.content /\ s.version = v
  BY <1>2 DEF ServerNote
<1>4. j \in Job /\ j.key = job.key /\ j.row = job.row /\ j.seen = s
  BY <1>3 DEF IInv, Typed, Job
<1>5. \/ /\ v \in Stamps(n) /\ srv' = [srv EXCEPT ![n] = s] /\ job' = j /\ pc' = "saveContent"
         /\ history' = [history EXCEPT !.stored = @ \cup {s.content},
                                       !.clash = @ \/ v = srv[n].version]
      \/ pc' = "copyLocal" /\ UNCHANGED <<srv, job, history>>
      \/ pc' = "next" /\ job' = NoJob /\ UNCHANGED <<srv, history>>
  BY DEF SyncPut, Throw
<1> HIDE DEF s, j
<1>6. CASE pc' = "copyLocal" /\ UNCHANGED <<srv, job, history>>
  <2>1. JobInv'
    BY <1>1, <1>2, <1>6 DEF IInv, JobInv, SeenPhase, Target, AnswerInv, TempPhase
  <2> QED
    BY <1>1, <1>6, <2>1, KeepReading DEF Phase, IInv, Typed
<1>7. CASE pc' = "next" /\ job' = NoJob /\ UNCHANGED <<srv, history>>
  <2>1. JobInv'
    BY <1>7, NoJobIsJob DEF JobInv, SeenPhase
  <2> QED
    BY <1>1, <1>7, <2>1, KeepReading, NoJobIsJob DEF Phase
<1>8. CASE /\ v \in Stamps(n) /\ srv' = [srv EXCEPT ![n] = s] /\ job' = j /\ pc' = "saveContent"
           /\ history' = [history EXCEPT !.stored = @ \cup {s.content},
                                         !.clash = @ \/ v = srv[n].version]
  <2>1. /\ srv' \in Server /\ srv'[n] = s
        /\ \A m \in Note \ {n} : srv'[m] = srv[m]
    BY <1>2, <1>3, <1>8 DEF IInv, Typed, Server
  <2>2. /\ history' \in History /\ Grows(history, history')
        /\ history'.made = history.made /\ history'.asked = history.asked
        /\ job.row.content \in history'.stored /\ history'.moved = history.moved
        /\ job.row.content \in history'.met
    BY <1>2, <1>3, <1>8 DEF IInv, Typed, History, Grows
  <2>3. srv[n].version \in Int /\ v \in Int /\ srv[n].version <= v
    BY <1>2, <1>8, Constants DEF Stamps, Version, ServerNote
  <2>4. Evolves(history', srv, srv')
    BY <1>3, <2>1, <2>2, <2>3, NothingMoves DEF Evolves, Grows
  <2>5. SrvInv'
    BY <1>2, <1>3, <2>1, <2>2 DEF IInv, SrvInv, Grows
  <2>6. JobInv'
    <3>1. Target' = n
      BY <1>4, <1>8 DEF Target, n
    <3>2. AnswerInv(history', srv', n, s.content, s.version)
      BY <1>2, <1>3, <2>1, <2>2, <2>3 DEF AnswerInv
    <3> QED
      BY <1>1, <1>2, <1>4, <1>8, <2>2, <3>1, <3>2, Constants DEF IInv, JobInv, SeenPhase, n
  <2>7. copies' \subseteq Text /\ pc' \in Phase \ {"create", "unkey"}
    BY <1>1, <1>8 DEF IInv, Typed, Phase
  <2> QED
    BY <1>1, <1>4, <1>8, <2>1, <2>2, <2>4, <2>5, <2>6, <2>7, KeepAsking
<1> QED
  BY <1>5, <1>6, <1>7, <1>8

\* The three requests that put a note somewhere else, and the unlocking between
\* them: `n' is the note, the text and version of which stay.
LEMMA KeepRemoval ==
  ASSUME IInv, pc \in {"archive", "delete", "unlock", "deleteAgain"},
         srv' \in Server, Asking, UNCHANGED copies,
         \A m \in Note \ {job.key} : srv'[m] = srv[m],
         srv'[job.key].where # "none", srv'[job.key].content = srv[job.key].content,
         srv'[job.key].version = srv[job.key].version,
         history' = history \/ Removes(job.key),
         srv'[job.key].where # "list" => job.key \in history'.moved,
         \/ job' = NoJob /\ pc' = "next"
         \/ job' = job /\ pc' \in {"drop", "abandon", "unlock", "deleteAgain"},
         pc' = "drop" => job.row.deleted \/ ~job.row.dirty,
         pc' \in {"unlock", "deleteAgain"} => job.row.deleted,
         pc' = "unlock" => Lock \in job.row.toggled
  PROVE  IInv'
<1>1. job.key \in Note /\ job.row # NoRow /\ srv[job.key].where # "none" /\ job \in Job
  BY AtNote DEF TempPhase, IInv, Typed
<1>2. /\ history' \in History /\ Grows(history, history')
      /\ history'.made = history.made /\ history'.asked = history.asked
      /\ history'.clash = history.clash
  BY <1>1, NothingMoves DEF Removes, IInv, Typed, History, Grows
<1>3. Evolves(history', srv, srv') /\ SrvInv'
  BY <1>1, <1>2, FlagsOrPlaceMove
<1>4. JobInv'
  BY <1>1, NoJobIsJob, Constants DEF IInv, JobInv, SeenPhase
<1>5. copies' \subseteq Text /\ pc' \in Phase \ {"create", "unkey"}
  BY DEF IInv, Typed, Phase
<1> QED
  BY <1>1, <1>2, <1>3, <1>4, <1>5, KeepAsking, NoJobIsJob

\* A note of the server with its flags or its place changed.
LEMMA NoteWith ==
  ASSUME IInv, NEW n \in Note, srv[n].where # "none", NEW s \in ServerNote,
         s.where # "none", s.content = srv[n].content, s.version = srv[n].version,
         srv' = srv \/ srv' = [srv EXCEPT ![n] = s]
  PROVE  /\ srv' \in Server /\ \A m \in Note \ {n} : srv'[m] = srv[m]
         /\ srv'[n].where # "none" /\ srv'[n].content = srv[n].content
         /\ srv'[n].version = srv[n].version
  BY DEF IInv, Typed, Server

LEMMA OutOfTheList ==
  ASSUME IInv, NEW n \in Note, Removes(n)
  PROVE  srv'[n].where # "list" => n \in history'.moved
  BY DEF IInv, Typed, History, Removes

LEMMA MovedNote ==
  ASSUME NEW s \in ServerNote, NEW w \in Where
  PROVE  /\ [s EXCEPT !.where = w] \in ServerNote
         /\ [s EXCEPT !.where = w].where = w
         /\ [s EXCEPT !.where = w].content = s.content
         /\ [s EXCEPT !.where = w].version = s.version
  BY DEF ServerNote

LEMMA KeepArchive == IInv /\ SyncArchive => IInv'
<1> SUFFICES ASSUME IInv, SyncArchive PROVE IInv'
  OBVIOUS
<1> DEFINE n == job.key
           s == [srv[n] EXCEPT !.where = "archive"]
<1>1. /\ pc = "archive" /\ UNCHANGED <<copies, job>> /\ Asking /\ Removes(n)
      /\ pc' \in {"abandon", "drop"}
      /\ srv' = srv \/ srv' = [srv EXCEPT ![n].where = "archive"]
  BY DEF SyncArchive
<1>2. n \in Note /\ srv[n] \in ServerNote /\ srv[n].where # "none"
  BY <1>1, AtNote DEF TempPhase
<1>3. s \in ServerNote /\ s.where # "none" /\ s.content = srv[n].content
      /\ s.version = srv[n].version
  BY <1>2, MovedNote DEF Where
<1>4. srv' = srv \/ srv' = [srv EXCEPT ![n] = s]
  BY <1>1
<1> HIDE DEF s
<1>5. ~job.row.dirty
  BY <1>1 DEF IInv, JobInv
<1> QED
  BY <1>1, <1>2, <1>3, <1>4, <1>5, NoteWith, OutOfTheList, KeepRemoval

LEMMA KeepDelete == IInv /\ SyncDelete => IInv'
<1> SUFFICES ASSUME IInv, SyncDelete PROVE IInv'
  OBVIOUS
<1> DEFINE n == job.key
           s == [srv[n] EXCEPT !.where = "trash"]
<1>1. /\ pc = "delete" /\ UNCHANGED <<copies, job>> /\ Asking /\ Removes(n)
      /\ pc' \in {"abandon", "drop", "unlock"}
      /\ pc' = "unlock" => Lock \in job.row.toggled
      /\ srv' = srv \/ srv' = [srv EXCEPT ![n].where = "trash"]
  BY DEF SyncDelete
<1>2. n \in Note /\ srv[n] \in ServerNote /\ srv[n].where # "none"
  BY <1>1, AtNote DEF TempPhase
<1>3. s \in ServerNote /\ s.where # "none" /\ s.content = srv[n].content
      /\ s.version = srv[n].version
  BY <1>2, MovedNote DEF Where
<1>4. srv' = srv \/ srv' = [srv EXCEPT ![n] = s]
  BY <1>1
<1> HIDE DEF s
<1>5. job.row.deleted
  BY <1>1 DEF IInv, JobInv
<1> QED
  BY <1>1, <1>2, <1>3, <1>4, <1>5, NoteWith, OutOfTheList, KeepRemoval

LEMMA KeepUnlock == IInv /\ SyncUnlock => IInv'
<1> SUFFICES ASSUME IInv, SyncUnlock PROVE IInv'
  OBVIOUS
<1> DEFINE n == job.key
           s == [srv[n] EXCEPT !.flags = Flip(@, Lock)]
<1>1. /\ pc = "unlock" /\ UNCHANGED <<copies, history>> /\ Asking
      /\ \/ srv[n].where = "list" /\ pc' = "deleteAgain" /\ job' = job
         \/ srv[n].where # "list" /\ pc' = "next" /\ job' = NoJob
      /\ srv' = srv \/ srv' = [srv EXCEPT ![n].flags = Flip(@, Lock)]
  BY DEF SyncUnlock, Visible, Throw
<1>2. n \in Note /\ srv[n] \in ServerNote /\ srv[n].where # "none"
  BY <1>1, AtNote DEF TempPhase
<1>3. s \in ServerNote /\ s.where = srv[n].where /\ s.content = srv[n].content
      /\ s.version = srv[n].version
  BY <1>2, Constants DEF ServerNote, Flip
<1>4. srv' = srv \/ srv' = [srv EXCEPT ![n] = s]
  BY <1>1
<1> HIDE DEF s
<1>5. srv'[n].where # "list" => n \in history'.moved
  BY <1>1, <1>2, <1>3, <1>4 DEF IInv, SrvInv, Typed, Server
<1>6. job.row.deleted
  BY <1>1 DEF IInv, JobInv
<1> QED
  BY <1>1, <1>2, <1>3, <1>4, <1>5, <1>6, NoteWith, KeepRemoval

LEMMA KeepDeleteAgain == IInv /\ SyncDeleteAgain => IInv'
<1> SUFFICES ASSUME IInv, SyncDeleteAgain PROVE IInv'
  OBVIOUS
<1> DEFINE n == job.key
           s == [srv[n] EXCEPT !.where = "trash"]
<1>1. /\ pc = "deleteAgain" /\ UNCHANGED copies /\ Asking /\ Removes(n)
      /\ \/ pc' = "next" /\ job' = NoJob
         \/ pc' = "drop" /\ job' = job
      /\ srv' = srv \/ srv' = [srv EXCEPT ![n].where = "trash"]
  BY DEF SyncDeleteAgain, Throw
<1>2. n \in Note /\ srv[n] \in ServerNote /\ srv[n].where # "none"
  BY <1>1, AtNote DEF TempPhase
<1>3. s \in ServerNote /\ s.where # "none" /\ s.content = srv[n].content
      /\ s.version = srv[n].version
  BY <1>2, MovedNote DEF Where
<1>4. srv' = srv \/ srv' = [srv EXCEPT ![n] = s]
  BY <1>1
<1> HIDE DEF s
<1>5. job.row.deleted
  BY <1>1 DEF IInv, JobInv
<1> QED
  BY <1>1, <1>2, <1>3, <1>4, <1>5, NoteWith, OutOfTheList, KeepRemoval

\* A note is created under an id that has not been used: nothing that is held is
\* about it.
LEMMA KeepCreate == IInv /\ SyncCreate => IInv'
<1> SUFFICES ASSUME IInv, SyncCreate PROVE IInv'
  OBVIOUS
<1> DEFINE n == CHOOSE x \in Unused : TRUE
           c == job.row.content
           s == [Unseen EXCEPT !.where = "list", !.content = c]
           j == [job EXCEPT !.id = n, !.seen = srv'[n]]
<1>1. /\ pc = "create" /\ pc' = "unkey" /\ UNCHANGED copies /\ Asking
      /\ srv' = [srv EXCEPT ![n] = s] /\ job' = j
      /\ history' = [history EXCEPT !.stored = @ \cup {c}, !.made[job.key] = @ + 1]
  BY DEF SyncCreate
<1>2. n \in Note /\ srv[n].where = "none"
  BY DEF SyncCreate, Unused
<1>3. job.key \in Temp /\ job.key \in Key /\ job.row \in Row /\ job.row # NoRow
  BY <1>1 DEF IInv, JobInv, Key, Typed, Job, Rows
<1>4. c \in Text /\ c \in history.met
  BY <1>3 DEF Row, IInv, RowsInv, RowInv
<1>5. s \in ServerNote /\ s.where = "list" /\ s.content = c /\ s.version = 0
  BY <1>4, UnseenIsNote DEF ServerNote, Unseen, Where
<1> HIDE DEF n, s, c
<1>6. srv' \in Server /\ srv'[n] = s /\ \A m \in Note \ {n} : srv'[m] = srv[m]
  BY <1>1, <1>2, <1>5 DEF IInv, Typed, Server
<1>7. /\ j \in Job /\ j.key = job.key /\ j.row = job.row /\ j.seen = s /\ j.id = n
      /\ j.left = job.left
  BY <1>2, <1>5, <1>6 DEF IInv, Typed, Job
<1> HIDE DEF j
<1>8. /\ history' \in History /\ Grows(history, history')
      /\ history'.asked = history.asked /\ history'.clash = history.clash
      /\ history'.met = history.met /\ history'.overlap = history.overlap
      /\ c \in history'.stored
      /\ history'.made = [history.made EXCEPT ![job.key] = @ + 1]
  <2>1. [history.made EXCEPT ![job.key] = @ + 1] \in [Temp -> Nat]
    BY <1>3 DEF IInv, Typed, History
  <2>2. history' = [history EXCEPT !.stored = @ \cup {c},
                                   !.made = [history.made EXCEPT ![job.key] = @ + 1]]
    BY <1>1, <1>3 DEF IInv, Typed, History
  <2> QED
    BY <1>4, <2>1, <2>2 DEF IInv, Typed, History, Grows
<1>9. Evolves(history', srv, srv')
  BY <1>2, <1>6, NothingMoves DEF Evolves, Grows
<1>10. Typed'
  BY <1>1, <1>6, <1>7, <1>8 DEF IInv, Typed, Asking, Phase
<1>11. SrvInv'
  BY <1>5, <1>6, <1>8 DEF IInv, SrvInv, Grows
<1>12. RowsInv' /\ RefreshInv' /\ MarkInv'
  BY <1>1, <1>6, <1>7, <1>8, <1>9, HeldStays, RefreshStays DEF IInv, RowsInv, MarkInv, Asking
<1>13. JobInv'
  <2>1. Target' = n
    BY <1>1, <1>7 DEF Target
  <2>2. AnswerInv(history', srv', n, s.content, s.version)
    BY <1>4, <1>5, <1>6, <1>8, Constants DEF AnswerInv
  <2> QED
    BY <1>1, <1>3, <1>7, <1>8, <2>1, <2>2, Constants
    DEF IInv, JobInv, SeenPhase, Asking, TempPhase, c
<1>14. MadeInv'
  <2>1. todo[job.key] = NoRow
    BY <1>3 DEF IInv, JobInv
  <2>2. Open(job.key)
    BY <1>1 DEF Open
  <2>3. \A t \in Temp : Open(t)' => Open(t) /\ t # job.key
    BY <1>1, <1>7, <2>1 DEF Open, Asking
  <2>4. \A t \in Temp : history'.made[t] = IF t = job.key THEN history.made[t] + 1
                                                           ELSE history.made[t]
    BY <1>3, <1>8 DEF IInv, Typed, History
  <2>5. spent' = spent /\ spent.faults \in Nat /\ \A t \in Temp : history.made[t] \in Nat
    BY <1>1, Constants DEF IInv, Typed, Spent, History, Asking
  <2> QED
    BY <1>3, <1>8, <2>2, <2>3, <2>4, <2>5 DEF IInv, MadeInv
<1> QED
  BY <1>10, <1>11, <1>12, <1>13, <1>14 DEF IInv

-----------------------------------------------------------------------------
(* The replay's writes to the store.                                       *)

\* What a write, or the new key, makes of the store and the history.
Stores(k, r) ==
  /\ cache' \in [Key -> Rows] /\ \A q \in Key : cache'[q] = IF q = k THEN r ELSE cache[q]
  /\ history' \in History /\ Grows(history, history')
  /\ history'.made = history.made /\ history'.stored = history.stored

LEMMA WritesStore ==
  ASSUME IInv, UNCHANGED srv, NEW k \in Key, NEW r \in Rows, NEW b, Write(k, r, b)
  PROVE  Stores(k, r)
  BY WhatAWriteDoes DEF Stores

LEMMA KeepStoring ==
  ASSUME IInv, Saving, NEW k \in Key, NEW r \in Rows, Stores(k, r),
         job' \in Job, pc' \in Phase,
         RowInv(history', srv', k, r), RowInv(history', srv', job'.key, job'.row),
         JobInv', \A t \in Temp : Open(t)' => Open(t)
  PROVE  IInv'
<1>1. UNCHANGED <<srv, copies, todo, mark, refresh, spent>> /\ srv' \in Server
  BY DEF Saving, IInv, Typed
<1>2. Evolves(history', srv, srv')
  BY <1>1, NothingMoves DEF Stores, Evolves, Grows
<1>3. Typed' /\ MarkInv' /\ SrvInv'
  BY <1>1 DEF IInv, Typed, MarkInv, SrvInv, Grows, Stores
<1>4. RowsInv'
  BY <1>1, <1>2, HeldStays DEF IInv, RowsInv, Stores
<1>5. RefreshInv'
  BY <1>1, <1>2, RefreshStays DEF Stores
<1>6. MadeInv'
  BY <1>1 DEF IInv, MadeInv, Grows, Stores
<1> QED
  BY <1>3, <1>4, <1>5, <1>6 DEF IInv

\* The replay writes the row of a note that is on the server and goes on to
\* another of its phases, or is done with it.
LEMMA KeepProceeding ==
  ASSUME IInv, Saving, pc \notin {"idle", "next"} \cup TempPhase,
         NEW r \in Row, NEW p \in {"getContent", "getFlags", "archive", "next"},
         Write(job.key, r, job.row), Proceed(p, r),
         p = "getFlags" => r.toggled # {}, p = "archive" => ~r.dirty,
         ~r.dirty => r.content \in history.stored, r.toggled \subseteq Asked(history, job.key),
         r.base <= srv[job.key].version,
         r.base = srv[job.key].version /\ history.asked = {} /\ ~history.clash
            => srv[job.key].content \in history.met \cup {r.content}
  PROVE  IInv'
<1> DEFINE j == [job EXCEPT !.row = r, !.seen = Unseen, !.changed = FALSE, !.left = {}]
<1>1. job.key \in Note /\ job.key \in Key /\ srv[job.key].where # "none" /\ job \in Job
      /\ srv' = srv /\ todo' = todo
  BY AtNote DEF IInv, Typed, Saving
<1>2. r \in Rows /\ r # NoRow
  BY Constants DEF Rows
<1>3. j \in Job /\ j.key = job.key /\ j.row = r
  <2>1. {} \in SUBSET Flag /\ FALSE \in BOOLEAN
    OBVIOUS
  <2> QED
    BY <1>1, <1>2, <2>1, UnseenIsNote DEF Job
<1>4. pc' = p /\ job' = IF p = "next" THEN NoJob ELSE j
  BY DEF Proceed
<1> HIDE DEF j
<1>5. /\ \A q \in Key : cache'[q] = IF q = job.key THEN r ELSE cache[q]
      /\ Grows(history, history') /\ history'.asked = history.asked
      /\ history'.clash = history.clash /\ r.content \in history'.met
  BY <1>1, <1>2, WhatAWriteDoes
<1>6. RowInv(history', srv', job.key, r)
  BY <1>1, <1>5 DEF RowInv, Grows, Asked
<1>7. RowInv(history', srv', job'.key, job'.row)
  BY <1>3, <1>4, <1>6, NoJobIsJob DEF RowInv
<1>8. JobInv'
  BY <1>1, <1>2, <1>3, <1>4, NoJobIsJob, Constants DEF JobInv, SeenPhase
<1>9. \A t \in Temp : Open(t)' => Open(t)
  BY <1>1, <1>3, <1>4, <1>5, NoJobIsJob, Constants DEF Open, Key
<1>10. job' \in Job /\ pc' \in Phase
  BY <1>3, <1>4, NoJobIsJob DEF Phase
<1>11. Stores(job.key, r)
  BY <1>1, <1>2, WritesStore
<1> QED
  BY <1>1, <1>2, <1>6, <1>7, <1>8, <1>9, <1>10, <1>11, KeepStoring

\* The replay writes a row, or takes it away, and is done with the note.
LEMMA KeepFinishing ==
  ASSUME IInv, Saving, pc # "unkey", NEW k \in Key, NEW r \in Rows, NEW b, Write(k, r, b),
         r # NoRow => cache[k] # NoRow \/ k \in Note,
         r # NoRow => RowInv(history', srv', k, r), pc' = "next", job' = NoJob
  PROVE  IInv'
<1>1. \A q \in Key : cache'[q] = IF q = k THEN r ELSE cache[q]
  BY WhatAWriteDoes DEF Saving
<1>2. RowInv(history', srv', k, r) /\ RowInv(history', srv', job'.key, job'.row)
  BY NoJobIsJob DEF RowInv
<1>3. JobInv'
  BY NoJobIsJob DEF JobInv, SeenPhase
<1>4. \A t \in Temp : Open(t)' => Open(t)
  BY <1>1, Constants DEF Open, Key, Saving
<1>5. Stores(k, r)
  BY WritesStore DEF Saving
<1> QED
  BY <1>2, <1>3, <1>4, <1>5, KeepStoring, NoJobIsJob DEF Phase

LEMMA KeepSaveFlags == IInv /\ SyncSaveFlags => IInv'
<1> SUFFICES ASSUME IInv, SyncSaveFlags PROVE IInv'
  OBVIOUS
<1> DEFINE r == [job.row EXCEPT
                   !.flags = IF Deferred THEN job.seen.flags \cup {Lock} ELSE job.seen.flags,
                   !.toggled = IF Deferred THEN {Lock} ELSE {},
                   !.base = IF job.row.dirty /\ job.changed THEN @ ELSE job.seen.version]
<1>1. pc = "toggle" /\ Saving /\ Write(job.key, r, job.row) /\ Proceed(AfterFlags(r), r)
  BY DEF SyncSaveFlags
<1>2. job.row \in Row /\ job.key \in Note /\ RowInv(history, srv, job.key, job.row)
      /\ job.row # NoRow
  BY <1>1, AtNote DEF TempPhase
<1>3. job.seen.flags \in SUBSET Flag /\ job.seen.version \in Version
  BY DEF IInv, Typed, Job, ServerNote
<1>4. (IF Deferred THEN {Lock} ELSE {}) \in SUBSET Flag
      /\ (IF Deferred THEN {Lock} ELSE {}) \subseteq job.row.toggled
      /\ (IF Deferred THEN job.seen.flags \cup {Lock} ELSE job.seen.flags) \in SUBSET Flag
  BY <1>1, <1>3, Constants DEF Deferred, IInv, JobInv
<1>5. (IF job.row.dirty /\ job.changed THEN job.row.base ELSE job.seen.version) \in Version
  BY <1>2, <1>3 DEF Row
<1>6. /\ r \in Row /\ r.content = job.row.content /\ r.dirty = job.row.dirty
      /\ r.toggled \subseteq job.row.toggled
      /\ r.base = job.row.base \/ r.base = job.seen.version
  <2>1. r \in Row
    BY <1>2, <1>4, <1>5 DEF Row
  <2> QED
    BY <1>2, <1>4, <2>1 DEF Row
<1> HIDE DEF r
<1>7. AfterFlags(r) \in {"getContent", "getFlags", "archive", "next"}
      /\ (AfterFlags(r) = "getFlags" => r.toggled # {})
      /\ (AfterFlags(r) = "archive" => ~r.dirty)
  BY AfterPhases
<1>8. r.toggled \subseteq Asked(history, job.key) /\ history.asked # {}
  BY <1>1, <1>2, <1>6 DEF RowInv, IInv, JobInv, Asked
<1>9. job.seen.version <= srv[job.key].version
  BY <1>1, <1>2 DEF IInv, JobInv, SeenPhase, AnswerInv, Target
<1>10. (~r.dirty => r.content \in history.stored) /\ r.base <= srv[job.key].version
  BY <1>2, <1>6, <1>9 DEF RowInv
<1> QED
  BY <1>1, <1>6, <1>7, <1>8, <1>10, KeepProceeding DEF TempPhase

\* The row after the content has been settled holds the server's answer.
LEMMA KeepSettling ==
  ASSUME IInv, Saving, pc \in {"saveContent", "acceptServer"}, NEW r \in Row,
         r.content = job.seen.content, r.base = job.seen.version, ~r.dirty,
         r.toggled = job.row.toggled,
         Write(job.key, r, job.row), Proceed(AfterContent(r), r)
  PROVE  IInv'
<1>1. job.row \in Row /\ job.key \in Note /\ RowInv(history, srv, job.key, job.row)
      /\ job.row # NoRow
  BY AtNote DEF TempPhase
<1>2. AnswerInv(history, srv, job.key, job.seen.content, job.seen.version)
  BY DEF IInv, JobInv, SeenPhase, Target
<1>3. /\ AfterContent(r) \in {"getContent", "getFlags", "archive", "next"}
      /\ AfterContent(r) = "getFlags" => r.toggled # {}
  BY AfterPhases
<1> QED
  BY <1>1, <1>2, <1>3, KeepProceeding DEF RowInv, AnswerInv, TempPhase

LEMMA KeepSaveContent == IInv /\ SyncSaveContent => IInv'
<1> SUFFICES ASSUME IInv, SyncSaveContent PROVE IInv'
  OBVIOUS
<1> DEFINE r == [job.row EXCEPT !.content = job.seen.content, !.base = job.seen.version,
                                !.dirty = FALSE]
<1>1. pc = "saveContent" /\ Saving /\ Write(job.key, r, job.row) /\ Proceed(AfterContent(r), r)
  BY DEF SyncSaveContent
<1>2. job.row \in Row /\ job.seen.content \in Text /\ job.seen.version \in Version
  BY <1>1, AtNote DEF TempPhase, IInv, Typed, Job, ServerNote
<1>3. /\ r \in Row /\ r.content = job.seen.content /\ r.base = job.seen.version /\ ~r.dirty
      /\ r.toggled = job.row.toggled
  BY <1>2 DEF Row
<1> QED
  BY <1>1, <1>3, KeepSettling

LEMMA KeepAcceptServer == IInv /\ SyncAcceptServer => IInv'
<1> SUFFICES ASSUME IInv, SyncAcceptServer PROVE IInv'
  OBVIOUS
<1> DEFINE r == [job.row EXCEPT !.content = job.seen.content, !.flags = job.seen.flags,
                                !.base = job.seen.version, !.dirty = FALSE]
<1>1. pc = "acceptServer" /\ Saving /\ Write(job.key, r, job.row) /\ Proceed(AfterContent(r), r)
  BY DEF SyncAcceptServer
<1>2. job.row \in Row /\ job.seen.content \in Text /\ job.seen.version \in Version
      /\ job.seen.flags \in SUBSET Flag
  BY <1>1, AtNote DEF TempPhase, IInv, Typed, Job, ServerNote
<1>3. /\ r \in Row /\ r.content = job.seen.content /\ r.base = job.seen.version /\ ~r.dirty
      /\ r.toggled = job.row.toggled
  BY <1>2 DEF Row
<1> QED
  BY <1>1, <1>3, KeepSettling

LEMMA KeepAbandon == IInv /\ SyncAbandon => IInv'
<1> SUFFICES ASSUME IInv, SyncAbandon PROVE IInv'
  OBVIOUS
<1> DEFINE r == [job.row EXCEPT !.flags = @ \cup {Lock}, !.deleted = FALSE, !.archived = FALSE]
<1>1. pc = "abandon" /\ Saving /\ Write(job.key, r, job.row) /\ pc' = "next" /\ job' = NoJob
  BY DEF SyncAbandon
<1>2. job.row \in Row /\ job.key \in Note /\ job.key \in Key
      /\ RowInv(history, srv, job.key, job.row) /\ job.row # NoRow
  BY <1>1, AtNote DEF TempPhase
<1>3. job.row.flags \cup {Lock} \in SUBSET Flag
  BY <1>2, Constants DEF Row
<1>4. /\ r \in Row /\ r.content = job.row.content /\ r.dirty = job.row.dirty
      /\ r.toggled = job.row.toggled /\ r.base = job.row.base
  <2>1. r \in Row
    BY <1>2, <1>3 DEF Row
  <2> QED
    BY <1>2, <2>1 DEF Row
<1> HIDE DEF r
<1>5. r \in Rows /\ r # NoRow
  BY <1>4, Constants DEF Rows
<1>6. RowInv(history', srv', job.key, job.row)
  <2>1. history' \in History /\ srv' \in Server /\ Grows(history, history')
        /\ Evolves(history', srv, srv')
    BY <1>1, <1>2, <1>5, WhatAWriteDoes DEF Saving
  <2> QED
    BY <2>1, HeldStays
<1>7. RowInv(history', srv', job.key, r)
  BY <1>2, <1>4, <1>6 DEF RowInv
<1> QED
  BY <1>1, <1>2, <1>5, <1>7, KeepFinishing

LEMMA KeepDrop == IInv /\ SyncDrop => IInv'
<1> SUFFICES ASSUME IInv, SyncDrop PROVE IInv'
  OBVIOUS
<1>1. pc = "drop" /\ Saving /\ Write(job.key, NoRow, job.row) /\ pc' = "next" /\ job' = NoJob
  BY DEF SyncDrop
<1>2. job.key \in Key /\ NoRow \in Rows
  BY DEF IInv, Typed, Job, Rows
<1> QED
  BY <1>1, <1>2, KeepFinishing

LEMMA KeepUnkey == IInv /\ SyncUnkey => IInv'
<1> SUFFICES ASSUME IInv, SyncUnkey PROVE IInv'
  OBVIOUS
<1>1. pc = "unkey" /\ pc' = "rekey" /\ Saving /\ UNCHANGED <<job, todo, srv>>
      /\ Write(job.key, NoRow, job.row)
  BY DEF SyncUnkey, Saving
<1>2. job.key \in Key /\ job.key \in Temp /\ NoRow \in Rows /\ job \in Job
  BY <1>1 DEF IInv, JobInv, Typed, Job, Rows
<1>3. /\ \A q \in Key : cache'[q] = IF q = job.key THEN NoRow ELSE cache[q]
      /\ history' \in History /\ srv' \in Server /\ Grows(history, history')
      /\ Evolves(history', srv, srv')
  BY <1>1, <1>2, WhatAWriteDoes
<1>4. RowInv(history', srv', job'.key, job'.row) /\ RowInv(history', srv', job.key, NoRow)
  BY <1>1, <1>3, HeldStays DEF RowInv
<1>5. JobInv'
  <2>1. AnswerInv(history', srv', Target, job.seen.content, job.seen.version)
    BY <1>1, <1>3, HeldStays DEF SeenPhase
  <2>2. Target' = Target
    BY <1>1 DEF Target
  <2> QED
    BY <1>1, <1>2, <2>1, <2>2, Constants DEF IInv, JobInv, SeenPhase, TempPhase
<1>6. todo[job.key] = NoRow
  BY <1>2 DEF IInv, JobInv
<1>7. \A t \in Temp : Open(t)' => Open(t)
  BY <1>1, <1>3, <1>6 DEF Open, Key
<1>8. Stores(job.key, NoRow)
  BY <1>1, <1>2, WritesStore
<1> QED
  BY <1>1, <1>2, <1>4, <1>5, <1>7, <1>8, KeepStoring DEF Phase

LEMMA KeepRekey == IInv /\ SyncRekey => IInv'
<1> SUFFICES ASSUME IInv, SyncRekey PROVE IInv'
  OBVIOUS
<1> DEFINE r == [job.row EXCEPT !.content = job.seen.content, !.base = job.seen.version,
                                !.dirty = FALSE,
                                !.flags = IF job.row.toggled = {} THEN job.seen.flags ELSE @]
           j == [NoJob EXCEPT !.key = job.id, !.row = r, !.unlocks = job.unlocks]
           own == {<<job.id, f>> : f \in {g \in Flag : <<job.key, g>> \in history.asked}}
<1>1. /\ pc = "rekey" /\ Saving /\ cache' = [cache EXCEPT ![job.id] = r]
      /\ history' = [history EXCEPT !.overlap = @ \/ cache[job.id] # NoRow,
                                    !.met = @ \cup {r.content}, !.asked = @ \cup own]
      /\ pc' = AfterContent(r) /\ job' = IF pc' = "next" THEN NoJob ELSE j
  BY DEF SyncRekey
<1>2. job.row \in Row /\ job.seen.content \in Text /\ job.seen.version \in Version
      /\ job.seen.flags \in SUBSET Flag /\ job.id \in Note /\ job.id \in Key
      /\ job.unlocks \in BOOLEAN
  BY <1>1 DEF IInv, Typed, Job, ServerNote, JobInv, Rows, Key
<1>3. (IF job.row.toggled = {} THEN job.seen.flags ELSE job.row.flags) \in SUBSET Flag
  BY <1>2 DEF Row
<1>4. /\ r \in Row /\ r.content = job.seen.content /\ r.base = job.seen.version /\ ~r.dirty
      /\ r.toggled = job.row.toggled
  <2>1. r \in Row
    BY <1>2, <1>3 DEF Row
  <2> QED
    BY <1>2, <2>1 DEF Row
<1> HIDE DEF r
<1>5. r \in Rows /\ r # NoRow
  BY <1>4, Constants DEF Rows
<1>6. j \in Job /\ j.key = job.id /\ j.row = r
  BY <1>2, <1>5, NoJobIsJob DEF Job
<1> HIDE DEF j
<1>7. AfterContent(r) \in {"getFlags", "archive", "next"}
      /\ (AfterContent(r) = "getFlags" => r.toggled # {})
  BY AfterPhases
<1>8. own \subseteq Key \X Flag /\ \A f \in Asked(history, job.key) : <<job.id, f>> \in own
  <2>1. ASSUME NEW x \in own PROVE x \in Key \X Flag
    <3>1. PICK f \in Flag : x = <<job.id, f>>
      OBVIOUS
    <3> QED
      BY <1>2, <3>1
  <2>2. \A f \in Asked(history, job.key) : <<job.id, f>> \in own
    BY DEF Asked
  <2> QED
    BY <2>1, <2>2
<1> HIDE DEF own
<1>9. /\ Stores(job.id, r) /\ r.content \in history'.met /\ srv' = srv /\ srv' \in Server
      /\ Evolves(history', srv, srv') /\ todo' = todo
      /\ Asked(history, job.key) \subseteq Asked(history', job.id)
  <2>1. r.content \in Text
    BY <1>4 DEF Row
  <2>2. /\ history' \in History /\ Grows(history, history') /\ r.content \in history'.met
        /\ history'.made = history.made /\ history'.stored = history.stored
        /\ history'.asked = history.asked \cup own
    BY <1>1, <1>8, <2>1 DEF IInv, Typed, History, Grows
  <2>3. srv' = srv /\ srv' \in Server /\ todo' = todo
    BY <1>1 DEF Saving, IInv, Typed
  <2>4. Evolves(history', srv, srv')
    BY <2>2, <2>3, NothingMoves DEF Evolves, Grows
  <2>5. cache' \in [Key -> Rows] /\ \A q \in Key : cache'[q] = IF q = job.id THEN r ELSE cache[q]
    BY <1>1, <1>2, <1>5 DEF IInv, Typed
  <2>6. Asked(history, job.key) \subseteq Asked(history', job.id)
    BY <1>8, <2>2 DEF Asked
  <2> QED
    BY <2>2, <2>3, <2>4, <2>5, <2>6 DEF Stores
<1>10. RowInv(history', srv', job.id, r)
  <2>1. AnswerInv(history', srv', job.id, job.seen.content, job.seen.version)
    BY <1>1, <1>9, HeldStays DEF SeenPhase, Target, Stores
  <2>2. job.row.toggled \subseteq Asked(history', job.id)
    BY <1>1, <1>9 DEF IInv, RowsInv, RowInv, JobInv
  <2> QED
    BY <1>4, <1>9, <2>1, <2>2 DEF RowInv, AnswerInv
<1>11. RowInv(history', srv', job'.key, job'.row)
  BY <1>1, <1>6, <1>10, NoJobIsJob DEF RowInv
<1>12. JobInv'
  BY <1>1, <1>2, <1>4, <1>5, <1>6, <1>7, NoJobIsJob, Constants DEF JobInv, SeenPhase
<1>13. \A t \in Temp : Open(t)' => Open(t)
  BY <1>1, <1>2, <1>6, <1>7, <1>9, NoJobIsJob, Constants DEF Open, Key, Stores
<1>14. job' \in Job /\ pc' \in Phase
  BY <1>1, <1>6, <1>7, NoJobIsJob DEF Phase
<1> QED
  BY <1>1, <1>2, <1>5, <1>9, <1>10, <1>11, <1>12, <1>13, <1>14,
     KeepStoring

-----------------------------------------------------------------------------
LEMMA StepIInv == IInv /\ [Next]_vars => IInv'
<1> SUFFICES ASSUME IInv, [Next]_vars PROVE IInv'
  OBVIOUS
<1>1. CASE Sync
  BY <1>1, KeepBegin, KeepEnd, KeepNextNote, KeepCreate, KeepUnkey, KeepRekey, KeepGetFlags,
     KeepToggle, KeepSaveFlags, KeepGetContent, KeepCopy, KeepPut, KeepSaveContent,
     KeepAcceptServer, KeepArchive, KeepDelete, KeepUnlock, KeepDeleteAgain, KeepAbandon,
     KeepDrop DEF Sync
<1>2. CASE User
  BY <1>2, KeepEdit, KeepCreateOffline, KeepMarkRead, KeepMarkWrite DEF User
<1>3. CASE Refresh
  BY <1>3, KeepListCache, KeepEvictDelete, KeepListFetch, KeepEvictRead DEF Refresh
<1>4. CASE Others
  BY <1>4, KeepRemoteEdit, KeepRemoteFlag, KeepRemoteMove DEF Others
<1>5. CASE NetworkError \/ TabClosed
  BY <1>5, KeepFaults
<1>6. CASE UNCHANGED vars
  BY <1>6 DEF vars, IInv, Typed, RowsInv, SrvInv, JobInv, MarkInv, RefreshInv, MadeInv, Open,
     Target
<1> QED
  BY <1>1, <1>2, <1>3, <1>4, <1>5, <1>6 DEF Next

LEMMA SpecIInv == Spec => []IInv
  BY InitIInv, StepIInv, PTL DEF Spec

-----------------------------------------------------------------------------
(* What a step may do to a text that is still queued, and to flags.        *)

\* A write by someone who was right about what the store held unqueues a text
\* only if it takes away the row that held it or puts another one there.
LEMMA WhatAWriteUnqueues ==
  ASSUME IInv, UNCHANGED srv, NEW k \in Key, NEW r \in Rows, NEW b, Write(k, r, b),
         NEW c \in Mine, Pending(c), ~Pending(c)', ~history'.overlap
  PROVE  /\ b # NoRow /\ ~b.deleted /\ b.content = c /\ (k \in Temp \/ b.dirty)
         /\ cache[k] = b
         /\ r = NoRow \/ r.deleted \/ r.content # c \/ (b.dirty /\ ~r.dirty)
<1>1. \A q \in Key : cache'[q] = IF q = k THEN r ELSE cache[q]
  BY WhatAWriteDoes
<1>2. cache[k] = b
  BY WhatAWriteDoes
<1>3. PICK q \in Key : /\ cache[q] # NoRow /\ ~cache[q].deleted
                       /\ q \in Temp \/ cache[q].dirty
                       /\ cache[q].content = c
  BY DEF Pending, Present
<1>4. \A x \in Key : cache'[x] # NoRow /\ ~cache'[x].deleted /\ (x \in Temp \/ cache'[x].dirty)
        => cache'[x].content # c
  BY DEF Pending, Present
<1>5. q = k
  BY <1>1, <1>3, <1>4
<1> QED
  BY <1>1, <1>2, <1>3, <1>4, <1>5

LEMMA UserUnqueues ==
  ASSUME IInv, User PROVE UsersDoing
<1>1. ASSUME NEW k \in Key, NEW c \in Mine, Edit(k, c) PROVE UsersDoing
  <2>1. history'.written = history.written \cup {c} /\ c \notin history.written
    BY <1>1 DEF Edit, IInv, Typed, History
  <2> QED
    BY <2>1 DEF UsersDoing
<1>2. ASSUME NEW t \in Temp, NEW c \in Mine, CreateOffline(t, c) PROVE UsersDoing
  <2>1. history'.written = history.written \cup {c} /\ c \notin history.written
    BY <1>2 DEF CreateOffline, IInv, Typed, History
  <2> QED
    BY <2>1 DEF UsersDoing
<1>3. ASSUME NEW k \in Key, NEW op \in Action, NEW note \in Held(k), MarkRead(k, op, note)
      PROVE  UsersDoing
  <2>1. mark'.seen # NoMark.seen \/ mark'.row # NoMark.row
    BY <1>3, MarkReadDoes, NoMarkIsMark, Constants
  <2> QED
    BY <1>3, <2>1 DEF UsersDoing, MarkRead
<1>4. ASSUME MarkWrite PROVE UsersDoing
  BY <1>4 DEF MarkWrite, UsersDoing
<1> QED
  BY <1>1, <1>2, <1>3, <1>4 DEF User

\* The refresh touches only rows of listed notes with nothing queued.
LEMMA RefreshUnqueues ==
  ASSUME IInv, Refresh, NEW c \in Mine, Pending(c), ~Pending(c)' PROVE history'.overlap
<1>1. cache' # cache
  BY DEF Pending, Present
<1>2. CASE ListCache
  <2> DEFINE n == refresh.key
  <2>1. n \in Note /\ n \in Key /\ n \notin Temp
    BY Constants DEF IInv, Typed, Listed, Key
  <2>2. /\ ~(cache[n] # NoRow /\ cache[n].dirty)
        /\ cache' = [cache EXCEPT ![n] = refresh.row]
    BY <1>1, <1>2 DEF ListCache, Present, Queued
  <2>3. \A q \in Key : q # n => cache'[q] = cache[q]
    BY <2>2 DEF IInv, Typed
  <2> QED
    BY <2>1, <2>2, <2>3 DEF Pending, Present
<1>3. CASE EvictDelete
  <2>1. refresh.key \in Note /\ refresh.key \in Key /\ refresh.key \notin Temp /\ NoRow \in Rows
    BY Constants DEF IInv, Typed, Listed, Key, Rows
  <2>2. ~refresh.row.dirty /\ Write(refresh.key, NoRow, refresh.row) /\ UNCHANGED srv
    BY <1>3 DEF EvictDelete, IInv, RefreshInv
  <2> QED
    BY <2>1, <2>2, WhatAWriteUnqueues
<1>4. ASSUME NEW n \in Note, ListFetch(n) \/ EvictRead(n) PROVE FALSE
  BY <1>1, <1>4 DEF ListFetch, EvictRead
<1> QED
  BY <1>2, <1>3, <1>4 DEF Refresh

\* The replay unqueues a text that the server has held, or that of a note which
\* it found outside the list.
LEMMA SyncUnqueues ==
  ASSUME IInv, Sync, NEW c \in Mine, Pending(c), ~Pending(c)', ~history'.overlap
  PROVE  \/ c \in history'.stored
         \/ \E n \in history.moved : Present(n) /\ cache[n].content = c
<1>1. cache' # cache
  BY DEF Pending, Present
<1>2. job.key \in Key /\ NoRow \in Rows /\ Temp \cap Note = {}
  BY Constants DEF IInv, Typed, Job, Rows
<1>3. CASE SyncUnkey
  <2>1. Write(job.key, NoRow, job.row) /\ UNCHANGED srv /\ job.row.content \in history.stored
    BY <1>3 DEF SyncUnkey, Saving, IInv, JobInv
  <2> QED
    BY <1>2, <2>1, WhatAWriteUnqueues, WhatAWriteDoes
<1>4. CASE SyncRekey
  <2> DEFINE r == [job.row EXCEPT !.content = job.seen.content, !.base = job.seen.version,
                                  !.dirty = FALSE,
                                  !.flags = IF job.row.toggled = {} THEN job.seen.flags ELSE @]
  <2>1. cache' = [cache EXCEPT ![job.id] = r]
        /\ history' = [history EXCEPT !.overlap = @ \/ cache[job.id] # NoRow,
                                      !.met = history'.met, !.asked = history'.asked]
    BY <1>4 DEF SyncRekey, IInv, Typed, History
  <2> HIDE DEF r
  <2>2. cache[job.id] = NoRow
    BY <2>1 DEF IInv, Typed, History
  <2>3. \A q \in Key : q # job.id => cache'[q] = cache[q]
    BY <2>1 DEF IInv, Typed
  <2> QED
    BY <2>2, <2>3 DEF Pending, Present
<1>5. CASE SyncSaveFlags
  <2>1. \E x : Write(job.key, x, job.row) /\ x.content = job.row.content
               /\ x.dirty = job.row.dirty /\ x.deleted = job.row.deleted /\ x \in Row
    <3> DEFINE x == [job.row EXCEPT
                   !.flags = IF Deferred THEN job.seen.flags \cup {Lock} ELSE job.seen.flags,
                   !.toggled = IF Deferred THEN {Lock} ELSE {},
                   !.base = IF job.row.dirty /\ job.changed THEN @ ELSE job.seen.version]
    <3>1. pc = "toggle" /\ Write(job.key, x, job.row)
      BY <1>5 DEF SyncSaveFlags
    <3>2. job.row \in Row /\ job.seen \in ServerNote
      BY <3>1, AtNote DEF TempPhase, IInv, Typed, Job
    <3>3. (IF Deferred THEN {Lock} ELSE {}) \in SUBSET Flag
          /\ (IF Deferred THEN job.seen.flags \cup {Lock} ELSE job.seen.flags) \in SUBSET Flag
          /\ (IF job.row.dirty /\ job.changed THEN job.row.base ELSE job.seen.version) \in Version
      BY <3>2, Constants DEF Row, ServerNote
    <3>4. x \in Row
      BY <3>2, <3>3 DEF Row
    <3>5. x.content = job.row.content /\ x.dirty = job.row.dirty /\ x.deleted = job.row.deleted
      BY <3>2 DEF Row
    <3> QED
      BY <3>1, <3>4, <3>5
  <2>2. PICK x : Write(job.key, x, job.row) /\ x.content = job.row.content
               /\ x.dirty = job.row.dirty /\ x.deleted = job.row.deleted /\ x \in Row
    BY <2>1
  <2>3. UNCHANGED srv /\ x \in Rows /\ x # NoRow
    BY <1>5, <2>2, Constants DEF SyncSaveFlags, Saving, Rows
  <2> QED
    BY <1>2, <2>2, <2>3, WhatAWriteUnqueues
<1>6. CASE SyncSaveContent \/ SyncAcceptServer
  <2>1. \E x \in Rows : Write(job.key, x, job.row)
    <3>1. job.row \in Row /\ job.seen \in ServerNote
      BY <1>6, AtNote DEF SyncSaveContent, SyncAcceptServer, TempPhase, IInv, Typed, Job
    <3>2. [job.row EXCEPT !.content = job.seen.content, !.base = job.seen.version,
                          !.dirty = FALSE] \in Rows
      BY <3>1 DEF Row, Rows, ServerNote
    <3>3. [job.row EXCEPT !.content = job.seen.content, !.flags = job.seen.flags,
                          !.base = job.seen.version, !.dirty = FALSE] \in Rows
      BY <3>1 DEF Row, Rows, ServerNote
    <3> QED
      BY <1>6, <3>2, <3>3 DEF SyncSaveContent, SyncAcceptServer
  <2>2. UNCHANGED srv /\ job.row.content \in history.stored
    BY <1>6 DEF SyncSaveContent, SyncAcceptServer, Saving, IInv, JobInv
  <2> QED
    BY <1>2, <2>1, <2>2, WhatAWriteUnqueues, WhatAWriteDoes
<1>7. CASE SyncAbandon
  <2> DEFINE x == [job.row EXCEPT !.flags = @ \cup {Lock}, !.deleted = FALSE,
                                  !.archived = FALSE]
  <2>1. pc = "abandon" /\ Write(job.key, x, job.row) /\ UNCHANGED srv
    BY <1>7 DEF SyncAbandon, Saving
  <2>2. job.row \in Row
    BY <2>1, AtNote DEF TempPhase
  <2>3. job.row.flags \cup {Lock} \in SUBSET Flag
    BY <2>2, Constants DEF Row
  <2>4. x \in Row
    BY <2>2, <2>3 DEF Row
  <2>5. x.content = job.row.content /\ x.dirty = job.row.dirty /\ ~x.deleted
    BY <2>2 DEF Row
  <2> HIDE DEF x
  <2>6. x \in Rows /\ x # NoRow
    BY <2>4, Constants DEF Rows
  <2> QED
    BY <1>2, <2>1, <2>5, <2>6, WhatAWriteUnqueues
<1>8. CASE SyncDrop
  <2>1. pc = "drop" /\ Write(job.key, NoRow, job.row) /\ UNCHANGED srv
    BY <1>8 DEF SyncDrop, Saving
  <2>2. job.row # NoRow /\ ~job.row.deleted /\ job.row.content = c
        /\ (job.key \in Temp \/ job.row.dirty) /\ cache[job.key] = job.row
    BY <1>2, <2>1, WhatAWriteUnqueues
  <2>3. job.key \in history.moved
    BY <1>2, <2>1, <2>2 DEF IInv, JobInv
  <2> QED
    BY <2>2, <2>3 DEF Present
<1>9. CASE Begin \/ End \/ \E k \in Key : NextNote(k)
  BY <1>1, <1>9 DEF Begin, End, NextNote
<1>10. CASE \/ SyncCreate \/ SyncGetFlags \/ (\E f \in Flag : SyncToggle(f))
            \/ SyncGetContent \/ SyncCopy \/ (\E v \in Version : SyncPut(v))
            \/ SyncArchive \/ SyncDelete \/ SyncUnlock \/ SyncDeleteAgain
  BY <1>1, <1>10 DEF SyncCreate, SyncGetFlags, SyncToggle, SyncGetContent, SyncCopy, SyncPut,
     SyncArchive, SyncDelete, SyncUnlock, SyncDeleteAgain, Asking
<1> QED
  BY <1>3, <1>4, <1>5, <1>6, <1>7, <1>8, <1>9, <1>10 DEF Sync

\* Which flags the server's notes may lose or gain in a step of the replay.
LEMMA FlagsAreAsked ==
  ASSUME IInv, Next, spent'.remote = spent.remote, NEW n \in Note,
         NEW f \in Flag, (f \in srv'[n].flags) # (f \in srv[n].flags)
  PROVE  <<n, f>> \in history.asked
<1>1. srv' # srv /\ srv \in Server /\ srv[n] \in ServerNote
  BY DEF IInv, Typed, Server
<1>2. ASSUME SyncCreate PROVE FALSE
  <2> DEFINE m == CHOOSE x \in Unused : TRUE
             s == [Unseen EXCEPT !.where = "list", !.content = job.row.content]
  <2>1. m \in Note /\ srv[m] = Unseen
    BY <1>2 DEF SyncCreate, Unused, IInv, SrvInv
  <2>2. srv' = [srv EXCEPT ![m] = s]
    BY <1>2 DEF SyncCreate
  <2>3. s.flags = Unseen.flags
    BY DEF Unseen
  <2> HIDE DEF m, s
  <2>4. srv'[n].flags = srv[n].flags
    BY <1>1, <2>1, <2>2, <2>3 DEF Server
  <2> QED
    BY <2>4
<1>3. ASSUME NEW g \in Flag, SyncToggle(g) PROVE <<n, f>> \in history.asked
  <2> DEFINE s == [srv[job.key] EXCEPT !.flags = Flip(@, g)]
  <2>1. pc = "toggle" /\ g \in job.left
    BY <1>3 DEF SyncToggle
  <2>2. <<job.key, g>> \in history.asked /\ srv[job.key] \in ServerNote
    BY <2>1, AtNote DEF IInv, JobInv, RowInv, Asked, TempPhase
  <2>3. srv' = srv \/ srv' = [srv EXCEPT ![job.key] = s]
    BY <1>3 DEF SyncToggle
  <2>4. s.flags = Flip(srv[job.key].flags, g)
    BY <2>2 DEF ServerNote
  <2> HIDE DEF s
  <2>5. srv'[n] = srv[n] \/ (n = job.key /\ srv'[n] = s)
    BY <1>1, <2>3 DEF Server
  <2> QED
    BY <2>2, <2>4, <2>5 DEF Flip
<1>4. ASSUME NEW v \in Version, SyncPut(v) PROVE FALSE
  <2>1. \/ srv' = srv
        \/ srv' = [srv EXCEPT ![job.key] = [srv[job.key] EXCEPT !.content = job.row.content,
                                                                !.version = v]]
    BY <1>4 DEF SyncPut
  <2>2. srv[job.key] \in ServerNote /\ job.key \in Note
    BY <1>4, AtNote DEF SyncPut, TempPhase
  <2>3. [srv[job.key] EXCEPT !.content = job.row.content, !.version = v].flags
          = srv[job.key].flags
    BY <2>2 DEF ServerNote
  <2>4. srv'[n].flags = srv[n].flags
    BY <1>1, <2>1, <2>2, <2>3 DEF Server
  <2> QED
    BY <2>4
<1>5. ASSUME SyncUnlock PROVE <<n, f>> \in history.asked
  <2> DEFINE s == [srv[job.key] EXCEPT !.flags = Flip(@, Lock)]
  <2>1. pc = "unlock"
    BY <1>5 DEF SyncUnlock
  <2>2. <<job.key, Lock>> \in history.asked /\ srv[job.key] \in ServerNote
    BY <2>1, AtNote DEF IInv, JobInv, RowInv, Asked, TempPhase
  <2>3. srv' = srv \/ srv' = [srv EXCEPT ![job.key] = s]
    BY <1>5 DEF SyncUnlock
  <2>4. s.flags = Flip(srv[job.key].flags, Lock)
    BY <2>2 DEF ServerNote
  <2> HIDE DEF s
  <2>5. srv'[n] = srv[n] \/ (n = job.key /\ srv'[n] = s)
    BY <1>1, <2>3 DEF Server
  <2> QED
    BY <2>2, <2>4, <2>5 DEF Flip
<1>6. CASE SyncDeleteAgain
  <2>1. \/ srv' = srv
        \/ srv' = [srv EXCEPT ![job.key] = [srv[job.key] EXCEPT !.where = "trash"]]
    BY <1>6 DEF SyncDeleteAgain
  <2>2. srv'[n].flags = srv[n].flags
    BY <1>1, <2>1 DEF Server, ServerNote
  <2> QED
    BY <2>2
<1>7. CASE Begin \/ End \/ \E k \in Key : NextNote(k)
  BY <1>1, <1>7 DEF Begin, End, NextNote
<1>8. CASE SyncUnkey \/ SyncRekey \/ SyncSaveFlags \/ SyncSaveContent \/ SyncAcceptServer
           \/ SyncAbandon \/ SyncDrop
  BY <1>1, <1>8 DEF SyncUnkey, SyncRekey, SyncSaveFlags, SyncSaveContent, SyncAcceptServer,
     SyncAbandon, SyncDrop, Saving
<1>9. ASSUME SyncGetFlags \/ SyncGetContent \/ SyncCopy PROVE FALSE
  BY <1>1, <1>9 DEF SyncGetFlags, SyncGetContent, SyncCopy
<1>10. ASSUME NEW w, srv' = srv \/ srv' = [srv EXCEPT ![job.key].where = w] PROVE FALSE
  <2>1. srv'[n].flags = srv[n].flags
    BY <1>1, <1>10 DEF Server, ServerNote
  <2> QED
    BY <2>1
<1>11. ASSUME SyncArchive \/ SyncDelete PROVE FALSE
  BY <1>10, <1>11 DEF SyncArchive, SyncDelete
<1>12. CASE User
  BY <1>1, <1>12 DEF User, Edit, CreateOffline, MarkRead, MarkWrite
<1>13. CASE Refresh
  BY <1>1, <1>13 DEF Refresh, ListCache, EvictDelete, ListFetch, EvictRead
<1>14. ASSUME Others PROVE FALSE
  <2>1. PICK m \in Note : Elsewhere(m)
    BY <1>14 DEF Others, RemoteEdit, RemoteFlag, RemoteMove
  <2> QED
    BY <2>1, Constants DEF Elsewhere, IInv, Typed, Spent
<1>15. CASE NetworkError \/ TabClosed
  BY <1>1, <1>15 DEF NetworkError, TabClosed
<1> QED
  BY <1>2, <1>3, <1>4, <1>5, <1>6, <1>7, <1>8, <1>9, <1>12, <1>13, <1>14, <1>15,
     <1>11 DEF Next, Sync

-----------------------------------------------------------------------------
(* The theorems.                                                           *)

\* Every variable keeps its type, and no request carries a temporary id.
THEOREM TypeCorrect == Spec => []TypeOK
<1>1. IInv => TypeOK
  BY TypedIsTypeOK DEF IInv
<1> QED
  BY <1>1, SpecIInv, PTL

\* Whatever overlaps, fails or is answered late, a row that is shown as synced
\* holds a text the server has held.
THEOREM CleanRowsAreAlwaysStored == Spec => []CleanRowsAreStored
<1>1. IInv => CleanRowsAreStored
  BY DEF IInv, RowsInv, RowInv, CleanRowsAreStored, Present
<1> QED
  BY <1>1, SpecIInv, PTL

\* A note born offline is created once, and once more only after a fault: the
\* row is gone from the store before anything that may fail comes after the
\* create, and the snapshot of a run holds it at most once.
THEOREM NotesAreCreatedOnce == Spec => []CreatedOnce
<1>1. IInv => CreatedOnce
  BY DEF IInv, MadeInv, CreatedOnce
<1> QED
  BY <1>1, SpecIInv, PTL

\* No fault, closed tab, lock or concurrent edit makes the replay or the refresh
\* forget a text written here that the server has not held: the content phases
\* end in a save or a conflict copy before the row is written as clean.
THEOREM NoWorkIsLost == Spec => WorkIsKept
<1> DEFINE Step == \A c \in Mine : Pending(c) /\ ~Pending(c)' =>
                     \/ c \in history'.stored \/ UsersDoing
                     \/ history'.overlap
                     \/ \E n \in history.moved : Present(n) /\ cache[n].content = c
<1>1. IInv /\ [Next]_vars => [Step]_vars
  <2> SUFFICES ASSUME IInv, Next, NEW c \in Mine, Pending(c), ~Pending(c)',
                      ~UsersDoing, ~history'.overlap
               PROVE  \/ c \in history'.stored
                      \/ \E n \in history.moved : Present(n) /\ cache[n].content = c
    BY DEF vars
  <2>1. cache' # cache
    BY DEF Pending, Present
  <2>2. CASE Others \/ NetworkError \/ TabClosed
    BY <2>1, <2>2 DEF Others, RemoteEdit, RemoteFlag, RemoteMove, Elsewhere, NetworkError,
       TabClosed
  <2> QED
    BY <2>2, UserUnqueues, RefreshUnqueues, SyncUnqueues DEF Next
<1> QED
  BY <1>1, SpecIInv, PTL DEF Spec, WorkIsKept

\* While no flag has been toggled offline, the PUT of the replay overwrites a
\* text of another device only if this device has shown it, a conflict copy
\* holds it, or it came too late or too close to be seen: a row whose baseline
\* is the server's version has shown the server's text.
THEOREM NoRemoteWorkIsLost == Spec => RemoteWorkIsKept
<1> DEFINE Step == \A n \in Note : Overwrites(n) => Noticed(n) \/ history.asked # {}
<1>1. IInv => Step
  BY DEF IInv, JobInv, Overwrites, Noticed
<1> QED
  BY <1>1, SpecIInv, PTL DEF Spec, RemoteWorkIsKept

\* The replay sends a toggle, or takes a lock off before a delete, only for a
\* flag in the flags_toggled of that note, and only a user's action on the note
\* puts one there, in every copy of its row that the replay, a queued action or
\* the store holds.
THEOREM FlagsAreOnlyAskedFor == Spec => OnlyAskedFlags
<1> DEFINE Step == \A n \in Note : \A f \in Flag :
                     (f \in srv'[n].flags) # (f \in srv[n].flags) =>
                       spent'.remote # spent.remote \/ <<n, f>> \in history.asked
<1>1. IInv /\ [Next]_vars => [Step]_vars
  BY FlagsAreAsked
<1> QED
  BY <1>1, SpecIInv, PTL DEF Spec, OnlyAskedFlags
=============================================================================
