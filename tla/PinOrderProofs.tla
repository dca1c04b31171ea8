---------------------------- MODULE PinOrderProofs ----------------------------
(***************************************************************************)
(* Theorems about PinOrder for every set of notes, any requests and drags  *)
(* of any length: the slots tell the notes with a place apart, and what    *)
(* the requests do to them is what PinList promises of the order.          *)
(***************************************************************************)
EXTENDS PinOrder, FiniteSetTheorems, SequenceTheorems, TLAPS

-----------------------------------------------------------------------------
(* Smallest elements, and ranks in a finite order.                         *)

LEMMA SmallestOfNat ==
  ASSUME NEW S \in SUBSET Nat, S # {}
  PROVE  \E s \in S : \A o \in S : s <= o
<1> DEFINE T == {0 .. s : s \in S}
           R == StrictSubsetOrdering(Nat)
<1>1. T # {} /\ T \subseteq FiniteSubsetsOf(Nat)
  <2>1. \A s \in S : 0 .. s \in SUBSET Nat /\ IsFiniteSet(0 .. s)
    BY FS_Interval
  <2>2. PICK s \in S : TRUE
    OBVIOUS
  <2>3. 0 .. s \in T
    BY <2>2
  <2> QED
    BY <2>1, <2>3 DEF FiniteSubsetsOf
<1> HIDE DEF T
<1>2. PICK x \in T : \A y \in T : <<y, x>> \notin R
  BY <1>1, FS_StrictSubsetOrderingWellFounded, WFMin
<1>3. PICK s \in S : x = 0 .. s
  BY DEF T
<1>4. ASSUME NEW o \in S, o < s PROVE FALSE
  <2> DEFINE y == 0 .. o
  <2>1. y \in SUBSET Nat /\ x \in SUBSET Nat /\ y \subseteq x /\ s \in x /\ s \notin y
    BY <1>3, <1>4
  <2>2. y \in T
    BY DEF T
  <2> HIDE DEF y
  <2>3. <<y, x>> \in R
    BY <2>1 DEF StrictSubsetOrdering
  <2> QED
    BY <1>2, <2>2, <2>3
<1>5. \A o \in S : s <= o
  BY <1>4
<1> QED
  BY <1>5

LEMMA SmallestOfInt ==
  ASSUME NEW S \in SUBSET Int, S # {}, NEW d \in Nat, \A s \in S : s >= -d
  PROVE  \E s \in S : \A o \in S : s <= o
<1> DEFINE N == {s + d : s \in S}
<1>1. N \in SUBSET Nat /\ N # {}
  <2>1. \A s \in S : s + d \in Nat
    OBVIOUS
  <2>2. PICK s \in S : TRUE
    OBVIOUS
  <2>3. s + d \in N
    BY <2>2
  <2> QED
    BY <2>1, <2>3
<1>2. PICK n \in N : \A o \in N : n <= o
  <2> HIDE DEF N
  <2> QED
    BY <1>1, SmallestOfNat
<1>3. PICK s \in S : n = s + d
  BY <1>2
<1>4. ASSUME NEW o \in S PROVE s <= o
  <2>1. n <= o + d
    BY <1>2
  <2> QED
    BY <1>3, <2>1
<1> QED
  BY <1>3, <1>4

\* R is a strict order of the finite set S: an element is ranked by how many are
\* before it.
Orders(R, S) ==
  /\ \A m \in S : <<m, m>> \notin R
  /\ \A m, n \in S : m # n => <<m, n>> \in R \/ <<n, m>> \in R
  /\ \A k, m, n \in S : <<k, m>> \in R /\ <<m, n>> \in R => <<k, n>> \in R
Before(R, S, n) == {m \in S \ {n} : <<m, n>> \in R}
Rank(R, S, n) == Cardinality(Before(R, S, n))

LEMMA RankIsBounded ==
  ASSUME NEW S, IsFiniteSet(S), NEW R, NEW n \in S
  PROVE  IsFiniteSet(Before(R, S, n)) /\ Rank(R, S, n) \in 0 .. Cardinality(S) - 1
<1>1. IsFiniteSet(S \ {n}) /\ Cardinality(S \ {n}) = Cardinality(S) - 1
  BY FS_RemoveElement
<1>2. Before(R, S, n) \subseteq S \ {n}
  BY DEF Before
<1>3. IsFiniteSet(Before(R, S, n)) /\ Cardinality(Before(R, S, n)) <= Cardinality(S \ {n})
  BY <1>1, <1>2, FS_Subset
<1> QED
  BY <1>1, <1>3, FS_CardinalityType DEF Rank

LEMMA RankGrows ==
  ASSUME NEW S, IsFiniteSet(S), NEW R, Orders(R, S), NEW m \in S, NEW n \in S, <<m, n>> \in R
  PROVE  Rank(R, S, m) < Rank(R, S, n)
<1> DEFINE M == Before(R, S, m)
           N == Before(R, S, n)
<1>1. IsFiniteSet(M) /\ IsFiniteSet(N)
  BY RankIsBounded
<1>2. M \cup {m} \subseteq N /\ m \notin M
  BY DEF Before, Orders
<1> HIDE DEF M, N
<1>3. IsFiniteSet(M \cup {m}) /\ Cardinality(M \cup {m}) = Cardinality(M) + 1
  BY <1>1, <1>2, FS_AddElement
<1>4. Cardinality(M \cup {m}) <= Cardinality(N)
  BY <1>1, <1>2, FS_Subset
<1>5. Cardinality(M) \in Nat /\ Cardinality(N) \in Nat
  BY <1>1, FS_CardinalityType
<1>6. Cardinality(M) < Cardinality(N)
  BY <1>3, <1>4, <1>5
<1> QED
  BY <1>6 DEF Rank, M, N

LEMMA RanksAreTheOrder ==
  ASSUME NEW S, IsFiniteSet(S), NEW R, Orders(R, S), NEW m \in S, NEW n \in S, m # n
  PROVE  /\ Rank(R, S, m) < Rank(R, S, n) <=> <<m, n>> \in R
         /\ Rank(R, S, m) # Rank(R, S, n)
<1>1. Rank(R, S, m) \in Int /\ Rank(R, S, n) \in Int
  BY RankIsBounded, FS_CardinalityType
<1>2. <<m, n>> \in R => Rank(R, S, m) < Rank(R, S, n)
  BY RankGrows
<1>3. <<n, m>> \in R => Rank(R, S, n) < Rank(R, S, m)
  BY RankGrows
<1>4. <<m, n>> \in R \/ <<n, m>> \in R
  BY DEF Orders
<1> QED
  BY <1>1, <1>2, <1>3, <1>4

-----------------------------------------------------------------------------
(* The slots.                                                              *)

LEMMA SlotsAreBounded ==
  ASSUME PinsTypeOK
  PROVE  /\ Cardinality(Note) \in Nat /\ Depth \in Nat
         /\ \A n \in Note : /\ note[n] \in NoteRow
                            /\ note[n].slot \in Int
                            /\ -Depth <= note[n].slot /\ note[n].slot <= Cardinality(Note)
<1>1. Cardinality(Note) \in Nat /\ Depth \in Nat
  BY PinOrderAssumption, FS_CardinalityType
<1> QED
  BY <1>1 DEF PinsTypeOK

\* Pinning goes above every other pinned note, those in the trash included.
LEMMA TopSlotIsOnTop ==
  ASSUME PinsTypeOK, NEW n \in Note
  PROVE  /\ TopSlot(n) \in Int /\ TopSlot(n) <= Cardinality(Note)
         /\ \A m \in Pinned \ {n} : TopSlot(n) < note[m].slot
<1> DEFINE others == {note[m].slot : m \in Pinned \ {n}}
           least == CHOOSE s \in others : \A o \in others : s <= o
<1>1. TopSlot(n) = IF others = {} THEN 0 ELSE least - 1
  BY DEF TopSlot
<1>2. /\ others \in SUBSET Int
      /\ \A s \in others : s >= -Depth /\ s <= Cardinality(Note)
      /\ \A m \in Pinned \ {n} : note[m].slot \in others
  BY SlotsAreBounded DEF Pinned
<1>3. Cardinality(Note) \in Nat /\ Depth \in Nat
  BY SlotsAreBounded
<1> HIDE DEF others
<1>4. CASE others = {}
  BY <1>1, <1>2, <1>3, <1>4
<1>5. CASE others # {}
  <2>1. \E s \in others : \A o \in others : s <= o
    BY <1>2, <1>3, <1>5, SmallestOfInt
  <2>2. least \in others /\ \A o \in others : least <= o
    BY <2>1
  <2> HIDE DEF least
  <2>3. TopSlot(n) = least - 1 /\ least \in Int /\ least <= Cardinality(Note)
    BY <1>1, <1>2, <1>5, <2>2
  <2>4. ASSUME NEW m \in Pinned \ {n} PROVE least <= note[m].slot /\ note[m].slot \in Int
    BY <1>2, <2>2
  <2> QED
    BY <1>3, <2>3, <2>4
<1> QED
  BY <1>4, <1>5

\* Where a drag asks for a note: at its first occurrence, or behind all.
LEMMA AskedIsFirst ==
  ASSUME NEW ids \in Seq(Note), NEW n \in Note
  PROVE  /\ Asked(ids, n) \in Nat /\ Len(ids) \in Nat
         /\ \/ /\ Asked(ids, n) \in 1 .. Len(ids)
               /\ ids[Asked(ids, n)] = n
               /\ \A j \in 1 .. Len(ids) : ids[j] = n => Asked(ids, n) <= j
            \/ /\ Asked(ids, n) = Len(ids) + 1
               /\ \A j \in 1 .. Len(ids) : ids[j] # n
<1> DEFINE at == {i \in 1 .. Len(ids) : ids[i] = n}
           first == CHOOSE i \in at : \A j \in at : i <= j
<1>1. Asked(ids, n) = IF at = {} THEN Len(ids) + 1 ELSE first
  BY DEF Asked
<1>2. /\ Len(ids) \in Nat /\ at \in SUBSET Nat
      /\ \A i \in at : i \in 1 .. Len(ids) /\ ids[i] = n
      /\ \A i \in 1 .. Len(ids) : ids[i] = n => i \in at
  OBVIOUS
<1> HIDE DEF at
<1>3. CASE at = {}
  BY <1>1, <1>2, <1>3
<1>4. CASE at # {}
  <2>1. first \in at /\ \A j \in at : first <= j
    BY <1>2, <1>4, SmallestOfNat
  <2> HIDE DEF first
  <2> QED
    BY <1>1, <1>2, <1>4, <2>1
<1> QED
  BY <1>3, <1>4

MergedOrder(ids, edited) == {p \in Pinned \X Pinned : Merged(ids, edited, p[1], p[2])}

\* mergePinOrder makes an order of the pinned notes, whatever the request names.
LEMMA MergedIsAnOrder ==
  ASSUME PinsTypeOK, NEW ids \in Seq(Note), NEW edited \in EditOrders
  PROVE  Orders(MergedOrder(ids, edited), Pinned)
<1> DEFINE R == MergedOrder(ids, edited)
           At(n) == Asked(ids, n)
           Slot(n) == note[n].slot
<1>1. \A n \in Pinned : n \in Note /\ Slot(n) \in Int /\ At(n) \in Nat
  BY SlotsAreBounded, AskedIsFirst DEF Pinned
<1>2. \A m, n \in Pinned : At(m) = At(n) => m = n \/ (At(m) = Len(ids) + 1 /\ At(n) = Len(ids) + 1)
  BY <1>1, AskedIsFirst
<1>3. /\ \A m \in Pinned : <<m, m>> \notin edited
      /\ \A m, n \in Pinned : m # n /\ Slot(m) = Slot(n) => <<m, n>> \in edited \/ <<n, m>> \in edited
      /\ \A m, n \in Pinned : <<m, n>> \in edited => Slot(m) = Slot(n)
      /\ \A k, m, n \in Pinned : <<k, m>> \in edited /\ <<m, n>> \in edited => <<k, n>> \in edited
  <2>1. edited \subseteq Ties
    BY DEF EditOrders
  <2>2. \A m, n \in Pinned : <<m, n>> \in Ties <=> m # n /\ Slot(m) = Slot(n)
    BY DEF Ties
  <2>3. \A p \in Ties : p \in edited <=> <<p[2], p[1]>> \notin edited
    BY DEF EditOrders
  <2>4. \A p, q \in edited : p[2] = q[1] => <<p[1], q[2]>> \in edited
    BY DEF EditOrders
  <2>5. \A m, n \in Pinned : <<m, n>> \in Ties => <<m, n>> \in edited \/ <<n, m>> \in edited
    BY <2>3
  <2>6. \A k, m, n \in Pinned : <<k, m>> \in edited /\ <<m, n>> \in edited => <<k, n>> \in edited
    BY <2>4
  <2> QED
    BY <2>1, <2>2, <2>5, <2>6
<1>4. \A m, n \in Pinned : <<m, n>> \in R <=>
        \/ At(m) < At(n)
        \/ At(m) = At(n) /\ (Slot(m) < Slot(n) \/ <<m, n>> \in edited)
  BY DEF MergedOrder, Merged, Above
<1> HIDE DEF R, At, Slot
<1>5. \A m \in Pinned : <<m, m>> \notin R
  <2> SUFFICES ASSUME NEW m \in Pinned, <<m, m>> \in R PROVE FALSE
    OBVIOUS
  <2>1. At(m) < At(m) \/ Slot(m) < Slot(m)
    BY <1>3, <1>4
  <2> QED
    BY <1>1, <2>1
<1>6. ASSUME NEW m \in Pinned, NEW n \in Pinned, m # n PROVE <<m, n>> \in R \/ <<n, m>> \in R
  <2>1. At(m) \in Nat /\ At(n) \in Nat /\ Slot(m) \in Int /\ Slot(n) \in Int
    BY <1>1
  <2>2. CASE At(m) = At(n) /\ Slot(m) = Slot(n)
    BY <1>3, <1>4, <1>6, <2>2
  <2>3. CASE At(m) < At(n) \/ (At(m) = At(n) /\ Slot(m) < Slot(n))
    BY <1>4, <2>3
  <2>4. CASE At(n) < At(m) \/ (At(m) = At(n) /\ Slot(n) < Slot(m))
    BY <1>4, <2>4
  <2> QED
    BY <2>1, <2>2, <2>3, <2>4
<1>7. ASSUME NEW k \in Pinned, NEW m \in Pinned, NEW n \in Pinned, <<k, m>> \in R, <<m, n>> \in R
      PROVE  <<k, n>> \in R
  <2>1. At(k) \in Nat /\ At(m) \in Nat /\ At(n) \in Nat /\ Slot(k) \in Int /\ Slot(m) \in Int
        /\ Slot(n) \in Int
    BY <1>1
  <2>2. /\ At(k) < At(m) \/ (At(k) = At(m) /\ (Slot(k) < Slot(m) \/ <<k, m>> \in edited))
        /\ At(m) < At(n) \/ (At(m) = At(n) /\ (Slot(m) < Slot(n) \/ <<m, n>> \in edited))
    BY <1>4, <1>7
  <2>3. At(k) < At(n) \/ (At(k) = At(n) /\ (Slot(k) < Slot(n) \/ <<k, n>> \in edited))
    BY <1>3, <2>1, <2>2
  <2> QED
    BY <1>4, <2>3
<1>8. Orders(R, Pinned)
  BY <1>5, <1>6, <1>7 DEF Orders
<1> QED
  BY <1>8 DEF R

-----------------------------------------------------------------------------
(* The steps.  What they rest on is the invariant                          *)
(*     PinsInv == PinsTypeOK /\ PlacesDiffer.                                 *)

PinsInv == PinsTypeOK /\ PlacesDiffer

Toggles == [Toggle -> {<<>>} \cup (Note \X BOOLEAN)]
Trashed == {n \in Note : note[n].trashed}
AboveInList == {p \in Placed \X Placed : note[p[1]].slot < note[p[2]].slot}

\* A step that writes the row r of the note n.
Writes(n, r) ==
  /\ r \in NoteRow /\ note' = [note EXCEPT ![n] = r]
  /\ r.slot \in -Depth .. Cardinality(Note)
  /\ ~r.pinned => r.slot = 0

OnTop(n, s) == \A m \in Pinned \ {n} : s < note[m].slot

LEMMA OtherRowsStay ==
  ASSUME PinsTypeOK, NEW n \in Note, NEW r, Writes(n, r)
  PROVE  \A m \in Note : note'[m] = IF m = n THEN r ELSE note[m]
  BY DEF PinsTypeOK, Writes

LEMMA KeepRow ==
  ASSUME PinsInv, NEW n \in Note, NEW r, Writes(n, r), toggle' \in Toggles,
         r.pinned /\ ~r.missed => \/ OnTop(n, r.slot)
                                  \/ n \in Placed /\ r.slot = note[n].slot
  PROVE  PinsInv'
<1>1. \A m \in Note : note'[m] = IF m = n THEN r ELSE note[m]
  BY OtherRowsStay DEF PinsInv
<1>2. \A m \in Note : note[m].slot \in Int
  BY SlotsAreBounded DEF PinsInv
<1>3. PinsTypeOK'
  <2>1. note' \in [Note -> NoteRow]
    BY DEF PinsInv, PinsTypeOK, Writes
  <2> QED
    BY <1>1, <2>1 DEF PinsInv, PinsTypeOK, Toggles, Writes
<1>4. \A m \in Note \ {n} : m \in Placed' <=> m \in Placed
  BY <1>1 DEF Placed, Pinned
<1>5. ASSUME NEW m \in Placed', NEW k \in Placed', note'[m].slot = note'[k].slot PROVE m = k
  <2>1. m \in Note /\ k \in Note
    BY DEF Placed, Pinned
  <2>2. CASE m # n /\ k # n
    BY <1>1, <1>4, <1>5, <2>1, <2>2 DEF PinsInv, PlacesDiffer
  <2>3. ASSUME NEW o \in Placed' \ {n}, n \in Placed' PROVE r.slot # note[o].slot
    <3>1. r.pinned /\ ~r.missed /\ o \in Placed /\ o \in Pinned \ {n} /\ o \in Note
      BY <1>1, <1>4, <2>3 DEF Placed, Pinned
    <3>2. CASE OnTop(n, r.slot)
      BY <1>2, <3>1, <3>2 DEF OnTop, Writes, NoteRow
    <3>3. CASE n \in Placed /\ r.slot = note[n].slot
      BY <2>3, <3>1, <3>3 DEF PinsInv, PlacesDiffer
    <3> QED
      BY <3>1, <3>2, <3>3
  <2> QED
    BY <1>1, <1>5, <2>1, <2>2, <2>3
<1> QED
  BY <1>3, <1>5 DEF PinsInv, PlacesDiffer

\* What the second statement of a toggle makes of the note.
LEMMA ToggleWrites ==
  ASSUME PinsTypeOK, NEW t \in Toggle, TogglePinWrite(t)
  PROVE  /\ toggle' \in Toggles
         /\ \/ note' = note
            \/ \E n \in Note, r \in NoteRow :
                 /\ Writes(n, r) /\ r.trashed = note[n].trashed
                 /\ \/ r.pinned /\ ~r.missed /\ OnTop(n, r.slot)
                    \/ ~r.pinned
<1> DEFINE n == toggle[t][1]
           pin == toggle[t][2]
           s == IF pin THEN TopSlot(n) ELSE 0
           r == [note[n] EXCEPT !.pinned = pin, !.missed = FALSE, !.slot = s]
<1>1. /\ n \in Note /\ pin \in BOOLEAN
  BY DEF TogglePinWrite, PinsTypeOK
<1>2. /\ pin => TopSlot(n) >= -Depth
      /\ note' = IF ~note[n].row THEN note ELSE [note EXCEPT ![n] = r]
      /\ toggle' = [toggle EXCEPT ![t] = <<>>]
  BY <1>1 DEF TogglePinWrite, PinsTypeOK
<1>3. toggle' \in Toggles
  BY <1>2 DEF Toggles, PinsTypeOK
<1>4. /\ note[n] \in NoteRow /\ TopSlot(n) \in Int /\ TopSlot(n) <= Cardinality(Note)
      /\ OnTop(n, TopSlot(n)) /\ Cardinality(Note) \in Nat /\ Depth \in Nat
  BY <1>1, TopSlotIsOnTop, SlotsAreBounded DEF OnTop
<1> HIDE DEF n, pin
<1>5. s \in Int /\ (pin => s = TopSlot(n)) /\ (~pin => s = 0)
  BY <1>1, <1>4
<1> HIDE DEF s
<1>6. /\ r \in NoteRow /\ r.pinned = pin /\ r.missed = FALSE /\ r.trashed = note[n].trashed
      /\ r.slot = s
  BY <1>1, <1>4, <1>5 DEF NoteRow
<1> HIDE DEF r
<1>7. r.slot \in -Depth .. Cardinality(Note)
  BY <1>1, <1>2, <1>4, <1>5, <1>6
<1>8. note' # note => Writes(n, r)
  BY <1>1, <1>2, <1>5, <1>6, <1>7 DEF Writes
<1>9. r.pinned => OnTop(n, r.slot)
  BY <1>4, <1>5, <1>6
<1> QED
  BY <1>1, <1>3, <1>6, <1>8, <1>9

LEMMA NewNoteIsNote == NewNote \in NoteRow /\ NoNote \in NoteRow
<1>1. NewNote \in NoteRow
  BY DEF NewNote, NoteRow
<1> QED
  BY <1>1 DEF NoNote, NoteRow

\* The handlers that move a note between the lists write one row.
LEMMA MoveWrites ==
  ASSUME PinsTypeOK, NEW n \in Note
  PROVE  /\ \A archived \in BOOLEAN : SetArchived(n, archived) =>
              \E r \in NoteRow : /\ Writes(n, r) /\ r.pinned = note[n].pinned
                                 /\ r.missed = note[n].missed /\ r.slot = note[n].slot
                                 /\ r.trashed = note[n].trashed
         /\ SoftDelete(n) =>
              \E r \in NoteRow : /\ Writes(n, r) /\ r.pinned = note[n].pinned
                                 /\ r.missed = note[n].missed /\ r.slot = note[n].slot
                                 /\ r.trashed = TRUE
         /\ RestoreNote(n) =>
              \E r \in NoteRow : /\ Writes(n, r) /\ r.pinned = note[n].pinned
                                 /\ r.missed = note[n].missed /\ r.slot = note[n].slot
                                 /\ r.trashed = FALSE
         /\ DeleteNote(n) =>
              \E r \in NoteRow : Writes(n, r) /\ ~r.pinned /\ ~r.trashed
<1>1. /\ note[n] \in NoteRow /\ note[n].slot \in -Depth .. Cardinality(Note)
      /\ ~note[n].pinned => note[n].slot = 0
      /\ 0 \in -Depth .. Cardinality(Note)
  BY SlotsAreBounded DEF PinsTypeOK
<1>2. ASSUME NEW archived \in BOOLEAN, SetArchived(n, archived)
      PROVE  \E r \in NoteRow : /\ Writes(n, r) /\ r.pinned = note[n].pinned
                                /\ r.missed = note[n].missed /\ r.slot = note[n].slot
                                /\ r.trashed = note[n].trashed
  <2> DEFINE r == [note[n] EXCEPT !.archived = archived]
  <2>1. /\ r \in NoteRow /\ r.pinned = note[n].pinned /\ r.missed = note[n].missed
        /\ r.slot = note[n].slot /\ r.trashed = note[n].trashed
    BY <1>1 DEF NoteRow
  <2>2. note' = [note EXCEPT ![n] = r]
    BY <1>2 DEF SetArchived
  <2> HIDE DEF r
  <2> QED
    BY <1>1, <2>1, <2>2 DEF Writes
<1>3. ASSUME NEW b \in BOOLEAN, note' = [note EXCEPT ![n].trashed = b]
      PROVE  \E r \in NoteRow : /\ Writes(n, r) /\ r.pinned = note[n].pinned
                                /\ r.missed = note[n].missed /\ r.slot = note[n].slot
                                /\ r.trashed = b
  <2> DEFINE r == [note[n] EXCEPT !.trashed = b]
  <2>1. /\ r \in NoteRow /\ r.pinned = note[n].pinned /\ r.missed = note[n].missed
        /\ r.slot = note[n].slot /\ r.trashed = b
    BY <1>1 DEF NoteRow
  <2>2. note' = [note EXCEPT ![n] = r]
    BY <1>3
  <2> HIDE DEF r
  <2> QED
    BY <1>1, <2>1, <2>2 DEF Writes
<1>4. ASSUME DeleteNote(n) PROVE \E r \in NoteRow : Writes(n, r) /\ ~r.pinned /\ ~r.trashed
  <2>1. NoNote \in NoteRow /\ ~NoNote.pinned /\ ~NoNote.trashed /\ NoNote.slot = 0
    BY NewNoteIsNote DEF NoNote, NewNote
  <2> QED
    BY <1>1, <1>4, <2>1 DEF DeleteNote, Writes
<1> QED
  BY <1>2, <1>3, <1>4 DEF SoftDelete, RestoreNote

\* What a drag makes of the rows: the notes it finds are ranked, those of them in
\* the trash lose their place.
LEMMA DragRanks ==
  ASSUME PinsTypeOK, NEW ids \in Seq(Note), NEW edited \in EditOrders, ReorderPins(ids, edited)
  PROVE  LET S == Renumbered(ids)
             R == MergedOrder(ids, edited) IN
         /\ note' \in [Note -> NoteRow] /\ toggle' = toggle
         /\ Orders(R, S) /\ IsFiniteSet(S) /\ S \subseteq Note
         /\ \A n \in S : /\ note'[n].slot = Rank(R, S, n)
                         /\ Rank(R, S, n) \in 0 .. Cardinality(Note)
         /\ \A n \in Note \ S : note'[n].slot = note[n].slot
         /\ \A n \in Note : /\ note'[n].pinned = note[n].pinned
                            /\ note'[n].trashed = note[n].trashed
         /\ Placed' = S
<1> DEFINE S == Renumbered(ids)
           R == MergedOrder(ids, edited)
           ranked(n) == [note[n] EXCEPT !.slot = Rank(R, S, n), !.missed = FALSE]
           left(n) == [note[n] EXCEPT !.missed = @ \/ note[n].pinned]
<1>1. S \subseteq Pinned /\ S \subseteq Note /\ Pinned \subseteq Note
  BY DEF Renumbered, Pinned
<1>2. IsFiniteSet(S) /\ Cardinality(S) <= Cardinality(Note)
  BY <1>1, PinOrderAssumption, FS_Subset
<1>3. Orders(R, S)
  <2>1. Orders(R, Pinned)
    BY MergedIsAnOrder
  <2> HIDE DEF R, S
  <2> QED
    BY <1>1, <2>1 DEF Orders
<1>4. \A n \in S : Rank(R, S, n) = Cardinality({m \in S \ {n} : Merged(ids, edited, m, n)})
  <2>1. ASSUME NEW n \in S
        PROVE  Before(R, S, n) = {m \in S \ {n} : Merged(ids, edited, m, n)}
    BY <1>1 DEF Before, MergedOrder
  <2> QED
    BY <2>1 DEF Rank
<1>5. \A n \in S : Rank(R, S, n) \in 0 .. Cardinality(Note) /\ Rank(R, S, n) \in Int
  <2>1. Cardinality(S) \in Nat /\ Cardinality(Note) \in Nat
    BY <1>2, PinOrderAssumption, FS_CardinalityType
  <2>2. \A n \in S : Rank(R, S, n) \in 0 .. Cardinality(S) - 1
    BY <1>2, RankIsBounded
  <2> HIDE DEF S, R
  <2> QED
    BY <1>2, <2>1, <2>2
<1>6. /\ note' = [n \in Note |-> IF n \in S THEN ranked(n) ELSE left(n)]
      /\ toggle' = toggle
  BY <1>4 DEF ReorderPins
<1> HIDE DEF S, R
<1>7. \A n \in S : /\ ranked(n) \in NoteRow /\ ranked(n).slot = Rank(R, S, n)
                   /\ ranked(n).pinned = note[n].pinned /\ ranked(n).trashed = note[n].trashed
                   /\ ranked(n).missed = FALSE
  <2>1. ASSUME NEW r \in NoteRow, NEW k \in Int
        PROVE  LET q == [r EXCEPT !.slot = k, !.missed = FALSE] IN
               /\ q \in NoteRow /\ q.slot = k
               /\ q.pinned = r.pinned /\ q.trashed = r.trashed /\ q.missed = FALSE
    BY DEF NoteRow
  <2>2. \A n \in S : note[n] \in NoteRow /\ Rank(R, S, n) \in Int
    BY <1>1, <1>5 DEF PinsTypeOK
  <2> QED
    BY <2>1, <2>2
<1>8. \A n \in Note : /\ left(n) \in NoteRow /\ left(n).slot = note[n].slot
                      /\ left(n).pinned = note[n].pinned /\ left(n).trashed = note[n].trashed
                      /\ left(n).missed = (note[n].missed \/ note[n].pinned)
  BY DEF PinsTypeOK, NoteRow
<1> HIDE DEF ranked, left
<1>9. /\ \A n \in S : note'[n] = ranked(n)
      /\ \A n \in Note \ S : note'[n] = left(n)
      /\ note' \in [Note -> NoteRow]
  BY <1>1, <1>6, <1>7, <1>8
<1>10. Placed' = S
  <2>1. \A n \in S : n \in Placed'
    BY <1>1, <1>7, <1>9 DEF Placed, Pinned
  <2>2. \A n \in Placed' : n \in S
    BY <1>8, <1>9 DEF Placed, Pinned
  <2> QED
    BY <2>1, <2>2
<1> QED
  BY <1>1, <1>2, <1>3, <1>5, <1>6, <1>7, <1>8, <1>9, <1>10 DEF S, R

LEMMA KeepReorder ==
  ASSUME PinsInv, NEW ids \in Seq(Note), NEW edited \in EditOrders, ReorderPins(ids, edited)
  PROVE  PinsInv'
<1> DEFINE S == Renumbered(ids)
           R == MergedOrder(ids, edited)
<1>1. /\ note' \in [Note -> NoteRow] /\ toggle' = toggle
      /\ Orders(R, S) /\ IsFiniteSet(S) /\ S \subseteq Note
      /\ \A n \in S : /\ note'[n].slot = Rank(R, S, n)
                      /\ Rank(R, S, n) \in 0 .. Cardinality(Note)
      /\ \A n \in Note \ S : note'[n].slot = note[n].slot
      /\ \A n \in Note : note'[n].pinned = note[n].pinned
      /\ Placed' = S
  BY DragRanks DEF PinsInv
<1>2. S \subseteq Pinned
  BY DEF Renumbered
<1> HIDE DEF S, R
<1>3. \A n \in Note : note'[n].slot \in -Depth .. Cardinality(Note)
  <2>1. Depth \in Nat /\ Cardinality(Note) \in Nat
    BY SlotsAreBounded DEF PinsInv
  <2>2. \A n \in S : note'[n].slot \in -Depth .. Cardinality(Note)
    BY <1>1, <2>1
  <2>3. \A n \in Note \ S : note'[n].slot \in -Depth .. Cardinality(Note)
    BY <1>1 DEF PinsInv, PinsTypeOK
  <2> QED
    BY <2>2, <2>3
<1>4. PinsTypeOK'
  <2>1. \A n \in Note : ~note'[n].pinned => note'[n].slot = 0
    BY <1>1, <1>2 DEF PinsInv, PinsTypeOK, Pinned
  <2> QED
    BY <1>1, <1>3, <2>1 DEF PinsInv, PinsTypeOK
<1>5. PlacesDiffer'
  <2>1. ASSUME NEW m \in S, NEW n \in S, m # n PROVE note'[m].slot # note'[n].slot
    <3>1. Rank(R, S, m) # Rank(R, S, n)
      BY <1>1, <2>1, RanksAreTheOrder
    <3> QED
      BY <1>1, <3>1
  <2> QED
    BY <1>1, <2>1 DEF PlacesDiffer
<1> QED
  BY <1>4, <1>5 DEF PinsInv

LEMMA DragIsASequence == \A len \in 1 .. MaxNames : [1 .. len -> Note] \subseteq Seq(Note)
  BY PinOrderAssumption, SeqDef

-----------------------------------------------------------------------------
LEMMA PinsStart == PinsInit => PinsInv
<1> SUFFICES ASSUME PinsInit PROVE PinsInv
  OBVIOUS
<1>1. 0 \in -Depth .. Cardinality(Note)
  BY PinOrderAssumption, FS_CardinalityType
<1>2. \A n \in Note : note[n] = NewNote /\ NewNote.slot = 0 /\ ~NewNote.pinned
  BY DEF PinsInit, NewNote
<1>3. PinsTypeOK
  <2>1. note \in [Note -> NoteRow]
    BY NewNoteIsNote DEF PinsInit
  <2>2. toggle \in [Toggle -> {<<>>} \cup (Note \X BOOLEAN)]
    BY DEF PinsInit
  <2> QED
    BY <1>1, <1>2, <2>1, <2>2 DEF PinsTypeOK
<1>4. PlacesDiffer
  BY <1>2 DEF PlacesDiffer, Placed, Pinned
<1> QED
  BY <1>3, <1>4 DEF PinsInv

LEMMA KeepToggleRead ==
  ASSUME PinsInv, NEW t \in Toggle, NEW n \in Note, TogglePinRead(t, n)
  PROVE  PinsInv' /\ note' = note
<1>1. /\ note' = note /\ toggle' = [toggle EXCEPT ![t] = <<n, ~note[n].pinned>>]
      /\ note[n].pinned \in BOOLEAN
  BY DEF TogglePinRead, PinsInv, PinsTypeOK, NoteRow
<1>2. toggle' \in Toggles
  BY <1>1 DEF Toggles, PinsInv, PinsTypeOK
<1> QED
  BY <1>1, <1>2 DEF PinsInv, PinsTypeOK, Toggles, PlacesDiffer, Placed, Pinned

LEMMA KeepToggleWrite == ASSUME PinsInv, NEW t \in Toggle, TogglePinWrite(t) PROVE PinsInv'
<1>1. /\ toggle' \in Toggles
      /\ \/ note' = note
         \/ \E n \in Note, r \in NoteRow :
              /\ Writes(n, r) /\ r.trashed = note[n].trashed
              /\ \/ r.pinned /\ ~r.missed /\ OnTop(n, r.slot)
                 \/ ~r.pinned
  BY ToggleWrites DEF PinsInv
<1>2. CASE note' = note
  BY <1>1, <1>2 DEF PinsInv, PinsTypeOK, Toggles, PlacesDiffer, Placed, Pinned
<1>3. CASE note' # note
  BY <1>1, <1>3, KeepRow
<1> QED
  BY <1>2, <1>3

LEMMA KeepMove ==
  ASSUME PinsInv, NEW n \in Note,
         SoftDelete(n) \/ RestoreNote(n) \/ DeleteNote(n)
           \/ \E archived \in BOOLEAN : SetArchived(n, archived)
  PROVE  PinsInv'
<1>1. toggle' \in Toggles
  BY DEF SoftDelete, RestoreNote, DeleteNote, SetArchived, PinsInv, PinsTypeOK, Toggles
<1>2. \E r \in NoteRow : /\ Writes(n, r)
                         /\ r.pinned => /\ note[n].pinned /\ r.missed = note[n].missed
                                        /\ r.slot = note[n].slot
  BY MoveWrites, ZenonT(60) DEF PinsInv
<1> QED
  BY <1>1, <1>2, KeepRow DEF Placed, Pinned

LEMMA PinsStep == PinsInv /\ [PinsNext]_pinVars => PinsInv'
<1> SUFFICES ASSUME PinsInv, [PinsNext]_pinVars PROVE PinsInv'
  OBVIOUS
<1>1. ASSUME NEW len \in 1 .. MaxNames, NEW ids \in [1 .. len -> Note], NEW edited \in EditOrders,
             ReorderPins(ids, edited)
      PROVE  PinsInv'
  BY <1>1, KeepReorder, DragIsASequence
<1>2. CASE UNCHANGED pinVars
  BY <1>2 DEF pinVars, PinsInv, PinsTypeOK, PlacesDiffer, Placed, Pinned
<1> QED
  BY <1>1, <1>2, KeepToggleRead, KeepToggleWrite, KeepMove DEF PinsNext

LEMMA PinsInvariant == PinsSpec => []PinsInv
  BY PinsStart, PinsStep, PTL DEF PinsSpec

-----------------------------------------------------------------------------
(* The slots implement the order of PinList.                               *)

listVars == <<Pinned, Trashed, Placed, AboveInList>>

LEMMA SameList ==
  ASSUME PinsTypeOK, NEW n \in Note, NEW r \in NoteRow, Writes(n, r),
         r.pinned = note[n].pinned, r.missed = note[n].missed, r.slot = note[n].slot
  PROVE  /\ UNCHANGED <<Pinned, Placed, AboveInList>>
         /\ Trashed' = IF r.trashed THEN Trashed \cup {n} ELSE Trashed \ {n}
<1>1. \A m \in Note : note'[m] = IF m = n THEN r ELSE note[m]
  BY OtherRowsStay
<1>2. Pinned' = Pinned
  BY <1>1 DEF Pinned
<1>3. Placed' = Placed
  BY <1>1, <1>2 DEF Placed, Pinned
<1>4. \A m \in Note : note'[m].slot = note[m].slot
  BY <1>1
<1>5. AboveInList' = AboveInList
  <2>1. \A m \in Placed : m \in Note
    BY DEF Placed, Pinned
  <2> QED
    BY <1>3, <1>4, <2>1 DEF AboveInList
<1>6. Trashed' = IF r.trashed THEN Trashed \cup {n} ELSE Trashed \ {n}
  BY <1>1 DEF Trashed
<1> QED
  BY <1>2, <1>3, <1>5, <1>6

LEMMA PinIsPin ==
  ASSUME PinsInv, NEW n \in Note, NEW r \in NoteRow, Writes(n, r), r.trashed = note[n].trashed,
         r.pinned, ~r.missed, OnTop(n, r.slot)
  PROVE  List!Pin(n)
<1>1. \A m \in Note : note'[m] = IF m = n THEN r ELSE note[m]
  BY OtherRowsStay DEF PinsInv
<1>2. Pinned' = Pinned \cup {n} /\ Placed' = Placed \cup {n} /\ Trashed' = Trashed
  BY <1>1 DEF Pinned, Placed, Trashed
<1>3. Placed \subseteq Pinned /\ Pinned \subseteq Note
  BY DEF Placed, Pinned
<1>4. \A m \in Note : note[m].slot \in Int /\ r.slot \in Int
  BY SlotsAreBounded DEF PinsInv, NoteRow
<1>5. ASSUME NEW k, NEW m
      PROVE  <<k, m>> \in AboveInList' <=>
               \/ <<k, m>> \in AboveInList /\ n \notin {k, m}
               \/ k \in Placed' /\ m \in Placed' /\ k # m /\ k = n
  <2>0. <<k, m>> \in AboveInList' <=> k \in Placed' /\ m \in Placed' /\ note'[k].slot < note'[m].slot
    BY DEF AboveInList
  <2>1. <<k, m>> \in AboveInList <=> k \in Placed /\ m \in Placed /\ note[k].slot < note[m].slot
    BY DEF AboveInList
  <2>2. CASE n \notin {k, m}
    BY <1>1, <1>2, <1>3, <2>0, <2>1, <2>2
  <2>3. CASE k = n /\ m = n
    BY <1>1, <1>4, <2>0, <2>3
  <2>4. CASE k = n /\ m # n
    <3>1. m \in Placed' => m \in Pinned \ {n} /\ m \in Note
      BY <1>2, <1>3, <2>4
    <3>2. m \in Placed' => note'[k].slot < note'[m].slot
      BY <1>1, <2>4, <3>1 DEF OnTop
    <3> QED
      BY <2>0, <2>4, <3>2
  <2>5. CASE k # n /\ m = n
    <3>1. k \in Placed' => k \in Pinned \ {n} /\ k \in Note
      BY <1>2, <1>3, <2>5
    <3>2. k \in Placed' => note'[m].slot < note'[k].slot /\ note'[m].slot \in Int /\ note'[k].slot \in Int
      BY <1>1, <1>4, <2>5, <3>1 DEF OnTop
    <3> QED
      BY <2>0, <2>5, <3>2
  <2> QED
    BY <2>2, <2>3, <2>4, <2>5
<1>6. AboveInList' = {p \in AboveInList : n \notin {p[1], p[2]}}
                       \cup {p \in List!Pairs(Placed') : p[1] = n}
  <2> DEFINE A == {p \in AboveInList : n \notin {p[1], p[2]}}
             B == {p \in List!Pairs(Placed') : p[1] = n}
  <2>1. \A k, m : <<k, m>> \in A <=> <<k, m>> \in AboveInList /\ n \notin {k, m}
    OBVIOUS
  <2>2. \A k, m : <<k, m>> \in B <=> k \in Placed' /\ m \in Placed' /\ k # m /\ k = n
    BY DEF List!Pairs
  <2>3. A \subseteq Placed \X Placed /\ B \subseteq Placed' \X Placed'
        /\ AboveInList' \subseteq Placed' \X Placed'
    BY DEF AboveInList, List!Pairs
  <2> HIDE DEF A, B
  <2>4. \A p \in AboveInList' : p = <<p[1], p[2]>> /\ p \in A \cup B
    BY <1>5, <2>1, <2>2, <2>3
  <2>5. \A p \in A \cup B : p = <<p[1], p[2]>> /\ p \in AboveInList'
    BY <1>5, <2>1, <2>2, <2>3
  <2>6. AboveInList' = A \cup B
    BY <2>4, <2>5
  <2> QED
    BY <2>6 DEF A, B
<1> QED
  BY <1>2, <1>6 DEF List!Pin, Trashed, AboveInList

\* A note that is no longer pinned is out of the order; the rest of it stays.
LEMMA OutOfTheList ==
  ASSUME PinsInv, NEW n \in Note, NEW r \in NoteRow, Writes(n, r), ~r.pinned
  PROVE  /\ Pinned' = Pinned \ {n} /\ Placed' = Placed \ {n}
         /\ AboveInList' = {p \in AboveInList : n \notin {p[1], p[2]}}
         /\ Trashed' = IF r.trashed THEN Trashed \cup {n} ELSE Trashed \ {n}
<1>1. \A m \in Note : note'[m] = IF m = n THEN r ELSE note[m]
  BY OtherRowsStay DEF PinsInv
<1>2. Pinned' = Pinned \ {n} /\ Placed' = Placed \ {n}
  BY <1>1 DEF Pinned, Placed
<1>3. \A m \in Placed' : m \in Note /\ m # n /\ m \in Placed /\ note'[m].slot = note[m].slot
  BY <1>1, <1>2 DEF Pinned, Placed
<1>4. AboveInList' = {p \in Placed' \X Placed' : note[p[1]].slot < note[p[2]].slot}
  BY <1>3 DEF AboveInList
<1>5. AboveInList' = {p \in AboveInList : n \notin {p[1], p[2]}}
  BY <1>2, <1>4 DEF AboveInList
<1>6. Trashed' = IF r.trashed THEN Trashed \cup {n} ELSE Trashed \ {n}
  BY <1>1 DEF Trashed
<1> QED
  BY <1>2, <1>5, <1>6

LEMMA DragIsReorder ==
  ASSUME PinsInv, NEW ids \in Seq(Note), NEW edited \in EditOrders, ReorderPins(ids, edited)
  PROVE  List!Reorder(ids)
<1> DEFINE S == Renumbered(ids)
           R == MergedOrder(ids, edited)
<1>1. /\ Orders(R, S) /\ IsFiniteSet(S) /\ S \subseteq Note
      /\ \A n \in S : /\ note'[n].slot = Rank(R, S, n)
                      /\ Rank(R, S, n) \in 0 .. Cardinality(Note)
      /\ \A n \in Note : /\ note'[n].pinned = note[n].pinned
                         /\ note'[n].trashed = note[n].trashed
      /\ Placed' = S
  BY DragRanks DEF PinsInv
<1>2. S = Pinned \ Trashed /\ S \subseteq Pinned
  BY DEF Renumbered, Trashed, Pinned
<1>3. Pinned' = Pinned /\ Trashed' = Trashed
  BY <1>1 DEF Pinned, Trashed
<1>4. \A m, n \in S : m # n =>
        /\ <<m, n>> \in R <=> note'[m].slot < note'[n].slot
        /\ note'[m].slot # note'[n].slot
  <2> SUFFICES ASSUME NEW m \in S, NEW n \in S, m # n
               PROVE  /\ <<m, n>> \in R <=> note'[m].slot < note'[n].slot
                      /\ note'[m].slot # note'[n].slot
    OBVIOUS
  <2> HIDE DEF S, R
  <2>1. /\ Rank(R, S, m) < Rank(R, S, n) <=> <<m, n>> \in R
        /\ Rank(R, S, m) # Rank(R, S, n)
    BY <1>1, RanksAreTheOrder
  <2> QED
    BY <1>1, <2>1
<1>5. \A m, n \in S : note'[m].slot \in Int /\ note'[n].slot \in Int
  <2> HIDE DEF S, R
  <2> QED
    BY <1>1, PinOrderAssumption, FS_CardinalityType
<1>6. AboveInList' = {p \in S \X S : note'[p[1]].slot < note'[p[2]].slot}
  BY <1>1 DEF AboveInList
<1>7. \A m, n \in S : <<m, n>> \in AboveInList' <=> note'[m].slot < note'[n].slot
  BY <1>6
<1>8. List!IsOrder(AboveInList', S)
  <2> HIDE DEF S, R
  <2>1. AboveInList' \subseteq List!Pairs(S)
    <3> SUFFICES ASSUME NEW p \in AboveInList' PROVE p \in S \X S /\ p[1] # p[2]
      BY DEF List!Pairs
    <3>1. p \in S \X S /\ note'[p[1]].slot < note'[p[2]].slot
      BY <1>6
    <3> QED
      BY <1>5, <3>1
  <2>2. ASSUME NEW p \in List!Pairs(S)
        PROVE  p \in AboveInList' <=> <<p[2], p[1]>> \notin AboveInList'
    <3>1. PICK m \in S, n \in S : p = <<m, n>> /\ m # n
      BY DEF List!Pairs
    <3>2. note'[m].slot < note'[n].slot <=> ~(note'[n].slot < note'[m].slot)
      BY <1>4, <1>5, <3>1
    <3> QED
      BY <1>7, <3>1, <3>2
  <2>3. ASSUME NEW p \in AboveInList', NEW q \in AboveInList', p[2] = q[1]
        PROVE  <<p[1], q[2]>> \in AboveInList'
    <3>1. /\ p[1] \in S /\ p[2] \in S /\ q[2] \in S
          /\ note'[p[1]].slot < note'[p[2]].slot /\ note'[p[2]].slot < note'[q[2]].slot
      BY <1>6, <2>3
    <3>2. note'[p[1]].slot < note'[q[2]].slot
      BY <1>5, <3>1
    <3> QED
      BY <1>7, <3>1, <3>2
  <2> QED
    BY <2>1, <2>2, <2>3 DEF List!IsOrder
<1>9. ASSUME NEW p \in List!Pairs(S),
             \/ p[1] \in List!Names(ids) /\ p[2] \notin List!Names(ids)
             \/ List!Names(ids) \cap {p[1], p[2]} = {p[1], p[2]} /\ List!IsBefore(ids, p[1], p[2])
             \/ List!Names(ids) \cap {p[1], p[2]} = {} /\ p \in AboveInList
      PROVE  p \in AboveInList'
  <2>1. PICK m \in S, n \in S : p = <<m, n>> /\ m # n
    BY DEF List!Pairs
  <2>2. \A k \in S : k \in List!Names(ids) <=> \E i \in 1 .. Len(ids) : ids[i] = k
    BY DEF List!Names
  <2>3. /\ Asked(ids, m) \in Nat /\ Asked(ids, n) \in Nat /\ Len(ids) \in Nat
        /\ m \in List!Names(ids) => /\ Asked(ids, m) \in 1 .. Len(ids) /\ ids[Asked(ids, m)] = m
                                    /\ \A j \in 1 .. Len(ids) : ids[j] = m => Asked(ids, m) <= j
        /\ m \notin List!Names(ids) => Asked(ids, m) = Len(ids) + 1
        /\ n \in List!Names(ids) => Asked(ids, n) \in 1 .. Len(ids) /\ ids[Asked(ids, n)] = n
        /\ n \notin List!Names(ids) => Asked(ids, n) = Len(ids) + 1
    BY <1>1, <2>2, AskedIsFirst, SMTT(30)
  <2>4. Merged(ids, edited, m, n)
    <3>1. CASE m \in List!Names(ids) /\ n \notin List!Names(ids)
      BY <2>3, <3>1 DEF Merged
    <3>2. CASE /\ m \in List!Names(ids) /\ n \in List!Names(ids)
               /\ List!IsBefore(ids, m, n)
      <4>1. PICK i \in 1 .. Len(ids) : ids[i] = m /\ \A j \in 1 .. i : ids[j] # n
        BY <3>2 DEF List!IsBefore
      <4>2. Asked(ids, m) <= i /\ ~(Asked(ids, n) <= i)
        BY <2>3, <3>2, <4>1
      <4> QED
        BY <2>3, <4>1, <4>2 DEF Merged
    <3>3. CASE m \notin List!Names(ids) /\ n \notin List!Names(ids) /\ <<m, n>> \in AboveInList
      <4>1. note[m].slot < note[n].slot /\ Asked(ids, m) = Asked(ids, n)
        BY <2>3, <3>3 DEF AboveInList
      <4> QED
        BY <4>1 DEF Merged, Above
    <3> QED
      BY <1>9, <2>1, <3>1, <3>2, <3>3
  <2>5. <<m, n>> \in R
    BY <1>2, <2>1, <2>4 DEF MergedOrder
  <2>6. note'[m].slot < note'[n].slot
    BY <1>4, <2>1, <2>5
  <2> QED
    BY <1>7, <2>1, <2>6
<1> HIDE DEF S, R
<1> QED
  BY <1>1, <1>2, <1>3, <1>8, <1>9 DEF List!Reorder, Trashed, AboveInList

LEMMA StepIsListStep ==
  ASSUME PinsInv, [PinsNext]_pinVars
  PROVE  List!Next \/ UNCHANGED listVars
<1>1. ASSUME note' = note PROVE UNCHANGED listVars
  BY <1>1 DEF listVars, Pinned, Trashed, Placed, AboveInList
<1>2. ASSUME NEW t \in Toggle, TogglePinWrite(t) PROVE List!Next \/ UNCHANGED listVars
  <2>1. CASE note' = note
    BY <1>1, <2>1
  <2>2. CASE note' # note
    <3>1. PICK n \in Note, r \in NoteRow :
            /\ Writes(n, r) /\ r.trashed = note[n].trashed
            /\ \/ r.pinned /\ ~r.missed /\ OnTop(n, r.slot)
               \/ ~r.pinned
      BY <1>2, <2>2, ToggleWrites DEF PinsInv
    <3>2. CASE r.pinned /\ ~r.missed /\ OnTop(n, r.slot)
      BY <3>1, <3>2, PinIsPin DEF List!Next
    <3>3. CASE ~r.pinned
      <4>1. Trashed' = Trashed
        BY <3>1, OtherRowsStay DEF Trashed, PinsInv
      <4>2. List!Unpin(n)
        BY <3>1, <3>3, <4>1, OutOfTheList DEF List!Unpin, Trashed, AboveInList
      <4> QED
        BY <4>2 DEF List!Next
    <3> QED
      BY <3>1, <3>2, <3>3
  <2> QED
    BY <2>1, <2>2
<1>3. ASSUME NEW len \in 1 .. MaxNames, NEW ids \in [1 .. len -> Note], NEW edited \in EditOrders,
             ReorderPins(ids, edited)
      PROVE  List!Next
  <2>1. List!Reorder(ids)
    BY <1>3, DragIsReorder, DragIsASequence
  <2> QED
    BY <2>1 DEF List!Next
<1>4. ASSUME NEW n \in Note, SoftDelete(n) PROVE List!Next
  <2>1. UNCHANGED <<Pinned, Placed, AboveInList>> /\ Trashed' = Trashed \cup {n}
    BY <1>4, MoveWrites, SameList DEF PinsInv
  <2>2. List!Trash(n)
    BY <2>1 DEF List!Trash, Trashed, AboveInList
  <2> QED
    BY <2>2 DEF List!Next
<1>5. ASSUME NEW n \in Note, RestoreNote(n) PROVE List!Next
  <2>1. UNCHANGED <<Pinned, Placed, AboveInList>> /\ Trashed' = Trashed \ {n}
    BY <1>5, MoveWrites, SameList DEF PinsInv
  <2>2. List!Restore(n)
    BY <2>1 DEF List!Restore, Trashed, AboveInList
  <2> QED
    BY <2>2 DEF List!Next
<1>6. ASSUME NEW n \in Note, DeleteNote(n) PROVE List!Next
  <2>1. PICK r \in NoteRow : Writes(n, r) /\ ~r.pinned /\ ~r.trashed
    BY <1>6, MoveWrites DEF PinsInv
  <2>2. List!Destroy(n)
    BY <2>1, OutOfTheList DEF List!Destroy, Trashed, AboveInList
  <2> QED
    BY <2>2 DEF List!Next
<1>7. ASSUME NEW n \in Note, NEW archived \in BOOLEAN, SetArchived(n, archived)
      PROVE  UNCHANGED listVars
  <2>1. PICK r \in NoteRow : /\ Writes(n, r) /\ r.pinned = note[n].pinned
                             /\ r.missed = note[n].missed /\ r.slot = note[n].slot
                             /\ r.trashed = note[n].trashed
    BY <1>7, MoveWrites DEF PinsInv
  <2>2. UNCHANGED <<Pinned, Placed, AboveInList>>
    BY <2>1, SameList DEF PinsInv
  <2>3. Trashed' = Trashed
    BY <2>1, OtherRowsStay DEF Trashed, PinsInv
  <2> QED
    BY <2>2, <2>3 DEF listVars
<1>8. CASE UNCHANGED pinVars
  BY <1>1, <1>8 DEF pinVars
<1>9. ASSUME NEW t \in Toggle, NEW n \in Note, TogglePinRead(t, n) PROVE UNCHANGED listVars
  BY <1>1, <1>9 DEF TogglePinRead
<1> QED
  BY <1>2, <1>3, <1>4, <1>5, <1>6, <1>7, <1>8, <1>9 DEF PinsNext

-----------------------------------------------------------------------------
(* Theorems.                                                               *)

\* Rows and requests stay well formed: no slot is below the deepest pin, and a note
\* that is not pinned has no slot.
THEOREM PinsTypeCorrect == PinsSpec => []PinsTypeOK
<1>1. PinsInv => PinsTypeOK
  BY DEF PinsInv
<1> QED
  BY <1>1, PinsInvariant, PTL

\* Pinned notes are told apart by their slots alone, unless one of them was in the
\* trash during a drag (repository.go:354).
THEOREM SlotsTellNotesApart == PinsSpec => []PlacesDiffer
<1>1. PinsInv => PlacesDiffer
  BY DEF PinsInv
<1> QED
  BY <1>1, PinsInvariant, PTL

\* Every step on the slots is a step of the order that PinList promises: a fresh pin
\* is on top, a drag puts what it names first, and no other step moves two notes
\* past each other (repository.go:258-401).
THEOREM SlotsImplementTheOrder == PinsSpec => ImplementsPinList
<1>1. PinsInit => List!Init
  <2> SUFFICES ASSUME PinsInit PROVE List!Init
    OBVIOUS
  <2>1. \A n \in Note : ~note[n].pinned /\ ~note[n].trashed
    BY DEF PinsInit, NewNote
  <2>2. Pinned = {} /\ Placed = {} /\ Trashed = {}
    BY <2>1 DEF Pinned, Placed, Trashed
  <2>3. AboveInList = {}
    BY <2>2 DEF AboveInList
  <2> QED
    BY <2>2, <2>3 DEF List!Init, Trashed, AboveInList
<1>2. PinsInv /\ [PinsNext]_pinVars => [List!Next]_listVars
  BY StepIsListStep
<1> QED
  BY <1>1, <1>2, PinsInvariant, PTL DEF PinsSpec, ImplementsPinList, List!Spec, listVars, Trashed, AboveInList
=============================================================================
