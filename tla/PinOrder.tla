------------------------------ MODULE PinOrder ------------------------------
(***************************************************************************)
(* The order of one user's pinned notes (backend/internal/notes): a slot   *)
(* per note, ascending from the top.  Pinning takes the slot above the     *)
(* smallest, a drag numbers the pinned notes it finds outside the trash    *)
(* from zero in one transaction, and a note keeps its slot through the     *)
(* trash and the archive.  Notes with the same slot are shown the one      *)
(* last edited first; any edit changes that order, so it is left open.     *)
(***************************************************************************)
EXTENDS Integers, Sequences, FiniteSets

CONSTANTS
  Note,      \* rows of notes
  Toggle,    \* slots for TogglePin requests running at the same time
  MaxNames,  \* bound: notes a drag names
  Depth      \* bound: how far below zero a pin may put a note

ASSUME PinOrderAssumption == IsFiniteSet(Note) /\ MaxNames \in Nat /\ Depth \in Nat

VARIABLES note, toggle

pinVars == <<note, toggle>>

\* `missed' is history: a drag has left the note out because it was in the trash.
NoteRow == [row: BOOLEAN, pinned: BOOLEAN, slot: Int, archived: BOOLEAN, trashed: BOOLEAN,
            missed: BOOLEAN]

\* `toggle' holds what a request has read and is about to write.
PinsTypeOK ==
  /\ note \in [Note -> NoteRow]
  /\ \A n \in Note : note[n].slot \in -Depth .. Cardinality(Note)
  /\ \A n \in Note : ~note[n].pinned => note[n].slot = 0
  /\ toggle \in [Toggle -> {<<>>} \cup (Note \X BOOLEAN)]

NewNote == [row |-> TRUE, pinned |-> FALSE, slot |-> 0, archived |-> FALSE, trashed |-> FALSE,
            missed |-> FALSE]
NoNote == [NewNote EXCEPT !.row = FALSE]

PinsInit ==
  /\ note = [n \in Note |-> NewNote]
  /\ toggle = [t \in Toggle |-> <<>>]

Pinned == {n \in Note : note[n].pinned}

\* Pinned notes with the same slot, and the orders updated_at DESC may give them.
Ties == {p \in Pinned \X Pinned : p[1] # p[2] /\ note[p[1]].slot = note[p[2]].slot}
EditOrders ==
  {R \in SUBSET Ties :
     /\ \A p \in Ties : p \in R <=> <<p[2], p[1]>> \notin R
     /\ \A p, q \in R : p[2] = q[1] => <<p[1], q[2]>> \in R}

\* ORDER BY pin_order ASC, updated_at DESC.
Above(edited, m, n) ==
  note[m].slot < note[n].slot \/ <<m, n>> \in edited

-----------------------------------------------------------------------------
(* TogglePin.                                                              *)

\* Get, which does not find a note in the trash or the archive.
TogglePinRead(t, n) ==
  /\ toggle[t] = <<>>
  /\ note[n].row /\ ~note[n].archived /\ ~note[n].trashed
  /\ toggle' = [toggle EXCEPT ![t] = <<n, ~note[n].pinned>>]
  /\ UNCHANGED note

\* Faulty variant: the top slot is looked for outside the trash only.
TopSlot_Shown(n) ==
  LET others == {note[m].slot : m \in {k \in Pinned \ {n} : ~note[k].trashed}}
  IN IF others = {} THEN 0 ELSE (CHOOSE s \in others : \A o \in others : s <= o) - 1

\* COALESCE((SELECT MIN(p.pin_order) - 1 ...), 0): the trash counts.
TopSlot(n) ==
  LET others == {note[m].slot : m \in Pinned \ {n}}
  IN IF others = {} THEN 0 ELSE (CHOOSE s \in others : \A o \in others : s <= o) - 1

\* SetPinned, wherever the note is by now.
TogglePinWrite(t) ==
  /\ toggle[t] # <<>>
  /\ LET n == toggle[t][1] IN
     /\ toggle[t][2] => TopSlot(n) >= -Depth
     /\ note' = IF ~note[n].row THEN note
                ELSE [note EXCEPT ![n].pinned = toggle[t][2], ![n].missed = FALSE,
                                  ![n].slot = IF toggle[t][2] THEN TopSlot(n) ELSE 0]
  /\ toggle' = [toggle EXCEPT ![t] = <<>>]

-----------------------------------------------------------------------------
(* ReorderPins.                                                            *)

\* The position of n's first occurrence in ids.
Asked(ids, n) ==
  LET at == {i \in 1 .. Len(ids) : ids[i] = n}
  IN IF at = {} THEN Len(ids) + 1 ELSE CHOOSE i \in at : \A j \in at : i <= j

\* Faulty variant: only the notes named by the request are numbered.
Renumbered_Named(ids) ==
  {n \in Pinned : ~note[n].trashed /\ \E i \in 1 .. Len(ids) : ids[i] = n}

\* pinnedIDs.
Renumbered(ids) == {n \in Pinned : ~note[n].trashed}

\* mergePinOrder: the notes named, as named, then the others as they were.
Merged(ids, edited, m, n) ==
  Asked(ids, m) < Asked(ids, n) \/ (Asked(ids, m) = Asked(ids, n) /\ Above(edited, m, n))

ReorderPins(ids, edited) ==
  LET all == Renumbered(ids) IN
  /\ all # {}
  /\ note' = [n \in Note |->
       IF n \in all
         THEN [note[n] EXCEPT !.slot = Cardinality({m \in all \ {n} : Merged(ids, edited, m, n)}),
                              !.missed = FALSE]
         ELSE [note[n] EXCEPT !.missed = @ \/ note[n].pinned]]
  /\ UNCHANGED toggle

-----------------------------------------------------------------------------
(* The other handlers, as far as they touch the order.                     *)

SetArchived(n, archived) ==
  /\ note[n].row
  /\ note' = [note EXCEPT ![n].archived = archived]
  /\ UNCHANGED toggle

SoftDelete(n) ==
  /\ note[n].row
  /\ note' = [note EXCEPT ![n].trashed = TRUE]
  /\ UNCHANGED toggle

RestoreNote(n) ==
  /\ note[n].trashed
  /\ note' = [note EXCEPT ![n].trashed = FALSE]
  /\ UNCHANGED toggle

DeleteNote(n) ==
  /\ note[n].trashed
  /\ note' = [note EXCEPT ![n] = NoNote]
  /\ UNCHANGED toggle

PinsNext ==
  \/ \E t \in Toggle : TogglePinWrite(t) \/ \E n \in Note : TogglePinRead(t, n)
  \/ \E len \in 1 .. MaxNames : \E ids \in [1 .. len -> Note], edited \in EditOrders : ReorderPins(ids, edited)
  \/ \E n \in Note :
       \/ SoftDelete(n) \/ RestoreNote(n) \/ DeleteNote(n)
       \/ \E archived \in BOOLEAN : SetArchived(n, archived)

PinsSpec == PinsInit /\ [][PinsNext]_pinVars

-----------------------------------------------------------------------------
(* Properties.                                                             *)

Placed == {n \in Pinned : ~note[n].missed}

\* Notes of the same slot can only come about through the trash: one of them
\* was in it during a drag (repository.go:354).  All others are told apart by
\* their slots alone, so that an edit never moves a pinned note.
PlacesDiffer == \A m, n \in Placed : note[m].slot = note[n].slot => m = n

\* The slots implement the order a user makes by pinning and dragging.
List == INSTANCE PinList WITH
  pinned <- Pinned,
  trash  <- {n \in Note : note[n].trashed},
  placed <- Placed,
  above  <- {p \in Placed \X Placed : note[p[1]].slot < note[p[2]].slot}

\* Every step on the slots, alone or between the two statements of a toggle, is
\* a step of the order as PinList promises it (repository.go:258-401).
ImplementsPinList == List!Spec

\* What the comment at repository.go:300 promises: a drag numbers the whole
\* pinned set, so that no two notes in the list hold the same position.
PositionsDiffer ==
  \A m, n \in Pinned : ~note[m].trashed /\ ~note[n].trashed /\ note[m].slot = note[n].slot => m = n
=============================================================================
