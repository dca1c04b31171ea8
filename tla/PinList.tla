------------------------------ MODULE PinList ------------------------------
(***************************************************************************)
(* What the order of the pinned notes promises: a freshly pinned note is   *)
(* on top, a drag puts the notes it names first, in the order it gives,    *)
(* and no other step moves two notes past each other.  The order is the    *)
(* relation `above' between the notes that have a place.  A note that was  *)
(* in the trash during a drag has lost its place: the order says nothing   *)
(* of it until it is pinned again or a drag finds it back.                 *)
(***************************************************************************)
EXTENDS Naturals, Sequences

CONSTANTS Note, MaxNames

VARIABLES pinned, trash, placed, above

Names(ids) == {ids[i] : i \in 1 .. Len(ids)}
IsBefore(ids, m, n) ==
  \E i \in 1 .. Len(ids) : ids[i] = m /\ \A j \in 1 .. i : ids[j] # n

Pairs(S) == {p \in S \X S : p[1] # p[2]}
IsOrder(R, S) ==
  /\ R \subseteq Pairs(S)
  /\ \A p \in Pairs(S) : p \in R <=> <<p[2], p[1]>> \notin R
  /\ \A p, q \in R : p[2] = q[1] => <<p[1], q[2]>> \in R

Init == pinned = {} /\ trash = {} /\ placed = {} /\ above = {}

Pin(n) ==
  /\ pinned' = pinned \cup {n}
  /\ placed' = placed \cup {n}
  /\ above' = {p \in above : n \notin {p[1], p[2]}} \cup {p \in Pairs(placed') : p[1] = n}
  /\ UNCHANGED trash

Unpin(n) ==
  /\ pinned' = pinned \ {n}
  /\ placed' = placed \ {n}
  /\ above' = {p \in above : n \notin {p[1], p[2]}}
  /\ UNCHANGED trash

Trash(n)   == trash' = trash \cup {n} /\ UNCHANGED <<pinned, placed, above>>
Restore(n) == trash' = trash \ {n} /\ UNCHANGED <<pinned, placed, above>>

\* The note is gone for good.
Destroy(n) ==
  /\ pinned' = pinned \ {n}
  /\ placed' = placed \ {n}
  /\ trash' = trash \ {n}
  /\ above' = {p \in above : n \notin {p[1], p[2]}}

Reorder(ids) ==
  LET shown == pinned \ trash IN
  /\ placed' = shown
  /\ IsOrder(above', shown)
  /\ \A p \in Pairs(shown) :
       \/ p[1] \in Names(ids) /\ p[2] \notin Names(ids)
       \/ Names(ids) \cap {p[1], p[2]} = {p[1], p[2]} /\ IsBefore(ids, p[1], p[2])
       \/ Names(ids) \cap {p[1], p[2]} = {} /\ p \in above
     => p \in above'
  /\ UNCHANGED <<pinned, trash>>

Next ==
  \/ \E n \in Note : Pin(n) \/ Unpin(n) \/ Trash(n) \/ Restore(n) \/ Destroy(n)
  \/ \E len \in 1 .. MaxNames : \E ids \in [1 .. len -> Note] : Reorder(ids)

Spec == Init /\ [][Next]_<<pinned, trash, placed, above>>
=============================================================================
