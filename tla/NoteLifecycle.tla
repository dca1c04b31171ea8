--------------------------- MODULE NoteLifecycle ---------------------------
(***************************************************************************)
(* What happens to a note in the course of its life, one transition at a   *)
(* time and with no mention of requests: the promise NoteStore implements. *)
(* A note is kept (in the list, or in the archive), in the trash, or gone  *)
(* for good; a lock freezes it where it is; and a note is gone for good    *)
(* only after it was doomed, which happens to notes in the trash.          *)
(***************************************************************************)
CONSTANTS Note, Content

VARIABLES
  place,      \* "absent", "kept", "trashed" or "gone"
  archived,   \* notes whose archived status is set; the trash does not clear it
  locked,
  content,
  doomed      \* notes someone, or the end of the retention, has given up

lvars == <<place, archived, locked, content, doomed>>

In(p) == {n \in Note : place[n] = p}

Init ==
  /\ place = [n \in Note |-> "absent"]
  /\ archived = {} /\ locked = {} /\ doomed = {}
  /\ content \in [Note -> Content]

\* Doom falls on notes in the trash only; it may be lifted at any time.
Dooming == doomed' \ doomed \subseteq In("trashed")

Move(n, p) == place' = [place EXCEPT ![n] = p]

Create(n, c) ==
  /\ place[n] = "absent" /\ Move(n, "kept")
  /\ content' = [content EXCEPT ![n] = c]
  /\ UNCHANGED <<archived, locked>>

Edit(n, c) ==
  /\ place[n] = "kept" /\ n \notin archived \cup locked
  /\ content' = [content EXCEPT ![n] = c]
  /\ UNCHANGED <<place, archived, locked>>

SetArchived(S) ==
  /\ S \subseteq In("kept") \cup In("trashed")
  /\ (S \ archived) \cap locked = {}
  /\ archived' = S
  /\ UNCHANGED <<place, locked, content>>

SetLocked(S) ==
  /\ S \subseteq In("kept") \cup In("trashed")
  /\ locked' = S
  /\ UNCHANGED <<place, archived, content>>

Trash(n) ==
  /\ place[n] = "kept" /\ n \notin locked /\ Move(n, "trashed")
  /\ UNCHANGED <<archived, locked, content>>

Restore(n) ==
  /\ place[n] = "trashed" /\ Move(n, "kept")
  /\ UNCHANGED <<archived, locked, content>>

Destroy(S) ==
  /\ S \subseteq doomed
  /\ place' = [n \in Note |-> IF n \in S THEN "gone" ELSE place[n]]
  /\ archived' = archived \ S
  /\ locked' = locked \ S
  /\ content' \in {f \in [Note -> Content] : \A n \in Note \ S : f[n] = content[n]}

Step ==
  \/ \E n \in Note, c \in Content : Create(n, c) \/ Edit(n, c)
  \/ \E S \in SUBSET Note : SetArchived(S) \/ SetLocked(S) \/ Destroy(S)
  \/ \E n \in Note : Trash(n) \/ Restore(n)
  \/ UNCHANGED <<place, archived, locked, content>>

Spec == Init /\ [][Step /\ Dooming]_lvars

=============================================================================
