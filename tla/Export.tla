------------------------------ MODULE Export ------------------------------
(***************************************************************************)
(* The archive of a user's notes (backend/internal/export).  The notes are *)
(* listed in one statement and the images they mention are fetched one by  *)
(* one, while the sweep and other requests delete images; the archive is   *)
(* then built from what has been fetched, every note under a name made     *)
(* from its title.  A name is the number of a stem followed by the numbers *)
(* appended to it: "note-2.md" is <<0, 2>>, be it the note titled "Note 2" *)
(* or the second one titled "Note".                                        *)
(***************************************************************************)
EXTENDS Naturals, Sequences, FiniteSets

CONSTANTS
  Title,     \* what sanitiseFilename makes of the titles
  Picture,   \* ids of images
  MaxListed  \* bound: notes in an archive

ASSUME ExportAssumption ==
  /\ Title \subseteq Seq(Nat)
  /\ MaxListed \in Nat

VARIABLES stored, listed, fetch, bundle, names

exportVars == <<stored, listed, fetch, bundle, names>>

Listed == [title : Title, refs : SUBSET Picture]

\* A picture is the user's own, another user's, or there is none of that id.
ExportInit ==
  /\ stored \in [Picture -> {"own", "other", "none"}]
  /\ \E len \in 0 .. MaxListed : listed \in [1 .. len -> Listed]     \* ListForExport
  /\ fetch = UNION {listed[i].refs : i \in 1 .. Len(listed)}
  /\ bundle = {}
  /\ names = <<>>

\* The sweep, or the end of the other user.
PictureGoes(i) ==
  /\ stored' = [stored EXCEPT ![i] = "none"]
  /\ UNCHANGED <<listed, fetch, bundle, names>>

\* Faulty variant: the user of the row is not looked at.
Fetch_AnyUser(i) ==
  /\ i \in fetch
  /\ fetch' = fetch \ {i}
  /\ bundle' = IF stored[i] # "none" THEN bundle \cup {i} ELSE bundle
  /\ UNCHANGED <<stored, listed, names>>

\* FetchByIDs: the ids in any order.
Fetch(i) ==
  /\ i \in fetch
  /\ fetch' = fetch \ {i}
  /\ bundle' = IF stored[i] = "own" THEN bundle \cup {i} ELSE bundle
  /\ UNCHANGED <<stored, listed, names>>

Assigned == {names[i] : i \in 1 .. Len(names)}

\* Faulty variant: the number counts the notes of the same title.
EntryName_Counter(title) ==
  LET before == Cardinality({i \in 1 .. Len(names) : listed[i].title = title})
  IN IF before = 0 THEN title ELSE Append(title, before + 1)

\* The title's own name, or with the first number from 2 that is not taken.
EntryName(title) ==
  IF title \notin Assigned THEN title
  ELSE Append(title, CHOOSE k \in 2 .. Len(names) + 2 :
         /\ Append(title, k) \notin Assigned
         /\ \A j \in 2 .. k - 1 : Append(title, j) \in Assigned)

\* One turn of the loop over the notes.
WriteNote ==
  /\ fetch = {} /\ Len(names) < Len(listed)
  /\ names' = Append(names, EntryName(listed[Len(names) + 1].title))
  /\ UNCHANGED <<stored, listed, fetch, bundle>>

ExportNext == WriteNote \/ \E i \in Picture : PictureGoes(i) \/ Fetch(i)

ExportSpec == ExportInit /\ [][ExportNext]_exportVars

-----------------------------------------------------------------------------
(* Properties.                                                             *)

ExportTypeOK ==
  /\ stored \in [Picture -> {"own", "other", "none"}]
  /\ fetch \subseteq Picture /\ bundle \subseteq Picture \ fetch
  /\ \A i \in bundle : stored[i] # "other"
  /\ Len(names) <= Len(listed)

\* No two notes of an archive get the same name, although a title may itself
\* look like the numbered name of another (export.go:150-153).
EntriesDiffer == Cardinality(Assigned) = Len(names)
=============================================================================
