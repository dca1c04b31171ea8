----------------------------- MODULE MCLibrary -----------------------------
(***************************************************************************)
(* What hangs on the notes: the order of the pinned ones, their images,    *)
(* their tags and their export.  The modules share no variable, so every   *)
(* behaviour here runs one of them and leaves the others as they are,      *)
(* which checks each on all its behaviours.                                *)
(***************************************************************************)
EXTENDS PinOrder, Images, Tags, Export

CONSTANTS a1, a2       \* the members of Author

VARIABLE shelf

vars == <<shelf, pinVars, imagesVars, tagsVars, exportVars>>

OneNote == {<<a1, 1>>}

\* "note", "note-2" and "note-3".
NoteTitles == {<<0>>, <<0, 2>>, <<0, 3>>}

\* Bound: the last image is only stored behind others that the author of the note
\* has all stored, by the other author, or by that one when left alone.
LastUploadLast ==
  image[Images] = Unused /\ image'[Images] # Unused =>
    /\ \A i \in Image \ {Images} : Stored(i) /\ image[i].owner = a1
    /\ image'[Images].owner = a1 => author = {a1}

\* Bound: one note in the archive at a time, where a toggle does not find it; the
\* archive is nothing to the other notes.
OneArchived == Cardinality({n \in Note : note'[n].archived}) <= 1

Init ==
  /\ shelf \in {"pins", "images", "tags", "export"}
  /\ PinsInit /\ ImagesInit /\ TagsInit
  /\ ExportInit /\ (shelf # "export" => listed = <<>> /\ stored = [i \in Picture |-> "none"])

Next ==
  /\ UNCHANGED shelf
  /\ \/ shelf = "pins"   /\ PinsNext   /\ OneArchived /\ UNCHANGED <<imagesVars, tagsVars, exportVars>>
     \/ shelf = "images" /\ ImagesNext /\ LastUploadLast /\ UNCHANGED <<pinVars, tagsVars, exportVars>>
     \/ shelf = "tags"   /\ TagsNext   /\ UNCHANGED <<pinVars, imagesVars, exportVars>>
     \/ shelf = "export" /\ ExportNext /\ UNCHANGED <<pinVars, imagesVars, tagsVars>>

\* The hourly sweep keeps running (main.go:232).
Spec == Init /\ [][Next]_vars /\ WF_imagesVars(Sweep)

TypeOK == PinsTypeOK /\ ImagesTypeOK /\ TagsTypeOK /\ ExportTypeOK
=============================================================================
