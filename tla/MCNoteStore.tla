---------------------------- MODULE MCNoteStore ----------------------------
(* NoteStore on two notes, two contents and two handlers at a time.        *)
EXTENDS NoteStore
=============================================================================
