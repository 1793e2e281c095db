----------------------------- MODULE MCNoteSync -----------------------------
(* Instances of NoteSync for TLC. *)
EXTENDS NoteSync
MCContents == {"c0", "c1"}
MCRename   == {<<"a", "b">>, <<"b", "a">>}
MCAll      == {"Modify", "Mtime", "Delete", "Rename"}
=============================================================================
