------------------------------ MODULE MCLocalOps ------------------------------
(* LocalOps with the operations of the model-checking runs. *)
EXTENDS LocalOps

\* A note that is modified and deleted, and two renames that share a path.
NoteOps  == {"mod1", "del", "ren1", "ren2"}
NoteKind == [mod1 |-> "modify", del |-> "delete", ren1 |-> "rename", ren2 |-> "rename"]
NotePath == [mod1 |-> "a.md", del |-> "a.md", ren1 |-> "f.md", ren2 |-> "g.md"]
NoteFrom == [NotePath EXCEPT !["ren1"] = "e.md", !["ren2"] = "f.md"]

\* A file that is uploaded and deleted while the service asks for it too.
FileOps  == {"up1", "fdel", "ask"}
FileKind == [up1 |-> "upload", fdel |-> "filedelete", ask |-> "asked"]
FilePath == [up1 |-> "b.png", fdel |-> "b.png", ask |-> "b.png"]
=============================================================================
