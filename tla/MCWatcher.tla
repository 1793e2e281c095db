------------------------------- MODULE MCWatcher -------------------------------
(* Watcher with the paths of the model-checking runs. *)
EXTENDS Watcher

\* A file in the vault, one in a subdirectory, and a staging file.
MCDirOf == [f \in Files |-> IF f = "b" THEN "d" ELSE Root]
=============================================================================
