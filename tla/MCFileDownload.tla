---------------------------- MODULE MCFileDownload ----------------------------
(* Instances of FileDownload for TLC. *)
EXTENDS FileDownload

\* Two revisions of "a", the second pushed, and an empty file "b".
TwoOfA     == <<"a", "a", "b">>
LastEmpty  == <<2, 1, 0>>
===============================================================================
