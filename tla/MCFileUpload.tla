----------------------------- MODULE MCFileUpload -----------------------------
(* FileUpload with sizes around the chunk size. *)
EXTENDS FileUpload

\* With chunks of two bytes: a short last chunk, a full one, an empty file.
MCSizes == {<<3, 4>>, <<4, 0>>}
===============================================================================
