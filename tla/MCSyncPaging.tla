----------------------------- MODULE MCSyncPaging -----------------------------
(* SyncPaging with the constants of the model-checking runs. *)
EXTENDS SyncPaging

\* A page of two items, an empty page, and a last page.
ThreePages == <<2, 0, 1>>
=============================================================================
