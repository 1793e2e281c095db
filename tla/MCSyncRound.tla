----------------------------- MODULE MCSyncRound -----------------------------
(* SyncRound with the constants of the model-checking runs. *)
EXTENDS SyncRound

\* A FolderSync, which the daemon waits for, and one request that follows it:
\* NoteSync, FileSync and SettingSync are sent by the same steps.
TwoModules == <<"folder", "note">>
=============================================================================
