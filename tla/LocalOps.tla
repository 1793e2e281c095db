------------------------------- MODULE LocalOps -------------------------------
(***************************************************************************)
(* What the daemon does with local changes: each becomes an operation that *)
(* waits for a concurrency slot, is sent, is recorded as pending and is    *)
(* settled by the service's acknowledgment (internal/sync/local_events.go, *)
(* runtime_helpers.go, and the upload and ack handlers of note_sync.go,    *)
(* file_sync.go and config_sync.go).                                       *)
(*                                                                         *)
(* Actors: one goroutine per operation (a watcher timer, a NeedPush or     *)
(* FileUpload handler), one per upload session (runFileUpload), the read   *)
(* loop, the goroutine of a stalled round, the service and the network.    *)
(* The slots are anonymous tokens: nothing ties a token to the operation   *)
(* that took it.  A revision of a path is named by the operation that      *)
(* sends it.  Folders use neither slots nor the fifo lane; downloads, which*)
(* also hold slots, are not modelled here.                                 *)
(***************************************************************************)
EXTENDS Naturals, Sequences, FiniteSets

CONSTANTS
  Ops,        \* the local operations
  Kind,       \* Kind[o], see Kinds
  Path,       \* Path[o]: the path it is about, the new one of a rename
  From,       \* From[o]: the old path of a rename, Path[o] otherwise
  MaxUploads, \* cfg.MaxConcurrentUploads
  MaxDrops,   \* bound on lost connections
  MaxStalls,  \* bound on rounds that time out
  MaxRemote,  \* bound on remote changes
  Refusals    \* external: the service answers some requests with an error
              \* code, or asks for an upload that is not possible any more

\* "modify": NoteModify, SettingModify.  "upload": FileUploadCheck.  "asked": a
\* FileUpload the service sends of itself.  "delete", "filedelete": the deletes
\* of notes and settings, and of files.  "rename": NoteRename, FileRename.
Kinds == {"modify", "upload", "asked", "delete", "filedelete", "rename"}
OpsOf(k) == {o \in Ops : Kind[o] = k}
Uploads  == OpsOf("upload") \cup OpsOf("asked")
Deletes  == OpsOf("delete") \cup OpsOf("filedelete")
\* An ActiveUpload is named by the operation it was made for and by who made it,
\* SendFileUploadCheck or handleFileUpload.
ActiveUploads == Uploads \X {"check", "session"}
Paths    == {Path[o] : o \in Ops} \cup {From[o] : o \in Ops}
None     == "none"
NoUpload == <<None, None>>

ASSUME LocalOpsAssumption ==
  /\ IsFiniteSet(Ops)
  /\ MaxUploads \in Nat \ {0} /\ MaxDrops \in Nat /\ MaxStalls \in Nat
  /\ MaxRemote \in Nat
  /\ Refusals \in BOOLEAN
  /\ \A o \in Ops : Kind[o] \in Kinds
  /\ None \notin Ops \cup Paths

VARIABLES
  connected, drops, stalls,
  slots, fifo,     \* tokens in the two channels of the ConcurrencyManager
  pc,              \* pc[o]: where the goroutine of o stands
  wire,            \* <<o, a>>: the service's answer a to o, not read yet
  remote,          \* remote changes read
  reader,          \* path whose remote change the read loop waits to apply
  pathLocks,       \* held path locks
  pending,         \* pendingNoteModifies, ...ConfigModifies, ...UploadHashes
  pendingDeletes, pendingRenames,
  base,            \* FileHashMap, ConfigHashMap: base[p] is the known revision
  activeUploads,   \* activeUploads[p]: the ActiveUpload of p
  SlotHeld, Cancelled,  \* the ActiveUploads with that flag
  run,             \* run[o]: where runFileUpload of o's session stands
  upload           \* upload[o]: the ActiveUpload that session works for

tokens   == <<slots, fifo>>
netVars  == <<connected, drops, stalls>>
settles  == <<pendingDeletes, pendingRenames, base>>
uploads  == <<activeUploads, SlotHeld, Cancelled, run, upload>>
reading  == <<remote, reader, pathLocks>>
vars == <<netVars, tokens, pc, wire, reading, pending, settles, uploads>>

Init ==
  /\ connected = TRUE /\ drops = 0 /\ stalls = 0
  /\ slots = 0 /\ fifo = 0
  /\ pc = [o \in Ops |-> "idle"]
  /\ wire = {} /\ remote = 0 /\ reader = None /\ pathLocks = {}
  /\ pending = [p \in Paths |-> None]
  /\ pendingDeletes = {} /\ pendingRenames = <<>>
  /\ base = [p \in Paths |-> None]
  /\ activeUploads = [p \in Paths |-> NoUpload]
  /\ SlotHeld = {} /\ Cancelled = {}
  /\ run = [o \in Ops |-> "none"] /\ upload = [o \in Ops |-> NoUpload]

Goto(o, l)  == pc' = [pc EXCEPT ![o] = l]
At(o, l)    == pc[o] = l
RunTo(o, l) == run' = [run EXCEPT ![o] = l]

-----------------------------------------------------------------------------
(* ConcurrencyManager.  A release on an empty channel does nothing. *)

\* Mutant: one token too many.
WaitForSlotOffByOne == slots <= MaxUploads /\ slots' = slots + 1 /\ UNCHANGED fifo

WaitForSlot == slots < MaxUploads /\ slots' = slots + 1 /\ UNCHANGED fifo

ReleaseSlot == slots' = (IF slots = 0 THEN 0 ELSE slots - 1) /\ UNCHANGED fifo
WaitForFifo == fifo = 0 /\ fifo' = 1 /\ UNCHANGED slots
ReleaseFifo == fifo' = 0 /\ UNCHANGED slots
ReleaseIf(b) == IF b THEN ReleaseSlot ELSE UNCHANGED tokens

\* Mutant: the slot is given back whether one is held or not.
CancelReleasesAlways(p) ==
  LET u == activeUploads[p] IN
  /\ ReleaseSlot
  /\ SlotHeld' = SlotHeld \ {u}
  /\ Cancelled' = Cancelled \cup ({u} \ {NoUpload})
  /\ activeUploads' = [activeUploads EXCEPT ![p] = NoUpload]
  /\ pending' = [pending EXCEPT ![p] = None]

\* cancelUpload(p), whoever owns the active upload of p now.
CancelUpload(p) ==
  LET u == activeUploads[p] IN
  /\ ReleaseIf(u \in SlotHeld)
  /\ SlotHeld' = SlotHeld \ {u}
  /\ Cancelled' = Cancelled \cup ({u} \ {NoUpload})
  /\ activeUploads' = [activeUploads EXCEPT ![p] = NoUpload]
  /\ pending' = [pending EXCEPT ![p] = None]

-----------------------------------------------------------------------------
(* The goroutine of an operation. *)

\* What an operation's own step leaves alone.
OpFrame == UNCHANGED <<netVars, remote, reader, base, run, upload>>

\* A local change passes localReady and its echo check.  A delete checks under
\* the path lock that the path is gone and cancels an upload of it.
Begin(o) ==
  /\ At(o, "idle") /\ connected /\ Kind[o] # "asked"
  /\ Kind[o] \in {"delete", "filedelete"} => Path[o] \notin pathLocks
  /\ \/ /\ Goto(o, "wait")
        /\ IF Kind[o] = "filedelete"
             THEN CancelUpload(Path[o])
             ELSE UNCHANGED <<tokens, pending, activeUploads, SlotHeld, Cancelled>>
     \/ /\ Kind[o] \in {"delete", "filedelete"}
        /\ Goto(o, "skipped")
        /\ UNCHANGED <<tokens, pending, activeUploads, SlotHeld, Cancelled>>
  /\ OpFrame
  /\ UNCHANGED <<wire, pathLocks, pendingDeletes, pendingRenames>>

\* Mutant: the path lock is taken before the slot.
TakeSlotUnderLock(o) ==
  /\ At(o, "wait")
  /\ \/ /\ o \in Deletes /\ Path[o] \notin pathLocks
        /\ pathLocks' = pathLocks \cup {Path[o]}
        /\ UNCHANGED <<tokens, pc>>
     \/ /\ o \in Deletes => Path[o] \in pathLocks
        /\ IF Kind[o] = "rename" THEN WaitForFifo ELSE WaitForSlot
        /\ Goto(o, "send") /\ UNCHANGED pathLocks
  /\ OpFrame
  /\ UNCHANGED <<wire, pending, pendingDeletes, pendingRenames, activeUploads,
                 SlotHeld, Cancelled>>

\* WaitForSlot; renames use the fifo lane.
TakeSlot(o) ==
  /\ At(o, "wait")
  /\ IF Kind[o] = "rename" THEN WaitForFifo ELSE WaitForSlot
  /\ Goto(o, IF o \in Deletes THEN "recheck" ELSE "send")
  /\ OpFrame
  /\ UNCHANGED <<wire, pathLocks, pending, pendingDeletes, pendingRenames,
                 activeUploads, SlotHeld, Cancelled>>

\* A delete takes the path lock again; a path that came back is not deleted.
Recheck(o) ==
  /\ At(o, "recheck") /\ Path[o] \notin pathLocks
  /\ \/ /\ Goto(o, "send") /\ pathLocks' = pathLocks \cup {Path[o]}
        /\ UNCHANGED tokens
     \/ Goto(o, "skipped") /\ ReleaseSlot /\ UNCHANGED pathLocks
  /\ OpFrame
  /\ UNCHANGED <<wire, pending, pendingDeletes, pendingRenames, activeUploads,
                 SlotHeld, Cancelled>>

\* The service's answer to the request of o.
Reply(o) == <<o, IF Kind[o] = "upload" THEN "FileUpload" ELSE "Ack">>

SendSucceeds(o) ==
  /\ At(o, "send") /\ connected
  /\ wire' = wire \cup {Reply(o)}
  /\ Goto(o, "sent")
  /\ OpFrame
  /\ UNCHANGED <<tokens, pathLocks, pending, pendingDeletes, pendingRenames,
                 activeUploads, SlotHeld, Cancelled>>

\* Mutant: the slot of a failed send is kept.
SendFailsKeepsSlot(o) ==
  /\ At(o, "send")
  /\ Goto(o, "failed")
  /\ pathLocks' = pathLocks \ {Path[o]}
  /\ OpFrame
  /\ UNCHANGED <<tokens, wire, pending, pendingDeletes, pendingRenames, activeUploads,
                 SlotHeld, Cancelled>>

\* Send fails: there is no connection, or the write fails.
SendFails(o) ==
  /\ At(o, "send")
  /\ Goto(o, "failed")
  /\ IF Kind[o] = "rename" THEN ReleaseFifo ELSE ReleaseSlot
  /\ pathLocks' = IF o \in Deletes THEN pathLocks \ {Path[o]} ELSE pathLocks
  /\ OpFrame
  /\ UNCHANGED <<wire, pending, pendingDeletes, pendingRenames, activeUploads,
                 SlotHeld, Cancelled>>

\* What was sent is recorded as pending, after the send.
RecordPending(o) ==
  /\ At(o, "sent")
  /\ Goto(o, "done")
  /\ pending' = IF Kind[o] \in {"modify", "upload"}
                  THEN [pending EXCEPT ![Path[o]] = o] ELSE pending
  /\ pendingDeletes' = IF o \in Deletes THEN pendingDeletes \cup {Path[o]}
                                        ELSE pendingDeletes
  /\ pendingRenames' = IF Kind[o] = "rename" THEN Append(pendingRenames, o)
                                             ELSE pendingRenames
  /\ pathLocks' = IF o \in Deletes THEN pathLocks \ {Path[o]} ELSE pathLocks
  /\ IF Kind[o] = "upload"
       THEN /\ activeUploads' = [activeUploads EXCEPT ![Path[o]] = <<o, "check">>]
            /\ SlotHeld' = SlotHeld \cup {<<o, "check">>}
       ELSE UNCHANGED <<activeUploads, SlotHeld>>
  /\ OpFrame
  /\ UNCHANGED <<tokens, wire, Cancelled>>

Operation(o) == \/ TakeSlot(o) \/ Recheck(o)
                \/ SendSucceeds(o) \/ SendFails(o) \/ RecordPending(o)

-----------------------------------------------------------------------------
(* Upload sessions: handleFileUpload and runFileUpload, each in a goroutine. *)

UploadFrame == UNCHANGED <<netVars, fifo, pc, reading, pendingDeletes, pendingRenames,
                           base>>

\* External: in a sync round the service asks for a file of its own accord.
ServiceAsks(o) ==
  /\ Kind[o] = "asked" /\ At(o, "idle") /\ connected
  /\ Goto(o, "done")
  /\ wire' = wire \cup {<<o, "FileUpload">>}
  /\ UNCHANGED <<netVars, tokens, reading, pending, settles, uploads>>

\* handleFileUpload finds or makes the ActiveUpload of the path, and waits for a
\* slot unless that one holds one.
HandleFileUpload(o) ==
  /\ connected /\ reader = None /\ <<o, "FileUpload">> \in wire
  /\ wire' = wire \ {<<o, "FileUpload">>}
  /\ LET p == Path[o]
         u == IF activeUploads[p] = NoUpload THEN <<o, "session">> ELSE activeUploads[p] IN
     \/ /\ activeUploads' = [activeUploads EXCEPT ![p] = u]
        /\ upload' = [upload EXCEPT ![o] = u]
        /\ RunTo(o, IF u \in SlotHeld THEN "start" ELSE "wait")
     \/ Refusals /\ UNCHANGED <<activeUploads, upload, run>>
  /\ UploadFrame
  /\ UNCHANGED <<slots, pending, SlotHeld, Cancelled>>

UploadTakesSlot(o) ==
  /\ run[o] = "wait"
  /\ WaitForSlot
  /\ RunTo(o, "slot")
  /\ UploadFrame
  /\ UNCHANGED <<wire, pending, activeUploads, SlotHeld, Cancelled, upload>>

UploadMarksSlot(o) ==
  /\ run[o] = "slot"
  /\ SlotHeld' = SlotHeld \cup {upload[o]}
  /\ RunTo(o, "start")
  /\ UploadFrame
  /\ UNCHANGED <<slots, wire, pending, activeUploads, Cancelled, upload>>

\* A failed read or send: releaseFailedUploadSlot.  The upload stays active.
UploadFails(o) ==
  /\ run[o] \in {"start", "send"}
  /\ ReleaseIf(upload[o] \in SlotHeld)
  /\ SlotHeld' = SlotHeld \ {upload[o]}
  /\ RunTo(o, "over")
  /\ UploadFrame
  /\ UNCHANGED <<wire, pending, activeUploads, Cancelled, upload>>

\* runFileUpload looks at Cancelled before it starts and before every chunk; if
\* set it cancels the upload the path has now.
UploadCancelled(o) ==
  /\ run[o] \in {"start", "chunk"} /\ upload[o] \in Cancelled
  /\ CancelUpload(Path[o])
  /\ RunTo(o, "over")
  /\ UploadFrame
  /\ UNCHANGED <<wire, upload>>

UploadStarts(o) ==
  /\ run[o] = "start" /\ upload[o] \notin Cancelled
  /\ pending' = [pending EXCEPT ![Path[o]] = o]
  /\ RunTo(o, "chunk")
  /\ UploadFrame
  /\ UNCHANGED <<slots, wire, activeUploads, SlotHeld, Cancelled, upload>>

UploadNextChunk(o) ==
  /\ run[o] = "chunk" /\ upload[o] \notin Cancelled
  /\ RunTo(o, "send")
  /\ UploadFrame
  /\ UNCHANGED <<slots, wire, pending, activeUploads, SlotHeld, Cancelled, upload>>

\* A chunk is sent; the service acknowledges after the last.
UploadSendsChunk(o) ==
  /\ run[o] = "send" /\ connected
  /\ RunTo(o, "chunk")
  /\ UploadFrame
  /\ UNCHANGED <<slots, wire, pending, activeUploads, SlotHeld, Cancelled, upload>>

UploadSendsLastChunk(o) ==
  /\ run[o] = "send" /\ connected
  /\ RunTo(o, "last") /\ wire' = wire \cup {<<o, "Ack">>}
  /\ UploadFrame
  /\ UNCHANGED <<slots, pending, activeUploads, SlotHeld, Cancelled, upload>>

\* Whatever upload the path has now is no longer active.
UploadEnds(o) ==
  /\ run[o] = "last"
  /\ activeUploads' = [activeUploads EXCEPT ![Path[o]] = NoUpload]
  /\ RunTo(o, "over")
  /\ UploadFrame
  /\ UNCHANGED <<slots, wire, pending, SlotHeld, Cancelled, upload>>

RunUpload(o) == \/ UploadTakesSlot(o) \/ UploadMarksSlot(o) \/ UploadCancelled(o)
                \/ UploadFails(o) \/ UploadStarts(o) \/ UploadNextChunk(o)
                \/ UploadSendsChunk(o) \/ UploadSendsLastChunk(o) \/ UploadEnds(o)

-----------------------------------------------------------------------------
(* The read loop. *)

Read(o) == connected /\ reader = None /\ <<o, "Ack">> \in wire
           /\ wire' = wire \ {<<o, "Ack">>}

AckFrame == UNCHANGED <<netVars, pc, reading, uploads>>

\* handleNoteModifyAck, handleSettingModifyAck, handleFileUploadAck: what is
\* pending for the path becomes its known revision.
HandleModifyAck(o) ==
  LET p == Path[o] IN
  /\ Kind[o] \in {"modify", "upload", "asked"} /\ Read(o)
  /\ ReleaseSlot
  /\ \/ /\ pending[p] # None
        /\ base' = [base EXCEPT ![p] = pending[p]]
        /\ pending' = [pending EXCEPT ![p] = None]
     \/ UNCHANGED <<base, pending>>   \* nothing is pending, or no file is there
  /\ AckFrame
  /\ UNCHANGED <<pendingDeletes, pendingRenames>>

\* handleNoteDeleteAck, handleFileDeleteAck, handleSettingDeleteAck
HandleDeleteAck(o) ==
  LET p == Path[o] IN
  /\ o \in Deletes /\ Read(o)
  /\ ReleaseSlot
  /\ base' = [base EXCEPT ![p] = IF p \in pendingDeletes THEN None ELSE @]
  /\ pendingDeletes' = pendingDeletes \ {p}
  /\ AckFrame
  /\ UNCHANGED <<pending, pendingRenames>>

\* handleNoteRenameAck, handleFileRenameAck: the ack names no path, the oldest
\* pending rename is taken.
HandleRenameAck(o) ==
  /\ Kind[o] = "rename" /\ Read(o)
  /\ ReleaseFifo
  /\ IF pendingRenames = <<>>
       THEN UNCHANGED <<base, pendingRenames>>
       ELSE LET r == Head(pendingRenames) IN
            /\ base' = [base EXCEPT ![From[r]] = None, ![Path[r]] = r]
            /\ pendingRenames' = Tail(pendingRenames)
  /\ AckFrame
  /\ UNCHANGED <<pending, pendingDeletes>>

\* External: an error code instead of the ack.  dispatchText drops it.
RequestRefused(o) ==
  /\ Refusals /\ connected /\ reader = None
  /\ \E a \in {"Ack", "FileUpload"} : <<o, a>> \in wire /\ wire' = wire \ {<<o, a>>}
  /\ UNCHANGED <<netVars, tokens, pc, reading, pending, settles, uploads>>

\* A remote change of p is read; its handler takes the path lock, and the read
\* loop waits with it.
ReadRemoteChange(p) ==
  /\ connected /\ reader = None /\ remote < MaxRemote
  /\ reader' = p /\ remote' = remote + 1
  /\ UNCHANGED <<netVars, tokens, pc, wire, pathLocks, pending, settles, uploads>>

\* The handler runs under the lock; what it does to the files and the caches is
\* not about operations in flight.
ApplyRemoteChange ==
  /\ reader # None /\ reader \notin pathLocks
  /\ reader' = None
  /\ UNCHANGED <<netVars, remote, tokens, pc, wire, pathLocks, pending, settles, uploads>>

HandleAck(o) == HandleModifyAck(o) \/ HandleDeleteAck(o) \/ HandleRenameAck(o)

-----------------------------------------------------------------------------
(* Connections and rounds. *)

ConnectionLost ==
  /\ connected /\ drops < MaxDrops
  /\ connected' = FALSE /\ drops' = drops + 1
  /\ wire' = {}
  /\ UNCHANGED <<stalls, tokens, pc, reading, pending, settles, uploads>>

Reconnect ==
  /\ ~connected /\ connected' = TRUE
  /\ UNCHANGED <<drops, stalls, tokens, pc, wire, reading, pending, settles, uploads>>

\* cleanupActiveFileTransfersOnTimeout, which follows dropConnectionAfterStall:
\* every upload is cancelled and every token is taken back.
CleanupOnTimeout ==
  /\ ~connected /\ stalls < MaxStalls
  /\ stalls' = stalls + 1
  /\ Cancelled' = Cancelled \cup ({activeUploads[p] : p \in Paths} \ {NoUpload})
  /\ SlotHeld' = SlotHeld \ {activeUploads[p] : p \in Paths}
  /\ pending' = [p \in Paths |-> IF activeUploads[p] = NoUpload THEN pending[p] ELSE None]
  /\ activeUploads' = [p \in Paths |-> NoUpload]
  /\ slots' = 0 /\ fifo' = 0
  /\ UNCHANGED <<connected, drops, pc, wire, reading, settles, run, upload>>

Next == \/ \E o \in Ops : \/ Begin(o) \/ Operation(o)
                          \/ ServiceAsks(o) \/ HandleFileUpload(o) \/ RunUpload(o)
                          \/ HandleAck(o) \/ RequestRefused(o)
        \/ \E p \in Paths : ReadRemoteChange(p)
        \/ ApplyRemoteChange
        \/ ConnectionLost \/ Reconnect \/ CleanupOnTimeout

Spec == Init /\ [][Next]_vars

\* The Go scheduler runs every goroutine, a failed connection is dialed again,
\* and the service answers what it was sent.  SF: a file has a last chunk.  A
\* channel serves its senders in turn, and there are finitely many.
Fairness == /\ WF_vars(Reconnect) /\ WF_vars(ApplyRemoteChange)
            /\ \A o \in Ops : WF_vars(Operation(o)) /\ WF_vars(HandleAck(o))
            /\ \A o \in Uploads : /\ WF_vars(HandleFileUpload(o)) /\ WF_vars(RunUpload(o))
                                  /\ SF_vars(UploadSendsLastChunk(o))

FairSpec == Spec /\ Fairness

-----------------------------------------------------------------------------
(* Properties. *)

TypeOK ==
  /\ connected \in BOOLEAN /\ drops \in 0..MaxDrops /\ stalls \in 0..MaxStalls
  /\ slots \in 0..MaxUploads /\ fifo \in 0..1
  /\ pc \in [Ops -> {"idle", "wait", "recheck", "send", "sent", "done", "failed",
                     "skipped"}]
  /\ wire \subseteq Ops \X {"FileUpload", "Ack"}
  /\ remote \in 0..MaxRemote
  /\ reader \in Paths \cup {None} /\ pathLocks \subseteq Paths
  /\ pending \in [Paths -> Ops \cup {None}]
  /\ pendingDeletes \subseteq Paths /\ pendingRenames \in Seq(OpsOf("rename"))
  /\ base \in [Paths -> Ops \cup {None}]
  /\ activeUploads \in [Paths -> ActiveUploads \cup {NoUpload}]
  /\ SlotHeld \subseteq ActiveUploads /\ Cancelled \subseteq ActiveUploads
  /\ run \in [Ops -> {"none", "wait", "slot", "start", "chunk", "send", "last", "over"}]
  /\ upload \in [Ops -> ActiveUploads \cup {NoUpload}]

\* Slot operations that wait for the service: sent and not answered, or uploading.
InFlight ==
  {o \in Ops \ OpsOf("rename") :
     \/ \E a \in {"FileUpload", "Ack"} :
          <<o, a>> \in wire /\ <<Kind[o], a>> # <<"asked", "FileUpload">>
     \/ run[o] \in {"start", "chunk", "send"}}

\* Files the service asked for whose session joined the upload another operation
\* had made of the path, and with it the slot of that operation.
Joined == {o \in OpsOf("asked") : upload[o] # NoUpload /\ upload[o][1] # o}

\* Tokens are anonymous, so the late ack of a cancelled upload gives back the
\* token of another operation, and more are in flight than there are slots.  Each
\* cancelled upload and each joined one lets one more operation through, each
\* stall cleanup one per slot, and nothing else does: otherwise every token is
\* given back once (README.md:156, file_sync.go:337-353, 505-549, 900-921,
\* startup.go:501-534).
OvercommitBounded ==
  Cardinality(InFlight)
    <= MaxUploads * (1 + stalls) + Cardinality(Cancelled) + Cardinality(Joined)

Ended(o) == pc[o] \in {"done", "failed", "skipped"}

\* While the connection holds and the service acknowledges, an operation that
\* began ends: sent, failed, or found needless.  Whatever sends and path locks do,
\* every token comes back (README.md:10: a local change is pushed).
OperationsEndOnceConnected ==
  \A o \in Ops : []<>(At(o, "idle") \/ Ended(o) \/ drops > 0)

\* The read loop is not blocked for good by an operation that holds a path lock
\* while it waits for a slot only an ack can free (local_events_regression_test.go:75).
ReadLoopProceeds == []<>(reader = None)

=============================================================================
