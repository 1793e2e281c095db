------------------------------ MODULE FileUpload ------------------------------
(***************************************************************************)
(* How the daemon uploads a file in chunks, and how it takes an upload up  *)
(* again after a lost connection or a restart (runFileUpload and the       *)
(* checkpoints of internal/sync/file_sync.go, the state file).             *)
(*                                                                         *)
(* One file.  A revision is a number, its content has Size[r] bytes; 0 is  *)
(* "no file".  Actors: the user; the goroutine of a local change, which    *)
(* announces the file; one goroutine per FileUpload the service sends,     *)
(* which may be two at a time and share the checkpoint and the pending     *)
(* hash; the round goroutine and the read loop; the service; the network,  *)
(* and whoever restarts the daemon.  Slots, pages and rounds are left out  *)
(* (LocalOps, SyncPaging, SyncRound), and so are remote changes of the     *)
(* file and a chunk size the service changes in the middle of a session.   *)
(***************************************************************************)
EXTENDS Naturals, Sequences, FiniteSets

CONSTANTS
  Sizes,       \* the assignments of sizes to revisions that are looked at
  MaxRev,      \* bound on revisions of the file
  ChunkSize,   \* fileUploadMessage.ChunkSize
  MaxRuns,     \* bound on uploads that run at the same time
  MaxFaults    \* bound on lost connections, restarts and rounds that time out

Revs == 1 .. MaxRev

ASSUME FileUploadAssumption ==
  /\ MaxRev \in Nat \ {0}
  /\ Sizes \subseteq [Revs -> Nat] /\ Sizes # {}
  /\ ChunkSize \in Nat \ {0}
  /\ MaxRuns \in Nat \ {0} /\ MaxFaults \in Nat

VARIABLES
  Size, disk,
  last,      \* the last revision written
  event,     \* a change the watcher has not reported yet
  conn,      \* "up", "down", or "broken": what is written is lost
  asked,     \* the round of this connection has made its request
  faults,
  st,        \* of the state: [known, pending, cp], see NoState
  saved,     \* the state file
  saving,    \* who has changed the state and not saved it yet
  active,    \* the ActiveUpload of the path, 0 for none
  cancelled, \* the ActiveUploads with Cancelled set
  check,     \* SendFileUploadCheck: {the revision announced} until it is recorded
  run,       \* run[k]: a goroutine of runFileUpload, see NoRun
  toClient,  \* messages of the service, in order
  svc,       \* external: the revision the service has
  session,   \* external: the upload session of the service, see NoSession
  sent,      \* history: the chunks written, <<session, revision, chunk>>
  lost       \* history: one of them was written to a broken connection

world   == <<Size, disk, last, event>>
net     == <<conn, asked, faults>>
file    == <<saved, saving>>
uploads == <<active, cancelled>>
service == <<toClient, svc, session>>
history == <<sent, lost>>
vars == <<world, net, st, file, uploads, check, run, service, history>>

Runs == 1 .. MaxRuns
NoCheckpoint == [session |-> 0, hash |-> 0, last |-> 0, old |-> FALSE]
NoState   == [known |-> FALSE, pending |-> 0, cp |-> NoCheckpoint]
NoRun     == [at |-> "none", session |-> 0, upload |-> 0, rev |-> 0, i |-> 0]
NoSession == [id |-> 0, rev |-> 0, got |-> {}]

Init ==
  /\ Size \in Sizes /\ disk = 1 /\ last = 1 /\ event = FALSE
  /\ conn = "down" /\ asked = FALSE /\ faults = 0
  /\ \E k \in BOOLEAN : st = [NoState EXCEPT !.known = k] /\ svc = IF k THEN 1 ELSE 0
  /\ saved = st /\ saving = {}
  /\ active = 0 /\ cancelled = {}
  /\ check = {} /\ run = [k \in Runs |-> NoRun]
  /\ toClient = <<>> /\ session = NoSession /\ sent = {} /\ lost = FALSE

\* saveState: the state as it is then, not as it was when it was changed.  After
\* the last fault of a run nobody reads the file again.
Readable == faults < MaxFaults
Fault    == faults < MaxFaults /\ faults' = faults + 1
Me(k)  == <<"run", k>>
By(a)  == <<a, 0>>
Writers == {Me(k) : k \in Runs} \cup {By(a) : a \in {"check", "reader", "round", "delete"}}
MustSave(w) == saving' = IF Readable THEN saving \cup {w} ELSE {}
SaveState(w) ==
  /\ w \in saving
  /\ saved' = st /\ saving' = saving \ {w}
  /\ UNCHANGED <<world, net, st, uploads, check, run, service, history>>

-----------------------------------------------------------------------------
(* The chunks of a file. *)

\* Mutant: the last, shorter chunk is forgotten.
TotalWithoutRemainder(r) == IF Size[r] < ChunkSize THEN 1 ELSE Size[r] \div ChunkSize

TotalChunks(r) == IF Size[r] = 0 THEN 1 ELSE (Size[r] + ChunkSize - 1) \div ChunkSize
Bytes(r, i) == {b \in 0 .. Size[r] - 1 : i * ChunkSize <= b /\ b < (i + 1) * ChunkSize}

-----------------------------------------------------------------------------
(* External: the service.  It opens a session for a revision it does not    *)
(* have, goes on with the one it has open for it, and is done when it has   *)
(* all chunks of the content that was announced.                            *)

Message(t, s) == [type |-> t, session |-> s, found |-> 0, deleted |-> FALSE]
Request(rev) ==
  IF svc = rev THEN UNCHANGED session
  ELSE session' = IF session.rev = rev THEN session
                  ELSE [id |-> session.id + 1, rev |-> rev, got |-> {}]
Announced(rev) ==
  /\ Request(rev) /\ UNCHANGED svc
  /\ toClient' = Append(toClient, IF svc = rev THEN Message("ack", 0)
                                  ELSE Message("upload", session'.id))
Closed == [session EXCEPT !.rev = 0, !.got = {}]
Chunk(id, rev, i) ==
  LET got == session.got \cup {<<rev, i>>}
      whole == \A j \in 0 .. TotalChunks(session.rev) - 1 : <<session.rev, j>> \in got
  IN IF session.id # id \/ session.rev = 0 THEN UNCHANGED service
     ELSE /\ session' = IF whole THEN Closed ELSE [session EXCEPT !.got = got]
          /\ svc' = IF whole THEN session.rev ELSE svc
          /\ toClient' = IF whole THEN Append(toClient, Message("ack", 0)) ELSE toClient

-----------------------------------------------------------------------------
(* The user and the network. *)

WorldOnly == UNCHANGED <<net, st, file, uploads, check, run, service, history>>
Edit ==
  /\ last + 1 \in Revs
  /\ last' = last + 1 /\ disk' = last + 1 /\ event' = TRUE
  /\ UNCHANGED Size /\ WorldOnly
Delete ==
  /\ last + 1 \in Revs  \* a file that is gone may come back
  /\ disk # 0 /\ disk' = 0 /\ event' = TRUE
  /\ UNCHANGED <<Size, last>> /\ WorldOnly

NetOnly == UNCHANGED <<world, st, file, uploads, check, run, svc, session, history>>
Connect ==
  /\ conn = "down"
  /\ conn' = "up" /\ asked' = FALSE
  /\ UNCHANGED <<faults, toClient>> /\ NetOnly
Break ==
  /\ conn = "up" /\ Fault
  /\ conn' = "broken" /\ toClient' = <<>>
  /\ UNCHANGED asked /\ NetOnly

\* The read loop notices, at once or later.
Disconnected ==
  /\ conn = "broken"
  /\ conn' = "down"
  /\ UNCHANGED <<asked, faults, toClient>> /\ NetOnly

\* A crash, and the next start: memory is what the state file has.
Restart ==
  /\ Fault /\ conn' = "down" /\ toClient' = <<>>
  /\ st' = saved /\ saving' = {} /\ saved' = IF Readable' THEN saved ELSE NoState
  /\ active' = 0 /\ check' = {} /\ run' = [k \in Runs |-> NoRun] /\ event' = FALSE
  /\ cancelled' = {}
  /\ UNCHANGED <<Size, disk, last, asked, svc, session, history>>

\* uploadCheckpointMaxAge passes; it is looked at only while nothing goes on.
CheckpointAges ==
  /\ conn = "down" /\ st.cp # NoCheckpoint /\ ~st.cp.old /\ \A k \in Runs : run[k] = NoRun
  /\ st' = [st EXCEPT !.cp.old = TRUE]
  /\ UNCHANGED <<world, net, file, uploads, check, run, service, history>>

-----------------------------------------------------------------------------
(* Local changes. *)

Held == {run[k].upload : k \in Runs} \ {0}
NewUpload ==
  /\ active' = CHOOSE u \in 1 .. MaxRuns + 1 :
       u \notin Held /\ \A v \in 1 .. u - 1 : v \in Held
  /\ cancelled' = cancelled \cap Held

\* SendFileUploadCheck; without a connection the event is dropped (localReady).
SendFileUploadCheck ==
  /\ event /\ disk # 0 /\ check = {} /\ By("check") \notin saving
  /\ event' = FALSE
  /\ CASE conn = "down"   -> UNCHANGED <<check, service>>
       [] conn = "broken" -> check' = {disk} /\ UNCHANGED service
       [] OTHER           -> check' = {disk} /\ Announced(disk)
  /\ UNCHANGED <<Size, disk, last, net, st, file, uploads, run, history>>
RecordCheck == \E rev \in check :
  /\ st' = [st EXCEPT !.pending = rev] /\ MustSave(By("check"))
  /\ NewUpload
  /\ check' = {}
  /\ UNCHANGED <<world, net, saved, run, service, history>>

\* Mutant: the path keeps the upload that was cancelled.
CancelKeepsUpload(w) ==
  /\ cancelled' = cancelled \cup ({active} \cap Held) /\ UNCHANGED active
  /\ st' = [st EXCEPT !.pending = 0, !.cp = IF active # 0 THEN NoCheckpoint ELSE @]
  /\ MustSave(w)

\* cancelUpload, which is given the path: it ends the ActiveUpload the path has now.
CancelUpload(w) ==
  /\ cancelled' = cancelled \cup ({active} \cap Held) /\ active' = 0
  /\ st' = [st EXCEPT !.pending = 0, !.cp = IF active # 0 THEN NoCheckpoint ELSE @]
  /\ MustSave(w)

\* HandleLocalDelete of a file that is missing; the daemon forgets the file when
\* the service confirms, which is FileDeleteAck.
ReportDelete ==
  /\ event /\ disk = 0 /\ By("delete") \notin saving
  /\ event' = FALSE
  /\ IF conn = "down" THEN UNCHANGED <<st, saving, uploads, service>>
     ELSE /\ CancelUpload(By("delete"))
          /\ IF conn = "broken" THEN UNCHANGED service
             ELSE /\ svc' = 0 /\ session' = Closed
                  /\ toClient' = Append(toClient, Message("deleteAck", 0))
  /\ UNCHANGED <<Size, disk, last, net, saved, check, run, history>>

-----------------------------------------------------------------------------
(* The round. *)

\* Mutant: a pending hash does not keep the file in an incremental scan.
SkippedWhatever == st.known

\* An incremental scan takes a file it knows, with an old mtime and no pending hash,
\* for unchanged.
Skipped == st.known /\ st.pending = 0

\* scanVault and sendSyncRequests; the interleavings inside are in VaultScan.
FileSync ==
  /\ conn = "up" /\ ~asked /\ asked' = TRUE
  /\ \E skip \in {Skipped, FALSE} :
       LET found == IF disk = 0 \/ skip THEN 0 ELSE disk
           end   == [Message("end", 0) EXCEPT !.found = found, !.deleted = disk = 0 /\ st.known]
       IN IF found # 0 /\ svc # found
            THEN /\ Request(found) /\ UNCHANGED svc
                 /\ toClient' = toClient \o <<end, Message("upload", session'.id)>>
            ELSE /\ toClient' = Append(toClient, end)
                 /\ svc' = IF end.deleted THEN 0 ELSE svc
                 /\ session' = IF end.deleted THEN Closed ELSE session
  /\ UNCHANGED <<world, conn, faults, st, file, uploads, check, run, history>>

\* cleanupActiveFileTransfersOnTimeout
Stall ==
  /\ asked /\ Fault /\ By("round") \notin saving
  /\ cancelled' = cancelled \cup ({active} \cap Held) /\ active' = 0
  /\ st' = IF active = 0 THEN st ELSE [st EXCEPT !.pending = 0, !.cp = NoCheckpoint]
  /\ MustSave(By("round"))
  /\ UNCHANGED <<world, conn, asked, saved, check, run, service, history>>

-----------------------------------------------------------------------------
(* The read loop. *)

Reads(t) ==
  /\ conn = "up" /\ By("reader") \notin saving
  /\ toClient # <<>> /\ Head(toClient).type = t
  /\ toClient' = Tail(toClient)
  /\ UNCHANGED <<world, net, saved, check, svc, session, history>>

\* The scanned hashes of a round are kept from here on, also those of uploads to come.
HandleFileSyncEnd ==
  /\ Reads("end")
  /\ LET m == Head(toClient) IN
     st' = [st EXCEPT !.known = m.found # 0 \/ (@ /\ ~m.deleted)]
  /\ MustSave(By("reader")) /\ UNCHANGED <<uploads, run>>

\* The ack settles whatever hash is pending.
HandleFileUploadAck ==
  /\ Reads("ack")
  /\ IF st.pending # 0 /\ disk # 0
       THEN st' = [known |-> TRUE, pending |-> 0, cp |-> NoCheckpoint] /\ MustSave(By("reader"))
       ELSE st' = [st EXCEPT !.cp = NoCheckpoint] /\ UNCHANGED saving
  /\ UNCHANGED <<uploads, run>>
HandleFileDeleteAck ==
  /\ Reads("deleteAck")
  /\ st' = [st EXCEPT !.known = FALSE] /\ MustSave(By("reader"))
  /\ UNCHANGED <<uploads, run>>

Goto(k, l) == run' = [run EXCEPT ![k].at = l]
At(k, l)   == run[k].at = l
End(k)     == run' = [run EXCEPT ![k] = NoRun]

HandleFileUpload ==
  /\ Reads("upload")
  /\ IF disk = 0 THEN UNCHANGED <<uploads, run>>
     ELSE \E k \in Runs :
       /\ At(k, "none") /\ \A j \in 1 .. k - 1 : ~At(j, "none")
       /\ IF active = 0 THEN NewUpload ELSE UNCHANGED uploads
       /\ run' = [run EXCEPT ![k] = [NoRun EXCEPT !.at = "read", !.upload = active',
                                                  !.session = Head(toClient).session]]
  /\ UNCHANGED <<st, saving>>

-----------------------------------------------------------------------------
(* runFileUpload, goroutine k.  Without the file or a connection it gives  *)
(* up and leaves the ActiveUpload to the timeout of the round.             *)

RunFrame == UNCHANGED <<world, net, saved, check>>
Quiet    == UNCHANGED <<st, saving, uploads, service, history>>
Step(k, l) == At(k, l) /\ Me(k) \notin saving /\ RunFrame

\* Mutant: the checkpoint of another content.
UsableForAnyContent(c, r) ==
  c # NoCheckpoint /\ ~c.old /\ c.session = r.session /\ c.last < TotalChunks(r.rev) - 1
Usable(c, r) ==
  /\ c # NoCheckpoint /\ ~c.old
  /\ c.session = r.session /\ c.hash = r.rev
  /\ c.last < TotalChunks(r.rev) - 1

\* Reading the file and uploadStartChunk; a checkpoint that does not fit is deleted
\* in a second step.
StartUpload(k) ==
  /\ Step(k, "read")
  /\ LET r == [run[k] EXCEPT !.rev = disk] IN
     CASE disk = 0 -> End(k)
       [] Usable(st.cp, r) ->
            run' = [run EXCEPT ![k] = [r EXCEPT !.at = "pend", !.i = st.cp.last + 1]]
       [] OTHER ->
            run' = [run EXCEPT ![k] = [r EXCEPT !.at =
                      IF st.cp = NoCheckpoint THEN "pend" ELSE "expire"]]
  /\ Quiet
ExpireCheckpoint(k) ==
  /\ Step(k, "expire")
  /\ Goto(k, "pend") /\ st' = [st EXCEPT !.cp = NoCheckpoint] /\ MustSave(Me(k))
  /\ UNCHANGED <<uploads, service, history>>

Cancelled(k) == run[k].upload \in cancelled
Abandon(k) == Cancelled(k) /\ CancelUpload(Me(k)) /\ End(k) /\ UNCHANGED <<service, history>>

RecordPending(k) ==
  /\ Step(k, "pend")
  /\ \/ Abandon(k)
     \/ /\ ~Cancelled(k)
        /\ Goto(k, "send") /\ st' = [st EXCEPT !.pending = run[k].rev] /\ MustSave(Me(k))
        /\ UNCHANGED <<uploads, service, history>>

\* One turn of the loop up to SendBinary, which takes the connection of the moment.
SendChunk(k) ==
  /\ Step(k, "send")
  /\ \/ Abandon(k)
     \/ /\ ~Cancelled(k) /\ conn = "down"
        /\ End(k) /\ Quiet
     \/ /\ ~Cancelled(k) /\ conn # "down"
        /\ LET r == run[k] IN
           /\ sent' = sent \cup {<<r.session, r.rev, r.i>>}
           /\ Goto(k, IF r.i < TotalChunks(r.rev) - 1 THEN "mark" ELSE "done")
           /\ IF conn = "up" THEN Chunk(r.session, r.rev, r.i) /\ UNCHANGED lost
              ELSE lost' = TRUE /\ UNCHANGED service
        /\ UNCHANGED <<st, saving, uploads>>

MarkChunk(k) ==
  /\ Step(k, "mark")
  /\ st' = [st EXCEPT !.cp = [session |-> run[k].session, hash |-> run[k].rev,
                              last |-> run[k].i, old |-> FALSE]]
  /\ MustSave(Me(k))
  /\ run' = [run EXCEPT ![k].at = "send", ![k].i = @ + 1]
  /\ UNCHANGED <<uploads, service, history>>

\* The upload that is over need not be the one the path has now.
FinishUpload(k) ==
  /\ Step(k, "done")
  /\ End(k) /\ active' = 0
  /\ UNCHANGED <<st, saving, cancelled, service, history>>

-----------------------------------------------------------------------------
RunStep == \E k \in Runs :
  \/ StartUpload(k) \/ ExpireCheckpoint(k) \/ RecordPending(k) \/ SendChunk(k)
  \/ MarkChunk(k) \/ FinishUpload(k)
Daemon ==
  \/ \E w \in Writers : SaveState(w)
  \/ SendFileUploadCheck \/ RecordCheck \/ ReportDelete
  \/ FileSync \/ HandleFileSyncEnd \/ HandleFileUploadAck \/ HandleFileDeleteAck
  \/ HandleFileUpload
  \/ RunStep \/ Connect \/ Disconnected
Next ==
  \/ Daemon
  \/ Edit \/ Delete \/ Break \/ Restart \/ CheckpointAges \/ Stall

Spec == Init /\ [][Next]_vars

\* Every actor of the daemon goes on, and a dead connection is noticed; each of
\* their steps uses up something finite, so the union is enough.
FairSpec == Spec /\ WF_vars(Daemon)

-----------------------------------------------------------------------------
Checkpoints == [session : Nat, hash : Revs \cup {0}, last : Nat, old : BOOLEAN]
States == [known : BOOLEAN, pending : Revs \cup {0}, cp : Checkpoints]

\* Type invariant: an upload that runs is at one of its chunks, and a path that has
\* an upload has one that was made and not cancelled.
TypeOK ==
  /\ disk \in Revs \cup {0} /\ last \in Revs /\ svc \in Revs \cup {0}
  /\ conn \in {"up", "down", "broken"}
  /\ st \in States /\ saved \in States
  /\ saving \subseteq Writers
  /\ active \in (0 .. MaxRuns + 1) \ cancelled
  /\ \A k \in Runs : At(k, "send") => run[k].i < TotalChunks(run[k].rev)

\* A checkpoint, in memory or in the state file, covers only chunks that were written,
\* and an upload that is resumed skips only such chunks of its session and its content
\* (internal/sync/file_sync.go, uploadStartChunk and the checkpoint of the loop).
WasSent(s, r, n) == \A j \in 0 .. n - 1 : <<s, r, j>> \in sent
ResumeSkipsOnlySent ==
  /\ \A s \in {st, saved} :
       s.cp # NoCheckpoint => WasSent(s.cp.session, s.cp.hash, s.cp.last + 1)
  /\ \A k \in Runs : At(k, "send") => WasSent(run[k].session, run[k].rev, run[k].i)

\* An upload that comes to its end has written every byte of the content it read, in
\* at least one chunk, also for an empty file and one that fills its last chunk.
FinishedIsWhole == \A k \in Runs : At(k, "done") =>
  LET chunks == {c \in sent : c[1] = run[k].session /\ c[2] = run[k].rev} IN
  /\ chunks # {}
  /\ UNION {Bytes(c[2], c[3]) : c \in chunks} = 0 .. Size[run[k].rev] - 1

\* A hash that is still pending when the connection is gone makes the next round offer
\* the file, also after a restart, until the service has it or the upload is given up
\* (README.md:16, the pending hashes; scanVault).
PendingReachesService ==
  (conn = "down" /\ st.pending # 0) ~> (st.pending = 0 \/ disk = 0 \/ svc = disk \/ lost)

=============================================================================
