----------------------------- MODULE FileDownload -----------------------------
(***************************************************************************)
(* Downloads of attachments (internal/sync/file_sync.go): an announced     *)
(* update opens a session, the service answers with the chunks of the file,*)
(* a goroutine assembles them, checks the hash and replaces the file.      *)
(*                                                                         *)
(* Actors: one goroutine per FileSyncUpdate, the read loop (the answer to a*)
(* request and every chunk), one goroutine per merge, the goroutine of a   *)
(* stalled round, which cancels everything, the service and the network.   *)
(* An update names the revision it announces; the service's time of a      *)
(* revision is its number.  The service answers a request with a new       *)
(* SessionID, named here by the update whose handler made the request, and *)
(* with the latest revision it announced.  Paths that are excluded or too  *)
(* large are not among the updates; temporary files and other users of the *)
(* path locks are left out.                                                *)
(***************************************************************************)
EXTENDS Naturals, FiniteSets

CONSTANTS
  N,         \* the service announces updates 1 .. N
  Path,      \* Path[u]: the file it is about
  Chunks,    \* Chunks[u]: TotalChunks of that revision, 0 for an empty file
  Paged,     \* the updates that carry a PageIndex; others are pushed
  MaxSlots,  \* capacity of the slots
  MaxDrops,  \* bound on lost connections
  MaxStalls, \* bound on rounds that time out
  MaxFaults  \* bound on failed file operations and damaged chunks

Updates == 1..N
Paths   == {Path[u] : u \in Updates}
None    == 0

ASSUME FileDownloadAssumption ==
  /\ N \in Nat /\ MaxSlots \in Nat \ {0}
  /\ MaxDrops \in Nat /\ MaxStalls \in Nat /\ MaxFaults \in Nat
  /\ \A u \in Updates : Chunks[u] \in Nat
  /\ Paged \subseteq Updates

VARIABLES
  connected, drops, stalls, faults,
  slots,      \* tokens in the slots channel
  upd,        \* upd[u]: where the handler of update u stands
  found,      \* found[u]: the session that handler attaches to
  temp,       \* temp[p]: the update whose entry "temp_" + p holds
  tempHeld,   \* the entries of updates with SlotHeld
  live,       \* the SessionIDs in fileDownloadSessions
  held, Cancelled, Merging, \* the sessions with that flag
  sess,       \* sess[s]: what else session s records
  svc,        \* svc[s]: the service's side of it
  reader,     \* the session whose answer or chunk the read loop stores
  merge,      \* merge[<<s, u>>]: mergeDownloadSession(s), as u started it
  locked,     \* paths whose lock a merge holds
  disk, base, \* the file and its FileHashMap entry
  syncTime,   \* FileSyncTime
  pages,      \* the updates whose page item was completed
  overlaps    \* history: overlaps[p], updates of p that came before all was over

netVars  == <<connected, drops, stalls>>
entries  == <<live, held, Cancelled>>
fileVars == <<disk, base, syncTime>>
vars == <<netVars, faults, slots, upd, found, temp, tempHeld, entries, Merging, sess,
          svc, reader, merge, locked, fileVars, pages, overlaps>>

NoSession == [rev |-> None, hash |-> None, time |-> 0, page |-> None,
              got |-> 0, damaged |-> FALSE]
NoFile    == [rev |-> None, whole |-> TRUE]
Idle      == <<"idle", None>>

Init ==
  /\ connected = TRUE /\ drops = 0 /\ stalls = 0 /\ faults = 0 /\ slots = 0
  /\ upd = [u \in Updates |-> "later"] /\ found = [u \in Updates |-> None]
  /\ temp = [p \in Paths |-> None] /\ tempHeld = {}
  /\ live = {} /\ held = {} /\ Cancelled = {} /\ Merging = {}
  /\ sess = [s \in Updates |-> NoSession] /\ svc = [s \in Updates |-> "none"]
  /\ reader = Idle
  /\ merge = [m \in Updates \X Updates |-> "none"] /\ locked = {}
  /\ disk = [p \in Paths |-> NoFile] /\ base = [p \in Paths |-> None] /\ syncTime = 0
  /\ pages = {} /\ overlaps = [p \in Paths |-> 0]

Larger(a, b) == IF a > b THEN a ELSE b
Fault        == faults < MaxFaults /\ faults' = faults + 1
ReleaseSlots(n) == slots' = IF slots < n THEN 0 ELSE slots - n
Release(b)   == ReleaseSlots(IF b THEN 1 ELSE 0)
PageOf(u)    == IF u \in Paged THEN u ELSE None
\* completeSyncPage; without a PageIndex it does nothing.
CompletePage(q) == pages' = pages \cup ({q} \ {None})
SessionsOf(p)   == {s \in live : Path[s] = p}
Total(s)        == Chunks[sess[s].rev]

\* Something of an earlier update of p may still come.
Busy(p) == \/ temp[p] # None
           \/ SessionsOf(p) # {}
           \/ \E u \in Updates : /\ Path[u] = p
                                 /\ \/ upd[u] \in {"look", "wait", "record", "send"}
                                    \/ svc[u] = "asked"

-----------------------------------------------------------------------------
(* handleFileSyncUpdate, in a goroutine. *)

\* The read loop starts the handler of an update; one path's updates come in order.
UpdateArrives(u) ==
  /\ connected /\ reader = Idle /\ upd[u] = "later"
  /\ \A v \in Updates : v < u /\ Path[v] = Path[u] => upd[v] # "later"
  /\ upd' = [upd EXCEPT ![u] = "look"]
  /\ overlaps' = [overlaps EXCEPT ![Path[u]] = IF Busy(Path[u]) THEN @ + 1 ELSE @]
  /\ UNCHANGED <<netVars, faults, slots, found, temp, tempHeld, entries, Merging, sess,
                 svc, reader, merge, locked, fileVars, pages>>

\* Is there a session of the path already?  Temporary entries do not count, and
\* any of several may be taken.
LookForSession(u) ==
  /\ upd[u] = "look"
  /\ upd' = [upd EXCEPT ![u] = "wait"]
  /\ IF SessionsOf(Path[u]) = {}
       THEN UNCHANGED found
       ELSE \E s \in SessionsOf(Path[u]) : found' = [found EXCEPT ![u] = s]
  /\ UNCHANGED <<netVars, faults, slots, temp, tempHeld, entries, Merging, sess, svc,
                 reader, merge, locked, fileVars, pages, overlaps>>

\* Mutant: one slot too many.
TakeSlotOffByOne(u) ==
  /\ upd[u] = "wait" /\ slots <= MaxSlots
  /\ slots' = slots + 1
  /\ upd' = [upd EXCEPT ![u] = "record"]
  /\ UNCHANGED <<netVars, faults, found, temp, tempHeld, entries, Merging, sess, svc,
                 reader, merge, locked, fileVars, pages, overlaps>>

\* WaitForSlot
TakeSlot(u) ==
  /\ upd[u] = "wait" /\ slots < MaxSlots
  /\ slots' = slots + 1
  /\ upd' = [upd EXCEPT ![u] = "record"]
  /\ UNCHANGED <<netVars, faults, found, temp, tempHeld, entries, Merging, sess, svc,
                 reader, merge, locked, fileVars, pages, overlaps>>

\* completeEmptyDownloadSession(s), called for update u.
CompleteEmpty(s, u) ==
  IF s \in live
    THEN /\ Merging' = Merging \cup {s}
         /\ merge' = [merge EXCEPT ![<<s, u>>] = "lock"]
    ELSE UNCHANGED <<Merging, merge>>

\* The slot is recorded in the session found, whether it still is in the map or
\* not, with the new revision; a session with nothing to receive is completed.
Attach(u) ==
  LET s == found[u] IN
  /\ upd[u] = "record" /\ s # None
  /\ sess' = [sess EXCEPT ![s] = [@ EXCEPT !.hash = u, !.time = u, !.page = PageOf(u)]]
  /\ held' = held \cup {s}
  /\ IF Total(s) = 0
       THEN CompleteEmpty(s, u) /\ upd' = [upd EXCEPT ![u] = "over"]
       ELSE UNCHANGED <<Merging, merge>> /\ upd' = [upd EXCEPT ![u] = "send"]
  /\ UNCHANGED <<netVars, faults, slots, found, temp, tempHeld, live, Cancelled, svc,
                 reader, locked, fileVars, pages, overlaps>>

CreateTemp(u) ==
  /\ upd[u] = "record" /\ found[u] = None
  /\ temp' = [temp EXCEPT ![Path[u]] = u]
  /\ tempHeld' = tempHeld \cup {u}
  /\ upd' = [upd EXCEPT ![u] = "send"]
  /\ UNCHANGED <<netVars, faults, slots, found, entries, Merging, sess, svc, reader,
                 merge, locked, fileVars, pages, overlaps>>

RequestChunks(u) ==
  /\ upd[u] = "send" /\ connected
  /\ svc' = [svc EXCEPT ![u] = "asked"]
  /\ upd' = [upd EXCEPT ![u] = "over"]
  /\ UNCHANGED <<netVars, faults, slots, found, temp, tempHeld, entries, Merging, sess,
                 reader, merge, locked, fileVars, pages, overlaps>>

\* Send fails: there is no connection, or the write fails.  Whatever entry the
\* path has under "temp_" is deleted.
RequestFails(u) ==
  /\ upd[u] = "send"
  /\ upd' = [upd EXCEPT ![u] = "over"]
  /\ IF found[u] = None
       THEN /\ Release(u \in tempHeld) /\ tempHeld' = tempHeld \ {u}
            /\ temp' = [temp EXCEPT ![Path[u]] = None]
            /\ UNCHANGED held
       ELSE /\ Release(found[u] \in held) /\ held' = held \ {found[u]}
            /\ UNCHANGED <<temp, tempHeld>>
  /\ CompletePage(PageOf(u))
  /\ UNCHANGED <<netVars, faults, found, live, Cancelled, Merging, sess, svc, reader,
                 merge, locked, fileVars, overlaps>>

Handler(u) == \/ LookForSession(u) \/ TakeSlot(u) \/ Attach(u) \/ CreateTemp(u)
              \/ RequestChunks(u) \/ RequestFails(u)

-----------------------------------------------------------------------------
(* The read loop: handleFileSyncChunkDownload and handleFileBinaryChunk. *)

\* External: the revision of p the service announced last.
Latest(p) == CHOOSE v \in Updates :
  /\ Path[v] = p /\ upd[v] # "later"
  /\ \A w \in Updates : Path[w] = p /\ upd[w] # "later" => w <= v

\* Mutant: the page index is not taken over from the temporary entry.
OpenSessionWithoutPage(s) ==
  LET p == Path[s]
      t == temp[p]
      r == Latest(p)
  IN
  /\ connected /\ reader = Idle /\ svc[s] = "asked"
  /\ svc' = [svc EXCEPT ![s] = "open"]
  /\ sess' = [sess EXCEPT ![s] = [NoSession EXCEPT !.rev = r, !.hash = r, !.time = t]]
  /\ held' = IF t # None /\ t \in tempHeld THEN held \cup {s} ELSE held
  /\ temp' = [temp EXCEPT ![p] = None]
  /\ live' = live \cup {s}
  /\ reader' = <<IF t = None THEN "disorder" ELSE "open", s>>
  /\ UNCHANGED <<netVars, faults, slots, upd, found, tempHeld, Cancelled, Merging,
                 merge, locked, fileVars, pages, overlaps>>

\* FileSyncChunkDownload: the temporary entry of the path becomes the session; if
\* there is none, the session has neither slot, time nor page ("disorder").
OpenSession(s) ==
  LET p == Path[s]
      t == temp[p]
      r == Latest(p)
  IN
  /\ connected /\ reader = Idle /\ svc[s] = "asked"
  /\ svc' = [svc EXCEPT ![s] = "open"]
  /\ sess' = [sess EXCEPT ![s] = [NoSession EXCEPT !.rev = r, !.hash = r, !.time = t,
                                                   !.page = IF t = None THEN None ELSE PageOf(t)]]
  /\ held' = IF t # None /\ t \in tempHeld THEN held \cup {s} ELSE held
  /\ temp' = [temp EXCEPT ![p] = None]
  /\ live' = live \cup {s}
  /\ reader' = <<IF t = None THEN "disorder" ELSE "open", s>>
  /\ UNCHANGED <<netVars, faults, slots, upd, found, tempHeld, Cancelled, Merging,
                 merge, locked, fileVars, pages, overlaps>>

\* Mutant: the slot of an aborted session is kept.
AbortKeepsSlot(s) ==
  IF s \in live
    THEN /\ live' = live \ {s} /\ held' = held \ {s} /\ Cancelled' = Cancelled \cup {s}
         /\ CompletePage(sess[s].page)
         /\ UNCHANGED slots
    ELSE UNCHANGED <<entries, slots, pages>>

\* abortDownloadSession(s): the entry goes, its slot and page with it.
Abort(s) ==
  IF s \in live
    THEN /\ live' = live \ {s} /\ held' = held \ {s} /\ Cancelled' = Cancelled \cup {s}
         /\ Release(s \in held)
         /\ CompletePage(sess[s].page)
    ELSE UNCHANGED <<entries, slots, pages>>

ReaderFrame == UNCHANGED <<netVars, upd, found, temp, tempHeld, svc, locked, fileVars,
                           overlaps>>

\* The directory is there.  An empty file is complete, but not before its update.
DirectoryMade ==
  LET s == reader[2] IN
  /\ reader[1] \in {"open", "disorder"}
  /\ reader' = Idle
  /\ IF Total(s) = 0 /\ reader[1] = "open" THEN CompleteEmpty(s, s)
                                           ELSE UNCHANGED <<Merging, merge>>
  /\ ReaderFrame
  /\ UNCHANGED <<faults, slots, entries, sess, pages>>

\* A chunk comes for a session that is there and misses it; others are ignored.
ChunkArrives(s) ==
  /\ connected /\ reader = Idle /\ svc[s] = "open"
  /\ s \in live /\ sess[s].got < Total(s)
  /\ reader' = <<"chunk", s>>
  /\ \/ UNCHANGED <<faults, sess>>
     \/ Fault /\ sess' = [sess EXCEPT ![s].damaged = TRUE]   \* external
  /\ UNCHANGED <<netVars, slots, upd, found, temp, tempHeld, entries, Merging, svc,
                 merge, locked, fileVars, pages, overlaps>>

\* The chunk is on disk.  The session is looked up again, since the mutex was
\* released; the last chunk starts the merge.
ChunkStored ==
  LET s == reader[2]
      n == sess[s].got + 1
  IN
  /\ reader[1] = "chunk"
  /\ reader' = Idle
  /\ IF s \in live /\ s \notin Cancelled
       THEN /\ sess' = [sess EXCEPT ![s].got = n]
            /\ IF n = Total(s) /\ s \notin Merging
                 THEN /\ Merging' = Merging \cup {s}
                      /\ merge' = [merge EXCEPT ![<<s, s>>] = "lock"]
                 ELSE UNCHANGED <<Merging, merge>>
       ELSE UNCHANGED <<sess, Merging, merge>>
  /\ ReaderFrame
  /\ UNCHANGED <<faults, slots, entries, pages>>

\* The directory or the chunk cannot be written.
StoreFails ==
  /\ reader # Idle /\ Fault
  /\ reader' = Idle
  /\ Abort(reader[2])
  /\ ReaderFrame
  /\ UNCHANGED <<Merging, merge, sess>>

Reader == \/ DirectoryMade \/ ChunkStored \/ StoreFails
          \/ \E s \in Updates : OpenSession(s) \/ ChunkArrives(s)

-----------------------------------------------------------------------------
(* mergeDownloadSession, in a goroutine.  m is <<session, who started it>>. *)

MergeFrame == UNCHANGED <<netVars, upd, found, temp, tempHeld, Merging, svc, reader,
                          overlaps>>
Unlock(m)  == locked' = locked \ {Path[m[1]]}
MergeTo(m, l) == merge' = [merge EXCEPT ![m] = l]

MergeLocksPath(m) ==
  /\ merge[m] = "lock" /\ Path[m[1]] \notin locked
  /\ locked' = locked \cup {Path[m[1]]}
  /\ MergeTo(m, "check")
  /\ MergeFrame
  /\ UNCHANGED <<faults, slots, entries, sess, fileVars, pages>>

\* What was assembled has the hash the session has now.
HashMatches(s) == sess[s].rev = sess[s].hash /\ ~sess[s].damaged

\* Mutant: the assembled file is not checked.
MergeSkipsCheck(m) ==
  /\ merge[m] = "check"
  /\ MergeTo(m, "commit")
  /\ MergeFrame
  /\ UNCHANGED <<faults, slots, entries, sess, locked, fileVars, pages>>

MergeChecks(m) ==
  /\ merge[m] = "check" /\ HashMatches(m[1])
  /\ MergeTo(m, "commit")
  /\ MergeFrame
  /\ UNCHANGED <<faults, slots, entries, sess, locked, fileVars, pages>>

\* Mutant: the record is made before the file is replaced.
RecordFirst(m) ==
  /\ \/ merge[m] = "check" /\ ~HashMatches(m[1]) /\ UNCHANGED <<faults, base>>
     \/ merge[m] = "check" /\ Fault /\ UNCHANGED base
     \/ /\ merge[m] = "commit" /\ m[1] \in live /\ Fault
        /\ base' = [base EXCEPT ![Path[m[1]]] = sess[m[1]].hash]
  /\ Abort(m[1])
  /\ MergeTo(m, "over") /\ Unlock(m)
  /\ MergeFrame
  /\ UNCHANGED <<sess, disk, syncTime>>

\* A mismatch, or a failed file operation, up to the replacement.
MergeAborts(m) ==
  /\ \/ merge[m] = "check" /\ ~HashMatches(m[1]) /\ UNCHANGED faults
     \/ merge[m] = "check" /\ Fault
     \/ merge[m] = "commit" /\ m[1] \in live /\ Fault
  /\ Abort(m[1])
  /\ MergeTo(m, "over") /\ Unlock(m)
  /\ MergeFrame
  /\ UNCHANGED <<sess, fileVars>>

\* A session that was cancelled or superseded is not committed.
MergeDiscards(m) ==
  /\ merge[m] = "commit" /\ m[1] \notin live
  /\ MergeTo(m, "over") /\ Unlock(m)
  /\ MergeFrame
  /\ UNCHANGED <<faults, slots, entries, sess, fileVars, pages>>

\* Mutant: the session is not looked up again.
CommitUnchecked(m) ==
  LET s == m[1]
      p == Path[s]
  IN
  /\ merge[m] = "commit"
  /\ disk' = [disk EXCEPT ![p] = [rev |-> sess[s].rev, whole |-> ~sess[s].damaged]]
  /\ base' = [base EXCEPT ![p] = sess[s].hash]
  /\ syncTime' = Larger(syncTime, sess[s].time)
  /\ live' = live \ {s} /\ held' = held \ {s} /\ Release(s \in held)
  /\ MergeTo(m, "page")
  /\ MergeFrame
  /\ UNCHANGED <<faults, Cancelled, sess, locked, pages>>

\* Under the mutex the file is replaced and recorded with the hash, the time and
\* the page the session has now, which may not be those that were checked.
MergeCommits(m) ==
  LET s == m[1]
      p == Path[s]
  IN
  /\ merge[m] = "commit" /\ s \in live /\ s \notin Cancelled
  /\ disk' = [disk EXCEPT ![p] = [rev |-> sess[s].rev, whole |-> ~sess[s].damaged]]
  /\ base' = [base EXCEPT ![p] = sess[s].hash]
  /\ syncTime' = Larger(syncTime, sess[s].time)
  /\ live' = live \ {s} /\ held' = held \ {s} /\ Release(s \in held)
  /\ MergeTo(m, "page")
  /\ MergeFrame
  /\ UNCHANGED <<faults, Cancelled, sess, locked, pages>>

MergeCompletesPage(m) ==
  /\ merge[m] = "page"
  /\ CompletePage(sess[m[1]].page)
  /\ MergeTo(m, "over") /\ Unlock(m)
  /\ MergeFrame
  /\ UNCHANGED <<faults, slots, entries, sess, fileVars>>

Merge(m) == \/ MergeLocksPath(m) \/ MergeChecks(m) \/ MergeAborts(m) \/ MergeDiscards(m)
            \/ MergeCommits(m) \/ MergeCompletesPage(m)

-----------------------------------------------------------------------------
(* The connection and a stalled round. *)

\* Requests, answers and chunks under way are lost; the sessions stay.
ConnectionLost ==
  /\ connected /\ drops < MaxDrops
  /\ connected' = FALSE /\ drops' = drops + 1
  /\ svc' = [s \in Updates |-> "none"]
  /\ UNCHANGED <<stalls, faults, slots, upd, found, temp, tempHeld, entries, Merging,
                 sess, reader, merge, locked, fileVars, pages, overlaps>>

\* The goroutine of the old read loop dials again.
Reconnects ==
  /\ ~connected /\ reader = Idle
  /\ connected' = TRUE
  /\ UNCHANGED <<drops, stalls, faults, slots, upd, found, temp, tempHeld, entries,
                 Merging, sess, svc, reader, merge, locked, fileVars, pages, overlaps>>

\* cleanupActiveFileTransfersOnTimeout: every entry goes, every slot is free.
CleanupTransfers ==
  /\ stalls < MaxStalls /\ stalls' = stalls + 1
  /\ Cancelled' = Cancelled \cup live
  /\ live' = {} /\ held' = held \ live
  /\ tempHeld' = tempHeld \ {temp[p] : p \in Paths}
  /\ temp' = [p \in Paths |-> None]
  /\ slots' = 0
  /\ UNCHANGED <<connected, drops, faults, upd, found, Merging, sess, svc, reader, merge,
                 locked, fileVars, pages, overlaps>>

Next ==
  \/ \E u \in Updates : UpdateArrives(u) \/ Handler(u)
  \/ Reader
  \/ \E m \in Updates \X Updates : Merge(m)
  \/ ConnectionLost \/ Reconnects \/ CleanupTransfers

Spec == Init /\ [][Next]_vars

\* The Go scheduler runs every goroutine, the read loop reads what the service
\* sends, and the service answers and sends every chunk while connected.  Each of
\* these steps uses up something finite, so fairness to their union is enough.
Working ==
  \/ \E u \in Updates : Handler(u) \/ OpenSession(u) \/ ChunkArrives(u)
  \/ DirectoryMade \/ ChunkStored
  \/ \E m \in Updates \X Updates : Merge(m)
Fairness == WF_vars(Working)
FairSpec == Spec /\ Fairness

-----------------------------------------------------------------------------
(* Properties. *)

Sessions    == [rev : 0..N, hash : 0..N, time : 0..N, page : 0..N, got : Nat,
                damaged : BOOLEAN]
MergePlaces == {"none", "lock", "check", "commit", "page", "over"}

TypeOK ==
  /\ connected \in BOOLEAN
  /\ drops \in 0..MaxDrops /\ stalls \in 0..MaxStalls /\ faults \in 0..MaxFaults
  /\ slots \in 0..MaxSlots
  /\ upd \in [Updates -> {"later", "look", "wait", "record", "send", "over"}]
  /\ found \in [Updates -> 0..N] /\ temp \in [Paths -> 0..N]
  /\ tempHeld \subseteq Updates /\ held \subseteq Updates
  /\ live \subseteq Updates /\ Cancelled \subseteq Updates /\ Merging \subseteq Updates
  /\ sess \in [Updates -> Sessions]
  /\ svc \in [Updates -> {"none", "asked", "open"}]
  /\ reader \in {Idle} \cup ({"open", "disorder", "chunk"} \X Updates)
  /\ merge \in [Updates \X Updates -> MergePlaces]
  /\ locked \subseteq Paths
  /\ disk \in [Paths -> [rev : 0..N, whole : BOOLEAN]] /\ base \in [Paths -> 0..N]
  /\ syncTime \in 0..N /\ pages \subseteq Updates /\ overlaps \in [Paths -> Nat]

\* Nothing is in progress.
Quiet ==
  /\ \A u \in Updates : upd[u] \in {"later", "over"} /\ svc[u] # "asked"
  /\ \A p \in Paths : temp[p] = None
  /\ live = {} /\ reader = Idle
  /\ \A m \in Updates \X Updates : merge[m] \in {"none", "over"}

\* No update of a path came before an earlier one was over.
Calm == \A p \in Paths : overlaps[p] = 0

\* The file of a path is always a whole revision, whatever overlaps with what,
\* is damaged, fails or is cancelled (mergeDownloadSession's hash check).
DiskIsWhole == \A p \in Paths : disk[p].whole

\* A session that a stall or an abort cancelled changes no file any more, although
\* its merge may be under way (the second look-up in mergeDownloadSession).
CancelledNeverCommits ==
  [][\A p \in Paths : disk'[p] # disk[p] =>
       \E s \in live \ Cancelled :
         Path[s] = p /\ s \notin live' /\ disk'[p].rev = sess[s].rev]_vars

\* The file of a path never goes back to an earlier revision, over stalls and
\* reconnects, while old merges are still running.  Of two updates that overlap
\* the first cannot win: the second replaces the hash its merge compares with.
\* (A third one can be older than what it replaces: it attaches to one session
\* and overtakes another.)
NeverGoesBack ==
  [][\A p \in Paths : overlaps[p] <= 1 => disk'[p].rev >= disk[p].rev]_vars

\* Without overlapping updates of a path, its FileHashMap entry is the hash of
\* the file, also when a commit fails half-way.
BaseMatchesDisk ==
  \A p \in Paths : overlaps[p] = 0 => base[p] = disk[p].rev /\ disk[p].whole

\* Without overlapping updates every slot is given back once: when nothing is
\* in progress none is taken, over failures, lost connections and stalls.
SlotsReturned == Calm /\ Quiet => slots = 0

\* Without overlapping updates, lost connections and stalls, every download ends,
\* failed or not, and the page it belongs to is told.
DownloadsEnd ==
  \A u \in Updates :
    []<>(\/ upd[u] = "later" \/ drops > 0 \/ stalls > 0 \/ ~Calm
         \/ /\ upd[u] = "over" /\ svc[u] # "asked" /\ u \notin live
            /\ temp[Path[u]] # u
            /\ PageOf(u) \in pages \cup {None})
=============================================================================
