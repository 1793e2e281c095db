------------------------------ MODULE VaultScan ------------------------------
(***************************************************************************)
(* How the daemon finds out what changed while it could not watch: the     *)
(* vault scan at the start of a sync round, the request made of it, and    *)
(* the bookkeeping that decides what a later scan may skip, in memory and  *)
(* in the state file (internal/sync/startup.go, the SyncEnd, NeedPush and  *)
(* ack handlers of notes and settings, internal/state/state.go).           *)
(*                                                                         *)
(* One path, a note or a setting.  A revision is named by the time it was  *)
(* written, which is its mtime and stands for its hash; 0 is "no file".    *)
(* The clocks of the vault and of the service agree.  Actors: the user, the*)
(* round goroutine, the read loop, the goroutine of a push, the service,   *)
(* the network, and whoever kills the daemon.  Left out: changes made by   *)
(* other clients (NoteSync), two pushes of the path at a time (LocalOps), a*)
(* second round on a connection (SyncRound), read-only mode.               *)
(***************************************************************************)
EXTENDS Naturals, Sequences, FiniteSets

CONSTANTS
  Cases,         \* <<k, d>>: the kind of path, cfg.OfflineDeleteSyncEnabled
  MaxEdits,      \* bound on changes by the user
  MaxDrops,      \* bound on lost connections, by the network or a restart
  MaxOthers,     \* bound on messages about other paths
  MaxRestarts    \* bound on restarts of the daemon

Actors   == {"reader", "round", "push"}
NoEntry  == [hash |-> 0, mtime |-> 0]

ASSUME VaultScanAssumption ==
  /\ Cases \subseteq {"note", "setting"} \X BOOLEAN
  /\ MaxEdits \in Nat /\ MaxDrops \in Nat /\ MaxOthers \in Nat /\ MaxRestarts \in Nat

VARIABLES
  kind, offlineDelete, disk, clock, edits,
  event,    \* a change the watcher has not reported yet
  conn, drops, restarts, others,
  st,       \* what is saved of the state: [entry, pending, time, init], and a history:
            \* offered, the revision a round found while nothing of it was on its way
  saved,    \* the state file
  saves,    \* saves[a]: the snapshot actor a is about to write, a set of at most one
  round,    \* where the round goroutine stands
  copy,     \* the maps scanVault copied
  found,    \* the scan result, see NoResult
  scanned,  \* scannedNoteHashes, scannedConfigHashes at the path
  ended,    \* noteSyncEnd, configSyncEnd
  pendingDelete, \* the path is in pendingDeleteNotePaths, pendingDeleteConfigPaths
  pendingAck,    \* the path is in pendingNoteDeleteAcks, pendingConfigDeleteAcks
  need,     \* a NeedPush, NeedUpload whose goroutine has not begun
  push,     \* the push under way, {its revision}, {0} for a deletion, or {}
  toSvc, toClient, \* the two directions of the connection, in order
  svc,      \* external: the revision the service has
  served,   \* history: the revisions the service has had
  gone      \* history: a file the daemon knew was deleted while not connected

chosen  == <<kind, offlineDelete>>
world   == <<disk, clock, edits, event>>
net     == <<conn, drops, restarts, others>>
file    == <<saved, saves>>
results == <<round, copy, found, scanned, ended>>
records == <<pendingDelete, pendingAck>>
pushes  == <<need, push>>
wires   == <<toSvc, toClient, svc>>
history == <<served, gone>>
vars == <<chosen, world, net, st, file, results, records, pushes, wires, history>>

NoResult == [rev |-> 0, skip |-> TRUE, del |-> FALSE, missing |-> FALSE]
NoState  == [entry |-> NoEntry, pending |-> 0, time |-> 0, init |-> FALSE, offered |-> 0]
Known(s) == s.entry # NoEntry

Init ==
  /\ \E c \in Cases : kind = c[1] /\ offlineDelete = c[2]
  /\ disk \in {0, 1} /\ clock = 2 /\ edits = 0 /\ event = FALSE
  /\ conn = FALSE /\ drops = 0 /\ restarts = 0 /\ others = 0
  /\ \* a first start, or one after a complete round
     \/ st = NoState /\ svc = 0
     \/ /\ disk = 1 /\ svc = 1
        /\ st = [entry |-> [hash |-> 1, mtime |-> 1], pending |-> 0, time |-> 2, init |-> TRUE,
                 offered |-> 0]
  /\ saved = st /\ saves = [a \in Actors |-> {}]
  /\ round = "none" /\ copy = NoState /\ found = NoResult /\ scanned = NoEntry /\ ended = FALSE
  /\ pendingDelete = FALSE /\ pendingAck = FALSE
  /\ need = FALSE /\ push = {} /\ toSvc = <<>> /\ toClient = <<>>
  /\ served = {svc} /\ gone = FALSE

-----------------------------------------------------------------------------
(* The state file.  saveState takes a snapshot under the mutex and writes  *)
(* it without, replacing the file as a whole: two actors may write in the  *)
(* other order.  An actor waits for its own write.                         *)

Free(a) == saves[a] = {}

\* After the last restart of a run nobody reads the file again.
Readable == restarts < MaxRestarts /\ drops < MaxDrops

Save(a, s) == saves' = [saves EXCEPT ![a] = IF Readable THEN {s} ELSE {}]
WriteState(a) ==
  /\ saves[a] # {} /\ saved' \in saves[a]
  /\ saves' = [saves EXCEPT ![a] = {}]
  /\ UNCHANGED <<chosen, world, net, st, results, records, pushes, wires, history>>

\* Every state a later scan could start from.
States == {st} \cup (IF Readable THEN {saved} \cup UNION {saves[a] : a \in Actors} ELSE {})

-----------------------------------------------------------------------------
(* The user, the watcher and the pushes. *)

Touched == edits < MaxEdits /\ edits' = edits + 1 /\ event' = TRUE
WorldOnly == UNCHANGED <<chosen, net, st, file, results, records, pushes, wires, served>>

Edit ==
  /\ Touched
  /\ clock' = clock + 1 /\ disk' = clock + 1 /\ gone' = FALSE
  /\ WorldOnly
Remove ==
  /\ Touched
  /\ disk # 0 /\ disk' = 0
  /\ gone' = (~conn /\ push = {} /\ \A s \in States : Known(s))
  /\ UNCHANGED clock /\ WorldOnly

\* HandleLocalModify and HandleLocalDelete, or the answer to a NeedPush: a push
\* reads the file.  Without a connection the event is dropped (localReady).
BeginPush ==
  /\ push = {}
  /\ \/ /\ event /\ event' = FALSE /\ UNCHANGED need
        /\ push' = IF conn THEN {disk} ELSE {}
     \/ /\ need /\ need' = FALSE /\ UNCHANGED event
        /\ push' = IF disk # 0 THEN {disk} ELSE {}
  /\ UNCHANGED <<chosen, disk, clock, edits, net, st, file, results, records, wires, history>>

Message(t, r, result) == [type |-> t, rev |-> r, result |-> result, time |-> clock]

\* The Send of NoteModify, SettingModify, NoteDelete, SettingDelete, and its record
\* (LocalOps has the gap between them).  A deletion is not sent if the file is back.
SendPush ==
  /\ Free("push")
  /\ \E rev \in push :
       IF ~conn \/ (rev = 0 /\ disk # 0)
         THEN UNCHANGED <<toSvc, st, saves, pendingAck>>
         ELSE /\ toSvc' = Append(toSvc, Message("push", rev, NoResult))
              /\ IF rev = 0
                   THEN pendingAck' = TRUE /\ UNCHANGED <<st, saves>>
                   ELSE /\ st' = [st EXCEPT !.pending = rev] /\ Save("push", st')
                        /\ UNCHANGED pendingAck
  /\ push' = {}
  /\ UNCHANGED <<chosen, world, net, saved, results, pendingDelete, need, toClient, svc, history>>

-----------------------------------------------------------------------------
(* The round goroutine: handleSync, scanVault, sendSyncRequests. *)

RoundFrame == UNCHANGED <<chosen, world, net, saved, push, toClient, svc, history>>
\* The goroutine's own variables go with it.
RoundOver == copy' = NoState /\ found' = NoResult

BeginRound ==
  /\ conn /\ round = "none"
  /\ round' = "scan" /\ copy' = st /\ ended' = FALSE
  /\ UNCHANGED <<chosen, world, net, st, file, found, scanned, records, pushes, wires, history>>

\* Mutant: a pending path is skipped like any other.
SkippedByTimeAlone(s) == s.init /\ Known(s) /\ disk < s.time

\* An incremental scan does not look at a known path whose mtime is before the
\* last sync, unless a hash of it is pending.
Skipped(s) == s.init /\ Known(s) /\ disk < s.time /\ s.pending = 0

\* cached: the hash of an entry with the file's mtime is taken for the file's.
Cached(s) == s.entry.mtime = disk /\ s.entry.hash # 0
HashOf(s) == IF Cached(s) THEN s.entry.hash ELSE disk

\* What the request lists.  computeConfigDelMissing compares with the settings that
\* are listed, computeDelMissing with the notes that are there.
ScanResult(s) ==
  LET skip    == disk = 0 \/ Skipped(s)
      missing == Known(s) /\ (IF kind = "setting" THEN skip ELSE disk = 0)
  IN  [rev |-> IF skip THEN 0 ELSE HashOf(s), skip |-> skip,
       del |-> missing /\ offlineDelete, missing |-> missing /\ ~offlineDelete /\ s.init]

ScanPath ==
  /\ round = "scan" /\ round' = "request"
  /\ found' = ScanResult(copy)
  /\ scanned' = IF found'.skip \/ Cached(copy) THEN NoEntry
                ELSE [hash |-> disk, mtime |-> disk]
  /\ RoundFrame /\ UNCHANGED <<st, saves, copy, ended, records, need, toSvc>>

\* A push, an answer to one, or a remote change is under way, or was since the maps
\* were copied.
Busy == \/ push # {} \/ copy.entry # st.entry \/ copy.pending # st.pending
        \/ \E i \in 1..Len(toSvc) : toSvc[i].type = "push"
        \/ \E i \in 1..Len(toClient) : toClient[i].type \in {"Ack", "DeleteAck", "Modify"}

\* What counts as offered once the request is sent.
Offer == IF Busy \/ found.skip THEN st.offered ELSE found.rev

\* Mutant: what was offered is not recorded.
OfferUnrecorded ==
  /\ round = "request" /\ round' = "wait"
  /\ toSvc' = Append(toSvc, Message("sync", 0, found))
  /\ st' = [st EXCEPT !.offered = Offer]
  /\ RoundOver /\ RoundFrame
  /\ UNCHANGED <<saves, scanned, ended, records, need>>

\* Mutant: an entry goes when its deletion is requested.
RequestForgetsDeleted ==
  /\ round = "request" /\ Free("round") /\ round' = "wait"
  /\ toSvc' = Append(toSvc, Message("sync", 0, found))
  /\ st' = [st EXCEPT !.pending = IF found.skip THEN @ ELSE found.rev,
                      !.entry = IF found.del THEN NoEntry ELSE @, !.offered = Offer]
  /\ Save("round", st')
  /\ RoundOver /\ RoundFrame /\ UNCHANGED <<scanned, ended, records, need>>

\* The Send of NoteSync, SettingSync.  What was offered is pending until it is
\* acknowledged.
SendRequest ==
  /\ round = "request" /\ Free("round") /\ round' = "wait"
  /\ toSvc' = Append(toSvc, Message("sync", 0, found))
  /\ pendingDelete' = (pendingDelete \/ found.del)
  /\ st' = [st EXCEPT !.pending = IF found.skip THEN @ ELSE found.rev, !.offered = Offer]
  /\ Save("round", st')
  /\ RoundOver /\ RoundFrame /\ UNCHANGED <<scanned, ended, pendingAck, need>>

\* onSyncComplete, when the end and the answers are in and handled.
CompleteRound ==
  /\ round = "wait" /\ Free("round") /\ ended /\ ~need
  /\ \A i \in 1..Len(toClient) : toClient[i].type \notin {"NeedPush", "Modify"}
  /\ round' = "done"
  /\ IF st.init THEN UNCHANGED <<st, saves>>
     ELSE st' = [st EXCEPT !.init = TRUE] /\ Save("round", st')
  /\ RoundFrame /\ UNCHANGED <<copy, found, scanned, ended, records, need, toSvc>>

Round == BeginRound \/ ScanPath \/ SendRequest \/ CompleteRound

-----------------------------------------------------------------------------
(* The read loop. *)

\* Mutant: the next scan is to start after the last sync.
LatestAndOne(s, t) == IF t > s.time THEN [s EXCEPT !.time = t + 1] ELSE s

Latest(s, t) == IF t > s.time THEN [s EXCEPT !.time = t] ELSE s   \* updateSyncTime

ReaderFrame == UNCHANGED <<chosen, clock, edits, event, net, saved, round, copy, found,
                           push, toSvc, svc, history>>
Handle(t) ==
  /\ conn /\ toClient # <<>> /\ Head(toClient).type = t /\ Free("reader")
  /\ toClient' = Tail(toClient)

\* The entry once a SyncEnd is in: gone if its deletion was requested, the scanned
\* hash if that is newer; a pending note keeps its entry.
Committed(s) ==
  LET known == IF pendingDelete THEN NoEntry ELSE s.entry IN
  IF /\ scanned # NoEntry /\ known.mtime <= scanned.mtime
     /\ kind = "note" => s.pending = 0
    THEN scanned ELSE known

\* handleNoteSyncEnd, handleSettingSyncEnd.  The time of the settings only moves
\* if the end announces work.
HandleSyncEnd ==
  /\ Handle("SyncEnd")
  /\ LET m == Head(toClient)
         t == IF kind = "note" \/ m.rev # 0 THEN Latest(st, m.time) ELSE st
     IN  st' = [t EXCEPT !.entry = Committed(t)] /\ Save("reader", st')
  /\ pendingDelete' = FALSE /\ scanned' = NoEntry /\ ended' = TRUE
  /\ ReaderFrame /\ UNCHANGED <<disk, need, pendingAck>>

\* handleNoteSyncNeedPush, handleSettingSyncNeedUpload: a goroutine of its own.
HandleNeedPush ==
  /\ Handle("NeedPush")
  /\ st' = Latest(st, Head(toClient).time)
  /\ need' = TRUE
  /\ ReaderFrame /\ UNCHANGED <<disk, saves, records, scanned, ended>>

\* handleNoteSyncModify, handleSettingSyncModify, with the mtime the service has.
HandleModify ==
  /\ Handle("Modify")
  /\ LET m == Head(toClient) IN
     /\ disk' = m.rev
     /\ st' = [Latest(st, m.time) EXCEPT !.entry = [hash |-> m.rev, mtime |-> m.rev],
                                         !.pending = 0, !.offered = 0]
  /\ Save("reader", st') /\ pendingAck' = FALSE
  /\ ReaderFrame /\ UNCHANGED <<need, pendingDelete, scanned, ended>>

\* handleNoteModifyAck, handleSettingModifyAck: the pending hash is stored with the
\* mtime the file has now.
HandleAck ==
  /\ Handle("Ack")
  /\ LET s == Latest(st, Head(toClient).time) IN
     IF s.pending # 0 /\ disk # 0
       THEN /\ st' = [s EXCEPT !.entry = [hash |-> s.pending, mtime |-> disk], !.pending = 0]
            /\ Save("reader", st')
       ELSE st' = s /\ UNCHANGED saves
  /\ ReaderFrame /\ UNCHANGED <<disk, need, records, scanned, ended>>

\* handleNoteDeleteAck, handleSettingDeleteAck
HandleDeleteAck ==
  /\ Handle("DeleteAck")
  /\ LET s == Latest(st, Head(toClient).time) IN
     st' = IF pendingAck THEN [s EXCEPT !.entry = NoEntry] ELSE s
  /\ Save("reader", st') /\ pendingAck' = FALSE
  /\ ReaderFrame /\ UNCHANGED <<disk, need, pendingDelete, scanned, ended>>

\* A change of another path, later than anything so far: any message moves the time
\* of its kind, and saves.
HandleOther ==
  /\ conn /\ Free("reader") /\ others < MaxOthers /\ others' = others + 1
  /\ clock' = clock + 1 /\ st' = Latest(st, clock') /\ Save("reader", st')
  /\ UNCHANGED <<chosen, disk, edits, event, conn, drops, restarts, saved, results, records, pushes,
                 wires, history>>

ReadLoop == \/ HandleSyncEnd \/ HandleNeedPush \/ HandleModify \/ HandleAck
            \/ HandleDeleteAck \/ HandleOther

-----------------------------------------------------------------------------
(* External: the service answers in order.  A request is answered with its *)
(* end, rev # 0 if work follows, and the work.                             *)

Serve ==
  /\ conn /\ toSvc # <<>> /\ toSvc' = Tail(toSvc)
  /\ LET m == Head(toSvc)
         answer(t, r) == Message(t, r, NoResult)
         wanted   == m.result.rev \notin {0, svc}
         restored == m.result.missing /\ svc # 0 IN
     \/ /\ m.type = "push" /\ svc' = m.rev
        /\ toClient' = Append(toClient, answer(IF m.rev = 0 THEN "DeleteAck" ELSE "Ack", 0))
     \/ /\ m.type = "sync"
        /\ svc' = IF m.result.del THEN 0 ELSE svc
        /\ toClient' = toClient \o
             <<answer("SyncEnd", IF wanted \/ restored THEN 1 ELSE 0)>> \o
             (IF wanted THEN <<answer("NeedPush", 0)>> ELSE <<>>) \o
             (IF restored THEN <<answer("Modify", svc)>> ELSE <<>>)
  /\ served' = served \cup {svc'}
  /\ UNCHANGED <<chosen, world, net, st, file, results, records, pushes, gone>>

-----------------------------------------------------------------------------
(* The connection and the process. *)

\* The end of a connection ends its round; goroutines find out at their next send.
Disconnected ==
  conn' = FALSE /\ round' = "none" /\ RoundOver /\ toSvc' = <<>> /\ toClient' = <<>>

ConnectionLost ==
  /\ conn /\ drops < MaxDrops /\ drops' = drops + 1
  /\ Disconnected
  /\ UNCHANGED <<chosen, world, restarts, others, st, file, scanned, ended,
                 records, pushes, svc, history>>

Connect ==
  /\ ~conn /\ Free("reader") /\ conn' = TRUE
  /\ UNCHANGED <<chosen, world, drops, restarts, others, st, file, results, records, pushes,
                 wires, history>>

\* The daemon is killed and started again: Load, NewSyncService.
Restart ==
  /\ Readable /\ drops' = drops + 1 /\ restarts' = restarts + 1
  /\ st' = saved /\ saves' = [a \in Actors |-> {}]
  /\ Disconnected
  /\ scanned' = NoEntry /\ ended' = FALSE
  /\ pendingDelete' = FALSE /\ pendingAck' = FALSE
  /\ need' = FALSE /\ push' = {} /\ event' = FALSE
  /\ UNCHANGED <<chosen, disk, clock, edits, others, saved, svc, history>>

Pushes == BeginPush \/ SendPush
Daemon == Pushes \/ Round \/ ReadLoop \/ Connect \/ (\E a \in Actors : WriteState(a))

Next == Edit \/ Remove \/ Daemon \/ Serve \/ ConnectionLost \/ Restart

Spec == Init /\ [][Next]_vars

\* The daemon's goroutines run, a lost connection is dialed again, the service
\* answers.  Nobody has to edit, and the connection need not break.
FairSpec == Spec /\ WF_vars(Daemon \/ Serve)

-----------------------------------------------------------------------------
(* Properties. *)

Times     == 0..clock
StateType == [entry: [hash: Times, mtime: Times], pending: Times, time: Times, init: BOOLEAN,
              offered: Times]

TypeOK ==
  /\ <<kind, offlineDelete>> \in Cases /\ disk \in Times /\ clock \in Nat /\ edits \in 0..MaxEdits
  /\ event \in BOOLEAN /\ conn \in BOOLEAN
  /\ drops \in 0..MaxDrops /\ restarts \in 0..MaxRestarts /\ others \in 0..MaxOthers
  /\ st \in StateType /\ saved \in StateType /\ copy \in StateType
  /\ \A a \in Actors : saves[a] \subseteq StateType /\ Cardinality(saves[a]) <= 1
  /\ round \in {"none", "scan", "request", "wait", "done"}
  /\ ended \in BOOLEAN /\ need \in BOOLEAN
  /\ pendingDelete \in BOOLEAN /\ pendingAck \in BOOLEAN
  /\ push \in {{}} \cup {{r} : r \in Times}
  /\ \A i \in 1..Len(toSvc) : toSvc[i].type \in {"sync", "push"}
  /\ \A i \in 1..Len(toClient) :
       toClient[i].type \in {"SyncEnd", "NeedPush", "Modify", "Ack", "DeleteAck"}

\* A scan that starts from s lists what is on disk, with its true hash.
WouldOffer(s) == ~Skipped(s) /\ HashOf(s) = disk

\* An edit that a round has offered before s, that is still there, and that the service
\* has not had.
Unserved(s) == s.offered # 0 /\ disk = s.offered /\ s.offered \notin served

\* Such an edit is offered again by every later scan, also by one after a crash: its
\* pending hash keeps it from being skipped, however far the sync time moves meanwhile,
\* and no cached hash hides it (startup.go:239-256, note_sync.go:45-49, hash.go:119-121).
OfferedIsNotForgotten == \A s \in States : Unserved(s) => WouldOffer(s)

\* A file that was deleted while the daemon was not connected stays known until the
\* service has heard of it or sent it back, in memory and in every state a crash
\* could leave (note_sync.go:30-34, startup.go:745-766).
OfflineDeletionReported == gone /\ svc # 0 => \A s \in States : Known(s)

\* It reaches the service, whatever connections are lost on the way, unless the user
\* changes the file again or the daemon is killed before it saved the offer
\* (README.md:12).
OfferedReachesService == []<>~Unserved(st)

\* What the daemon reports as deleted while it was offline is not in the vault:
\* "Push local deletes that happened while offline" (README.md:149).
DeletesAreOfMissing == [][ScanPath /\ found'.del => disk = 0]_vars
=============================================================================
