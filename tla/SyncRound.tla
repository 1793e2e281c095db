------------------------------ MODULE SyncRound ------------------------------
(***************************************************************************)
(* The connection life cycle of the daemon and the sync rounds that run    *)
(* over it (internal/sync/client.go, auth.go, startup.go, and the watcher  *)
(* overflow entry point of local_events.go).                               *)
(*                                                                         *)
(* Actors:                                                                 *)
(*   - the connection goroutine (connectOnce -> readLoop ->                *)
(*     scheduleReconnect -> connectOnce ...), whose place is "loop";       *)
(*   - one goroutine per round (scan, send the requests, poll for          *)
(*     completion), whose place is pc[r]; a round that is no longer        *)
(*     current keeps its goroutine until that goroutine notices;           *)
(*   - `go handleSync(false)` goroutines that have not run yet, counted    *)
(*     by "spawned";                                                       *)
(*   - the watcher goroutine, which calls HandleWatchOverflow;             *)
(*   - the server and the network.                                         *)
(* A step is one critical section of SyncService.mu (or one call that      *)
(* touches the socket).  A socket is named by the WsCount of its dial.     *)
(* Task counters and *SyncEnd flags are folded into "ends": a module is in *)
(* it when its SyncEnd arrived and its Completed counter reached its Need. *)
(***************************************************************************)
EXTENDS Naturals, Sequences

CONSTANTS
  MaxRounds,           \* bound on syncRoundID
  MaxConns,            \* bound on WsCount, the number of successful dials
  MaxOverflows,        \* bound on the watcher overflows reported
  ReconnectMaxAttempts,\* reconnectMaxAttempts
  ModuleOrder,         \* the requests of a round in the order they are sent
  ManualSyncEnabled    \* cfg.ManualSyncEnabled

ASSUME SyncRoundAssumption ==
  /\ MaxRounds \in Nat /\ MaxConns \in Nat /\ MaxOverflows \in Nat
  /\ ReconnectMaxAttempts \in Nat
  /\ ModuleOrder \in Seq({"folder", "note", "file", "config"})
  /\ Len(ModuleOrder) >= 2
  /\ ManualSyncEnabled \in BOOLEAN

VARIABLES
  loop,                  \* where the connection goroutine stands
  conn,                  \* s.conn: 0 is nil
  closeReason,           \* state of the socket conn: "none" while it is open
  isOpen, isAuth, isRegister,
  timeConnect,           \* failed attempts since the last successful dial
  WsCount,               \* st.WsCount
  awaiting,              \* requests on conn the server has not answered
  isSyncing, isSyncRequesting,
  syncRoundID, syncRoundConn,
  overflowRescanPending,
  ends,                  \* modules that have ended in the current round
  transfers,             \* rounds with an open download session or active upload
  IsInitSync,            \* st.IsInitSync
  syncErr, syncDone,     \* s.syncErr # nil; syncDoneCh is closed
  pc,                    \* pc[r]: where the goroutine of round r stands
  next,                  \* next[r]: index in ModuleOrder of its next request
  isLoadLastTime,        \* isLoadLastTime[r]: round r is incremental
  spawned,               \* `go handleSync(false)` calls that have not run yet
  overflows,             \* overflows reported so far
  missed,                \* history: local writes no event reported, not yet found
  covered                \* history: a full round began since the last overflow

connVars  == <<loop, conn, closeReason, isOpen, isAuth, isRegister,
               timeConnect, WsCount>>
roundVars == <<isSyncing, syncRoundID, syncRoundConn, overflowRescanPending,
               ends, isLoadLastTime>>
resultVars == <<syncErr, syncDone>>
history   == <<overflows, missed, covered>>
vars == <<connVars, awaiting, roundVars, resultVars, isSyncRequesting, transfers,
          IsInitSync, pc, next, spawned, history>>

Rounds  == 1..MaxRounds
Modules == {ModuleOrder[i] : i \in 1..Len(ModuleOrder)}
\* What the daemon sends and expects an answer to.
Request == [round : 0..MaxRounds, action : {"Authorization", "ClientInfo"} \cup Modules]
\* Requests of the handshake belong to no round.
Handshake(a) == [round |-> 0, action |-> a]

Init ==
  /\ loop = "idle" /\ conn = 0 /\ closeReason = "none"
  /\ isOpen = FALSE /\ isAuth = FALSE /\ isRegister = FALSE
  /\ timeConnect = 0 /\ WsCount = 0 /\ awaiting = {}
  /\ isSyncing = FALSE /\ isSyncRequesting = FALSE
  /\ syncRoundID = 0 /\ syncRoundConn = 0 /\ overflowRescanPending = FALSE
  /\ ends = {} /\ transfers = {}
  /\ IsInitSync \in BOOLEAN
  /\ syncErr = FALSE /\ syncDone = FALSE
  /\ pc = [r \in Rounds |-> "idle"]
  /\ next = [r \in Rounds |-> 1]
  /\ isLoadLastTime = [r \in Rounds |-> FALSE]
  /\ spawned = 0 /\ overflows = 0 /\ missed = FALSE /\ covered = FALSE

-----------------------------------------------------------------------------
(* Helpers shared by several handlers. *)

\* ownsSyncRound
OwnsSyncRound(r) == isSyncing /\ syncRoundID = r

\* The socket is open: what is sent can reach the server, and be answered.
Connected == conn # 0 /\ closeReason = "none"

Goto(r, l) == pc' = [pc EXCEPT ![r] = l]

\* isSyncComplete.  localRechecks, which it also waits for, is not modelled.
IsSyncComplete == ~isSyncRequesting /\ ends = Modules /\ transfers = {}

\* handleSync past its early returns.  l is its parameter isLoadLastTime.
BeginRound(l) ==
  LET r    == syncRoundID + 1
      incr == l /\ ~overflowRescanPending IN
  /\ r \in Rounds
  /\ isSyncing' = TRUE
  /\ syncRoundID' = r
  /\ syncRoundConn' = conn
  /\ overflowRescanPending' = FALSE
  /\ ends' = {}
  /\ isLoadLastTime' = [isLoadLastTime EXCEPT ![r] = incr]
  /\ Goto(r, "scan")
  /\ covered' = (covered \/ ~incr)

\* handleSync: it skips when a round is in flight and in manual mode.
HandleSync(l) ==
  /\ \/ ~isSyncing /\ ~ManualSyncEnabled /\ BeginRound(l)
     \/ /\ isSyncing \/ ManualSyncEnabled
        /\ UNCHANGED <<roundVars, pc, covered>>
  /\ UNCHANGED <<connVars, resultVars, isSyncRequesting, transfers, IsInitSync,
                 next, overflows, missed>>

\* Mutant: the queued recovery is forgotten while the daemon is not connected.
OnSyncFailedForgets(r) ==
  IF OwnsSyncRound(r)
    THEN LET startNow == overflowRescanPending /\ isRegister /\ conn # 0 /\ isAuth IN
         /\ isSyncing' = FALSE /\ syncErr' = TRUE /\ syncRoundConn' = 0
         /\ overflowRescanPending' = FALSE
         /\ syncDone' = TRUE
         /\ spawned' = IF startNow THEN spawned + 1 ELSE spawned
         /\ UNCHANGED <<syncRoundID, ends, isLoadLastTime>>
    ELSE UNCHANGED <<roundVars, resultVars, spawned>>

\* onSyncFailed.  The queued overflow recovery starts at once only when the
\* daemon is connected and authenticated; otherwise it stays queued.
OnSyncFailed(r) ==
  IF OwnsSyncRound(r)
    THEN LET startNow == /\ overflowRescanPending /\ isRegister
                         /\ conn # 0 /\ isOpen /\ isAuth IN
         /\ isSyncing' = FALSE
         /\ syncErr' = TRUE
         /\ syncRoundConn' = 0
         /\ overflowRescanPending' = (overflowRescanPending /\ ~startNow)
         /\ syncDone' = TRUE
         /\ spawned' = IF startNow THEN spawned + 1 ELSE spawned
         /\ UNCHANGED <<syncRoundID, ends, isLoadLastTime>>
    ELSE UNCHANGED <<roundVars, resultVars, spawned>>

-----------------------------------------------------------------------------
(* The connection goroutine. *)

\* Connect, the daemon's start.
Connect ==
  /\ loop = "idle"
  /\ isRegister' = TRUE /\ loop' = "dialing"
  /\ UNCHANGED <<conn, closeReason, isOpen, isAuth, timeConnect, WsCount,
                 awaiting, roundVars, resultVars, isSyncRequesting, transfers,
                 IsInitSync, pc, next, spawned, history>>

\* scheduleReconnect up to its sleep: it gives up after the last attempt.
ScheduleReconnect ==
  /\ timeConnect' = timeConnect + 1
  /\ loop' = IF timeConnect + 1 > ReconnectMaxAttempts THEN "stopped" ELSE "backoff"

\* The health check, the URL or the dial fails.
DialFails ==
  /\ loop = "dialing"
  /\ ScheduleReconnect
  /\ UNCHANGED <<conn, closeReason, isOpen, isAuth, isRegister, WsCount,
                 awaiting, roundVars, resultVars, isSyncRequesting, transfers,
                 IsInitSync, pc, next, spawned, history>>

\* The dial succeeds: the socket is published and Authorization is sent.
DialSucceeds ==
  /\ loop = "dialing" /\ WsCount < MaxConns
  /\ WsCount' = WsCount + 1
  /\ conn' = WsCount + 1 /\ closeReason' = "none"
  /\ isOpen' = TRUE /\ isAuth' = FALSE
  /\ timeConnect' = 0
  /\ loop' = "reading"
  /\ awaiting' = {Handshake("Authorization")}
  /\ UNCHANGED <<isRegister, roundVars, resultVars, isSyncRequesting, transfers,
                 IsInitSync, pc, next, spawned, history>>

\* The sleep of scheduleReconnect ends.
BackoffExpires ==
  /\ loop = "backoff"
  /\ loop' = IF isRegister THEN "dialing" ELSE "stopped"
  /\ UNCHANGED <<conn, closeReason, isOpen, isAuth, isRegister, timeConnect,
                 WsCount, awaiting, roundVars, resultVars, isSyncRequesting,
                 transfers, IsInitSync, pc, next, spawned, history>>

\* The peer or the network ends the connection.  "final" stands for the close
\* texts of nonReconnectCloseReasons; the debug disconnect hook is a "retry".
PeerCloses ==
  /\ Connected
  /\ closeReason' \in {"retry", "final"}
  /\ awaiting' = {}
  /\ UNCHANGED <<loop, conn, isOpen, isAuth, isRegister, timeConnect, WsCount,
                 roundVars, resultVars, isSyncRequesting, transfers, IsInitSync,
                 pc, next, spawned, history>>

\* ReadMessage fails and the deferred function of readLoop drops s.conn.
ReadLoopExits ==
  /\ loop = "reading" /\ closeReason # "none"
  /\ conn' = 0
  /\ loop' = "unwinding"
  /\ UNCHANGED <<closeReason, isOpen, isAuth, isRegister, timeConnect, WsCount,
                 awaiting, roundVars, resultVars, isSyncRequesting, transfers,
                 IsInitSync, pc, next, spawned, history>>

\* Mutant: the round in flight survives its connection.
ConnectionLostKeepsRound ==
  /\ loop = "unwinding"
  /\ isOpen' = FALSE /\ isAuth' = FALSE
  /\ \/ /\ closeReason = "final"
        /\ isRegister' = FALSE /\ loop' = "stopped"
        /\ UNCHANGED timeConnect
     \/ closeReason # "final" /\ isRegister /\ ScheduleReconnect /\ UNCHANGED isRegister
  /\ UNCHANGED <<conn, closeReason, WsCount, awaiting, roundVars, isSyncRequesting,
                 resultVars, transfers, IsInitSync, pc, next, spawned, history>>

\* connectOnce after readLoop: the round flags are reset, whatever the round
\* was doing; nothing else of the round is.
ConnectionLost ==
  /\ loop = "unwinding"
  /\ isOpen' = FALSE /\ isAuth' = FALSE
  /\ isSyncing' = FALSE /\ isSyncRequesting' = FALSE
  /\ \/ /\ closeReason = "final"
        /\ isRegister' = FALSE /\ loop' = "stopped"
        /\ UNCHANGED timeConnect
     \/ /\ closeReason # "final" /\ isRegister
        /\ ScheduleReconnect
        /\ UNCHANGED isRegister
  /\ UNCHANGED <<conn, closeReason, WsCount, awaiting, syncRoundID, syncRoundConn,
                 overflowRescanPending, ends, isLoadLastTime, resultVars,
                 transfers, IsInitSync, pc, next, spawned, history>>

-----------------------------------------------------------------------------
(* Frames read by readLoop and dispatched in its goroutine. *)

Reading(q) == loop = "reading" /\ Connected /\ q \in awaiting

\* handleAuthorization, on success.
AuthorizationReply ==
  LET q == Handshake("Authorization") IN
  /\ Reading(q)
  /\ isAuth' = TRUE
  /\ awaiting' = (awaiting \ {q}) \cup {Handshake("ClientInfo")}
  /\ UNCHANGED <<loop, conn, closeReason, isOpen, isRegister, timeConnect, WsCount,
                 roundVars, resultVars, isSyncRequesting, transfers, IsInitSync,
                 pc, next, spawned, history>>

\* handleAuthorization, handleClientInfo: a refusal is only logged.
HandshakeRefused ==
  /\ \E a \in {"Authorization", "ClientInfo"} :
       Reading(Handshake(a)) /\ awaiting' = awaiting \ {Handshake(a)}
  /\ UNCHANGED <<connVars, roundVars, resultVars, isSyncRequesting, transfers,
                 IsInitSync, pc, next, spawned, history>>

\* handleClientInfo: success starts a round, incremental after the first sync.
ClientInfoReply ==
  LET q == Handshake("ClientInfo") IN
  /\ Reading(q)
  /\ awaiting' = awaiting \ {q}
  /\ HandleSync(IsInitSync)
  /\ UNCHANGED spawned

\* A module's SyncEnd, with the tasks it announced done.  The handler sets the
\* flag of the current round: the reply carries no round.
SyncEndReply(q) ==
  /\ Reading(q) /\ q.action \in Modules
  /\ awaiting' = awaiting \ {q}
  /\ ends' = ends \cup {q.action}
  /\ UNCHANGED <<connVars, isSyncing, syncRoundID, syncRoundConn, isLoadLastTime,
                 overflowRescanPending, resultVars, isSyncRequesting, transfers,
                 IsInitSync, pc, next, spawned, history>>

\* An error code on a sync request fails the round that is current now.
ErrorReply(q) ==
  /\ Reading(q) /\ q.action \in Modules
  /\ awaiting' = awaiting \ {q}
  /\ OnSyncFailed(syncRoundID)
  /\ UNCHANGED <<connVars, isSyncRequesting, transfers, IsInitSync, pc, next,
                 history>>

\* A FileSyncUpdate opens a download session or a FileUpload an upload.  External:
\* the service sends none before it was asked.
TransferBegins ==
  /\ loop = "reading" /\ Connected /\ isAuth /\ syncRoundID \in Rounds
  /\ transfers' = transfers \cup {syncRoundID}
  /\ UNCHANGED <<connVars, awaiting, roundVars, resultVars, isSyncRequesting,
                 IsInitSync, pc, next, spawned, history>>

TransferEnds(r) ==
  /\ Connected
  /\ transfers' = transfers \ {r}
  /\ UNCHANGED <<connVars, awaiting, roundVars, resultVars, isSyncRequesting,
                 IsInitSync, pc, next, spawned, history>>

-----------------------------------------------------------------------------
(* The goroutine of round r. *)

\* What no step of a round's goroutine but the named ones changes.
RoundFrame == UNCHANGED <<loop, conn, isOpen, isAuth, isRegister, timeConnect,
                          WsCount, overflows>>

\* scanVault: an error fails the round.
ScanVault(r) ==
  /\ pc[r] = "scan"
  /\ \/ Goto(r, "scanned") /\ UNCHANGED <<roundVars, resultVars, spawned>>
     \/ Goto(r, "exited") /\ OnSyncFailed(r)
  /\ RoundFrame
  /\ UNCHANGED <<closeReason, awaiting, isSyncRequesting, transfers, IsInitSync,
                 next, missed, covered>>

\* Mutant: a lost connection makes the goroutine leave without failing its round.
CheckOwnerAndConn(r, from, to) ==
  /\ pc[r] = from
  /\ Goto(r, IF OwnsSyncRound(r) /\ Connected THEN to ELSE "exited")
  /\ RoundFrame
  /\ UNCHANGED <<closeReason, awaiting, roundVars, resultVars, isSyncRequesting,
                 transfers, IsInitSync, next, spawned, missed, covered>>

\* The ownership checks before the lock, between requests and after the last.
CheckOwner(r, from, to) ==
  /\ pc[r] = from
  /\ Goto(r, IF OwnsSyncRound(r) THEN to ELSE "exited")
  /\ RoundFrame
  /\ UNCHANGED <<closeReason, awaiting, roundVars, resultVars, isSyncRequesting,
                 transfers, IsInitSync, next, spawned, missed, covered>>

\* isSyncRequesting is set, and cleared, without the check being repeated.
SetRequesting(r, from, to, b) ==
  /\ pc[r] = from
  /\ isSyncRequesting' = b
  /\ Goto(r, to)
  /\ RoundFrame
  /\ UNCHANGED <<closeReason, awaiting, roundVars, resultVars, transfers,
                 IsInitSync, next, spawned, missed, covered>>

\* Mutant: the index runs past the last request.
SendRequestPastEnd(r) ==
  /\ pc[r] = "send"
  /\ next' = [next EXCEPT ![r] = @ + 1]
  /\ Goto(r, IF next[r] = Len(ModuleOrder) THEN "requested" ELSE "request")
  /\ RoundFrame
  /\ UNCHANGED <<closeReason, awaiting, roundVars, resultVars, isSyncRequesting,
                 transfers, IsInitSync, spawned, missed, covered>>

\* One request of sendSyncRequests.  Send uses the connection of this moment;
\* its error is only logged.
SendRequest(r) ==
  LET i == next[r] IN
  /\ pc[r] = "send"
  /\ awaiting' = IF Connected
                   THEN awaiting \cup {[round |-> r, action |-> ModuleOrder[i]]}
                   ELSE awaiting
  /\ \/ i = Len(ModuleOrder) /\ Goto(r, "requested") /\ UNCHANGED next
     \/ /\ i < Len(ModuleOrder)
        /\ next' = [next EXCEPT ![r] = i + 1]
        /\ Goto(r, IF i = 1 THEN "wait" ELSE "request")
  /\ RoundFrame
  /\ UNCHANGED <<closeReason, roundVars, resultVars, isSyncRequesting, transfers,
                 IsInitSync, spawned, missed, covered>>

\* The poll for folderSyncDone.  It ends early, but always ends at its limit.
WaitForFolders(r) ==
  /\ pc[r] = "wait"
  /\ Goto(r, IF OwnsSyncRound(r) THEN "request" ELSE "exited")
  /\ RoundFrame
  /\ UNCHANGED <<closeReason, awaiting, roundVars, resultVars, isSyncRequesting,
                 transfers, IsInitSync, next, spawned, missed, covered>>

RequestRound(r) ==
  \/ ScanVault(r)
  \/ CheckOwner(r, "scanned", "announce")
  \/ SetRequesting(r, "announce", "request", TRUE)
  \/ CheckOwner(r, "request", "send")
  \/ SendRequest(r)
  \/ WaitForFolders(r)
  \/ CheckOwner(r, "requested", "clear")
  \/ SetRequesting(r, "clear", "poll", FALSE)

\* Mutant: every tick counts as progress, so the timeout is never reached.
PollForever(r) ==
  /\ pc[r] = "poll"
  /\ OwnsSyncRound(r) => IsSyncComplete
  /\ Goto(r, IF OwnsSyncRound(r) THEN "complete" ELSE "exited")
  /\ RoundFrame
  /\ UNCHANGED <<closeReason, awaiting, roundVars, resultVars, isSyncRequesting,
                 transfers, IsInitSync, next, spawned, missed, covered>>

\* A tick of runCheckSyncCompletion.  Without completion, the time without
\* progress eventually reaches the timeout.
PollCompletion(r) ==
  /\ pc[r] = "poll"
  /\ Goto(r, CASE ~OwnsSyncRound(r) -> "exited"
               [] OwnsSyncRound(r) /\ IsSyncComplete -> "complete"
               [] OTHER -> "stalled")
  /\ RoundFrame
  /\ UNCHANGED <<closeReason, awaiting, roundVars, resultVars, isSyncRequesting,
                 transfers, IsInitSync, next, spawned, missed, covered>>

\* onSyncComplete, its critical section.
OnSyncComplete(r) ==
  /\ pc[r] = "complete"
  /\ \/ /\ OwnsSyncRound(r)
        /\ isSyncing' = FALSE
        /\ syncErr' = FALSE
        /\ syncRoundConn' = 0
        /\ overflowRescanPending' = FALSE
        /\ spawned' = IF overflowRescanPending THEN spawned + 1 ELSE spawned
        /\ Goto(r, "persist")
        /\ missed' = (missed /\ (isLoadLastTime[r] \/ ~covered))
        /\ UNCHANGED <<syncRoundID, ends, isLoadLastTime>>
     \/ /\ ~OwnsSyncRound(r)
        /\ Goto(r, "exited")
        /\ UNCHANGED <<roundVars, syncErr, spawned, missed>>
  /\ RoundFrame
  /\ UNCHANGED <<closeReason, awaiting, syncDone, isSyncRequesting, transfers,
                 IsInitSync, next, covered>>

\* The rest of onSyncComplete: the first full sync is recorded and the
\* completion channel is closed.
PersistInitSync(r) ==
  /\ pc[r] = "persist"
  /\ IsInitSync' = (IsInitSync \/ ~isLoadLastTime[r])
  /\ syncDone' = TRUE
  /\ Goto(r, "exited")
  /\ RoundFrame
  /\ UNCHANGED <<closeReason, awaiting, roundVars, syncErr, isSyncRequesting,
                 transfers, next, spawned, missed, covered>>

\* The socket of conn is closed if b; the rest of a step of dropConnectionAfterStall.
DropConnectionIf(r, b) ==
  /\ pc[r] = "drop"
  /\ closeReason' = IF b /\ closeReason = "none" THEN "retry" ELSE closeReason
  /\ awaiting' = IF b THEN {} ELSE awaiting
  /\ Goto(r, "cleanup")
  /\ RoundFrame
  /\ UNCHANGED <<roundVars, resultVars, isSyncRequesting, transfers, IsInitSync,
                 next, spawned, missed, covered>>

\* Mutant: the round is not compared.
DropAnyRoundsConnection(r) ==
  DropConnectionIf(r, isRegister /\ conn # 0 /\ syncRoundConn # 0 /\ conn = syncRoundConn)

\* dropConnectionAfterStall: only the socket the round started on is closed.
DropConnectionAfterStall(r) ==
  DropConnectionIf(r, /\ syncRoundID = r /\ isRegister
                      /\ conn # 0 /\ syncRoundConn # 0 /\ conn = syncRoundConn)

\* cleanupActiveFileTransfersOnTimeout cancels every transfer there is.
CleanupTransfers(r) ==
  /\ pc[r] = "cleanup"
  /\ transfers' = {}
  /\ Goto(r, "fail")
  /\ RoundFrame
  /\ UNCHANGED <<closeReason, awaiting, roundVars, resultVars, isSyncRequesting,
                 IsInitSync, next, spawned, missed, covered>>

\* The stalled round reports its failure.
FailRound(r) ==
  /\ pc[r] = "fail"
  /\ Goto(r, "exited")
  /\ OnSyncFailed(r)
  /\ RoundFrame
  /\ UNCHANGED <<closeReason, awaiting, isSyncRequesting, transfers, IsInitSync,
                 next, missed, covered>>

CheckRound(r) ==
  \/ PollCompletion(r)
  \/ OnSyncComplete(r)
  \/ PersistInitSync(r)
  \/ CheckOwner(r, "stalled", "drop")
  \/ DropConnectionAfterStall(r)
  \/ CleanupTransfers(r)
  \/ FailRound(r)

-----------------------------------------------------------------------------
(* The watcher, and the rounds it asks for. *)

\* The watcher is created after Connect returned (cmd/main.go).
HandleWatchOverflow ==
  /\ loop # "idle"
  /\ overflows < MaxOverflows
  /\ overflows' = overflows + 1
  /\ missed' = ~ManualSyncEnabled
  /\ covered' = FALSE
  /\ overflowRescanPending' = (overflowRescanPending \/ (isSyncing /\ ~ManualSyncEnabled))
  /\ spawned' = IF ~isSyncing /\ ~ManualSyncEnabled THEN spawned + 1 ELSE spawned
  /\ UNCHANGED <<connVars, awaiting, isSyncing, syncRoundID, syncRoundConn, ends,
                 isLoadLastTime, resultVars, isSyncRequesting, transfers,
                 IsInitSync, pc, next>>

\* A spawned `go handleSync(false)` runs.
RunSpawned ==
  /\ spawned > 0
  /\ spawned' = spawned - 1
  /\ HandleSync(FALSE)
  /\ UNCHANGED awaiting

ConnectionLoop == Connect \/ DialFails \/ DialSucceeds \/ BackoffExpires
                  \/ ReadLoopExits \/ ConnectionLost

Dispatch == \/ AuthorizationReply
            \/ HandshakeRefused
            \/ ClientInfoReply
            \/ \E q \in awaiting : SyncEndReply(q) \/ ErrorReply(q)
            \/ TransferBegins
            \/ \E r \in transfers : TransferEnds(r)

Next == \/ ConnectionLoop
        \/ PeerCloses
        \/ Dispatch
        \/ \E r \in Rounds : RequestRound(r) \/ CheckRound(r)
        \/ HandleWatchOverflow
        \/ RunSpawned

Spec == Init /\ [][Next]_vars

\* The Go scheduler runs every goroutine; sleeps and timers end.  Nothing is
\* assumed of the server, the network or the watcher.  Each of these steps uses up
\* something finite, so fairness to their union is enough.
Working == \/ ConnectionLoop \/ RunSpawned
           \/ \E r \in Rounds : RequestRound(r) \/ CheckRound(r)
Fairness == WF_vars(Working)

FairSpec == Spec /\ Fairness

-----------------------------------------------------------------------------
(* Properties. *)

PCs == {"idle", "scan", "scanned", "announce", "request", "send", "wait",
        "requested", "clear", "poll", "complete", "persist", "stalled", "drop",
        "cleanup", "fail", "exited"}

\* The Boolean fields of the service and of the state file.
FlagsOK ==
  /\ isOpen \in BOOLEAN /\ isAuth \in BOOLEAN /\ isRegister \in BOOLEAN
  /\ isSyncing \in BOOLEAN /\ isSyncRequesting \in BOOLEAN
  /\ overflowRescanPending \in BOOLEAN /\ missed \in BOOLEAN /\ covered \in BOOLEAN
  /\ IsInitSync \in BOOLEAN /\ syncErr \in BOOLEAN /\ syncDone \in BOOLEAN

\* Everything else.
DataOK ==
  /\ loop \in {"idle", "dialing", "reading", "unwinding", "backoff", "stopped"}
  /\ conn \in Nat /\ WsCount \in Nat /\ timeConnect \in Nat
  /\ closeReason \in {"none", "retry", "final"}
  /\ awaiting \subseteq Request
  /\ syncRoundID \in 0..MaxRounds /\ syncRoundConn \in Nat
  /\ ends \subseteq Modules /\ transfers \subseteq Rounds
  /\ pc \in [Rounds -> PCs]
  /\ next \in [Rounds -> 1..Len(ModuleOrder)]
  /\ isLoadLastTime \in [Rounds -> BOOLEAN]
  /\ spawned \in Nat /\ overflows \in Nat

\* The type invariant.
TypeOK == FlagsOK /\ DataOK

\* Where the goroutine of a round still drives it to an end of its own.
Driving == PCs \ {"idle", "persist", "exited"}

\* isSyncing cannot get stuck: while a round is in flight its own goroutine is
\* still on its way to complete or fail it.  Every early return of the scan,
\* request and completion code (startup.go:146-172, 182-236, 389-412) must be
\* taken only once the round is no longer current.
RoundIsDriven == isSyncing => syncRoundID \in Rounds /\ pc[syncRoundID] \in Driving

\* A round does not outlive the connection it started on: when a later socket
\* is published (client.go:415) the rounds of the earlier ones are over, so a
\* round never counts the replies of two connections.
RoundOnItsConnection ==
  isSyncing /\ syncRoundConn # 0 =>
    /\ syncRoundConn = WsCount
    /\ conn = WsCount \/ (conn = 0 /\ loop = "unwinding")

\* A round that began on a connection and stalls has that connection closed
\* before it gives up (startup.go:408-412): the daemon is not left idle on a
\* healthy connection.
StallDropsConnection ==
  \A r \in Rounds :
    pc[r] \in {"cleanup", "fail"} /\ OwnsSyncRound(r) /\ syncRoundConn # 0 =>
      ~(Connected /\ conn = syncRoundConn)

\* The socket is published exactly while readLoop reads it, and only a daemon
\* that is registered reads.
LoopInv ==
  /\ conn # 0 <=> loop = "reading"
  /\ conn # 0 => conn = WsCount
  /\ loop \in {"dialing", "reading", "unwinding", "backoff"} => isRegister

\* A socket that a round started on serves that round while it is published:
\* what ends a round forgets the socket or has lost it.
SocketHasOwner ==
  /\ syncRoundConn <= WsCount
  /\ syncRoundConn # 0 /\ conn = syncRoundConn => isSyncing

\* The goroutine of a round is started with the round.
LaterRoundsIdle == \A r \in Rounds : r > syncRoundID => pc[r] = "idle"

\* The inductive invariant of the proofs.
IInv == /\ TypeOK /\ LoopInv /\ SocketHasOwner /\ LaterRoundsIdle
        /\ RoundIsDriven /\ RoundOnItsConnection /\ StallDropsConnection

\* A step of the goroutine of a superseded or finished round leaves the round
\* in flight, its outcome, the queued recovery and the socket alone
\* (startup.go:376-378, 431-433).
StaleRoundHarmless ==
  [][\A r \in Rounds :
       pc[r] \notin {"idle", "persist"} /\ pc'[r] # pc[r] /\ ~OwnsSyncRound(r) =>
         UNCHANGED <<isSyncing, syncRoundID, syncRoundConn, ends, syncErr, syncDone,
                     overflowRescanPending, spawned, closeReason>>]_vars

\* The queued overflow recovery is only taken off the queue by a step that
\* starts a full round or hands it to a goroutine that will ask for one; a
\* failed round, a lost connection and a reconnect keep it
\* (startup.go:126-129, 547-562, 574-586).
RecoveryStaysQueued ==
  [][overflowRescanPending /\ ~overflowRescanPending' =>
       \/ spawned' > spawned
       \/ syncRoundID' = syncRoundID + 1 /\ ~isLoadLastTime'[syncRoundID']]_vars

\* The ledger of rounds that the service keeps with isSyncing, syncRoundID and
\* syncErr alone.
RoundStatus(r) == IF r > syncRoundID THEN "unused"
                  ELSE IF OwnsSyncRound(r) THEN "running" ELSE "over"

Ledger == INSTANCE RoundLedger
            WITH status <- [r \in Rounds |-> RoundStatus(r)], err <- syncErr

\* The rounds of the service are the rounds of the ledger: one at a time, each
\* once, the reported error only changed by the running one
\* (startup.go:112-143, 537-587; client.go:430-435).
ImplementsLedger == Ledger!Spec

\* The same with the promise that a running round ends, completed, failed or cut
\* off with its connection, whatever the server does: the stall timer is the
\* safety net (startup.go:403-412).
ImplementsFairLedger == Ledger!FairSpec

\* A watcher overflow cannot be lost: while the writes it hid are unknown, a
\* full scan is queued, a goroutine will ask for it, or one began after it
\* (local_events.go:473-475).
OverflowRescanStarted ==
  missed => overflowRescanPending \/ spawned > 0 \/ covered
=============================================================================
