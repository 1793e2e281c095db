--------------------------- MODULE SyncRoundProofs ---------------------------
(***************************************************************************)
(* Proofs about SyncRound for every bound on rounds, dials, overflows and  *)
(* reconnect attempts and every order of requests.                         *)
(***************************************************************************)
EXTENDS SyncRound, TLAPS

\* The sets the type invariant speaks of, and a legal index of ModuleOrder.
LEMMA ModuleFacts ==
  /\ 1 \in 1..Len(ModuleOrder)
  /\ Len(ModuleOrder) \in Nat
  /\ \A i \in 1..Len(ModuleOrder) : ModuleOrder[i] \in Modules
BY SyncRoundAssumption DEF SyncRoundAssumption, Modules

\* The two requests of the handshake are requests.
LEMMA HandshakeFacts ==
  Handshake("Authorization") \in Request /\ Handshake("ClientInfo") \in Request
BY SyncRoundAssumption DEF SyncRoundAssumption, Handshake, Request

-----------------------------------------------------------------------------
(* Type correctness.  Flags and data apart: the flags are first-order, the  *)
(* data needs arithmetic and functions.                                     *)

\* handleSync, from whatever goroutine it is called, keeps the types.
LEMMA HandleSyncType ==
  ASSUME TypeOK, NEW l \in BOOLEAN, HandleSync(l),
         awaiting' \subseteq Request, spawned' \in Nat
  PROVE  TypeOK'
<1> USE DEF HandleSync, connVars, roundVars, resultVars
<1>1. FlagsOK'
  BY ZenonT(40) DEF TypeOK, FlagsOK, BeginRound
<1>2. CASE UNCHANGED <<roundVars, pc, covered>>
  <2>1. DataOK'
    BY <1>2 DEF TypeOK, DataOK
  <2>2. QED
    BY <1>1, <2>1 DEF TypeOK
<1>3. CASE BeginRound(l)
  <2> DEFINE incr == l /\ ~overflowRescanPending
  <2>1. incr \in BOOLEAN
    BY DEF TypeOK, FlagsOK
  <2>2. /\ syncRoundID + 1 \in Rounds
        /\ isLoadLastTime' = [isLoadLastTime EXCEPT ![syncRoundID + 1] = incr]
    BY <1>3 DEF BeginRound
  <2> HIDE DEF incr
  <2>3. isLoadLastTime' \in [Rounds -> BOOLEAN]
    BY <2>1, <2>2 DEF TypeOK, DataOK
  <2>4. syncRoundID' \in 0..MaxRounds /\ syncRoundConn' \in Nat
    BY <1>3, SyncRoundAssumption DEF BeginRound, TypeOK, DataOK, Rounds,
                                     SyncRoundAssumption
  <2>5. pc' \in [Rounds -> PCs] /\ ends' \subseteq Modules
    BY <1>3 DEF BeginRound, TypeOK, DataOK, Goto, PCs
  <2>6. DataOK'
    BY <2>3, <2>4, <2>5 DEF TypeOK, DataOK
  <2>7. QED
    BY <1>1, <2>6 DEF TypeOK
<1>4. QED
  BY <1>1, <1>2, <1>3 DEF TypeOK

\* Every other step keeps the flags Boolean.
LEMMA FlagsType ==
  ASSUME TypeOK, Next, ~ClientInfoReply, ~RunSpawned
  PROVE  FlagsOK'
<1> USE DEF TypeOK, FlagsOK, connVars, roundVars, resultVars, history, RoundFrame,
            OnSyncFailed, OwnsSyncRound
<1>1. CASE ConnectionLoop \/ PeerCloses
  <2>1. CASE Connect \/ DialSucceeds
    BY ZenonT(40), <2>1 DEF Connect, DialSucceeds
  <2>2. CASE DialFails \/ BackoffExpires \/ ReadLoopExits \/ PeerCloses
    BY <2>2 DEF DialFails, BackoffExpires, ReadLoopExits, PeerCloses
  <2>3. CASE ConnectionLost
    BY <2>3 DEF ConnectionLost, ScheduleReconnect
  <2>4. QED
    BY <1>1, <2>1, <2>2, <2>3 DEF ConnectionLoop
<1>2. CASE Dispatch
  <2>1. CASE AuthorizationReply \/ HandshakeRefused
    <3>1. CASE AuthorizationReply
      <4>1. isAuth' = TRUE /\ UNCHANGED <<isOpen, isRegister, roundVars, resultVars,
                                         isSyncRequesting, IsInitSync, history>>
        BY <3>1 DEF AuthorizationReply
      <4>2. QED
        BY <4>1
    <3>2. CASE HandshakeRefused
      BY <3>2 DEF HandshakeRefused
    <3>3. QED
      BY <2>1, <3>1, <3>2
  <2>2. ASSUME NEW q \in awaiting, SyncEndReply(q) \/ ErrorReply(q) PROVE FlagsOK'
    <3>1. CASE SyncEndReply(q)
      BY <3>1 DEF SyncEndReply
    <3>2. CASE ErrorReply(q)
      BY ZenonT(40), <3>2 DEF ErrorReply
    <3>3. QED
      BY <2>2, <3>1, <3>2
  <2>3. CASE TransferBegins
    BY <2>3 DEF TransferBegins
  <2>4. ASSUME NEW r \in transfers, TransferEnds(r) PROVE FlagsOK'
    BY <2>4 DEF TransferEnds
  <2>5. QED
    BY <1>2, <2>1, <2>2, <2>3, <2>4 DEF Dispatch
<1>3. ASSUME NEW r \in Rounds, RequestRound(r) PROVE FlagsOK'
  <2>1. CASE ScanVault(r)
    BY ZenonT(40), <2>1 DEF ScanVault
  <2>2. ASSUME NEW from, NEW to, CheckOwner(r, from, to) PROVE FlagsOK'
    BY <2>2 DEF CheckOwner
  <2>3. ASSUME NEW from, NEW to, NEW b \in BOOLEAN, SetRequesting(r, from, to, b)
        PROVE  FlagsOK'
    BY <2>3 DEF SetRequesting
  <2>4. CASE SendRequest(r) \/ WaitForFolders(r)
    BY <2>4 DEF SendRequest, WaitForFolders
  <2>5. QED
    BY <1>3, <2>1, <2>2, <2>3, <2>4 DEF RequestRound
<1>4. ASSUME NEW r \in Rounds, CheckRound(r) PROVE FlagsOK'
  <2>1. CASE PersistInitSync(r)
    BY <2>1 DEF PersistInitSync
  <2>2. CASE OnSyncComplete(r)
    BY ZenonT(40), <2>2 DEF OnSyncComplete
  <2>3. CASE PollCompletion(r) \/ CheckOwner(r, "stalled", "drop")
    BY <2>3 DEF PollCompletion, CheckOwner
  <2>4. CASE DropConnectionAfterStall(r) \/ CleanupTransfers(r)
    BY <2>4 DEF DropConnectionAfterStall, DropConnectionIf, CleanupTransfers
  <2>5. CASE FailRound(r)
    BY ZenonT(40), <2>5 DEF FailRound
  <2>6. QED
    BY <1>4, <2>1, <2>2, <2>3, <2>4, <2>5 DEF CheckRound
<1>5. CASE HandleWatchOverflow
  BY <1>5 DEF HandleWatchOverflow
<1>6. QED
  BY <1>1, <1>2, <1>3, <1>4, <1>5 DEF Next, Dispatch

\* The goroutine of a round keeps the data while it sends its requests.
LEMMA RequestData ==
  ASSUME TypeOK, NEW r \in Rounds, RequestRound(r)
  PROVE  DataOK'
<1> USE DEF TypeOK, DataOK, RoundFrame, roundVars, Goto, PCs
<1>1. CASE ScanVault(r)
  BY SMTT(30), <1>1 DEF ScanVault, OnSyncFailed
<1>2. ASSUME NEW from, NEW to \in PCs, CheckOwner(r, from, to) PROVE DataOK'
  BY <1>2 DEF CheckOwner
<1>3. ASSUME NEW from, NEW to \in PCs, NEW b, SetRequesting(r, from, to, b)
      PROVE  DataOK'
  BY <1>3 DEF SetRequesting
<1>4. CASE SendRequest(r)
  <2>1. next[r] \in 1..Len(ModuleOrder) /\ r \in 0..MaxRounds
    BY SyncRoundAssumption DEF SyncRoundAssumption, Rounds
  <2>2. [round |-> r, action |-> ModuleOrder[next[r]]] \in Request
    BY <2>1, ModuleFacts DEF Request
  <2>3. awaiting' \subseteq Request
    BY <1>4, <2>2 DEF SendRequest
  <2>4. next' \in [Rounds -> 1..Len(ModuleOrder)]
    BY <1>4, <2>1, ModuleFacts DEF SendRequest
  <2>5. QED
    BY <1>4, <2>3, <2>4 DEF SendRequest
<1>5. CASE WaitForFolders(r)
  BY <1>5 DEF WaitForFolders
<1>6. QED
  BY <1>1, <1>2, <1>3, <1>4, <1>5 DEF RequestRound

\* The goroutine of a round keeps the data while it polls for completion.
LEMMA CheckData ==
  ASSUME TypeOK, NEW r \in Rounds, CheckRound(r)
  PROVE  DataOK'
<1> USE DEF TypeOK, DataOK, RoundFrame, roundVars, Goto, PCs
<1>1. CASE PollCompletion(r)
  BY <1>1 DEF PollCompletion
<1>2. CASE OnSyncComplete(r)
  BY <1>2 DEF OnSyncComplete
<1>3. CASE PersistInitSync(r)
  BY <1>3 DEF PersistInitSync
<1>4. CASE CheckOwner(r, "stalled", "drop")
  BY <1>4 DEF CheckOwner
<1>5. CASE DropConnectionAfterStall(r)
  BY <1>5 DEF DropConnectionAfterStall, DropConnectionIf
<1>6. CASE CleanupTransfers(r)
  BY <1>6 DEF CleanupTransfers
<1>7. CASE FailRound(r)
  BY <1>7 DEF FailRound, OnSyncFailed
<1>8. QED
  BY <1>1, <1>2, <1>3, <1>4, <1>5, <1>6, <1>7 DEF CheckRound

\* The other steps keep the data.
LEMMA DataType ==
  ASSUME TypeOK, Next, ~ClientInfoReply, ~RunSpawned
  PROVE  DataOK'
<1> USE DEF TypeOK, DataOK, connVars, roundVars, history
<1>1. CASE ConnectionLoop \/ PeerCloses
  <2>1. CASE DialSucceeds
    BY <2>1, HandshakeFacts DEF DialSucceeds
  <2>2. CASE Connect \/ DialFails \/ BackoffExpires
    BY <2>2 DEF Connect, DialFails, BackoffExpires, ScheduleReconnect
  <2>3. CASE ReadLoopExits \/ ConnectionLost \/ PeerCloses
    BY <2>3 DEF ReadLoopExits, ConnectionLost, ScheduleReconnect, PeerCloses
  <2>4. QED
    BY <1>1, <2>1, <2>2, <2>3 DEF ConnectionLoop
<1>2. CASE Dispatch
  <2>1. CASE AuthorizationReply \/ HandshakeRefused
    BY <2>1, HandshakeFacts DEF AuthorizationReply, HandshakeRefused
  <2>2. ASSUME NEW q \in awaiting, SyncEndReply(q) PROVE DataOK'
    BY <2>2 DEF SyncEndReply
  <2>3. ASSUME NEW q \in awaiting, ErrorReply(q) PROVE DataOK'
    BY <2>3 DEF ErrorReply, OnSyncFailed
  <2>4. CASE TransferBegins
    <3>1. syncRoundID \in Rounds
      BY <2>4 DEF TransferBegins
    <3>2. transfers' \subseteq Rounds
      BY <2>4, <3>1 DEF TransferBegins
    <3>3. QED
      BY <2>4, <3>2 DEF TransferBegins
  <2>5. CASE \E r \in transfers : TransferEnds(r)
    BY <2>5 DEF TransferEnds
  <2>6. QED
    BY <1>2, <2>1, <2>2, <2>3, <2>4, <2>5 DEF Dispatch
<1>3. CASE HandleWatchOverflow
  BY <1>3 DEF HandleWatchOverflow
<1>4. QED
  BY <1>1, <1>2, <1>3, RequestData, CheckData DEF Next, Dispatch

\* Types: every variable of the service keeps the values its Go type and its
\* code allow.
THEOREM TypeCorrect == Spec => []TypeOK
<1>1. Init => TypeOK
  <2>1. Init => FlagsOK
    BY DEF Init, FlagsOK
  <2>2. Init => DataOK
    BY ModuleFacts, SyncRoundAssumption DEF Init, DataOK, PCs, SyncRoundAssumption
  <2>3. QED
    BY <2>1, <2>2 DEF TypeOK
<1>2. TypeOK /\ [Next]_vars => TypeOK'
  <2> SUFFICES ASSUME TypeOK, [Next]_vars PROVE TypeOK'
    OBVIOUS
  <2>1. CASE ClientInfoReply
    <3>1. awaiting' \subseteq Request /\ spawned' \in Nat
      BY <2>1 DEF ClientInfoReply, TypeOK, DataOK
    <3>2. HandleSync(IsInitSync) /\ IsInitSync \in BOOLEAN
      BY <2>1 DEF ClientInfoReply, TypeOK, FlagsOK
    <3>3. QED
      BY <3>1, <3>2, HandleSyncType
  <2>2. CASE RunSpawned
    <3>1. awaiting' \subseteq Request /\ spawned' \in Nat
      BY <2>2 DEF RunSpawned, TypeOK, DataOK
    <3>2. HandleSync(FALSE)
      BY <2>2 DEF RunSpawned
    <3>3. QED
      BY <3>1, <3>2, HandleSyncType
  <2>3. CASE UNCHANGED vars
    <3>1. FlagsOK'
      BY <2>3 DEF TypeOK, FlagsOK, vars, connVars, roundVars, resultVars, history
    <3>2. DataOK'
      BY <2>3 DEF TypeOK, DataOK, vars, connVars, roundVars, history
    <3>3. QED
      BY <3>1, <3>2 DEF TypeOK
  <2>4. CASE Next /\ ~ClientInfoReply /\ ~RunSpawned
    BY <2>4, FlagsType, DataType DEF TypeOK
  <2>5. QED
    BY <2>1, <2>2, <2>3, <2>4
<1>3. QED
  BY <1>1, <1>2, PTL DEF Spec

-----------------------------------------------------------------------------
(* The inductive invariant. *)

\* Only the connection goroutine moves the connection.
LEMMA OnlyLoopConnects ==
  Next /\ ~ConnectionLoop => UNCHANGED <<loop, conn, WsCount, isRegister>>
<1> SUFFICES ASSUME Next, ~ConnectionLoop
             PROVE  UNCHANGED <<loop, conn, WsCount, isRegister>>
  OBVIOUS
<1> USE DEF connVars, RoundFrame
<1>1. CASE PeerCloses
  BY <1>1 DEF PeerCloses
<1>2. CASE Dispatch
  BY <1>2 DEF Dispatch, AuthorizationReply, HandshakeRefused, ClientInfoReply, HandleSync, SyncEndReply,
              ErrorReply, TransferBegins, TransferEnds
<1>3. ASSUME NEW r \in Rounds, RequestRound(r)
      PROVE  UNCHANGED <<loop, conn, WsCount, isRegister>>
  BY <1>3 DEF RequestRound, ScanVault, CheckOwner, SetRequesting, SendRequest,
              WaitForFolders
<1>4. ASSUME NEW r \in Rounds, CheckRound(r)
      PROVE  UNCHANGED <<loop, conn, WsCount, isRegister>>
  BY <1>4 DEF CheckRound, PollCompletion, OnSyncComplete, PersistInitSync, CheckOwner,
              DropConnectionAfterStall, DropConnectionIf, CleanupTransfers, FailRound
<1>5. CASE HandleWatchOverflow \/ RunSpawned
  BY <1>5 DEF HandleWatchOverflow, RunSpawned, HandleSync
<1>6. QED
  BY <1>1, <1>2, <1>3, <1>4, <1>5 DEF Next

\* The connection goroutine keeps the socket it published to itself.
LEMMA LoopStep == TypeOK /\ LoopInv /\ [Next]_vars => LoopInv'
<1> SUFFICES ASSUME TypeOK, LoopInv, [Next]_vars PROVE LoopInv'
  OBVIOUS
<1> USE DEF LoopInv
<1>1. CASE UNCHANGED <<loop, conn, WsCount, isRegister>>
  BY <1>1
<1>2. CASE ConnectionLoop
  BY <1>2 DEF ConnectionLoop, Connect, DialFails, DialSucceeds, BackoffExpires,
              ReadLoopExits, ConnectionLost, ScheduleReconnect, TypeOK, DataOK
<1>3. QED
  BY <1>1, <1>2, OnlyLoopConnects DEF vars, connVars

\* While a round is in flight, a step that keeps it in flight either starts it
\* or leaves its goroutine driving it.
LEMMA DrivenStep == TypeOK /\ RoundIsDriven /\ [Next]_vars => RoundIsDriven'
<1> SUFFICES ASSUME TypeOK, RoundIsDriven, [Next]_vars PROVE RoundIsDriven'
  OBVIOUS
<1> USE DEF RoundIsDriven, Driving, TypeOK, DataOK, PCs
<1>1. CASE UNCHANGED <<isSyncing, syncRoundID, pc>>
  BY <1>1
<1>2. ASSUME NEW l, HandleSync(l) PROVE RoundIsDriven'
  <2>1. CASE BeginRound(l)
    BY <2>1 DEF BeginRound, Goto
  <2>2. QED
    BY <1>1, <1>2, <2>1 DEF HandleSync, roundVars
<1>3. ASSUME NEW r, OnSyncFailed(r), UNCHANGED pc PROVE RoundIsDriven'
  BY <1>1, <1>3 DEF OnSyncFailed, roundVars
<1>4. ASSUME NEW r \in Rounds, RequestRound(r) PROVE RoundIsDriven'
  <2> USE DEF Goto, OwnsSyncRound, roundVars
  <2>1. CASE ScanVault(r)
    BY ZenonT(40), <2>1 DEF ScanVault, OnSyncFailed
  <2>2. ASSUME NEW from, NEW to \in Driving, CheckOwner(r, from, to) PROVE RoundIsDriven'
    BY <2>2 DEF CheckOwner
  <2>3. ASSUME NEW from, NEW to \in Driving, NEW b, SetRequesting(r, from, to, b)
        PROVE  RoundIsDriven'
    BY <2>3 DEF SetRequesting
  <2>4. CASE SendRequest(r)
    BY <2>4 DEF SendRequest
  <2>5. CASE WaitForFolders(r)
    BY <2>5 DEF WaitForFolders
  <2>6. QED
    BY <1>4, <2>1, <2>2, <2>3, <2>4, <2>5 DEF RequestRound
<1>5. ASSUME NEW r \in Rounds, CheckRound(r) PROVE RoundIsDriven'
  <2> USE DEF Goto, OwnsSyncRound, roundVars
  <2>1. CASE PollCompletion(r)
    BY <2>1 DEF PollCompletion
  <2>2. CASE OnSyncComplete(r)
    BY <2>2 DEF OnSyncComplete
  <2>3. CASE PersistInitSync(r)
    BY <2>3 DEF PersistInitSync
  <2>4. CASE CheckOwner(r, "stalled", "drop")
    BY <2>4 DEF CheckOwner
  <2>5. CASE DropConnectionAfterStall(r) \/ CleanupTransfers(r)
    BY ZenonT(40), <2>5 DEF DropConnectionAfterStall, DropConnectionIf, CleanupTransfers
  <2>6. CASE FailRound(r)
    BY <2>6 DEF FailRound, OnSyncFailed
  <2>7. QED
    BY <1>5, <2>1, <2>2, <2>3, <2>4, <2>5, <2>6 DEF CheckRound
<1>6. CASE ConnectionLoop \/ PeerCloses
  BY <1>6 DEF ConnectionLoop, Connect, DialFails, DialSucceeds, BackoffExpires,
              ReadLoopExits, ConnectionLost, PeerCloses, roundVars
<1>7. CASE Dispatch
  BY <1>1, <1>2, <1>3, <1>7
     DEF Dispatch, AuthorizationReply, HandshakeRefused, ClientInfoReply, SyncEndReply, ErrorReply,
         TransferBegins, TransferEnds, roundVars
<1>8. CASE HandleWatchOverflow \/ RunSpawned
  BY <1>1, <1>2, <1>8 DEF HandleWatchOverflow, RunSpawned
<1>9. CASE UNCHANGED vars
  BY <1>1, <1>9 DEF vars, roundVars
<1>10. QED
  BY <1>4, <1>5, <1>6, <1>7, <1>8, <1>9 DEF Next

\* What a step may do to the round in flight: nothing, start the next one when
\* there is none, or end it.
RoundUnchanged == UNCHANGED <<isSyncing, syncRoundID, syncRoundConn, syncErr>>
RoundBegins == /\ ~isSyncing /\ isSyncing'
               /\ syncRoundID' = syncRoundID + 1 /\ syncRoundID' \in Rounds
               /\ pc' = [pc EXCEPT ![syncRoundID'] = "scan"]
               /\ syncRoundConn' = conn
               /\ UNCHANGED <<loop, conn, WsCount, closeReason, syncErr>>
RoundOver == /\ isSyncing /\ ~isSyncing' /\ UNCHANGED <<syncRoundID, conn, WsCount>>
             /\ syncRoundConn' = 0 \/ (loop = "unwinding" /\ UNCHANGED syncRoundConn)

\* No step does anything else to the round in flight.
LEMMA RoundMoves ==
  ASSUME TypeOK, [Next]_vars
  PROVE  RoundUnchanged \/ RoundBegins \/ RoundOver
<1> DEFINE Goal == RoundUnchanged \/ RoundBegins \/ RoundOver
<1> USE DEF roundVars, resultVars, RoundUnchanged
<1>1. ASSUME NEW l, HandleSync(l) PROVE Goal
  BY <1>1 DEF HandleSync, BeginRound, Goto, connVars, RoundBegins
<1>2. ASSUME NEW r, OnSyncFailed(r), UNCHANGED <<conn, WsCount>> PROVE Goal
  BY <1>2 DEF OnSyncFailed, OwnsSyncRound, RoundOver
<1>3. CASE ConnectionLost
  BY <1>3 DEF ConnectionLost, RoundOver, TypeOK, FlagsOK
<1>4. CASE (ConnectionLoop /\ ~ConnectionLost) \/ PeerCloses
  BY <1>4 DEF ConnectionLoop, Connect, DialFails, DialSucceeds, BackoffExpires,
              ReadLoopExits, PeerCloses
<1>5. CASE Dispatch
  BY <1>1, <1>2, <1>5
     DEF Dispatch, AuthorizationReply, HandshakeRefused, ClientInfoReply, SyncEndReply, ErrorReply,
         TransferBegins, TransferEnds, connVars
<1>6. ASSUME NEW r \in Rounds, RequestRound(r) PROVE Goal
  BY <1>2, <1>6 DEF RequestRound, ScanVault, CheckOwner, SetRequesting, SendRequest,
                    WaitForFolders, RoundFrame
<1>7. ASSUME NEW r \in Rounds, CheckRound(r) PROVE Goal
  <2>1. CASE OnSyncComplete(r)
    BY <2>1 DEF OnSyncComplete, OwnsSyncRound, RoundOver, RoundFrame
  <2>2. CASE FailRound(r)
    BY <1>2, <2>2 DEF FailRound, RoundFrame
  <2>3. QED
    BY <1>7, <2>1, <2>2 DEF CheckRound, PollCompletion, PersistInitSync, CheckOwner,
                            DropConnectionAfterStall, DropConnectionIf, CleanupTransfers
<1>8. CASE HandleWatchOverflow \/ RunSpawned
  BY <1>1, <1>8 DEF HandleWatchOverflow, RunSpawned
<1>9. CASE UNCHANGED vars
  BY <1>9 DEF vars
<1>10. QED
  BY <1>3, <1>4, <1>5, <1>6, <1>7, <1>8, <1>9 DEF Next, ConnectionLoop

\* A dial can only succeed once the rounds of earlier sockets are over.
LEMMA ConnectionStep ==
  TypeOK /\ LoopInv /\ RoundOnItsConnection /\ [Next]_vars => RoundOnItsConnection'
<1> SUFFICES ASSUME TypeOK, LoopInv, RoundOnItsConnection, [Next]_vars
             PROVE  RoundOnItsConnection'
  OBVIOUS
<1> USE DEF RoundOnItsConnection, LoopInv
<1>1. CASE RoundOver
  BY <1>1 DEF RoundOver
<1>2. CASE RoundBegins
  BY <1>2 DEF RoundBegins
<1>3. CASE RoundUnchanged
  <2> USE DEF RoundUnchanged
  <2>1. CASE UNCHANGED <<loop, conn, WsCount, isRegister>>
    BY <1>3, <2>1
  <2>2. CASE ConnectionLost
    BY <2>2 DEF ConnectionLost
  <2>3. CASE ConnectionLoop /\ ~ConnectionLost
    BY <1>3, <2>3 DEF ConnectionLoop, Connect, DialFails, DialSucceeds, BackoffExpires,
                      ReadLoopExits, ScheduleReconnect, TypeOK, DataOK
  <2>4. QED
    BY <2>1, <2>2, <2>3, OnlyLoopConnects DEF vars, connVars
<1>4. QED
  BY <1>1, <1>2, <1>3, RoundMoves

\* A round that is over leaves its socket only to a lost connection, and the
\* next dial has a new number.
LEMMA SocketStep ==
  TypeOK /\ LoopInv /\ SocketHasOwner /\ [Next]_vars => SocketHasOwner'
<1> SUFFICES ASSUME TypeOK, LoopInv, SocketHasOwner, [Next]_vars PROVE SocketHasOwner'
  OBVIOUS
<1> USE DEF SocketHasOwner, LoopInv, TypeOK, DataOK
<1>1. CASE RoundOver
  BY <1>1 DEF RoundOver
<1>2. CASE RoundBegins
  BY <1>2 DEF RoundBegins
<1>3. CASE RoundUnchanged
  <2> USE DEF RoundUnchanged
  <2>1. CASE UNCHANGED <<loop, conn, WsCount, isRegister>>
    BY <1>3, <2>1
  <2>2. CASE ConnectionLoop
    BY <1>3, <2>2 DEF ConnectionLoop, Connect, DialFails, DialSucceeds, BackoffExpires,
                      ReadLoopExits, ConnectionLost, ScheduleReconnect
  <2>3. QED
    BY <2>1, <2>2, OnlyLoopConnects DEF vars, connVars
<1>4. QED
  BY <1>1, <1>2, <1>3, RoundMoves

\* A step of a round's goroutine moves that goroutine alone, and never from
\* "idle"; no other step but the start of a round moves one.
LEMMA OnlyOwnGoroutine ==
  ASSUME TypeOK, [Next]_vars
  PROVE  \/ UNCHANGED pc
         \/ RoundBegins
         \/ \E r \in Rounds : /\ RequestRound(r) \/ CheckRound(r)
                              /\ pc[r] # "idle"
                              /\ \E l \in PCs : pc' = [pc EXCEPT ![r] = l]
<1> DEFINE Goal == \/ UNCHANGED pc
                   \/ RoundBegins
                   \/ \E r \in Rounds : /\ RequestRound(r) \/ CheckRound(r)
                                        /\ pc[r] # "idle"
                                        /\ \E l \in PCs : pc' = [pc EXCEPT ![r] = l]
<1>1. ASSUME NEW l, HandleSync(l) PROVE Goal
  BY <1>1 DEF HandleSync, BeginRound, Goto, connVars, resultVars, RoundBegins
<1>2. ASSUME NEW r \in Rounds, RequestRound(r) PROVE Goal
  <2>1. pc[r] # "idle" /\ \E l \in PCs : pc' = [pc EXCEPT ![r] = l]
    BY <1>2 DEF RequestRound, ScanVault, CheckOwner, SetRequesting, SendRequest,
                WaitForFolders, Goto, PCs
  <2>2. QED
    BY <1>2, <2>1
<1>3. ASSUME NEW r \in Rounds, CheckRound(r) PROVE Goal
  <2>1. pc[r] # "idle" /\ \E l \in PCs : pc' = [pc EXCEPT ![r] = l]
    BY <1>3 DEF CheckRound, PollCompletion, OnSyncComplete, PersistInitSync, CheckOwner,
                DropConnectionAfterStall, DropConnectionIf, CleanupTransfers, FailRound, Goto, PCs
  <2>2. QED
    BY <1>3, <2>1
<1>4. CASE ConnectionLoop \/ PeerCloses \/ UNCHANGED vars
  BY <1>4 DEF ConnectionLoop, Connect, DialFails, DialSucceeds, BackoffExpires,
              ReadLoopExits, ConnectionLost, PeerCloses, vars
<1>5. CASE Dispatch
  BY <1>1, <1>5 DEF Dispatch, AuthorizationReply, HandshakeRefused, ClientInfoReply, SyncEndReply,
                    ErrorReply, TransferBegins, TransferEnds
<1>6. CASE HandleWatchOverflow \/ RunSpawned
  BY <1>1, <1>6 DEF HandleWatchOverflow, RunSpawned
<1>7. QED
  BY <1>2, <1>3, <1>4, <1>5, <1>6 DEF Next

\* Rounds are numbered in the order they begin.
LEMMA IdleStep == TypeOK /\ LaterRoundsIdle /\ [Next]_vars => LaterRoundsIdle'
<1> SUFFICES ASSUME TypeOK, LaterRoundsIdle, [Next]_vars PROVE LaterRoundsIdle'
  OBVIOUS
<1> USE DEF LaterRoundsIdle, TypeOK, DataOK, Rounds
<1>1. \/ UNCHANGED syncRoundID
      \/ syncRoundID' = syncRoundID + 1 /\ RoundBegins
  BY RoundMoves DEF RoundUnchanged, RoundBegins, RoundOver
<1>2. CASE UNCHANGED pc
  BY <1>1, <1>2, SyncRoundAssumption DEF SyncRoundAssumption
<1>3. CASE RoundBegins
  BY <1>3, SyncRoundAssumption DEF RoundBegins, SyncRoundAssumption
<1>4. ASSUME NEW r \in Rounds, pc[r] # "idle", NEW l \in PCs, pc' = [pc EXCEPT ![r] = l]
      PROVE  LaterRoundsIdle'
  BY <1>1, <1>3, <1>4
<1>5. QED
  BY <1>2, <1>3, <1>4, OnlyOwnGoroutine

\* Only dropConnectionAfterStall leads to the cleanup, and it has closed the
\* round's socket by then; a closed socket is not opened again.
LEMMA StallStep ==
  TypeOK /\ LoopInv /\ RoundOnItsConnection /\ StallDropsConnection /\ [Next]_vars
    => StallDropsConnection'
<1> SUFFICES ASSUME TypeOK, LoopInv, RoundOnItsConnection, StallDropsConnection,
                    [Next]_vars, NEW r \in Rounds,
                    pc'[r] \in {"cleanup", "fail"}, OwnsSyncRound(r)', syncRoundConn' # 0,
                    Connected', conn' = syncRoundConn'
             PROVE  FALSE
  BY DEF StallDropsConnection
<1> USE DEF OwnsSyncRound, Connected
<1>1. CASE RoundBegins
  BY <1>1 DEF RoundBegins, TypeOK, DataOK
<1>2. CASE RoundOver
  BY <1>2 DEF RoundOver
<1>3. CASE RoundUnchanged /\ ~RoundBegins
  <2> USE <1>3 DEF RoundUnchanged
  <2>1. CASE ConnectionLoop
    <3>1. loop # "dialing"
      BY DEF TypeOK, DataOK, LoopInv, RoundOnItsConnection
    <3>2. ~DialSucceeds
      BY <3>1 DEF DialSucceeds
    <3>3. ~ConnectionLost
      BY DEF ConnectionLost
    <3>4. ~ReadLoopExits
      BY DEF ReadLoopExits
    <3>5. CASE Connect \/ DialFails \/ BackoffExpires
      BY <3>5 DEF Connect, DialFails, BackoffExpires, StallDropsConnection
    <3>6. QED
      BY <2>1, <3>2, <3>3, <3>4, <3>5 DEF ConnectionLoop
  <2>2. CASE UNCHANGED <<conn, closeReason>>
    <3>1. pc[r] \notin {"cleanup", "fail"}
      BY <2>2 DEF StallDropsConnection
    <3>2. PICK q \in Rounds : /\ RequestRound(q) \/ CheckRound(q)
                              /\ \E l \in PCs : pc' = [pc EXCEPT ![q] = l]
      BY <3>1, OnlyOwnGoroutine
    <3>3. q = r
      BY <3>1, <3>2 DEF TypeOK, DataOK
    <3>4. ~RequestRound(r)
      BY <3>1 DEF RequestRound, ScanVault, CheckOwner, SetRequesting, SendRequest,
                  WaitForFolders, Goto, TypeOK, DataOK
    <3>5. CheckRound(r)
      BY <3>2, <3>3, <3>4
    <3>6. DropConnectionAfterStall(r)
      BY <3>1, <3>5 DEF CheckRound, PollCompletion, OnSyncComplete, PersistInitSync,
                        CheckOwner, CleanupTransfers, FailRound, Goto, TypeOK, DataOK
    <3>7. isRegister
      BY <2>2 DEF LoopInv
    <3>8. QED
      BY <2>2, <3>6, <3>7 DEF DropConnectionAfterStall, DropConnectionIf
  <2>3. CASE ~ConnectionLoop /\ closeReason' # closeReason
    <3>1. \A q \in Rounds : ~RequestRound(q)
      BY <2>3 DEF RequestRound, ScanVault, CheckOwner, SetRequesting, SendRequest,
                  WaitForFolders
    <3>2. ASSUME NEW q \in Rounds, CheckRound(q) PROVE closeReason' # "none"
      <4>1. DropConnectionAfterStall(q)
        BY <2>3, <3>2 DEF CheckRound, PollCompletion, OnSyncComplete, PersistInitSync,
                          CheckOwner, CleanupTransfers, FailRound
      <4>2. QED
        BY <2>3, <4>1 DEF DropConnectionAfterStall, DropConnectionIf
    <3>3. ~Dispatch
      BY <2>3 DEF Dispatch, AuthorizationReply, HandshakeRefused, ClientInfoReply, HandleSync,
                  SyncEndReply, ErrorReply, TransferBegins, TransferEnds, connVars
    <3>4. ~HandleWatchOverflow /\ ~RunSpawned
      BY <2>3 DEF HandleWatchOverflow, RunSpawned, HandleSync, connVars
    <3>5. PeerCloses => closeReason' # "none"
      BY DEF PeerCloses
    <3>6. QED
      BY <2>3, <3>1, <3>2, <3>3, <3>4, <3>5 DEF Next, vars, connVars
  <2>4. QED
    BY <2>1, <2>2, <2>3, OnlyLoopConnects DEF vars, connVars
<1>4. QED
  BY <1>1, <1>2, <1>3, RoundMoves

\* The inductive invariant holds in every reachable state.
THEOREM Inductive == Spec => []IInv
<1>1. Init => LoopInv /\ SocketHasOwner /\ LaterRoundsIdle /\ RoundIsDriven
              /\ RoundOnItsConnection /\ StallDropsConnection
  BY DEF Init, LoopInv, SocketHasOwner, LaterRoundsIdle, RoundIsDriven, RoundOnItsConnection,
         StallDropsConnection, Rounds, OwnsSyncRound
<1>2. IInv /\ [Next]_vars /\ TypeOK' => IInv'
  BY LoopStep, SocketStep, IdleStep, DrivenStep, ConnectionStep, StallStep DEF IInv
<1>3. Init /\ TypeOK => IInv
  BY <1>1 DEF IInv
<1>4. QED
  BY <1>2, <1>3, TypeCorrect, PTL DEF Spec

\* While a round is in flight, its own goroutine is on its way to end it:
\* isSyncing cannot stay set for good.
THEOREM RoundsAreDriven == Spec => []RoundIsDriven
<1>1. IInv => RoundIsDriven
  BY DEF IInv
<1>2. QED
  BY <1>1, Inductive, PTL

\* No round outlives the connection it started on.
THEOREM RoundsKeepTheirConnection == Spec => []RoundOnItsConnection
<1>1. IInv => RoundOnItsConnection
  BY DEF IInv
<1>2. QED
  BY <1>1, Inductive, PTL

\* A stalled round has dropped its connection before it gives up.
THEOREM StallsDropTheConnection == Spec => []StallDropsConnection
<1>1. IInv => StallDropsConnection
  BY DEF IInv
<1>2. QED
  BY <1>1, Inductive, PTL

-----------------------------------------------------------------------------
(* What a step may never do, and the refinement. *)

\* The goroutine of a superseded or finished round changes nothing of the round
\* in flight, of the outcome, of the queue or of the socket.
LEMMA StaleStep ==
  ASSUME IInv, [Next]_vars, NEW r \in Rounds,
         pc[r] \notin {"idle", "persist"}, pc'[r] # pc[r], ~OwnsSyncRound(r)
  PROVE  UNCHANGED <<isSyncing, syncRoundID, syncRoundConn, ends, syncErr, syncDone,
                     overflowRescanPending, spawned, closeReason>>
<1> USE DEF IInv
<1>1. ~RoundBegins
  BY DEF RoundBegins, LaterRoundsIdle, TypeOK, DataOK
<1>2. RequestRound(r) \/ CheckRound(r)
  BY <1>1, OnlyOwnGoroutine DEF TypeOK, DataOK
<1> USE DEF roundVars, resultVars
<1>3. CASE RequestRound(r)
  BY <1>3 DEF RequestRound, ScanVault, OnSyncFailed, CheckOwner, SetRequesting,
              SendRequest, WaitForFolders
<1>4. CASE DropConnectionAfterStall(r)
  <2>1. ~(syncRoundID = r /\ conn # 0 /\ syncRoundConn # 0 /\ conn = syncRoundConn)
    BY DEF SocketHasOwner, OwnsSyncRound
  <2>2. QED
    BY <1>4, <2>1 DEF DropConnectionAfterStall, DropConnectionIf
<1>5. CASE CheckRound(r) /\ ~DropConnectionAfterStall(r)
  BY <1>5 DEF CheckRound, PollCompletion, OnSyncComplete, PersistInitSync, CheckOwner,
              CleanupTransfers, FailRound, OnSyncFailed
<1>6. QED
  BY <1>2, <1>3, <1>4, <1>5

\* A late goroutine is harmless to the round in flight: the ownership tests of
\* the code are enough.
THEOREM StaleRoundsAreHarmless == Spec => StaleRoundHarmless
<1>1. IInv /\ [Next]_vars =>
        [\A r \in Rounds :
           pc[r] \notin {"idle", "persist"} /\ pc'[r] # pc[r] /\ ~OwnsSyncRound(r) =>
             UNCHANGED <<isSyncing, syncRoundID, syncRoundConn, ends, syncErr, syncDone,
                         overflowRescanPending, spawned, closeReason>>]_vars
  BY StaleStep
<1>2. QED
  BY <1>1, Inductive, PTL DEF Spec, StaleRoundHarmless

\* The queued recovery leaves the queue for a goroutine or for a full round.
LEMMA RecoveryStep ==
  ASSUME TypeOK, [Next]_vars, overflowRescanPending, ~overflowRescanPending'
  PROVE  \/ spawned' > spawned
         \/ syncRoundID' = syncRoundID + 1 /\ ~isLoadLastTime'[syncRoundID']
<1> DEFINE Goal == \/ spawned' > spawned
                   \/ syncRoundID' = syncRoundID + 1 /\ ~isLoadLastTime'[syncRoundID']
<1> USE DEF roundVars
<1>1. ASSUME NEW l, HandleSync(l) PROVE Goal
  <2>1. BeginRound(l)
    BY <1>1 DEF HandleSync
  <2>2. syncRoundID' = syncRoundID + 1 /\ syncRoundID' \in Rounds
    BY <2>1 DEF BeginRound
  <2> DEFINE incr == l /\ ~overflowRescanPending
  <2>3. ~incr
    OBVIOUS
  <2>4. isLoadLastTime' = [isLoadLastTime EXCEPT ![syncRoundID'] = incr]
    BY <2>1, <2>2 DEF BeginRound
  <2> HIDE DEF incr
  <2>5. isLoadLastTime'[syncRoundID'] = incr
    BY <2>2, <2>4 DEF TypeOK, DataOK
  <2>6. QED
    BY <2>2, <2>3, <2>5
<1>2. ASSUME NEW r, OnSyncFailed(r) PROVE Goal
  <2>1. spawned' = spawned + 1
    BY <1>2 DEF OnSyncFailed
  <2>2. QED
    BY <2>1 DEF TypeOK, DataOK
<1>3. CASE ConnectionLoop \/ PeerCloses \/ UNCHANGED vars
  BY <1>3 DEF ConnectionLoop, Connect, DialFails, DialSucceeds, BackoffExpires,
              ReadLoopExits, ConnectionLost, PeerCloses, vars
<1>4. CASE Dispatch
  BY <1>1, <1>2, <1>4
     DEF Dispatch, AuthorizationReply, HandshakeRefused, ClientInfoReply, SyncEndReply, ErrorReply,
         TransferBegins, TransferEnds
<1>5. ASSUME NEW r \in Rounds, RequestRound(r) PROVE Goal
  BY <1>2, <1>5 DEF RequestRound, ScanVault, CheckOwner, SetRequesting, SendRequest,
                    WaitForFolders
<1>6. ASSUME NEW r \in Rounds, CheckRound(r) PROVE Goal
  <2>1. CASE OnSyncComplete(r)
    <3>1. spawned' = spawned + 1
      BY <2>1 DEF OnSyncComplete
    <3>2. QED
      BY <3>1 DEF TypeOK, DataOK
  <2>2. QED
    BY <1>2, <1>6, <2>1 DEF CheckRound, PollCompletion, PersistInitSync, CheckOwner,
                            DropConnectionAfterStall, DropConnectionIf, CleanupTransfers, FailRound
<1>7. CASE HandleWatchOverflow
  BY <1>7 DEF HandleWatchOverflow
<1>8. CASE RunSpawned
  BY <1>1, <1>8 DEF RunSpawned
<1>9. QED
  BY <1>3, <1>4, <1>5, <1>6, <1>7, <1>8 DEF Next

\* A failed round, a lost connection or a reconnect never drops the recovery
\* that waits behind a round.
THEOREM RecoveryIsKept == Spec => RecoveryStaysQueued
<1>1. TypeOK /\ [Next]_vars =>
        [overflowRescanPending /\ ~overflowRescanPending' =>
           \/ spawned' > spawned
           \/ syncRoundID' = syncRoundID + 1 /\ ~isLoadLastTime'[syncRoundID']]_vars
  BY RecoveryStep
<1>2. QED
  BY <1>1, TypeCorrect, PTL DEF Spec, RecoveryStaysQueued

\* Every step of the service is a step of the ledger or leaves it alone.
LEMMA LedgerStep == IInv /\ TypeOK' /\ [Next]_vars => [Ledger!Next]_(Ledger!vars)
<1> SUFFICES ASSUME IInv, TypeOK', [Next]_vars PROVE [Ledger!Next]_(Ledger!vars)
  OBVIOUS
<1> DEFINE status == [q \in Rounds |-> RoundStatus(q)]
<1> USE DEF IInv
<1>1. CASE RoundUnchanged
  BY <1>1 DEF RoundUnchanged, Ledger!vars, RoundStatus, OwnsSyncRound
<1>2. ASSUME RoundBegins, NEW r \in Rounds, r = syncRoundID' PROVE Ledger!Next
  <2>1. /\ r \in Nat /\ syncRoundID \in Nat /\ r = syncRoundID + 1
        /\ ~isSyncing /\ isSyncing' /\ UNCHANGED syncErr
        /\ Rounds \subseteq Nat
    BY <1>2, SyncRoundAssumption DEF RoundBegins, Rounds, SyncRoundAssumption, TypeOK, DataOK
  <2>2. \A q \in Rounds : RoundStatus(q) = IF q < r THEN "over" ELSE "unused"
    BY <2>1 DEF RoundStatus, OwnsSyncRound
  <2>3. \A q \in Rounds : RoundStatus(q)' = IF q < r THEN "over"
                                             ELSE IF q = r THEN "running" ELSE "unused"
    BY <2>1, <1>2 DEF RoundStatus, OwnsSyncRound
  <2>4. status' = [status EXCEPT ![r] = "running"]
    <3>1. status = [q \in Rounds |-> IF q < r THEN "over" ELSE "unused"]
      BY <2>2
    <3>2. status' = [q \in Rounds |-> IF q < r THEN "over"
                                      ELSE IF q = r THEN "running" ELSE "unused"]
      BY <2>3
    <3> HIDE DEF status
    <3>3. status'[r] = "running" /\ \A q \in Rounds : q # r => status'[q] = status[q]
      BY <2>1, <3>1, <3>2
    <3>4. QED
      BY <3>1, <3>2, <3>3
  <2>5. \A q \in 1..(r - 1) : q \in Rounds /\ q < r
    BY <2>1, SyncRoundAssumption DEF Rounds, SyncRoundAssumption
  <2>6. Ledger!Start(r)
    BY <2>1, <2>2, <2>4, <2>5 DEF Ledger!Start
  <2>7. QED
    BY <2>6 DEF Ledger!Next, Rounds, Ledger!Rounds
<1>3. ASSUME RoundOver, NEW r \in Rounds, r = syncRoundID PROVE Ledger!Next
  <2>1. isSyncing /\ ~isSyncing' /\ syncRoundID' = r
    BY <1>3 DEF RoundOver
  <2>2. r \in Nat /\ Rounds \subseteq Nat
    BY SyncRoundAssumption DEF Rounds, SyncRoundAssumption
  <2>3. \A q \in Rounds : RoundStatus(q) = IF q > r THEN "unused"
                                            ELSE IF q = r THEN "running" ELSE "over"
    BY <1>3, <2>1, <2>2 DEF RoundStatus, OwnsSyncRound
  <2>4. \A q \in Rounds : RoundStatus(q)' = IF q > r THEN "unused" ELSE "over"
    BY <2>1, <2>2 DEF RoundStatus, OwnsSyncRound
  <2>5. status' = [status EXCEPT ![r] = "over"]
    <3>1. status = [q \in Rounds |-> IF q > r THEN "unused"
                                     ELSE IF q = r THEN "running" ELSE "over"]
      BY <2>3
    <3>2. status' = [q \in Rounds |-> IF q > r THEN "unused" ELSE "over"]
      BY <2>4
    <3> HIDE DEF status
    <3>3. status'[r] = "over" /\ \A q \in Rounds : q # r => status'[q] = status[q]
      BY <2>2, <3>1, <3>2
    <3>4. QED
      BY <3>1, <3>2, <3>3
  <2>6. syncErr' \in BOOLEAN
    BY DEF TypeOK, FlagsOK
  <2>7. Ledger!End(r)
    BY <2>2, <2>3, <2>5, <2>6 DEF Ledger!End
  <2>8. QED
    BY <2>7 DEF Ledger!Next, Rounds, Ledger!Rounds
<1>4. CASE RoundBegins
  BY <1>2, <1>4 DEF RoundBegins
<1>5. CASE RoundOver
  BY <1>3, <1>5 DEF RoundOver, RoundIsDriven
<1>6. QED
  BY <1>1, <1>4, <1>5, RoundMoves

\* The rounds of the service are the rounds of the abstract ledger.
THEOREM RoundsImplementLedger == Spec => ImplementsLedger
<1>1. Init => Ledger!Init
  BY SyncRoundAssumption DEF Init, Ledger!Init, RoundStatus, Rounds, Ledger!Rounds,
                             SyncRoundAssumption
<1>2. QED
  BY <1>1, LedgerStep, Inductive, TypeCorrect, PTL DEF Spec, ImplementsLedger, Ledger!Spec
=============================================================================
