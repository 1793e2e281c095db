---------------------------- MODULE VaultScanProofs ----------------------------
(***************************************************************************)
(* Proofs about VaultScan for every kind of path and setting, and for      *)
(* every number of edits, lost connections, other messages and restarts.   *)
(***************************************************************************)
EXTENDS VaultScan, FiniteSetTheorems, TLAPS

Results == [rev : Nat, skip : BOOLEAN, del : BOOLEAN, missing : BOOLEAN]
ToSvc   == [type : {"sync", "push"}, rev : Nat, result : Results, time : Nat]
Answers == {"SyncEnd", "NeedPush", "Modify", "Ack", "DeleteAck"}
ToClient == [type : Answers, rev : Nat, result : Results, time : Nat]
Entries == [hash : Times, mtime : Times]
Singles(S) == {{}} \cup {{s} : s \in S}
Snapshots == Singles(StateType)

\* The types of all variables.
WorldTypes ==
  /\ <<kind, offlineDelete>> \in Cases /\ disk \in Times /\ clock \in Nat \ {0}
  /\ edits \in 0 .. MaxEdits /\ event \in BOOLEAN
NetTypes ==
  /\ conn \in BOOLEAN /\ drops \in 0 .. MaxDrops /\ restarts \in 0 .. MaxRestarts
  /\ others \in 0 .. MaxOthers
StateTypes ==
  /\ st \in StateType /\ saved \in StateType /\ copy \in StateType
  /\ saves \in [Actors -> Snapshots]
RoundTypes ==
  /\ round \in {"none", "scan", "request", "wait", "done"}
  /\ found \in Results /\ found.rev \in Times
  /\ scanned \in Entries /\ ended \in BOOLEAN
PushTypes ==
  /\ pendingDelete \in BOOLEAN /\ pendingAck \in BOOLEAN /\ need \in BOOLEAN
  /\ push \in {{}} \cup {{r} : r \in Times}
WireTypes ==
  /\ toSvc \in Seq(ToSvc) /\ toClient \in Seq(ToClient)
  /\ \A i \in 1 .. Len(toSvc) : toSvc[i].rev \in Times
  /\ \A i \in 1 .. Len(toClient) : toClient[i].rev \in Times /\ toClient[i].time \in Times
  /\ svc \in Times
Types == WorldTypes /\ NetTypes /\ StateTypes /\ RoundTypes /\ PushTypes /\ WireTypes

-----------------------------------------------------------------------------
(* Queues, and times that pass.                                              *)

\* What is left of a queue once its first message is read.
LEMMA TailFacts ==
  ASSUME NEW M, NEW q \in Seq(M), q # <<>>
  PROVE  /\ Head(q) = q[1] /\ Head(q) \in M /\ Len(q) \in Nat /\ 1 \in 1 .. Len(q)
         /\ Tail(q) \in Seq(M) /\ Len(Tail(q)) = Len(q) - 1
         /\ \A i \in 1 .. Len(q) - 1 : Tail(q)[i] = q[i + 1] /\ i + 1 \in 1 .. Len(q)
OBVIOUS

\* A queue with no message.
LEMMA EmptyQueue == 1 .. Len(<<>>) = {} /\ \A M : <<>> \in Seq(M)
OBVIOUS

\* A queue with a message more.
LEMMA AppendFacts ==
  ASSUME NEW M, NEW q \in Seq(M), NEW m \in M
  PROVE  /\ Append(q, m) \in Seq(M) /\ Len(q) \in Nat /\ Len(Append(q, m)) = Len(q) + 1
         /\ \A i \in 1 .. Len(q) : Append(q, m)[i] = q[i]
         /\ Append(q, m)[Len(q) + 1] = m
OBVIOUS

\* What was a time stays one.
LEMMA TimesGrow ==
  ASSUME clock \in Nat, clock' \in Nat, clock <= clock'
  PROVE  /\ Times \subseteq Times' /\ Entries \subseteq Entries'
         /\ StateType \subseteq StateType' /\ Snapshots \subseteq Snapshots'
<1>1. Times \subseteq Times'
  BY DEF Times
<1>2. Entries \subseteq Entries'
  BY <1>1 DEF Entries
<1>3. StateType \subseteq StateType'
  BY <1>1 DEF StateType
<1>4. Snapshots \subseteq Snapshots'
  BY <1>3 DEF Snapshots, Singles
<1>5. QED
  BY <1>1, <1>2, <1>3, <1>4

\* Nothing changes while the clock stands.
LEMMA TimesStand ==
  ASSUME clock' = clock
  PROVE  /\ Times' = Times /\ Entries' = Entries
         /\ StateType' = StateType /\ Snapshots' = Snapshots
BY DEF Times, Entries, StateType, Snapshots, Singles

\* A state with some of its parts replaced.
LEMMA StateParts ==
  ASSUME NEW s \in StateType
  PROVE  /\ s.entry \in Entries /\ s.pending \in Times /\ s.time \in Times
         /\ s.init \in BOOLEAN /\ s.offered \in Times
         /\ \A e \in Entries : [s EXCEPT !.entry = e] \in StateType
         /\ \A e \in Entries, p \in Times :
              [s EXCEPT !.entry = e, !.pending = p] \in StateType
         /\ \A e \in Entries, p, o \in Times :
              [s EXCEPT !.entry = e, !.pending = p, !.offered = o] \in StateType
         /\ \A p \in Times : [s EXCEPT !.pending = p] \in StateType
         /\ \A p, o \in Times : [s EXCEPT !.pending = p, !.offered = o] \in StateType
         /\ [s EXCEPT !.init = TRUE] \in StateType
         /\ \A t \in Times : [s EXCEPT !.time = t] \in StateType
BY DEF StateType, Entries

\* The sync time moves, and nothing else of the state.
LEMMA LatestKeeps ==
  ASSUME NEW s \in StateType, NEW t \in Times
  PROVE  /\ Latest(s, t) \in StateType
         /\ Latest(s, t).entry = s.entry /\ Latest(s, t).pending = s.pending
         /\ Latest(s, t).init = s.init /\ Latest(s, t).offered = s.offered
BY StateParts DEF Latest, StateType

\* The snapshot an actor is about to write.
LEMMA SaveTypes ==
  ASSUME NEW S, saves \in [Actors -> Singles(S)], NEW a \in Actors, st' \in S, Save(a, st')
  PROVE  saves' \in [Actors -> Singles(S)] /\ \A b \in Actors : saves'[b] \subseteq saves[b] \cup {st'}
<1> DEFINE n == IF Readable THEN {st'} ELSE {}
<1>1. n \in Singles(S) /\ n \subseteq {st'}
  BY DEF Singles
<1>2. saves' = [saves EXCEPT ![a] = n]
  BY DEF Save
<1> HIDE DEF n
<1>3. QED
  BY <1>1, <1>2

\* The empty state, entry and result.
LEMMA Empty ==
  ASSUME clock \in Nat
  PROVE  /\ 0 \in Times /\ NoEntry \in Entries /\ NoState \in StateType /\ NoResult \in Results
         /\ NoResult.rev = 0 /\ {} \in Snapshots
         /\ NoState.offered = 0 /\ NoState.entry = NoEntry
BY DEF Times, NoEntry, Entries, NoState, StateType, NoResult, Results, Snapshots, Singles

-----------------------------------------------------------------------------
(* Every step keeps the types.                                               *)

\* The system starts within the types.
LEMMA InitTypes == Init => Types
<1> SUFFICES ASSUME Init PROVE Types
  OBVIOUS
<1>1. clock = 2 /\ 0 \in Times /\ 1 \in Times /\ 2 \in Times
  BY DEF Init, Times
<1>2. NoEntry \in Entries /\ NoState \in StateType /\ NoResult \in Results
      /\ NoResult.rev = 0 /\ {} \in Snapshots
  BY <1>1, Empty
<1>3. [entry |-> [hash |-> 1, mtime |-> 1], pending |-> 0, time |-> 2, init |-> TRUE,
       offered |-> 0] \in StateType
  BY <1>1 DEF StateType
<1>4. 0 \in 0 .. MaxEdits /\ 0 \in 0 .. MaxDrops /\ 0 \in 0 .. MaxRestarts
      /\ 0 \in 0 .. MaxOthers
  BY VaultScanAssumption DEF VaultScanAssumption
<1>5. st \in StateType /\ svc \in Times
  BY <1>1, <1>2, <1>3 DEF Init
<1>6. WorldTypes
  <2>1. PICK c \in Cases : kind = c[1] /\ offlineDelete = c[2]
    BY DEF Init
  <2>2. c \in {"note", "setting"} \X BOOLEAN
    BY VaultScanAssumption DEF VaultScanAssumption
  <2>3. c = <<c[1], c[2]>>
    BY <2>2
  <2>4. <<kind, offlineDelete>> \in Cases
    BY <2>1, <2>3
  <2>5. disk \in Times /\ clock \in Nat \ {0} /\ edits = 0 /\ event = FALSE
    BY <1>1 DEF Init
  <2>6. QED
    BY <1>4, <2>4, <2>5 DEF WorldTypes
<1>7. NetTypes /\ StateTypes
  BY <1>2, <1>4, <1>5 DEF Init, NetTypes, StateTypes
<1>8. RoundTypes
  BY <1>1, <1>2 DEF Init, RoundTypes
<1>9. PushTypes /\ WireTypes
  <2>1. /\ pendingDelete = FALSE /\ pendingAck = FALSE /\ need = FALSE /\ push = {}
        /\ toSvc = <<>> /\ toClient = <<>>
    BY DEF Init
  <2>2. PushTypes
    BY <2>1 DEF PushTypes
  <2>3. WireTypes
    BY <1>5, <2>1, EmptyQueue DEF WireTypes
  <2>4. QED
    BY <2>2, <2>3
<1>10. QED
  BY <1>6, <1>7, <1>8, <1>9 DEF Types

\* The user changes the file; the clock may go on.
LEMMA UserTypes ==
  ASSUME Types, Edit \/ Remove
  PROVE  Types'
<1> USE DEF Types, WorldOnly, Touched, chosen, net, file, results, records, pushes, wires
<1>1. clock \in Nat /\ clock' \in Nat /\ clock <= clock' /\ clock' # 0 /\ disk' \in 0 .. clock'
  BY DEF Edit, Remove, WorldTypes
<1>2. /\ Times \subseteq Times' /\ Entries \subseteq Entries'
      /\ StateType \subseteq StateType' /\ Snapshots \subseteq Snapshots'
  BY <1>1, TimesGrow
<1>3. UNCHANGED <<kind, offlineDelete, conn, drops, restarts, others, st, saved, saves,
                  round, copy, found, scanned, ended, pendingDelete, pendingAck,
                  need, push, toSvc, toClient, svc>>
  BY DEF Edit, Remove
<1>4. WorldTypes'
  <2>1. edits' \in 0 .. MaxEdits /\ event' \in BOOLEAN
    <3>1. MaxEdits \in Nat /\ edits \in 0 .. MaxEdits
      BY VaultScanAssumption DEF WorldTypes, VaultScanAssumption
    <3>2. edits < MaxEdits /\ edits' = edits + 1 /\ event' = TRUE
      BY DEF Edit, Remove
    <3>3. QED
      BY <3>1, <3>2
  <2>2. disk' \in Times'
    BY <1>1 DEF Times
  <2>3. QED
    BY <1>1, <1>3, <2>1, <2>2 DEF WorldTypes
<1>5. NetTypes' /\ StateTypes'
  BY <1>2, <1>3 DEF NetTypes, StateTypes
<1>6. RoundTypes' /\ WireTypes'
  BY <1>2, <1>3 DEF RoundTypes, WireTypes
<1>7. PushTypes'
  BY <1>2, <1>3 DEF PushTypes
<1>8. QED
  BY <1>4, <1>5, <1>6, <1>7

\* A push begins, or is sent.
LEMMA PushStepTypes ==
  ASSUME Types, Pushes
  PROVE  Types'
<1> USE DEF Types, chosen, world, net, file, results, records, pushes, wires
<1>0. 0 \in Times /\ clock' = clock /\ disk' = disk
  BY Empty DEF Pushes, BeginPush, SendPush, WorldTypes
<1>1. /\ Times' = Times /\ Entries' = Entries
      /\ StateType' = StateType /\ Snapshots' = Snapshots
  BY <1>0, TimesStand
<1>2. CASE BeginPush
  <2>1. push' \in {{}} \cup {{r} : r \in Times}
    BY <1>2 DEF BeginPush, WorldTypes
  <2>2. /\ UNCHANGED <<kind, offlineDelete, edits, conn, drops, restarts, others, st, saved,
                    saves, round, copy, found, scanned, ended, pendingDelete, pendingAck,
                    toSvc, toClient, svc>>
        /\ need' \in BOOLEAN /\ event' \in BOOLEAN
    BY <1>2 DEF BeginPush, WorldTypes, PushTypes
  <2>3. QED
    BY <1>0, <1>1, <2>1, <2>2
       DEF WorldTypes, NetTypes, StateTypes, RoundTypes, PushTypes, WireTypes
<1>3. CASE SendPush
  <2>1. UNCHANGED <<kind, offlineDelete, edits, event, conn, drops, restarts, others, saved,
                    round, copy, found, scanned, ended, pendingDelete, need, toClient, svc>>
        /\ push' = {}
    BY <1>3 DEF SendPush
  <2>2. PICK rev \in push :
          \/ UNCHANGED <<toSvc, st, saves, pendingAck>>
          \/ /\ toSvc' = Append(toSvc, Message("push", rev, NoResult))
             /\ \/ rev = 0 /\ pendingAck' = TRUE /\ UNCHANGED <<st, saves>>
                \/ /\ rev # 0 /\ st' = [st EXCEPT !.pending = rev] /\ Save("push", st')
                   /\ UNCHANGED pendingAck
    BY <1>3 DEF SendPush
  <2>3. rev \in Times /\ rev \in Nat
    BY DEF PushTypes, Times, WorldTypes
  <2>4. st' \in StateType /\ saves' \in [Actors -> Snapshots] /\ pendingAck' \in BOOLEAN
    <3>1. [st EXCEPT !.pending = rev] \in StateType
      BY <2>3, StateParts DEF StateTypes
    <3>2. QED
      BY <2>2, <3>1, SaveTypes DEF StateTypes, PushTypes, Snapshots, Actors
  <2>5. /\ toSvc' \in Seq(ToSvc)
        /\ \A i \in 1 .. Len(toSvc') : toSvc'[i].rev \in Times
    <3> DEFINE m == Message("push", rev, NoResult)
    <3>1. m \in ToSvc /\ m.rev \in Times
      BY <2>3, Empty DEF Message, ToSvc, WorldTypes
    <3> HIDE DEF m
    <3>2. CASE UNCHANGED toSvc
      BY <3>2 DEF WireTypes
    <3>3. CASE toSvc' = Append(toSvc, m)
      BY <3>1, <3>3, AppendFacts DEF WireTypes
    <3>4. QED
      BY <2>2, <3>2, <3>3 DEF m
  <2>6. QED
    BY <1>0, <1>1, <2>1, <2>4, <2>5
       DEF WorldTypes, NetTypes, StateTypes, RoundTypes, PushTypes, WireTypes
<1>4. QED
  BY <1>2, <1>3 DEF Pushes

\* The round goroutine.
LEMMA RoundStepTypes ==
  ASSUME Types, Round
  PROVE  Types'
<1> USE DEF Types, RoundFrame, RoundOver, chosen, world, net, file, results, records, pushes,
            wires, history
<1>0. 0 \in Times /\ NoState \in StateType /\ NoResult \in Results /\ NoResult.rev = 0
      /\ NoEntry \in Entries
  BY Empty DEF WorldTypes
<1>1. UNCHANGED <<kind, offlineDelete, disk, clock, edits, event, conn, drops, restarts, others,
                  saved, push, pendingAck, need, toClient, svc>>
  BY DEF Round, BeginRound, ScanPath, SendRequest, CompleteRound
<1>2. /\ Times' = Times /\ Entries' = Entries
      /\ StateType' = StateType /\ Snapshots' = Snapshots
  BY <1>1, TimesStand
<1>3. WorldTypes' /\ NetTypes'
  BY <1>1, <1>2 DEF WorldTypes, NetTypes
<1>4. CASE BeginRound
  <2>1. /\ copy' = st /\ round' = "scan" /\ ended' = FALSE
        /\ UNCHANGED <<st, saves, found, scanned, pendingDelete, toSvc>>
    BY <1>4 DEF BeginRound
  <2>2. QED
    BY <1>1, <1>2, <1>3, <2>1 DEF StateTypes, RoundTypes, PushTypes, WireTypes
<1>5. CASE ScanPath
  <2>1. /\ round' = "request" /\ found' = ScanResult(copy)
        /\ scanned' \in {NoEntry, [hash |-> disk, mtime |-> disk]}
        /\ UNCHANGED <<st, saves, copy, ended, pendingDelete, toSvc>>
    BY <1>5 DEF ScanPath
  <2>2. HashOf(copy) \in Times
    BY StateParts DEF HashOf, StateTypes, WorldTypes, Entries
  <2>3. found' \in Results /\ found'.rev \in Times
    <3> DEFINE skip == disk = 0 \/ Skipped(copy)
               missing == Known(copy) /\ (IF kind = "setting" THEN skip ELSE disk = 0)
               rev == IF skip THEN 0 ELSE HashOf(copy)
               del == missing /\ offlineDelete
               gap == missing /\ ~offlineDelete /\ copy.init
    <3>1. found' = [rev |-> rev, skip |-> skip, del |-> del, missing |-> gap]
      BY <2>1 DEF ScanResult
    <3>2. rev \in Times /\ rev \in Nat /\ skip \in BOOLEAN /\ del \in BOOLEAN /\ gap \in BOOLEAN
      <4>1. rev \in Times
        BY <1>0, <2>2
      <4>2. skip \in BOOLEAN /\ del \in BOOLEAN /\ gap \in BOOLEAN
        BY DEF Skipped, Known
      <4> HIDE DEF rev
      <4>3. rev \in Nat
        BY <4>1 DEF Times
      <4>4. QED
        BY <4>1, <4>2, <4>3
    <3> HIDE DEF skip, missing, rev, del, gap
    <3>3. QED
      BY <3>1, <3>2 DEF Results
  <2>4. scanned' \in Entries
    BY <1>0, <2>1 DEF WorldTypes, Entries
  <2>5. QED
    BY <1>1, <1>2, <1>3, <2>1, <2>3, <2>4 DEF StateTypes, RoundTypes, PushTypes, WireTypes
<1>6. CASE SendRequest
  <2> DEFINE m == Message("sync", 0, found)
             p == IF found.skip THEN st.pending ELSE found.rev
  <2>1. /\ round' = "wait" /\ toSvc' = Append(toSvc, m)
        /\ pendingDelete' = (pendingDelete \/ found.del)
        /\ st' = [st EXCEPT !.pending = p, !.offered = Offer] /\ Save("round", st')
        /\ copy' = NoState /\ found' = NoResult
        /\ UNCHANGED <<scanned, ended>>
    BY <1>6 DEF SendRequest
  <2>2. p \in Times /\ Offer \in Times
    BY StateParts DEF Offer, RoundTypes, StateTypes
  <2> HIDE DEF p
  <2>3. st' \in StateType
    BY <2>1, <2>2, StateParts DEF StateTypes
  <2>4. saves' \in [Actors -> Snapshots]
    BY <2>1, <2>3, SaveTypes DEF StateTypes, Snapshots, Actors
  <2>5. m \in ToSvc /\ m.rev = 0
    BY DEF Message, ToSvc, RoundTypes, WorldTypes
  <2> HIDE DEF m
  <2>6. /\ toSvc' \in Seq(ToSvc)
        /\ \A i \in 1 .. Len(toSvc') : toSvc'[i].rev \in Times
    BY <1>0, <2>1, <2>5, AppendFacts DEF WireTypes
  <2>7. pendingDelete' \in BOOLEAN
    BY <2>1 DEF PushTypes, RoundTypes, Results
  <2>8. QED
    BY <1>0, <1>1, <1>2, <1>3, <2>1, <2>3, <2>4, <2>6, <2>7
       DEF StateTypes, RoundTypes, PushTypes, WireTypes
<1>7. CASE CompleteRound
  <2>1. /\ round' = "done" /\ UNCHANGED <<copy, found, scanned, ended, pendingDelete, toSvc>>
        /\ \/ UNCHANGED <<st, saves>>
           \/ st' = [st EXCEPT !.init = TRUE] /\ Save("round", st')
    BY <1>7 DEF CompleteRound
  <2>2. st' \in StateType /\ saves' \in [Actors -> Snapshots]
    <3>1. [st EXCEPT !.init = TRUE] \in StateType
      BY StateParts DEF StateTypes
    <3>2. QED
      BY <2>1, <3>1, SaveTypes DEF StateTypes, Snapshots, Actors
  <2>3. QED
    BY <1>1, <1>2, <1>3, <2>1, <2>2 DEF StateTypes, RoundTypes, PushTypes, WireTypes
<1>8. QED
  BY <1>4, <1>5, <1>6, <1>7 DEF Round

\* The first message of the service, which is read.
LEMMA HandleTypes ==
  ASSUME Types, NEW t, Handle(t)
  PROVE  /\ Head(toClient) \in ToClient /\ Head(toClient).type = t
         /\ Head(toClient).rev \in Times /\ Head(toClient).time \in Times
         /\ toClient' \in Seq(ToClient) /\ Head(toClient) = toClient[1]
         /\ Len(toClient) \in Nat \ {0} /\ Len(toClient') = Len(toClient) - 1
         /\ \A i \in 1 .. Len(toClient) - 1 :
              toClient'[i] = toClient[i + 1] /\ i + 1 \in 1 .. Len(toClient)
<1>1. toClient \in Seq(ToClient) /\ toClient # <<>> /\ toClient' = Tail(toClient)
      /\ Head(toClient).type = t
  BY DEF Handle, Types, WireTypes
<1>2. QED
  BY <1>1, TailFacts DEF Types, WireTypes

\* The entry a SyncEnd leaves.
LEMMA CommittedTypes ==
  ASSUME Types, NEW s \in StateType
  PROVE  Committed(s) \in {s.entry, scanned, NoEntry} /\ Committed(s) \in Entries
<1>1. Committed(s) \in {s.entry, scanned, NoEntry}
  BY DEF Committed
<1>2. QED
  BY <1>1, StateParts, Empty DEF Types, RoundTypes, WorldTypes

\* The state that the handlers of the read loop leave, and its entry.
LEMMA ReaderState ==
  ASSUME Types, HandleSyncEnd \/ HandleNeedPush \/ HandleModify \/ HandleAck \/ HandleDeleteAck
  PROVE  /\ st' \in StateType /\ (Save("reader", st') \/ UNCHANGED saves)
         /\ UNCHANGED <<kind, offlineDelete, clock, edits, event, conn, drops, restarts, others,
                        saved, round, copy, found, push, toSvc, svc, served, gone>>
<1> USE DEF Types, ReaderFrame, chosen, net, history
<1>1. UNCHANGED <<kind, offlineDelete, clock, edits, event, conn, drops, restarts, others,
                  saved, round, copy, found, push, toSvc, svc, served, gone>>
  BY DEF HandleSyncEnd, HandleNeedPush, HandleModify, HandleAck, HandleDeleteAck
<1>2. st \in StateType /\ disk \in Times /\ 0 \in Times /\ NoEntry \in Entries
  BY Empty DEF StateTypes, WorldTypes
<1> DEFINE m == Head(toClient)
           s == Latest(st, m.time)
<1>3. CASE HandleSyncEnd
  <2>1. m.time \in Times
    BY <1>3, HandleTypes DEF HandleSyncEnd
  <2> DEFINE t == IF kind = "note" \/ m.rev # 0 THEN s ELSE st
  <2>2. t \in StateType
    BY <1>2, <2>1, LatestKeeps
  <2>3. st' = [t EXCEPT !.entry = Committed(t)] /\ Save("reader", st')
    BY <1>3 DEF HandleSyncEnd
  <2> HIDE DEF t
  <2>4. QED
    BY <1>1, <2>2, <2>3, CommittedTypes, StateParts
<1>4. CASE HandleNeedPush
  <2>1. m.time \in Times /\ st' = s /\ UNCHANGED saves
    BY <1>4, HandleTypes DEF HandleNeedPush
  <2>2. QED
    BY <1>1, <1>2, <2>1, LatestKeeps
<1>5. CASE HandleModify
  <2>1. m.time \in Times /\ m.rev \in Times
    BY <1>5, HandleTypes DEF HandleModify
  <2>2. s \in StateType /\ [hash |-> m.rev, mtime |-> m.rev] \in Entries
    BY <1>2, <2>1, LatestKeeps DEF Entries
  <2>3. /\ st' = [s EXCEPT !.entry = [hash |-> m.rev, mtime |-> m.rev], !.pending = 0,
                           !.offered = 0]
        /\ Save("reader", st')
    BY <1>5 DEF HandleModify
  <2> HIDE DEF s, m
  <2>4. QED
    BY <1>1, <1>2, <2>2, <2>3, StateParts
<1>6. CASE HandleAck
  <2>1. m.time \in Times
    BY <1>6, HandleTypes DEF HandleAck
  <2>2. s \in StateType
    BY <1>2, <2>1, LatestKeeps
  <2>3. \/ /\ st' = [s EXCEPT !.entry = [hash |-> s.pending, mtime |-> disk], !.pending = 0]
           /\ Save("reader", st')
        \/ st' = s /\ UNCHANGED saves
    BY <1>6 DEF HandleAck
  <2> HIDE DEF s
  <2>4. s.pending \in Times
    BY <2>2, StateParts
  <2>5. [hash |-> s.pending, mtime |-> disk] \in Entries
    BY <1>2, <2>4 DEF Entries
  <2> DEFINE e == [hash |-> s.pending, mtime |-> disk]
  <2>6. e \in Entries
    BY <2>5
  <2>7. \/ st' = [s EXCEPT !.entry = e, !.pending = 0] /\ Save("reader", st')
        \/ st' = s /\ UNCHANGED saves
    BY <2>3
  <2> HIDE DEF e
  <2>8. [s EXCEPT !.entry = e, !.pending = 0] \in StateType
    BY <1>2, <2>2, <2>6, StateParts
  <2>9. QED
    BY <1>1, <2>2, <2>7, <2>8
<1>7. CASE HandleDeleteAck
  <2>1. m.time \in Times
    BY <1>7, HandleTypes DEF HandleDeleteAck
  <2>2. s \in StateType
    BY <1>2, <2>1, LatestKeeps
  <2>3. st' \in {s, [s EXCEPT !.entry = NoEntry]} /\ Save("reader", st')
    BY <1>7 DEF HandleDeleteAck
  <2> HIDE DEF s
  <2>4. QED
    BY <1>1, <1>2, <2>2, <2>3, StateParts
<1>8. QED
  BY <1>3, <1>4, <1>5, <1>6, <1>7

\* The read loop.
LEMMA ReaderTypes ==
  ASSUME Types, ReadLoop
  PROVE  Types'
<1> USE DEF Types, chosen, world, net, results, records, pushes, wires, history
<1>0. 0 \in Times /\ NoEntry \in Entries
  BY Empty DEF WorldTypes
<1>1. CASE HandleOther
  <2>1. /\ UNCHANGED <<kind, offlineDelete, disk, edits, event, conn, drops, restarts, saved,
                       round, copy, found, scanned, ended, pendingDelete, pendingAck, need, push,
                       toSvc, toClient, svc>>
        /\ others' = others + 1 /\ others < MaxOthers
        /\ clock' = clock + 1 /\ st' = Latest(st, clock') /\ Save("reader", st')
    BY <1>1 DEF HandleOther
  <2>2. /\ clock \in Nat /\ clock' \in Nat \ {0} /\ clock <= clock'
        /\ others' \in 0 .. MaxOthers
    BY <2>1, VaultScanAssumption DEF WorldTypes, NetTypes, VaultScanAssumption
  <2>3. /\ Times \subseteq Times' /\ Entries \subseteq Entries'
        /\ StateType \subseteq StateType' /\ Snapshots \subseteq Snapshots'
    BY <2>2, TimesGrow
  <2>4. st' \in StateType'
    <3>1. clock' \in Times' /\ st \in StateType'
      BY <2>2, <2>3 DEF Times, StateTypes
    <3>2. st' \in {st, [st EXCEPT !.time = clock']}
      BY <2>1 DEF Latest
    <3>3. [st EXCEPT !.time = clock'] \in StateType'
      BY <3>1 DEF StateType
    <3>4. QED
      BY <3>1, <3>2, <3>3
  <2>5. saves' \in [Actors -> Snapshots']
    <3>1. saves \in [Actors -> Singles(StateType')]
      BY <2>3 DEF StateTypes, Snapshots
    <3>2. "reader" \in Actors
      BY DEF Actors
    <3>3. saves' \in [Actors -> Singles(StateType')]
      BY <2>1, <2>4, <3>1, <3>2, SaveTypes
    <3>4. QED
      BY <3>3 DEF Snapshots
  <2>6. WorldTypes' /\ NetTypes'
    BY <2>1, <2>2, <2>3 DEF WorldTypes, NetTypes
  <2>7. StateTypes' /\ RoundTypes' /\ WireTypes'
    BY <2>1, <2>3, <2>4, <2>5 DEF StateTypes, RoundTypes, WireTypes
  <2>8. PushTypes'
    BY <2>1, <2>3 DEF PushTypes
  <2>9. QED
    BY <2>6, <2>7, <2>8
<1>2. CASE ~HandleOther
  <2> DEFINE Some == HandleSyncEnd \/ HandleNeedPush \/ HandleModify \/ HandleAck
                     \/ HandleDeleteAck
  <2>1. Some
    BY <1>2 DEF ReadLoop
  <2>2. /\ st' \in StateType /\ (Save("reader", st') \/ UNCHANGED saves)
        /\ UNCHANGED <<kind, offlineDelete, clock, edits, event, conn, drops, restarts, others,
                       saved, round, copy, found, push, toSvc, svc>>
    BY <2>1, ReaderState
  <2>3. /\ Times' = Times /\ Entries' = Entries
        /\ StateType' = StateType /\ Snapshots' = Snapshots
    BY <2>2, TimesStand
  <2>4. saves' \in [Actors -> Snapshots]
    BY <2>2, SaveTypes DEF StateTypes, Snapshots, Actors
  <2>5. PICK t \in Answers : Handle(t)
    BY <2>1 DEF HandleSyncEnd, HandleNeedPush, HandleModify, HandleAck, HandleDeleteAck, Answers
  <2>6. /\ toClient' \in Seq(ToClient) /\ Head(toClient).rev \in Times
        /\ \A i \in 1 .. Len(toClient') : toClient'[i].rev \in Times /\ toClient'[i].time \in Times
    BY <2>5, HandleTypes DEF WireTypes
  <2>7. /\ disk' \in {disk, Head(toClient).rev} /\ scanned' \in {scanned, NoEntry}
        /\ ended' \in BOOLEAN /\ need' \in BOOLEAN
        /\ pendingDelete' \in BOOLEAN /\ pendingAck' \in BOOLEAN
    BY <2>1 DEF HandleSyncEnd, HandleNeedPush, HandleModify, HandleAck, HandleDeleteAck,
                RoundTypes, PushTypes
  <2>8. WorldTypes' /\ NetTypes'
    BY <2>2, <2>3, <2>6, <2>7 DEF WorldTypes, NetTypes
  <2>9. StateTypes' /\ RoundTypes' /\ WireTypes'
    BY <1>0, <2>2, <2>3, <2>4, <2>6, <2>7 DEF StateTypes, RoundTypes, WireTypes
  <2>10. PushTypes'
    BY <2>2, <2>3, <2>7 DEF PushTypes
  <2>11. QED
    BY <2>8, <2>9, <2>10
<1>3. QED
  BY <1>1, <1>2

\* A snapshot is written, or a connection made.
LEMMA FileTypes ==
  ASSUME Types, Connect \/ \E a \in Actors : WriteState(a)
  PROVE  Types'
<1> USE DEF Types, chosen, world, net, file, results, records, pushes, wires
<1>1. UNCHANGED <<kind, offlineDelete, disk, clock, edits, event, drops, restarts, others, st,
                  round, copy, found, scanned, ended, pendingDelete, pendingAck, need, push,
                  toSvc, toClient, svc>>
  BY DEF Connect, WriteState
<1>2. /\ Times' = Times /\ Entries' = Entries
      /\ StateType' = StateType /\ Snapshots' = Snapshots
  BY <1>1, TimesStand
<1>3. conn' \in BOOLEAN
  BY DEF Connect, WriteState, NetTypes
<1>4. saved' \in StateType /\ saves' \in [Actors -> Snapshots]
  <2>1. CASE Connect
    BY <2>1 DEF Connect, StateTypes
  <2>2. ASSUME NEW a \in Actors, WriteState(a)
        PROVE  saved' \in StateType /\ saves' \in [Actors -> Snapshots]
    <3>1. saves[a] \in Snapshots /\ saved' \in saves[a] /\ saves' = [saves EXCEPT ![a] = {}]
      BY <2>2 DEF WriteState, StateTypes
    <3>2. saved' \in StateType
      BY <3>1 DEF Snapshots, Singles
    <3>3. QED
      BY <3>1, <3>2, Empty DEF StateTypes, WorldTypes
  <2>3. QED
    BY <2>1, <2>2
<1>5. QED
  BY <1>1, <1>2, <1>3, <1>4
     DEF WorldTypes, NetTypes, StateTypes, RoundTypes, PushTypes, WireTypes

\* Two queues, one after the other.
LEMMA ConcatFacts ==
  ASSUME NEW M, NEW p \in Seq(M), NEW q \in Seq(M)
  PROVE  /\ p \o q \in Seq(M) /\ Len(p) \in Nat /\ Len(q) \in Nat
         /\ Len(p \o q) = Len(p) + Len(q)
         /\ \A i \in 1 .. Len(p) : (p \o q)[i] = p[i]
         /\ \A i \in 1 .. Len(p \o q) : i > Len(p) =>
              i - Len(p) \in 1 .. Len(q) /\ (p \o q)[i] = q[i - Len(p)]
OBVIOUS

\* A queue of one message or none.
LEMMA MaybeOne ==
  ASSUME NEW T, NEW M, NEW x, NEW c \in BOOLEAN, c => x \in T /\ x \in M
  PROVE  LET q == IF c THEN <<x>> ELSE <<>> IN
         q \in Seq(T) /\ \A i \in 1 .. Len(q) : q[i] \in M
<1>1. CASE c
  BY <1>1
<1>2. CASE ~c
  BY <1>2, EmptyQueue
<1>3. QED
  BY <1>1, <1>2

\* q is p with nothing but messages of M after it.
Extends(p, q, M) ==
  /\ Len(p) \in Nat /\ Len(q) \in Nat /\ Len(p) <= Len(q)
  /\ \A i \in 1 .. Len(p) : q[i] = p[i]
  /\ \A i \in 1 .. Len(q) : i > Len(p) => q[i] \in M

\* Messages after those that came after.
LEMMA ExtendOnce ==
  ASSUME NEW T, NEW M, NEW p \in Seq(T), NEW q \in Seq(T), NEW r \in Seq(T),
         Extends(p, q, M), \A i \in 1 .. Len(r) : r[i] \in M
  PROVE  q \o r \in Seq(T) /\ Extends(p, q \o r, M)
<1> DEFINE z == q \o r
<1>1. /\ z \in Seq(T) /\ Len(q) \in Nat /\ Len(r) \in Nat
      /\ Len(z) = Len(q) + Len(r)
      /\ \A i \in 1 .. Len(q) : z[i] = q[i]
      /\ \A i \in 1 .. Len(z) : i > Len(q) =>
           i - Len(q) \in 1 .. Len(r) /\ z[i] = r[i - Len(q)]
  BY ConcatFacts
<1> HIDE DEF z
<1>2. Extends(p, z, M)
  <2>1. Len(p) \in Nat /\ Len(z) \in Nat /\ Len(p) <= Len(z)
    BY <1>1 DEF Extends
  <2>2. \A i \in 1 .. Len(p) : z[i] = p[i]
    BY <1>1 DEF Extends
  <2>3. ASSUME NEW i \in 1 .. Len(z), i > Len(p) PROVE z[i] \in M
    <3>1. CASE i <= Len(q)
      BY <1>1, <2>3, <3>1 DEF Extends
    <3>2. CASE i > Len(q)
      BY <1>1, <3>2
    <3>3. QED
      BY <1>1, <3>1, <3>2
  <2>4. QED
    BY <2>1, <2>2, <2>3 DEF Extends
<1>3. QED
  BY <1>1, <1>2 DEF z

\* What the service may answer to m.
AnswersTo(m) ==
  {a \in ToClient : a.time = clock /\
     \/ m.type = "push" /\ a.type = (IF m.rev = 0 THEN "DeleteAck" ELSE "Ack") /\ a.rev = 0
     \/ /\ m.type = "sync"
        /\ \/ a.type = "SyncEnd" /\ a.rev \in {0, 1}
           \/ a.type = "NeedPush" /\ a.rev = 0
           \/ a.type = "Modify" /\ a.rev = svc /\ svc # 0 /\ m.result.missing}

\* The service takes one message and appends its answers to those on their way.
LEMMA Served ==
  ASSUME Types, Serve
  PROVE  /\ toSvc # <<>> /\ toSvc' = Tail(toSvc) /\ svc' \in Times
         /\ served' = served \cup {svc'} /\ conn
         /\ UNCHANGED <<kind, offlineDelete, disk, clock, edits, event, conn, drops, restarts,
                        others, st, saved, saves, round, copy, found, scanned, ended,
                        pendingDelete, pendingAck, need, push, gone>>
         /\ \/ Head(toSvc).type = "push" /\ svc' = Head(toSvc).rev
            \/ /\ Head(toSvc).type = "sync"
               /\ svc' = (IF Head(toSvc).result.del THEN 0 ELSE svc)
         /\ toClient' \in Seq(ToClient) /\ Extends(toClient, toClient', AnswersTo(Head(toSvc)))
<1> USE DEF chosen, world, net, file, results, records, pushes
<1> DEFINE m == Head(toSvc)
           answer(t, r) == Message(t, r, NoResult)
           wanted   == m.result.rev \notin {0, svc}
           restored == m.result.missing /\ svc # 0
<1>1. /\ toSvc # <<>> /\ toSvc' = Tail(toSvc) /\ served' = served \cup {svc'} /\ conn
      /\ UNCHANGED <<kind, offlineDelete, disk, clock, edits, event, conn, drops, restarts,
                     others, st, saved, saves, round, copy, found, scanned, ended,
                     pendingDelete, pendingAck, need, push, gone>>
  BY DEF Serve
<1>2. m \in ToSvc /\ m.rev \in Times
  BY <1>1, TailFacts DEF Types, WireTypes
<1>3. 0 \in Times /\ svc \in Times /\ svc \in Nat
  BY DEF Types, WorldTypes, WireTypes, Times
<1>4. \A t \in Answers, r \in Nat :
        /\ answer(t, r) \in ToClient /\ answer(t, r).type = t /\ answer(t, r).rev = r
        /\ answer(t, r).time = clock
  BY Empty DEF Message, ToClient, Types, WorldTypes
<1>5. toClient \in Seq(ToClient) /\ Extends(toClient, toClient, AnswersTo(m))
  BY DEF Types, WireTypes, Extends
<1>6. CASE m.type = "push" /\ svc' = m.rev
           /\ toClient' = Append(toClient, answer(IF m.rev = 0 THEN "DeleteAck" ELSE "Ack", 0))
  <2> DEFINE a == answer(IF m.rev = 0 THEN "DeleteAck" ELSE "Ack", 0)
  <2>1. a \in AnswersTo(m)
    BY <1>4, <1>6 DEF AnswersTo, Answers
  <2>2. toClient' = Append(toClient, a) /\ a \in ToClient
    BY <1>6, <2>1 DEF AnswersTo
  <2> HIDE DEF a
  <2>3. <<a>> \in Seq(ToClient) /\ \A i \in 1 .. Len(<<a>>) : <<a>>[i] \in AnswersTo(m)
    BY <2>1, <2>2
  <2>4. toClient' = toClient \o <<a>>
    BY <1>5, <2>2
  <2>5. toClient' \in Seq(ToClient) /\ Extends(toClient, toClient', AnswersTo(m))
    BY <1>5, <2>3, <2>4, ExtendOnce
  <2>6. QED
    BY <1>1, <1>2, <1>6, <2>5
<1>7. CASE /\ m.type = "sync" /\ svc' = (IF m.result.del THEN 0 ELSE svc)
           /\ toClient' = toClient \o
                <<answer("SyncEnd", IF wanted \/ restored THEN 1 ELSE 0)>> \o
                (IF wanted THEN <<answer("NeedPush", 0)>> ELSE <<>>) \o
                (IF restored THEN <<answer("Modify", svc)>> ELSE <<>>)
  <2> DEFINE a == answer("SyncEnd", IF wanted \/ restored THEN 1 ELSE 0)
             b == answer("NeedPush", 0)
             c == answer("Modify", svc)
             A == <<a>>
             B == IF wanted THEN <<b>> ELSE <<>>
             C == IF restored THEN <<c>> ELSE <<>>
  <2>1. a \in AnswersTo(m)
    <3>1. (IF wanted \/ restored THEN 1 ELSE 0) \in {0, 1}
      OBVIOUS
    <3>2. QED
      BY SMTT(30), <1>4, <1>7, <3>1 DEF AnswersTo, Answers
  <2>2. b \in AnswersTo(m)
    BY <1>4, <1>7 DEF AnswersTo, Answers
  <2>3. restored => c \in AnswersTo(m)
    BY <1>3, <1>4, <1>7 DEF AnswersTo, Answers
  <2>4. toClient' = toClient \o A \o B \o C
    BY <1>7
  <2>5. a \in ToClient /\ b \in ToClient /\ (restored => c \in ToClient)
    BY <2>1, <2>2, <2>3 DEF AnswersTo
  <2> HIDE DEF a, b, c, wanted, restored, m
  <2>6. /\ A \in Seq(ToClient) /\ B \in Seq(ToClient) /\ C \in Seq(ToClient)
        /\ \A i \in 1 .. Len(A) : A[i] \in AnswersTo(m)
        /\ \A i \in 1 .. Len(B) : B[i] \in AnswersTo(m)
        /\ \A i \in 1 .. Len(C) : C[i] \in AnswersTo(m)
    <3>1. A \in Seq(ToClient) /\ \A i \in 1 .. Len(A) : A[i] \in AnswersTo(m)
      BY <2>1, <2>5
    <3>2. B \in Seq(ToClient) /\ \A i \in 1 .. Len(B) : B[i] \in AnswersTo(m)
      BY <2>2, <2>5, MaybeOne
    <3>3. C \in Seq(ToClient) /\ \A i \in 1 .. Len(C) : C[i] \in AnswersTo(m)
      BY <2>3, <2>5, MaybeOne
    <3>4. QED
      BY <3>1, <3>2, <3>3
  <2> HIDE DEF A, B, C
  <2>7. toClient \o A \in Seq(ToClient) /\ Extends(toClient, toClient \o A, AnswersTo(m))
    BY <1>5, <2>6, ExtendOnce
  <2>8. /\ toClient \o A \o B \in Seq(ToClient)
        /\ Extends(toClient, toClient \o A \o B, AnswersTo(m))
    BY <1>5, <2>6, <2>7, ExtendOnce
  <2>9. /\ toClient \o A \o B \o C \in Seq(ToClient)
        /\ Extends(toClient, toClient \o A \o B \o C, AnswersTo(m))
    BY <1>5, <2>6, <2>8, ExtendOnce
  <2>10. svc' \in Times
    BY <1>3, <1>7
  <2>11. QED
    BY <1>1, <1>7, <2>4, <2>9, <2>10 DEF m
<1>8. QED
  BY <1>6, <1>7 DEF Serve

\* The service takes a message.
LEMMA ServeTypes ==
  ASSUME Types, Serve
  PROVE  Types'
<1>1. /\ toSvc # <<>> /\ toSvc' = Tail(toSvc) /\ svc' \in Times
      /\ toClient' \in Seq(ToClient) /\ Extends(toClient, toClient', AnswersTo(Head(toSvc)))
      /\ UNCHANGED <<kind, offlineDelete, disk, clock, edits, event, conn, drops, restarts,
                     others, st, saved, saves, round, copy, found, scanned, ended,
                     pendingDelete, pendingAck, need, push, gone>>
  BY Served
<1>2. /\ Times' = Times /\ Entries' = Entries
      /\ StateType' = StateType /\ Snapshots' = Snapshots
  BY <1>1, TimesStand
<1>3. WorldTypes' /\ NetTypes' /\ StateTypes' /\ RoundTypes' /\ PushTypes'
  BY <1>1, <1>2 DEF Types, WorldTypes, NetTypes, StateTypes, RoundTypes, PushTypes
<1>4. WireTypes'
  <2>1. toSvc' \in Seq(ToSvc) /\ \A i \in 1 .. Len(toSvc') : toSvc'[i].rev \in Times
    BY <1>1, TailFacts DEF Types, WireTypes
  <2>2. 0 \in Times /\ 1 \in Times /\ svc \in Times /\ clock \in Times
    BY DEF Types, WorldTypes, WireTypes, Times
  <2>3. \A a \in AnswersTo(Head(toSvc)) : a.rev \in Times /\ a.time \in Times
    BY <2>2 DEF AnswersTo
  <2>4. \A i \in 1 .. Len(toClient') : toClient'[i].rev \in Times /\ toClient'[i].time \in Times
    BY SMTT(30), <1>1, <2>3 DEF Types, WireTypes, Extends
  <2>5. QED
    BY <1>1, <1>2, <2>1, <2>4 DEF WireTypes
<1>5. QED
  BY <1>3, <1>4 DEF Types

\* The connection is lost, or the daemon killed.
LEMMA EndTypes ==
  ASSUME Types, ConnectionLost \/ Restart
  PROVE  Types'
<1> USE DEF Types, Disconnected, RoundOver, Readable, chosen, world, net, file, results, records,
            pushes, wires
<1>1. /\ UNCHANGED <<kind, offlineDelete, disk, clock, edits, others, saved, svc>>
      /\ conn' = FALSE /\ round' = "none" /\ copy' = NoState /\ found' = NoResult
      /\ toSvc' = <<>> /\ toClient' = <<>> /\ drops' = drops + 1 /\ drops < MaxDrops
      /\ \/ restarts' = restarts
         \/ restarts' = restarts + 1 /\ restarts < MaxRestarts
      /\ st' \in {st, saved} /\ event' \in {event, FALSE}
      /\ \/ saves' = saves
         \/ saves' = [a \in Actors |-> {}]
      /\ scanned' \in {scanned, NoEntry} /\ ended' \in {ended, FALSE}
      /\ pendingDelete' \in {pendingDelete, FALSE} /\ pendingAck' \in {pendingAck, FALSE}
      /\ need' \in {need, FALSE} /\ push' \in {push, {}}
  BY DEF ConnectionLost, Restart
<1>2. /\ Times' = Times /\ Entries' = Entries
      /\ StateType' = StateType /\ Snapshots' = Snapshots
  BY <1>1, TimesStand
<1>3. 0 \in Times /\ NoState \in StateType /\ NoResult \in Results /\ NoResult.rev = 0
      /\ NoEntry \in Entries /\ {} \in Snapshots
  BY Empty DEF WorldTypes
<1>4. drops' \in 0 .. MaxDrops /\ restarts' \in 0 .. MaxRestarts
  BY <1>1, VaultScanAssumption DEF NetTypes, VaultScanAssumption
<1>5. WorldTypes' /\ NetTypes'
  BY <1>1, <1>2, <1>4 DEF WorldTypes, NetTypes
<1>6. StateTypes'
  BY <1>1, <1>2, <1>3 DEF StateTypes
<1>7. RoundTypes' /\ PushTypes'
  BY <1>1, <1>2, <1>3 DEF RoundTypes, PushTypes
<1>8. WireTypes'
  BY <1>1, <1>2, EmptyQueue DEF WireTypes
<1>9. QED
  BY <1>5, <1>6, <1>7, <1>8

\* Every step keeps the types.
LEMMA NextTypes == Types /\ [Next]_vars => Types'
<1> SUFFICES ASSUME Types, [Next]_vars PROVE Types'
  OBVIOUS
<1>1. CASE UNCHANGED vars
  <2>1. UNCHANGED <<kind, offlineDelete, disk, clock, edits, event, conn, drops, restarts, others,
                    st, saved, saves, round, copy, found, scanned, ended, pendingDelete,
                    pendingAck, need, push, toSvc, toClient, svc>>
    BY <1>1 DEF vars, chosen, world, net, file, results, records, pushes, wires
  <2>2. /\ Times' = Times /\ Entries' = Entries
        /\ StateType' = StateType /\ Snapshots' = Snapshots
    BY <2>1, TimesStand
  <2>3. QED
    BY <2>1, <2>2
       DEF Types, WorldTypes, NetTypes, StateTypes, RoundTypes, PushTypes, WireTypes
<1>2. QED
  BY <1>1, UserTypes, PushStepTypes, RoundStepTypes, ReaderTypes, FileTypes, ServeTypes, EndTypes
     DEF Next, Daemon

\* Of these types, those that the runs check.
LEMMA TypesSuffice == Types => TypeOK
<1> SUFFICES ASSUME Types PROVE TypeOK
  OBVIOUS
<1> USE DEF Types
<1>1. \A a \in Actors : saves[a] \subseteq StateType /\ Cardinality(saves[a]) <= 1
  <2> SUFFICES ASSUME NEW a \in Actors
               PROVE  saves[a] \subseteq StateType /\ Cardinality(saves[a]) <= 1
    OBVIOUS
  <2>1. CASE saves[a] = {}
    BY <2>1, FS_EmptySet
  <2>2. CASE \E s \in StateType : saves[a] = {s}
    <3>1. PICK s \in StateType : saves[a] = {s}
      BY <2>2
    <3>2. Cardinality({s}) = 1
      BY FS_Singleton
    <3>3. QED
      BY <3>1, <3>2
  <2>3. saves[a] \in Snapshots
    BY DEF StateTypes
  <2>4. saves[a] = {} \/ \E s \in StateType : saves[a] = {s}
    BY <2>3, Zenon DEF Snapshots, Singles
  <2>5. QED
    BY <2>1, <2>2, <2>4
<1>2. \A i \in 1 .. Len(toSvc) : toSvc[i].type \in {"sync", "push"}
  <2> SUFFICES ASSUME NEW i \in 1 .. Len(toSvc) PROVE toSvc[i].type \in {"sync", "push"}
    OBVIOUS
  <2>1. toSvc[i] \in ToSvc
    BY DEF WireTypes
  <2>2. QED
    BY <2>1 DEF ToSvc
<1>3. \A i \in 1 .. Len(toClient) :
        toClient[i].type \in {"SyncEnd", "NeedPush", "Modify", "Ack", "DeleteAck"}
  <2> SUFFICES ASSUME NEW i \in 1 .. Len(toClient) PROVE toClient[i].type \in Answers
    BY DEF Answers
  <2>1. toClient[i] \in ToClient
    BY DEF WireTypes
  <2>2. QED
    BY <2>1 DEF ToClient
<1>4. QED
  BY <1>1, <1>2, <1>3
     DEF TypeOK, WorldTypes, NetTypes, StateTypes, RoundTypes, PushTypes

-----------------------------------------------------------------------------
(* What is on its way.                                                       *)

Messages(q) == {q[i] : i \in 1 .. Len(q)}
Sent     == Messages(toSvc)
Answered == Messages(toClient)

\* What is left once the first message is read.
LEMMA MessagesOfTail ==
  ASSUME NEW M, NEW q \in Seq(M), q # <<>>
  PROVE  /\ Head(q) \in Messages(q) /\ Messages(Tail(q)) \subseteq Messages(q)
         /\ \A i \in 1 .. Len(q) : i = 1 \/ q[i] \in Messages(Tail(q))
<1>1. /\ Head(q) = q[1] /\ Len(q) \in Nat /\ 1 \in 1 .. Len(q) /\ Len(Tail(q)) = Len(q) - 1
      /\ \A i \in 1 .. Len(q) - 1 : Tail(q)[i] = q[i + 1] /\ i + 1 \in 1 .. Len(q)
  BY TailFacts
<1>2. \A i \in 1 .. Len(q) : i = 1 \/ q[i] \in Messages(Tail(q))
  <2> SUFFICES ASSUME NEW i \in 1 .. Len(q), i # 1 PROVE q[i] \in Messages(Tail(q))
    OBVIOUS
  <2>1. i - 1 \in 1 .. Len(Tail(q)) /\ Tail(q)[i - 1] = q[i]
    BY <1>1
  <2>2. QED
    BY <2>1 DEF Messages
<1>3. QED
  BY <1>1, <1>2 DEF Messages

\* A message more.
LEMMA MessagesOfAppend ==
  ASSUME NEW M, NEW q \in Seq(M), NEW m \in M
  PROVE  Messages(Append(q, m)) \subseteq Messages(q) \cup {m}
BY AppendFacts DEF Messages

\* Messages more.
LEMMA MessagesOfExtended ==
  ASSUME NEW M, NEW p, NEW q, Extends(p, q, M)
  PROVE  Messages(q) \subseteq Messages(p) \cup M
<1> SUFFICES ASSUME NEW i \in 1 .. Len(q) PROVE q[i] \in Messages(p) \cup M
  BY DEF Messages
<1>1. CASE i <= Len(p)
  BY <1>1 DEF Extends, Messages
<1>2. CASE i > Len(p)
  BY <1>2 DEF Extends
<1>3. QED
  BY <1>1, <1>2 DEF Extends

\* No message.
LEMMA MessagesOfEmpty == Messages(<<>>) = {}
BY EmptyQueue DEF Messages

\* The read loop takes the first answer.
LEMMA HandleTakes ==
  ASSUME Types, NEW t, Handle(t)
  PROVE  /\ Answered' \subseteq Answered /\ Head(toClient) \in Answered
         /\ Head(toClient) \in ToClient /\ Head(toClient).type = t /\ conn
<1>1. toClient \in Seq(ToClient) /\ toClient # <<>> /\ toClient' = Tail(toClient) /\ conn
  BY DEF Handle, Types, WireTypes
<1>2. QED
  BY <1>1, HandleTypes, MessagesOfTail DEF Answered

-----------------------------------------------------------------------------
(* An offer is kept until it is served.                                      *)

\* Every state there is.
AllStates == {st, saved, copy} \cup UNION {saves[a] : a \in Actors}

\* The revision on disk is pending, and no cached hash stands for another.
Noted(s) == s.pending = s.offered /\ (s.entry.mtime = disk => s.entry.hash \in {0, disk})

\* An offer not served yet is noted wherever it is kept, and it is the last one made.
OffersKept    == \A s \in AllStates : Unserved(s) => Noted(s)
OfferIsLatest == \A s \in AllStates : Unserved(s) => s.offered = st.offered

\* While there is one nothing is on its way that would displace it.
Offering == Unserved(st) =>
  /\ push \subseteq {disk}
  /\ \A m \in Sent : m.type = "push" => m.rev = disk
  /\ \A m \in Answered : m.type # "Ack"
  /\ round = "scan" => copy.offered = st.offered
  /\ round = "request" => found.skip \/ found.rev = disk

\* A scan result is the hash of the file, as far as the copied entry tells.
FoundIsHashed == round = "request" /\ ~found.skip =>
  found.rev # 0 /\ (copy.entry.mtime = found.rev => copy.entry.hash \in {0, found.rev})
ScannedIsHashed == scanned.hash = scanned.mtime

\* What the service has, or sends, it had.
ServedGrows ==
  svc \in served /\ \A m \in Answered : m.type = "Modify" => m.rev \in served \ {0}

\* There is no round and no message without a connection.
Offline == ~conn => Sent = {} /\ Answered = {} /\ round = "none"

Hashed    == FoundIsHashed /\ ScannedIsHashed /\ ServedGrows /\ Offline
OffersInv == OffersKept /\ OfferIsLatest /\ Offering /\ Hashed

\* The states after a step that saves st.
LEMMA SavedStates ==
  ASSUME Types, NEW a \in Actors, Save(a, st') \/ UNCHANGED saves, saved' = saved,
         copy' \in {copy, st, NoState}
  PROVE  AllStates' \subseteq AllStates \cup {st', NoState}
<1>1. \A b \in Actors : saves'[b] \subseteq saves[b] \cup {st'}
  <2>1. CASE Save(a, st')
    <3>1. saves' = [saves EXCEPT ![a] = IF Readable THEN {st'} ELSE {}]
      BY <2>1 DEF Save
    <3>2. saves \in [Actors -> Snapshots]
      BY DEF Types, StateTypes
    <3>3. QED
      BY <3>1, <3>2
  <2>2. CASE UNCHANGED saves
    BY <2>2
  <2>3. QED
    BY <2>1, <2>2
<1>2. QED
  BY <1>1 DEF AllStates

\* A step that leaves the file, and the offer, as they were.
LEMMA OffersStay ==
  ASSUME OffersInv, disk' = disk, served \subseteq served',
         AllStates' \subseteq AllStates \cup {st', NoState},
         st'.offered = st.offered, Unserved(st)' => Noted(st)'
  PROVE  OffersKept' /\ OfferIsLatest'
<1>1. NoState.offered = 0
  BY DEF NoState
<1> SUFFICES ASSUME NEW s \in AllStates', Unserved(s)'
             PROVE  Noted(s)' /\ s.offered = st'.offered
  BY DEF OffersKept, OfferIsLatest
<1>2. CASE s = st'
  BY <1>2 DEF Unserved, Noted
<1>3. CASE s = NoState
  BY <1>1, <1>3 DEF Unserved
<1>4. CASE s \in AllStates
  BY <1>4 DEF Unserved, Noted, OffersInv, OffersKept, OfferIsLatest
<1>5. QED
  BY <1>2, <1>3, <1>4

\* A step after which nothing that was offered is on disk, or all of it was served.
LEMMA OffersOver ==
  ASSUME \A s \in AllStates' : s.offered = 0 \/ disk' # s.offered \/ s.offered \in served'
  PROVE  OffersKept' /\ OfferIsLatest' /\ Offering'
BY DEF AllStates, OffersKept, OfferIsLatest, Offering, Unserved

\* Every state has its type.
LEMMA AllTyped == Types => AllStates \subseteq StateType
<1> SUFFICES ASSUME Types PROVE AllStates \subseteq StateType
  OBVIOUS
<1>1. ASSUME NEW a \in Actors PROVE saves[a] \subseteq StateType
  BY DEF Types, StateTypes, Snapshots, Singles
<1>2. QED
  BY <1>1 DEF AllStates, Types, StateTypes

\* There is no offer at the start.
LEMMA OffersInit == Init => OffersInv
<1> SUFFICES ASSUME Init PROVE OffersInv
  OBVIOUS
<1>1. /\ saved = st /\ saves = [a \in Actors |-> {}] /\ copy = NoState /\ conn = FALSE
      /\ round = "none" /\ scanned = NoEntry /\ toSvc = <<>> /\ toClient = <<>>
      /\ served = {svc}
  BY DEF Init
<1>2. st.offered = 0
  BY DEF Init, NoState
<1>3. AllStates \subseteq {st, NoState} /\ NoState.offered = 0
  BY <1>1 DEF AllStates, NoState
<1>4. \A s \in AllStates : s.offered = 0
  BY <1>2, <1>3
<1>5. OffersKept /\ OfferIsLatest /\ Offering
  BY <1>2, <1>4 DEF OffersKept, OfferIsLatest, Offering, Unserved
<1>6. Hashed
  BY <1>1, MessagesOfEmpty
     DEF Hashed, FoundIsHashed, ScannedIsHashed, ServedGrows, Offline, Sent, Answered, NoEntry
<1>7. QED
  BY <1>5, <1>6 DEF OffersInv

\* The user changes the file: what was offered is gone.
LEMMA OffersUser ==
  ASSUME Types, OffersInv, Edit \/ Remove
  PROVE  OffersInv'
<1>1. /\ UNCHANGED <<st, saved, saves, copy, conn, round, found, scanned, toSvc, toClient,
                     svc, served>>
      /\ disk' = clock + 1 \/ disk' = 0
  BY DEF Edit, Remove, WorldOnly, net, file, results, wires
<1>2. \A s \in AllStates' : s.offered = 0 \/ disk' # s.offered
  <2>1. AllStates' = AllStates
    BY <1>1 DEF AllStates
  <2>2. clock \in Nat
    BY DEF Types, WorldTypes
  <2>3. \A s \in AllStates : s.offered \in Nat /\ s.offered <= clock
    <3>1. \A s \in AllStates : s.offered \in Times
      BY AllTyped DEF StateType
    <3>2. QED
      BY <2>2, <3>1 DEF Times
  <2>4. QED
    BY <1>1, <2>1, <2>2, <2>3
<1>3. Hashed'
  BY <1>1 DEF OffersInv, Hashed, FoundIsHashed, ScannedIsHashed, ServedGrows, Offline, Sent,
              Answered
<1>4. QED
  BY <1>2, <1>3, OffersOver DEF OffersInv

\* A push begins, or is sent: it has the file as it is, or the file has changed.
LEMMA OffersPush ==
  ASSUME Types, OffersInv, Pushes
  PROVE  OffersInv'
<1> USE DEF chosen, world, net, file, results, records, pushes, wires, history
<1>1. UNCHANGED <<disk, saved, copy, conn, round, found, scanned, toClient, svc, served>>
  BY DEF Pushes, BeginPush, SendPush
<1>2. CASE BeginPush
  <2>1. UNCHANGED <<st, saves, toSvc>> /\ push' \subseteq {disk}
    BY <1>2 DEF BeginPush
  <2>2. OffersKept' /\ OfferIsLatest'
    BY <1>1, <2>1 DEF OffersInv, OffersKept, OfferIsLatest, AllStates, Unserved, Noted
  <2>3. Offering' /\ Hashed'
    BY <1>1, <2>1 DEF OffersInv, Offering, Hashed, FoundIsHashed, ScannedIsHashed, ServedGrows,
                      Offline, Sent, Answered, Unserved
  <2>4. QED
    BY <2>2, <2>3 DEF OffersInv
<1>3. CASE SendPush
  <2>1. PICK rev \in push :
          \/ UNCHANGED <<toSvc, st, saves>>
          \/ /\ toSvc' = Append(toSvc, Message("push", rev, NoResult)) /\ conn
             /\ \/ UNCHANGED <<st, saves>>
                \/ st' = [st EXCEPT !.pending = rev] /\ Save("push", st')
    BY <1>3 DEF SendPush
  <2>2. push' = {}
    BY <1>3 DEF SendPush
  <2>3. rev \in Nat
    BY DEF Types, PushTypes, Times
  <2>4. st \in StateType
    BY DEF Types, StateTypes
  <2> DEFINE m == Message("push", rev, NoResult)
  <2>5. m \in ToSvc /\ m.rev = rev
    BY <2>3, Empty DEF Message, ToSvc, Types, WorldTypes
  <2> HIDE DEF m
  <2>6. Sent' \subseteq Sent \cup {m} /\ (conn \/ Sent' = Sent)
    <3>1. toSvc \in Seq(ToSvc) /\ toSvc' \in {toSvc, Append(toSvc, m)}
          /\ (conn \/ toSvc' = toSvc)
      BY <2>1 DEF Types, WireTypes, m
    <3>2. QED
      BY <2>5, <3>1, MessagesOfAppend DEF Sent
  <2>7. /\ st'.offered = st.offered /\ st'.entry = st.entry
        /\ st'.pending \in {st.pending, rev}
    BY <2>1, <2>4 DEF StateType
  <2>8. AllStates' \subseteq AllStates \cup {st', NoState}
    <3>1. Save("push", st') \/ UNCHANGED saves
      BY <2>1
    <3>2. "push" \in Actors /\ saved' = saved /\ copy' = copy
      BY <1>1 DEF Actors
    <3>3. QED
      BY <3>1, <3>2, SavedStates
  <2>9. Unserved(st) => rev = disk /\ Noted(st)
    BY DEF OffersInv, Offering, OffersKept, AllStates
  <2>10. Unserved(st)' => Unserved(st) /\ Noted(st)'
    BY <1>1, <2>7, <2>9 DEF Unserved, Noted
  <2>11. OffersKept' /\ OfferIsLatest'
    BY <1>1, <2>7, <2>8, <2>10, OffersStay
  <2>12. Offering'
    <3>1. Answered' = Answered
      BY <1>1 DEF Answered
    <3>2. QED
      BY <1>1, <2>2, <2>5, <2>6, <2>7, <2>9, <2>10, <3>1 DEF OffersInv, Offering
  <2>13. Hashed'
    BY <1>1, <2>6 DEF OffersInv, Hashed, FoundIsHashed, ScannedIsHashed, ServedGrows, Offline,
                      Answered
  <2>14. QED
    BY <2>11, <2>12, <2>13 DEF OffersInv
<1>4. QED
  BY <1>2, <1>3 DEF Pushes

\* The round: what it offers is on disk, and noted.
LEMMA OffersRound ==
  ASSUME Types, OffersInv, Round
  PROVE  OffersInv'
<1> USE DEF RoundFrame, RoundOver, chosen, world, net, file, results, records, pushes, wires,
            history
<1>0. /\ "round" \in Actors /\ st \in StateType /\ copy \in StateType
      /\ st \in AllStates /\ copy \in AllStates
  BY DEF Actors, Types, StateTypes, AllStates
<1>1. UNCHANGED <<disk, saved, conn, toClient, svc, served, push>>
  BY DEF Round, BeginRound, ScanPath, SendRequest, CompleteRound
<1>2. ServedGrows' /\ Answered' = Answered
  BY <1>1 DEF OffersInv, Hashed, ServedGrows, Answered
<1>3. CASE BeginRound
  <2>1. /\ conn /\ round' = "scan" /\ copy' = st
        /\ UNCHANGED <<st, saves, found, scanned, toSvc>>
    BY <1>3 DEF BeginRound
  <2>2. AllStates' \subseteq AllStates \cup {st', NoState}
    BY <1>0, <1>1, <2>1, SavedStates
  <2>3. Unserved(st)' => Unserved(st) /\ Noted(st)'
    BY <1>0, <1>1, <2>1 DEF OffersInv, OffersKept, Unserved, Noted
  <2>4. OffersKept' /\ OfferIsLatest'
    BY <1>1, <2>1, <2>2, <2>3, OffersStay
  <2>5. Offering'
    BY <1>1, <1>2, <2>1, <2>3 DEF OffersInv, Offering, Sent
  <2>6. Hashed'
    BY <1>1, <1>2, <2>1 DEF OffersInv, Hashed, FoundIsHashed, ScannedIsHashed, Offline
  <2>7. QED
    BY <2>4, <2>5, <2>6 DEF OffersInv
<1>4. CASE ScanPath
  <2>1. /\ round = "scan" /\ round' = "request" /\ found' = ScanResult(copy)
        /\ scanned' \in {NoEntry, [hash |-> disk, mtime |-> disk]}
        /\ UNCHANGED <<st, saves, copy, toSvc>>
    BY <1>4 DEF ScanPath
  <2>2. AllStates' \subseteq AllStates \cup {st', NoState}
    BY <1>0, <1>1, <2>1, SavedStates
  <2>3. Unserved(st)' => Unserved(st) /\ Noted(st)'
    BY <1>0, <1>1, <2>1 DEF OffersInv, OffersKept, Unserved, Noted
  <2>4. OffersKept' /\ OfferIsLatest'
    BY <1>1, <2>1, <2>2, <2>3, OffersStay
  <2>5. found'.skip = (disk = 0 \/ Skipped(copy))
        /\ found'.rev = (IF found'.skip THEN 0 ELSE HashOf(copy))
    BY <2>1 DEF ScanResult
  <2>6. Unserved(st) => found'.skip \/ found'.rev = disk
    <3> SUFFICES ASSUME Unserved(st) PROVE found'.skip \/ found'.rev = disk
      OBVIOUS
    <3>1. copy.offered = st.offered
      BY <2>1 DEF OffersInv, Offering
    <3>2. Noted(copy)
      BY <1>0, <3>1 DEF OffersInv, OffersKept, Unserved
    <3>3. HashOf(copy) = disk
      BY <3>2 DEF Noted, HashOf, Cached
    <3>4. QED
      BY <2>5, <3>3
  <2>7. Offering'
    BY <1>1, <1>2, <2>1, <2>3, <2>6 DEF OffersInv, Offering, Sent
  <2>8. FoundIsHashed'
    <3>1. CASE Cached(copy)
      BY <2>1, <2>5, <3>1 DEF FoundIsHashed, HashOf, Cached
    <3>2. CASE ~Cached(copy)
      BY <2>1, <2>5, <3>2 DEF FoundIsHashed, HashOf, Cached
    <3>3. QED
      BY <3>1, <3>2
  <2>9. ScannedIsHashed'
    BY <2>1 DEF ScannedIsHashed, NoEntry
  <2>10. Offline'
    BY <1>1, <1>2, <2>1 DEF OffersInv, Hashed, Offline, Sent
  <2>11. QED
    BY <1>2, <2>4, <2>7, <2>8, <2>9, <2>10 DEF OffersInv, Hashed
<1>5. CASE SendRequest
  <2> DEFINE m == Message("sync", 0, found)
             p == IF found.skip THEN st.pending ELSE found.rev
  <2>1. /\ round = "request" /\ round' = "wait" /\ toSvc' = Append(toSvc, m)
        /\ st' = [st EXCEPT !.pending = p, !.offered = Offer] /\ Save("round", st')
        /\ copy' = NoState /\ found' = NoResult
        /\ UNCHANGED scanned
    BY <1>5 DEF SendRequest
  <2>2. st'.offered = Offer /\ st'.pending = p /\ st'.entry = st.entry
    BY <1>0, <2>1 DEF StateType
  <2>3. m \in ToSvc /\ m.type = "sync"
    BY DEF Message, ToSvc, Types, RoundTypes, WorldTypes
  <2> HIDE DEF m
  <2>4. Sent' \subseteq Sent \cup {m}
    BY <2>1, <2>3, MessagesOfAppend DEF Types, WireTypes, Sent
  <2>5. AllStates' \subseteq AllStates \cup {st', NoState}
    <3>1. Save("round", st') /\ copy' = NoState
      BY <2>1
    <3>2. QED
      BY <1>0, <1>1, <3>1, SavedStates
  <2>6. conn
    BY <2>1 DEF OffersInv, Hashed, Offline
  <2>7. Hashed'
    BY <1>1, <1>2, <2>1, <2>6
       DEF OffersInv, Hashed, FoundIsHashed, ScannedIsHashed, Offline
  <2>8. CASE Offer = st.offered
    <3>1. Unserved(st)' => Unserved(st)
      BY <1>1, <2>2, <2>8 DEF Unserved
    <3>2. Unserved(st) => Noted(st) /\ (found.skip \/ found.rev = disk)
      BY <1>0, <2>1 DEF OffersInv, OffersKept, Offering
    <3>3. Unserved(st)' => Noted(st)'
      BY <1>1, <2>2, <2>8, <3>1, <3>2 DEF Unserved, Noted
    <3>4. OffersKept' /\ OfferIsLatest'
      BY <1>1, <2>2, <2>5, <2>8, <3>3, OffersStay
    <3>5. Offering'
      BY <1>1, <1>2, <2>1, <2>3, <2>4, <3>1 DEF OffersInv, Offering
    <3>6. QED
      BY <2>7, <3>4, <3>5 DEF OffersInv
  <2>9. CASE Offer # st.offered
    <3>1. ~Busy /\ ~found.skip /\ Offer = found.rev
      BY <2>9 DEF Offer
    <3>2. /\ push = {} /\ copy.entry = st.entry /\ copy.pending = st.pending
          /\ \A x \in Sent : x.type # "push"
          /\ \A x \in Answered : x.type # "Ack"
      BY <3>1 DEF Busy, Sent, Answered, Messages
    <3>3. st'.pending = found.rev /\ st'.offered = found.rev /\ st'.entry = copy.entry
      BY <2>2, <3>1, <3>2
    <3>4. Unserved(st)' => Noted(st)'
      BY <1>1, <2>1, <3>1, <3>3
         DEF OffersInv, Hashed, FoundIsHashed, Unserved, Noted
    <3>5. \A s \in AllStates : Unserved(s)' => Unserved(s) /\ st'.offered = s.offered
      <4> SUFFICES ASSUME NEW s \in AllStates, Unserved(s)
                   PROVE  st'.offered = s.offered
        BY <1>1 DEF Unserved
      <4>1. s.offered = st.offered /\ s.offered = disk
        BY DEF OffersInv, OfferIsLatest, Unserved
      <4>2. Unserved(st)
        BY <4>1 DEF Unserved
      <4>3. found.rev = disk
        BY <2>1, <3>1, <4>2 DEF OffersInv, Offering
      <4>4. QED
        BY <3>3, <4>1, <4>3
    <3>6. ASSUME NEW s \in AllStates', Unserved(s)'
          PROVE  Noted(s)' /\ s.offered = st'.offered
      <4>1. CASE s = st'
        BY <3>4, <3>6, <4>1 DEF Unserved, Noted
      <4>2. CASE s = NoState
        BY <3>6, <4>2 DEF NoState, Unserved
      <4>3. CASE s \in AllStates
        BY <1>1, <3>5, <3>6, <4>3 DEF OffersInv, OffersKept, Noted
      <4>4. QED
        BY <2>5, <4>1, <4>2, <4>3
    <3>7. OffersKept' /\ OfferIsLatest'
      BY <3>6 DEF OffersKept, OfferIsLatest
    <3>8. Offering'
      BY <1>1, <1>2, <2>1, <2>3, <2>4, <3>2 DEF Offering
    <3>9. QED
      BY <2>7, <3>7, <3>8 DEF OffersInv
  <2>10. QED
    BY <2>8, <2>9
<1>6. CASE CompleteRound
  <2>1. /\ round = "wait" /\ round' = "done" /\ UNCHANGED <<copy, found, scanned, toSvc>>
        /\ \/ UNCHANGED <<st, saves>>
           \/ st' = [st EXCEPT !.init = TRUE] /\ Save("round", st')
    BY <1>6 DEF CompleteRound
  <2>2. st'.offered = st.offered /\ st'.entry = st.entry /\ st'.pending = st.pending
    BY <1>0, <2>1 DEF StateType
  <2>3. AllStates' \subseteq AllStates \cup {st', NoState}
    <3>1. Save("round", st') \/ UNCHANGED saves
      BY <2>1
    <3>2. copy' = copy
      BY <2>1
    <3>3. QED
      BY <1>0, <1>1, <3>1, <3>2, SavedStates
  <2>4. Unserved(st)' => Unserved(st) /\ Noted(st)'
    BY <1>0, <1>1, <2>2 DEF OffersInv, OffersKept, Unserved, Noted
  <2>5. OffersKept' /\ OfferIsLatest'
    BY <1>1, <2>2, <2>3, <2>4, OffersStay
  <2>6. Offering' /\ Hashed'
    BY <1>1, <1>2, <2>1, <2>4
       DEF OffersInv, Offering, Sent, Hashed, FoundIsHashed, ScannedIsHashed, Offline
  <2>7. QED
    BY <2>5, <2>6 DEF OffersInv
<1>7. QED
  BY <1>3, <1>4, <1>5, <1>6 DEF Round

\* The read loop: the copy of an offer is never overwritten, and a file the service sends is
\* no offer.
LEMMA OffersReader ==
  ASSUME Types, OffersInv, ReadLoop
  PROVE  OffersInv'
<1> USE DEF chosen, world, net, results, records, pushes, wires, history
<1>0. /\ "reader" \in Actors /\ st \in StateType /\ st \in AllStates
      /\ scanned \in Entries
  BY DEF Actors, Types, StateTypes, RoundTypes, AllStates
<1>1. UNCHANGED <<saved, copy, conn, round, found, push, toSvc, svc, served>>
  BY DEF ReadLoop, HandleSyncEnd, HandleNeedPush, HandleModify, HandleAck, HandleDeleteAck,
         HandleOther, ReaderFrame
<1>2. Save("reader", st') \/ UNCHANGED saves
  BY DEF ReadLoop, HandleSyncEnd, HandleNeedPush, HandleModify, HandleAck, HandleDeleteAck,
         HandleOther
<1>3. AllStates' \subseteq AllStates \cup {st', NoState}
  BY <1>0, <1>1, <1>2, SavedStates
<1>4. Answered' \subseteq Answered /\ conn
  <2>1. CASE HandleOther
    BY <2>1 DEF HandleOther, Answered
  <2>2. CASE ~HandleOther
    <3>1. PICK t : Handle(t)
      BY <2>2 DEF ReadLoop, HandleSyncEnd, HandleNeedPush, HandleModify, HandleAck,
                  HandleDeleteAck
    <3>2. QED
      BY <3>1, HandleTakes
  <2>3. QED
    BY <2>1, <2>2
<1>5. Sent' = Sent
  BY <1>1 DEF Sent
<1>6. FoundIsHashed' /\ ServedGrows' /\ Offline'
  BY <1>1, <1>4, <1>5 DEF OffersInv, Hashed, FoundIsHashed, ServedGrows, Offline
<1>7. ScannedIsHashed'
  <2>1. scanned' \in {scanned, NoEntry}
    BY DEF ReadLoop, HandleSyncEnd, HandleNeedPush, HandleModify, HandleAck, HandleDeleteAck,
           HandleOther
  <2>2. QED
    BY <2>1 DEF OffersInv, Hashed, ScannedIsHashed, NoEntry
\* The steps that change neither the file nor the offer.
<1>8. ASSUME disk' = disk, st'.offered = st.offered, Unserved(st) => Noted(st')
      PROVE  OffersInv'
  <2>1. Unserved(st)' => Unserved(st) /\ Noted(st)'
    BY <1>1, <1>8 DEF Unserved, Noted
  <2>2. OffersKept' /\ OfferIsLatest'
    BY <1>1, <1>3, <1>8, <2>1, OffersStay
  <2>3. Offering'
    BY <1>1, <1>4, <1>5, <1>8, <2>1 DEF OffersInv, Offering
  <2>4. QED
    BY <1>6, <1>7, <2>2, <2>3 DEF OffersInv, Hashed
<1> DEFINE m == Head(toClient)
           s == Latest(st, m.time)
<1>9. ASSUME NEW t, Handle(t)
      PROVE  /\ m.type = t /\ m \in Answered
             /\ s \in StateType /\ s.entry = st.entry /\ s.pending = st.pending
             /\ s.offered = st.offered
  BY <1>0, <1>9, HandleTypes, HandleTakes, LatestKeeps
<1>10. Unserved(st) => Noted(st) /\ disk # 0
  BY <1>0 DEF OffersInv, OffersKept, Unserved
<1>11. CASE HandleSyncEnd
  <2> DEFINE t == IF kind = "note" \/ m.rev # 0 THEN s ELSE st
  <2>1. Handle("SyncEnd") /\ st' = [t EXCEPT !.entry = Committed(t)] /\ disk' = disk
    BY <1>11 DEF HandleSyncEnd
  <2>2. t \in StateType /\ t.entry = st.entry /\ t.pending = st.pending
        /\ t.offered = st.offered
    BY <1>0, <1>9, <2>1
  <2> HIDE DEF t
  <2>3. Committed(t) \in {st.entry, scanned, NoEntry}
    BY <2>2, CommittedTypes
  <2>4. st'.entry = Committed(t) /\ st'.pending = st.pending /\ st'.offered = st.offered
    BY <2>1, <2>2 DEF StateType
  <2>5. Unserved(st) => Noted(st')
    BY <1>10, <2>3, <2>4
       DEF Noted, OffersInv, Hashed, ScannedIsHashed, NoEntry
  <2>6. QED
    BY <1>8, <2>1, <2>4, <2>5
<1>12. CASE HandleNeedPush
  <2>1. Handle("NeedPush") /\ st' = s /\ disk' = disk
    BY <1>12 DEF HandleNeedPush
  <2>2. QED
    BY <1>8, <1>9, <1>10, <2>1 DEF Noted
<1>13. CASE HandleModify
  <2>1. /\ Handle("Modify") /\ disk' = m.rev
        /\ st' = [s EXCEPT !.entry = [hash |-> m.rev, mtime |-> m.rev],
                           !.pending = 0, !.offered = 0]
    BY <1>13 DEF HandleModify
  <2>2. m.rev \in served \ {0}
    BY <1>9, <2>1 DEF OffersInv, Hashed, ServedGrows
  <2>3. OffersKept' /\ OfferIsLatest' /\ Offering'
    BY <1>1, <2>1, <2>2, OffersOver
  <2>4. QED
    BY <1>6, <1>7, <2>3 DEF OffersInv, Hashed
<1>14. CASE HandleAck
  <2>1. Handle("Ack") /\ disk' = disk
        /\ st' \in {s, [s EXCEPT !.entry = [hash |-> s.pending, mtime |-> disk], !.pending = 0]}
    BY <1>14 DEF HandleAck
  <2>2. ~Unserved(st)
    BY <1>9, <2>1 DEF OffersInv, Offering
  <2>3. s \in StateType /\ s.offered = st.offered
    BY <1>9, <2>1
  <2> HIDE DEF s
  <2>4. st'.offered = st.offered
    BY <2>1, <2>3 DEF StateType
  <2>5. QED
    BY <1>8, <2>1, <2>2, <2>4
<1>15. CASE HandleDeleteAck
  <2>1. Handle("DeleteAck") /\ disk' = disk /\ st' \in {s, [s EXCEPT !.entry = NoEntry]}
    BY <1>15 DEF HandleDeleteAck
  <2>2. /\ s \in StateType /\ s.entry = st.entry /\ s.pending = st.pending
        /\ s.offered = st.offered
    BY <1>9, <2>1
  <2> HIDE DEF s
  <2>3. /\ st'.offered = st.offered /\ st'.pending = st.pending
        /\ st'.entry \in {st.entry, NoEntry}
    BY <2>1, <2>2 DEF StateType
  <2>4. Unserved(st) => Noted(st')
    BY <1>10, <2>3 DEF Noted, NoEntry
  <2>5. QED
    BY <1>8, <2>1, <2>3, <2>4
<1>16. CASE HandleOther
  <2>1. st' = Latest(st, clock') /\ disk' = disk
    BY <1>16 DEF HandleOther
  <2>2. st'.entry = st.entry /\ st'.pending = st.pending /\ st'.offered = st.offered
    BY <1>0, <2>1 DEF Latest, StateType
  <2>3. QED
    BY <1>8, <1>10, <2>1, <2>2 DEF Noted
<1>17. QED
  BY <1>11, <1>12, <1>13, <1>14, <1>15, <1>16 DEF ReadLoop

\* The service takes a message.
LEMMA OffersServe ==
  ASSUME Types, OffersInv, Serve
  PROVE  OffersInv'
<1> DEFINE m == Head(toSvc)
<1>1. /\ toSvc # <<>> /\ toSvc' = Tail(toSvc) /\ served' = served \cup {svc'} /\ conn
      /\ UNCHANGED <<disk, conn, st, saved, saves, round, copy, found, scanned, push>>
      /\ \/ m.type = "push" /\ svc' = m.rev
         \/ m.type = "sync" /\ svc' \in {0, svc}
      /\ Extends(toClient, toClient', AnswersTo(m))
  BY Served
<1>2. Sent' \subseteq Sent /\ m \in Sent
  BY <1>1, MessagesOfTail DEF Types, WireTypes, Sent
<1>3. Answered' \subseteq Answered \cup AnswersTo(m)
  BY <1>1, MessagesOfExtended DEF Answered
<1>4. Unserved(st)' => Unserved(st) /\ Noted(st)'
  BY <1>1 DEF OffersInv, OffersKept, AllStates, Unserved, Noted
<1>5. OffersKept' /\ OfferIsLatest'
  <2>1. AllStates' = AllStates
    BY <1>1 DEF AllStates
  <2>2. QED
    BY <1>1, <1>4, <2>1, OffersStay
<1>6. Offering'
  <2> SUFFICES ASSUME Unserved(st)' PROVE Offering'
    BY DEF Offering
  <2>1. Unserved(st)
    BY <1>4
  <2>2. m.type # "push"
    <3>1. m.type = "push" => svc' = disk
      BY <1>1, <1>2, <2>1 DEF OffersInv, Offering
    <3>2. QED
      BY <1>1, <3>1 DEF Unserved
  <2>3. \A x \in AnswersTo(m) : x.type # "Ack"
    BY <2>2 DEF AnswersTo
  <2>4. QED
    BY <1>1, <1>2, <1>3, <2>1, <2>3 DEF OffersInv, Offering
<1>7. ServedGrows'
  <2>1. \A x \in AnswersTo(m) : x.type = "Modify" => x.rev \in served \ {0}
    BY DEF AnswersTo, OffersInv, Hashed, ServedGrows
  <2>2. QED
    BY <1>1, <1>3, <2>1 DEF OffersInv, Hashed, ServedGrows
<1>8. QED
  BY <1>1, <1>5, <1>6, <1>7
     DEF OffersInv, Hashed, FoundIsHashed, ScannedIsHashed, Offline

\* A state is written, or the connection is made.
LEMMA OffersFile ==
  ASSUME Types, OffersInv, Connect \/ \E a \in Actors : WriteState(a)
  PROVE  OffersInv'
<1> USE DEF chosen, world, net, file, results, records, pushes, wires, history
<1>1. /\ UNCHANGED <<disk, st, round, copy, found, scanned, push, toSvc, toClient, svc, served>>
      /\ conn' \in {conn, TRUE}
  BY DEF Connect, WriteState
<1>2. AllStates' \subseteq AllStates
  <2>1. CASE Connect
    BY <2>1 DEF Connect, AllStates
  <2>2. ASSUME NEW a \in Actors, WriteState(a) PROVE AllStates' \subseteq AllStates
    <3>1. saved' \in saves[a] /\ saves' = [saves EXCEPT ![a] = {}]
      BY <2>2 DEF WriteState
    <3>2. saves \in [Actors -> Snapshots]
      BY DEF Types, StateTypes
    <3>3. \A b \in Actors : saves'[b] \subseteq saves[b]
      BY <3>1, <3>2
    <3>4. QED
      BY <1>1, <3>1, <3>3 DEF AllStates
  <2>3. QED
    BY <2>1, <2>2
<1>3. OffersKept' /\ OfferIsLatest' /\ Offering'
  BY <1>1, <1>2 DEF OffersInv, OffersKept, OfferIsLatest, Offering, Unserved, Noted, Sent, Answered
<1>4. Hashed'
  BY <1>1 DEF OffersInv, Hashed, FoundIsHashed, ScannedIsHashed, ServedGrows, Offline, Sent,
              Answered
<1>5. QED
  BY <1>3, <1>4 DEF OffersInv

\* The end of a connection, or of the process.
LEMMA OffersEnd ==
  ASSUME Types, OffersInv, ConnectionLost \/ Restart
  PROVE  OffersInv'
<1> USE DEF Disconnected, RoundOver, chosen, world, net, file, results, records, pushes, wires,
            history
<1>1. /\ UNCHANGED <<disk, saved, svc, served>> /\ round' = "none" /\ copy' = NoState
      /\ toSvc' = <<>> /\ toClient' = <<>> /\ scanned' \in {scanned, NoEntry}
      /\ push' \in {push, {}}
      /\ \/ st' = st /\ saves' = saves
         \/ st' = saved /\ saves' = [a \in Actors |-> {}]
  BY DEF ConnectionLost, Restart
<1>2. Sent' = {} /\ Answered' = {}
  BY <1>1, MessagesOfEmpty DEF Sent, Answered
<1>3. Hashed'
  BY <1>1, <1>2
     DEF OffersInv, Hashed, FoundIsHashed, ScannedIsHashed, ServedGrows, Offline, NoEntry
<1>4. AllStates' \subseteq AllStates \cup {NoState} /\ NoState.offered = 0
  BY <1>1 DEF AllStates, NoState
<1>5. OffersKept'
  <2> SUFFICES ASSUME NEW s \in AllStates', Unserved(s)' PROVE Noted(s)'
    BY DEF OffersKept
  <2>1. s \in AllStates /\ Unserved(s)
    BY <1>1, <1>4 DEF Unserved
  <2>2. QED
    BY <1>1, <2>1 DEF OffersInv, OffersKept, Noted
<1>6. OfferIsLatest'
  <2> SUFFICES ASSUME NEW s \in AllStates', Unserved(s)' PROVE s.offered = st'.offered
    BY DEF OfferIsLatest
  <2>1. s \in AllStates /\ Unserved(s)
    BY <1>1, <1>4 DEF Unserved
  <2>2. CASE st' = st
    BY <2>1, <2>2 DEF OffersInv, OfferIsLatest
  <2>3. CASE st' = saved /\ saves' = [a \in Actors |-> {}]
    <3>1. AllStates' \subseteq {st', NoState}
      BY <1>1, <2>3 DEF AllStates
    <3>2. QED
      BY <1>4, <3>1 DEF Unserved
  <2>4. QED
    BY <1>1, <2>2, <2>3
<1>7. Offering'
  <2>1. Unserved(st)' => push' \subseteq {disk}
    <3>1. CASE push' = {}
      BY <3>1
    <3>2. CASE push' = push /\ st' = st
      BY <1>1, <3>2 DEF OffersInv, Offering, Unserved
    <3>3. QED
      BY <3>1, <3>2 DEF ConnectionLost, Restart
  <2>2. QED
    BY <1>1, <1>2, <2>1 DEF Offering
<1>8. QED
  BY <1>3, <1>5, <1>6, <1>7 DEF OffersInv

\* Every step keeps the offers.
LEMMA OffersNext == Types /\ OffersInv /\ [Next]_vars => OffersInv'
<1> SUFFICES ASSUME Types, OffersInv, [Next]_vars PROVE OffersInv'
  OBVIOUS
<1>1. CASE UNCHANGED vars
  <2>1. UNCHANGED <<disk, conn, st, saved, saves, round, copy, found, scanned, push, toSvc,
                    toClient, svc, served>>
    BY <1>1 DEF vars, world, net, file, results, pushes, wires, history
  <2>2. AllStates' = AllStates /\ Sent' = Sent /\ Answered' = Answered
    BY <2>1 DEF AllStates, Sent, Answered
  <2>3. OffersKept' /\ OfferIsLatest' /\ Offering'
    BY <2>1, <2>2 DEF OffersInv, OffersKept, OfferIsLatest, Offering, Unserved, Noted
  <2>4. QED
    BY <2>1, <2>2, <2>3
       DEF OffersInv, Hashed, FoundIsHashed, ScannedIsHashed, ServedGrows, Offline
<1>2. QED
  BY <1>1, OffersUser, OffersPush, OffersRound, OffersReader, OffersServe, OffersFile, OffersEnd
     DEF Next, Daemon

\* An offer that is noted is made again.
LEMMA OffersSuffice == OffersInv => OfferedIsNotForgotten
<1> SUFFICES ASSUME OffersInv, NEW s \in States, Unserved(s) PROVE WouldOffer(s)
  BY DEF OfferedIsNotForgotten
<1>1. s \in AllStates
  BY DEF States, AllStates
<1>2. Noted(s) /\ s.offered # 0 /\ disk = s.offered
  BY <1>1 DEF OffersInv, OffersKept, Unserved
<1>3. QED
  BY <1>2 DEF Noted, WouldOffer, Skipped, HashOf, Cached

-----------------------------------------------------------------------------
(* A deletion while not connected stays known until it is reported.          *)

Coming(t) == \E m \in Answered : m.type = t

\* No scan starts from a state that forgot the file, or there is nothing left to report.
AllKnown   == \A s \in States : Known(s)
Dead       == disk = 0 /\ svc = 0 /\ ~Coming("Modify")
StillKnown == gone => AllKnown \/ Dead

\* While the file is gone only its deletion is pushed, and the service sends nothing back
\* after it acknowledged the deletion.
DeletionQuiet == gone /\ disk = 0 =>
  /\ push \subseteq {0}
  /\ \A m \in Sent : m.type = "push" => m.rev = 0
  /\ Coming("DeleteAck") => svc = 0
  /\ \A i, j \in 1 .. Len(toClient) :
       i < j /\ toClient[i].type = "DeleteAck" => toClient[j].type # "Modify"
AckOfDeletion == gone /\ pendingAck => disk = 0

\* Deletions are requested with the setting only, missing files without it.
SettingHolds ==
  /\ pendingDelete => offlineDelete
  /\ found.del => offlineDelete
  /\ found.missing => ~offlineDelete
  /\ \A m \in Sent : (m.result.del => offlineDelete) /\ (m.result.missing => ~offlineDelete)
  /\ Coming("Modify") => ~offlineDelete

\* With the setting every request reports the deletion, so no end of a sync is read before the
\* service has heard of it.
Requested == gone /\ offlineDelete =>
  /\ disk = 0
  /\ svc # 0 =>
       /\ round = "scan" => Known(copy)
       /\ round = "request" => found.del
       /\ \A m \in Sent : m.type = "sync" => m.result.del
       /\ ~Coming("SyncEnd")

DeletionInv == StillKnown /\ DeletionQuiet /\ AckOfDeletion /\ SettingHolds /\ Requested

\* The file is gone in name only where it was never known.
LEMMA KnownEntries ==
  /\ ~Known(NoState)
  /\ \A s, t : s.entry = t.entry => (Known(s) = Known(t))
  /\ \A s : s.entry.hash # 0 => Known(s)
BY DEF Known, NoState, NoEntry

\* The states a later scan could start from, after a step that saves st.
LEMMA SavedForScan ==
  ASSUME Types, NEW a \in Actors, Save(a, st') \/ UNCHANGED saves, saved' = saved,
         UNCHANGED <<restarts, drops>>
  PROVE  States' \subseteq States \cup {st'}
<1>1. Readable' = Readable
  BY DEF Readable
<1>2. \A b \in Actors : saves'[b] \subseteq saves[b] \cup {st'}
  <2>1. CASE Save(a, st')
    <3>1. saves' = [saves EXCEPT ![a] = IF Readable THEN {st'} ELSE {}]
      BY <2>1 DEF Save
    <3>2. saves \in [Actors -> Snapshots]
      BY DEF Types, StateTypes
    <3>3. QED
      BY <3>1, <3>2
  <2>2. CASE UNCHANGED saves
    BY <2>2
  <2>3. QED
    BY <2>1, <2>2
<1>3. QED
  BY <1>1, <1>2 DEF States

\* Nothing was deleted at the start.
LEMMA DeletionInit == Init => DeletionInv
<1> SUFFICES ASSUME Init PROVE DeletionInv
  OBVIOUS
<1>1. /\ gone = FALSE /\ pendingDelete = FALSE /\ found = NoResult
      /\ toSvc = <<>> /\ toClient = <<>>
  BY DEF Init
<1>2. Sent = {} /\ Answered = {}
  BY <1>1, MessagesOfEmpty DEF Sent, Answered
<1>3. QED
  BY <1>1, <1>2 DEF DeletionInv, StillKnown, DeletionQuiet, AckOfDeletion, SettingHolds, Requested,
                    Coming, NoResult

\* The user: a deletion counts only if no state had forgotten the file, and nothing is on its way
\* then.
LEMMA DeletionUser ==
  ASSUME Types, OffersInv, DeletionInv, Edit \/ Remove
  PROVE  DeletionInv'
<1>1. UNCHANGED <<offlineDelete, conn, drops, restarts, st, saved, saves, copy, round, found,
                  pendingDelete, pendingAck, push, toSvc, toClient, svc>>
  BY DEF Edit, Remove, WorldOnly, chosen, net, file, results, records, pushes, wires
<1>2. Sent' = Sent /\ Answered' = Answered /\ States' = States
  BY <1>1 DEF Sent, Answered, States, Readable
<1>3. SettingHolds'
  BY <1>1, <1>2 DEF DeletionInv, SettingHolds, Coming
<1>4. CASE ~gone'
  BY <1>3, <1>4 DEF DeletionInv, StillKnown, DeletionQuiet, AckOfDeletion, Requested
<1>5. CASE gone'
  <2>1. disk' = 0 /\ ~conn /\ push = {} /\ AllKnown
    BY <1>5 DEF Edit, Remove, AllKnown
  <2>2. Sent = {} /\ Answered = {} /\ round = "none"
    BY <2>1 DEF OffersInv, Hashed, Offline
  <2>3. StillKnown'
    BY <1>2, <2>1 DEF StillKnown, AllKnown
  <2>4. DeletionQuiet'
    <3>1. toClient' = toClient /\ 1 .. Len(toClient) = {}
      <4>1. \A i \in 1 .. Len(toClient) : FALSE
        BY <2>2 DEF Answered, Messages
      <4>2. QED
        BY <1>1, <4>1
    <3>2. QED
      BY <1>1, <1>2, <2>1, <2>2, <3>1 DEF DeletionQuiet, Coming
  <2>5. AckOfDeletion' /\ Requested'
    BY <1>1, <1>2, <2>1, <2>2 DEF AckOfDeletion, Requested, Coming
  <2>6. QED
    BY <1>3, <2>3, <2>4, <2>5 DEF DeletionInv
<1>6. QED
  BY <1>4, <1>5

\* Pushes: of a file that is gone, only its deletion.
LEMMA DeletionPush ==
  ASSUME Types, DeletionInv, Pushes
  PROVE  DeletionInv'
<1> USE DEF chosen, world, net, file, results, records, pushes, wires, history
<1>1. UNCHANGED <<offlineDelete, disk, conn, drops, restarts, saved, copy, round, found,
                  pendingDelete, toClient, svc, gone>>
  BY DEF Pushes, BeginPush, SendPush
<1>2. Answered' = Answered
  BY <1>1 DEF Answered
<1>3. CASE BeginPush
  <2>1. UNCHANGED <<st, saves, toSvc, pendingAck>> /\ push' \subseteq {disk}
    BY <1>3 DEF BeginPush
  <2>2. Sent' = Sent /\ States' = States
    BY <1>1, <2>1 DEF Sent, States, Readable
  <2>3. QED
    BY <1>1, <1>2, <2>1, <2>2
       DEF DeletionInv, StillKnown, AllKnown, Dead, DeletionQuiet, AckOfDeletion, SettingHolds,
           Requested, Coming
<1>4. CASE SendPush
  <2>1. PICK rev \in push :
          \/ UNCHANGED <<toSvc, st, saves, pendingAck>>
          \/ /\ toSvc' = Append(toSvc, Message("push", rev, NoResult)) /\ conn
             /\ \/ rev = 0 /\ disk = 0 /\ UNCHANGED <<st, saves>>
                \/ /\ st' = [st EXCEPT !.pending = rev] /\ Save("push", st')
                   /\ UNCHANGED pendingAck
    BY <1>4 DEF SendPush
  <2>2. push' = {}
    BY <1>4 DEF SendPush
  <2>3. rev \in Nat /\ st \in StateType
    BY DEF Types, PushTypes, StateTypes, Times
  <2> DEFINE m == Message("push", rev, NoResult)
  <2>4. m \in ToSvc /\ m.rev = rev /\ m.type = "push" /\ ~m.result.del /\ ~m.result.missing
    BY <2>3, Empty DEF Message, ToSvc, NoResult, Types, WorldTypes
  <2> HIDE DEF m
  <2>5. Sent' \subseteq Sent \cup {m}
    <3>1. toSvc \in Seq(ToSvc) /\ toSvc' \in {toSvc, Append(toSvc, m)}
      BY <2>1 DEF Types, WireTypes, m
    <3>2. QED
      BY <2>4, <3>1, MessagesOfAppend DEF Sent
  <2>6. st'.entry = st.entry
    BY <2>1, <2>3 DEF StateType
  <2>7. States' \subseteq States \cup {st'}
    <3>1. (Save("push", st') \/ UNCHANGED saves) /\ "push" \in Actors
      BY <2>1 DEF Actors
    <3>2. QED
      BY <1>1, <3>1, SavedForScan
  <2>8. StillKnown'
    <3>1. AllKnown => AllKnown'
      BY <2>6, <2>7, KnownEntries DEF AllKnown, States
    <3>2. QED
      BY <1>1, <1>2, <3>1 DEF DeletionInv, StillKnown, Dead, Coming
  <2>9. DeletionQuiet'
    BY <1>1, <1>2, <2>2, <2>4, <2>5 DEF DeletionInv, DeletionQuiet, Coming
  <2>10. AckOfDeletion'
    BY <1>1, <2>1 DEF DeletionInv, AckOfDeletion
  <2>11. SettingHolds' /\ Requested'
    BY <1>1, <1>2, <2>4, <2>5 DEF DeletionInv, SettingHolds, Requested, Coming
  <2>12. QED
    BY <2>8, <2>9, <2>10, <2>11 DEF DeletionInv
<1>5. QED
  BY <1>3, <1>4 DEF Pushes

\* The round reports what is missing.
LEMMA DeletionRound ==
  ASSUME Types, DeletionInv, Round
  PROVE  DeletionInv'
<1> USE DEF RoundFrame, RoundOver, chosen, world, net, file, results, records, pushes, wires,
            history
<1>0. "round" \in Actors /\ st \in StateType
  BY DEF Actors, Types, StateTypes
<1>1. UNCHANGED <<offlineDelete, disk, drops, restarts, saved, pendingAck, push, toClient, svc,
                  gone>>
  BY DEF Round, BeginRound, ScanPath, SendRequest, CompleteRound
<1>2. Answered' = Answered
  BY <1>1 DEF Answered
<1>3. AckOfDeletion'
  BY <1>1 DEF DeletionInv, AckOfDeletion
<1>4. StillKnown'
  <2>1. Save("round", st') \/ UNCHANGED saves
    BY DEF Round, BeginRound, ScanPath, SendRequest, CompleteRound
  <2>2. States' \subseteq States \cup {st'}
    BY <1>0, <1>1, <2>1, SavedForScan
  <2>3. st'.entry = st.entry
    <3>1. \/ st' = st
          \/ \E p, o : st' = [st EXCEPT !.pending = p, !.offered = o]
          \/ st' = [st EXCEPT !.init = TRUE]
      BY DEF Round, BeginRound, ScanPath, SendRequest, CompleteRound
    <3>2. QED
      BY <1>0, <3>1 DEF StateType
  <2>4. AllKnown => AllKnown'
    BY <2>2, <2>3, KnownEntries DEF AllKnown, States
  <2>5. QED
    BY <1>1, <1>2, <2>4 DEF DeletionInv, StillKnown, Dead, Coming
<1>5. CASE BeginRound \/ CompleteRound
  <2>1. UNCHANGED <<found, pendingDelete, toSvc>>
        /\ ((round' = "scan" /\ copy' = st) \/ round' = "done")
    BY <1>5 DEF BeginRound, CompleteRound
  <2>2. DeletionQuiet' /\ SettingHolds'
    BY <1>1, <1>2, <2>1 DEF DeletionInv, DeletionQuiet, SettingHolds, Sent, Coming
  <2>3. Requested'
    <3>1. gone /\ svc # 0 => Known(st)
      BY DEF DeletionInv, StillKnown, AllKnown, Dead, States
    <3>2. QED
      BY <1>1, <1>2, <2>1, <3>1 DEF DeletionInv, Requested, Sent, Coming
  <2>4. QED
    BY <1>3, <1>4, <2>2, <2>3 DEF DeletionInv
<1>6. CASE ScanPath
  <2>1. /\ round = "scan" /\ round' = "request" /\ found' = ScanResult(copy)
        /\ UNCHANGED <<copy, pendingDelete, toSvc>>
    BY <1>6 DEF ScanPath
  <2> DEFINE skip == disk = 0 \/ Skipped(copy)
             missing == Known(copy) /\ (IF kind = "setting" THEN skip ELSE disk = 0)
  <2>2. /\ found'.del = (missing /\ offlineDelete)
        /\ found'.missing = (missing /\ ~offlineDelete /\ copy.init)
    BY <2>1 DEF ScanResult
  <2>3. disk = 0 /\ Known(copy) => missing
    OBVIOUS
  <2> HIDE DEF missing
  <2>4. DeletionQuiet'
    BY <1>1, <1>2, <2>1 DEF DeletionInv, DeletionQuiet, Sent, Coming
  <2>5. SettingHolds'
    BY <1>1, <1>2, <2>1, <2>2 DEF DeletionInv, SettingHolds, Sent, Coming
  <2>6. Requested'
    BY <1>1, <1>2, <2>1, <2>2, <2>3 DEF DeletionInv, Requested, Sent, Coming
  <2>7. QED
    BY <1>3, <1>4, <2>4, <2>5, <2>6 DEF DeletionInv
<1>7. CASE SendRequest
  <2> DEFINE m == Message("sync", 0, found)
  <2>1. /\ round = "request" /\ round' = "wait" /\ toSvc' = Append(toSvc, m)
        /\ pendingDelete' = (pendingDelete \/ found.del) /\ found' = NoResult
    BY <1>7 DEF SendRequest
  <2>2. m \in ToSvc /\ m.type = "sync" /\ m.result = found
    BY DEF Message, ToSvc, Types, RoundTypes, WorldTypes
  <2> HIDE DEF m
  <2>3. Sent' \subseteq Sent \cup {m}
    BY <2>1, <2>2, MessagesOfAppend DEF Types, WireTypes, Sent
  <2>4. DeletionQuiet'
    BY <1>1, <1>2, <2>2, <2>3 DEF DeletionInv, DeletionQuiet, Coming
  <2>5. SettingHolds'
    BY <1>1, <1>2, <2>1, <2>2, <2>3 DEF DeletionInv, SettingHolds, Coming, NoResult
  <2>6. Requested'
    BY <1>1, <1>2, <2>1, <2>2, <2>3 DEF DeletionInv, Requested, Coming
  <2>7. QED
    BY <1>3, <1>4, <2>4, <2>5, <2>6 DEF DeletionInv
<1>8. QED
  BY <1>5, <1>6, <1>7 DEF Round

\* The read loop forgets the file only where the service has heard of the deletion.
LEMMA DeletionReader ==
  ASSUME Types, OffersInv, DeletionInv, ReadLoop
  PROVE  DeletionInv'
<1> USE DEF chosen, world, net, results, records, pushes, wires, history
<1>0. "reader" \in Actors /\ st \in StateType /\ st \in States
  BY DEF Actors, Types, StateTypes, States
<1>1. UNCHANGED <<offlineDelete, drops, restarts, saved, copy, round, found, push, toSvc, svc,
                  gone>>
  BY DEF ReadLoop, HandleSyncEnd, HandleNeedPush, HandleModify, HandleAck, HandleDeleteAck,
         HandleOther, ReaderFrame
<1>2. Save("reader", st') \/ UNCHANGED saves
  BY DEF ReadLoop, HandleSyncEnd, HandleNeedPush, HandleModify, HandleAck, HandleDeleteAck,
         HandleOther
<1>3. States' \subseteq States \cup {st'}
  BY <1>0, <1>1, <1>2, SavedForScan
<1>4. /\ Answered' \subseteq Answered
      /\ \A i, j \in 1 .. Len(toClient') :
           i < j => \E k, l \in 1 .. Len(toClient) :
                      k < l /\ toClient'[i] = toClient[k] /\ toClient'[j] = toClient[l]
  <2>1. CASE HandleOther
    BY <2>1 DEF HandleOther, Answered
  <2>2. CASE ~HandleOther
    <3>1. PICK t : Handle(t)
      BY <2>2 DEF ReadLoop, HandleSyncEnd, HandleNeedPush, HandleModify, HandleAck,
                  HandleDeleteAck
    <3>2. Answered' \subseteq Answered
      BY <3>1, HandleTakes
    <3>3. /\ Len(toClient) \in Nat /\ Len(toClient') = Len(toClient) - 1
          /\ \A i \in 1 .. Len(toClient) - 1 :
               toClient'[i] = toClient[i + 1] /\ i + 1 \in 1 .. Len(toClient)
      BY <3>1, HandleTypes
    <3>4. ASSUME NEW i \in 1 .. Len(toClient'), NEW j \in 1 .. Len(toClient'), i < j
          PROVE  \E k, l \in 1 .. Len(toClient) :
                   k < l /\ toClient'[i] = toClient[k] /\ toClient'[j] = toClient[l]
      <4>1. /\ i + 1 \in 1 .. Len(toClient) /\ toClient'[i] = toClient[i + 1]
            /\ j + 1 \in 1 .. Len(toClient) /\ toClient'[j] = toClient[j + 1] /\ i + 1 < j + 1
        BY <3>3, <3>4
      <4>2. QED
        BY <4>1
    <3>5. QED
      BY <3>2, <3>4
  <2>3. QED
    BY <2>1, <2>2
<1>5. Sent' = Sent /\ \A t : Coming(t)' => Coming(t)
  BY <1>1, <1>4 DEF Sent, Coming
<1>6. SettingHolds'
  <2>1. (pendingDelete' => pendingDelete)
    BY DEF ReadLoop, HandleSyncEnd, HandleNeedPush, HandleModify, HandleAck, HandleDeleteAck,
           HandleOther
  <2>2. QED
    BY <1>1, <1>5, <2>1 DEF DeletionInv, SettingHolds
\* The steps that leave the file.
<1>7. ASSUME disk' = disk, (pendingAck' => pendingAck)
      PROVE  DeletionQuiet' /\ AckOfDeletion' /\ Requested' /\ (Dead => Dead')
  <2>1. DeletionQuiet'
    <3> SUFFICES ASSUME gone, disk = 0 PROVE DeletionQuiet'
      BY <1>1, <1>7 DEF DeletionQuiet
    <3>1. /\ push' \subseteq {0} /\ \A x \in Sent' : x.type = "push" => x.rev = 0
          /\ Coming("DeleteAck")' => svc' = 0
      BY <1>1, <1>5 DEF DeletionInv, DeletionQuiet
    <3>2. \A i, j \in 1 .. Len(toClient') :
            i < j /\ toClient'[i].type = "DeleteAck" => toClient'[j].type # "Modify"
      <4>1. \A k, l \in 1 .. Len(toClient) :
              k < l /\ toClient[k].type = "DeleteAck" => toClient[l].type # "Modify"
        BY DEF DeletionInv, DeletionQuiet
      <4>2. SUFFICES ASSUME NEW i \in 1 .. Len(toClient'), NEW j \in 1 .. Len(toClient'), i < j,
                            toClient'[i].type = "DeleteAck"
                     PROVE  toClient'[j].type # "Modify"
        OBVIOUS
      <4>3. PICK k, l \in 1 .. Len(toClient) :
              k < l /\ toClient'[i] = toClient[k] /\ toClient'[j] = toClient[l]
        BY <1>4, <4>2
      <4>4. QED
        BY <4>1, <4>2, <4>3
    <3>3. QED
      BY <3>1, <3>2 DEF DeletionQuiet
  <2>2. AckOfDeletion' /\ Requested' /\ (Dead => Dead')
    BY <1>1, <1>5, <1>7 DEF DeletionInv, AckOfDeletion, Requested, Dead
  <2>3. QED
    BY <2>1, <2>2
<1>8. ASSUME disk' = disk, (pendingAck' => pendingAck),
             gone => (Known(st) => Known(st')) \/ Dead'
      PROVE  DeletionInv'
  <2>1. StillKnown'
    <3>1. AllKnown /\ Known(st') => AllKnown'
      BY <1>3 DEF AllKnown
    <3>2. AllKnown => Known(st)
      BY <1>0 DEF AllKnown
    <3>3. gone => AllKnown \/ Dead'
      BY <1>7, <1>8 DEF DeletionInv, StillKnown
    <3>4. QED
      BY <1>1, <1>8, <3>1, <3>2, <3>3 DEF StillKnown
  <2>2. QED
    BY <1>6, <1>7, <1>8, <2>1 DEF DeletionInv
<1> DEFINE m == Head(toClient)
           s == Latest(st, m.time)
<1>9. ASSUME NEW t, Handle(t)
      PROVE  /\ m.type = t /\ m \in Answered
             /\ s \in StateType /\ s.entry = st.entry /\ s.pending = st.pending
  BY <1>0, <1>9, HandleTypes, HandleTakes, LatestKeeps
<1>10. CASE HandleSyncEnd
  <2> DEFINE t == IF kind = "note" \/ m.rev # 0 THEN s ELSE st
  <2>1. /\ Handle("SyncEnd") /\ st' = [t EXCEPT !.entry = Committed(t)] /\ disk' = disk
        /\ pendingAck' = pendingAck
    BY <1>10 DEF HandleSyncEnd
  <2>2. t \in StateType /\ t.entry = st.entry
    BY <1>0, <1>9, <2>1
  <2> HIDE DEF t
  <2>3. st'.entry = Committed(t)
    BY <2>1, <2>2 DEF StateType
  <2>4. CASE gone /\ offlineDelete
    <3>1. disk = 0 /\ svc = 0
      BY <1>9, <2>1, <2>4 DEF DeletionInv, Requested, Coming
    <3>2. ~Coming("Modify")
      BY <2>4 DEF DeletionInv, SettingHolds
    <3>3. Dead'
      BY <1>1, <1>5, <2>1, <3>1, <3>2 DEF Dead
    <3>4. QED
      BY <1>8, <2>1, <3>3
  <2>5. CASE ~offlineDelete
    <3>1. ~pendingDelete
      BY <2>5 DEF DeletionInv, SettingHolds
    <3>2. Known(st) => Known(st')
      BY <2>2, <2>3, <3>1 DEF Committed, Known
    <3>3. QED
      BY <1>8, <2>1, <3>2
  <2>6. CASE ~gone
    BY <1>8, <2>1, <2>6
  <2>7. QED
    BY <2>4, <2>5, <2>6
<1>11. CASE HandleNeedPush
  <2>1. Handle("NeedPush") /\ st' = s /\ disk' = disk /\ pendingAck' = pendingAck
    BY <1>11 DEF HandleNeedPush
  <2>2. QED
    BY <1>8, <1>9, <2>1, KnownEntries
<1>12. CASE HandleModify
  <2>1. /\ Handle("Modify") /\ disk' = m.rev /\ pendingAck' = FALSE
        /\ st' = [s EXCEPT !.entry = [hash |-> m.rev, mtime |-> m.rev],
                           !.pending = 0, !.offered = 0]
    BY <1>12 DEF HandleModify
  <2>2. ~offlineDelete /\ Coming("Modify")
    BY <1>9, <2>1 DEF DeletionInv, SettingHolds, Coming
  <2>3. s \in StateType
    BY <1>9, <2>1
  <2> HIDE DEF s
  <2>4. m.rev # 0
    BY <1>9, <2>1 DEF OffersInv, Hashed, ServedGrows
  <2>5. Known(st')
    <3>1. st'.entry = [hash |-> m.rev, mtime |-> m.rev]
      BY <2>1, <2>3 DEF StateType
    <3>2. st'.entry.hash = m.rev
      BY <3>1
    <3>3. QED
      BY <2>4, <3>2, KnownEntries
  <2>6. gone => AllKnown
    BY <2>2 DEF DeletionInv, StillKnown, Dead
  <2>7. StillKnown'
    BY <1>1, <1>3, <2>5, <2>6 DEF StillKnown, AllKnown
  <2>8. DeletionQuiet' /\ AckOfDeletion' /\ Requested'
    BY <1>1, <2>1, <2>2, <2>4 DEF DeletionQuiet, AckOfDeletion, Requested
  <2>9. QED
    BY <1>6, <2>7, <2>8 DEF DeletionInv
<1>13. CASE HandleAck
  <2>1. /\ Handle("Ack") /\ disk' = disk /\ pendingAck' = pendingAck
        /\ \/ st' = s
           \/ /\ s.pending # 0
              /\ st' = [s EXCEPT !.entry = [hash |-> s.pending, mtime |-> disk], !.pending = 0]
    BY <1>13 DEF HandleAck
  <2>2. s \in StateType /\ s.entry = st.entry
    BY <1>9, <2>1
  <2> HIDE DEF s
  <2>3. Known(st) => Known(st')
    <3>1. CASE st' = s
      BY <2>2, <3>1, KnownEntries
    <3>2. CASE /\ s.pending # 0
               /\ st' = [s EXCEPT !.entry = [hash |-> s.pending, mtime |-> disk], !.pending = 0]
      <4>1. st'.entry = [hash |-> s.pending, mtime |-> disk]
        BY <2>2, <3>2 DEF StateType
      <4>2. st'.entry.hash = s.pending
        BY <4>1
      <4>3. QED
        BY <3>2, <4>2, KnownEntries
    <3>3. QED
      BY <2>1, <3>1, <3>2
  <2>4. QED
    BY <1>8, <2>1, <2>3
<1>14. CASE HandleDeleteAck
  <2>1. /\ Handle("DeleteAck") /\ disk' = disk /\ pendingAck' = FALSE
        /\ st' = IF pendingAck THEN [s EXCEPT !.entry = NoEntry] ELSE s
    BY <1>14 DEF HandleDeleteAck
  <2>2. CASE ~pendingAck \/ ~gone
    <3>1. gone => (Known(st) => Known(st'))
      BY <1>9, <2>1, <2>2, KnownEntries
    <3>2. QED
      BY <1>8, <2>1, <3>1
  <2>3. CASE pendingAck /\ gone
    <3>1. disk = 0
      BY <2>3 DEF DeletionInv, AckOfDeletion
    <3>2. svc = 0
      BY <1>9, <2>1, <2>3, <3>1 DEF DeletionInv, DeletionQuiet, Coming
    <3>3. ~Coming("Modify")'
      <4>1. /\ toClient[1].type = "DeleteAck" /\ Len(toClient) \in Nat \ {0}
            /\ Len(toClient') = Len(toClient) - 1
            /\ \A i \in 1 .. Len(toClient) - 1 :
                 toClient'[i] = toClient[i + 1] /\ i + 1 \in 1 .. Len(toClient)
        BY <2>1, HandleTypes
      <4>2. \A j \in 1 .. Len(toClient) : 1 < j => toClient[j].type # "Modify"
        BY <2>3, <3>1, <4>1 DEF DeletionInv, DeletionQuiet
      <4>3. \A i \in 1 .. Len(toClient') : toClient'[i].type # "Modify"
        BY <4>1, <4>2
      <4>4. QED
        BY <4>3 DEF Coming, Answered, Messages
    <3>4. Dead'
      BY <1>1, <2>1, <3>1, <3>2, <3>3 DEF Dead
    <3>5. QED
      BY <1>8, <2>1, <3>4
  <2>4. QED
    BY <2>2, <2>3
<1>15. CASE HandleOther
  <2>1. st' = Latest(st, clock') /\ disk' = disk /\ pendingAck' = pendingAck
    BY <1>15 DEF HandleOther
  <2>2. st'.entry = st.entry
    BY <1>0, <2>1 DEF Latest, StateType
  <2>3. QED
    BY <1>8, <2>1, <2>2, KnownEntries
<1>16. QED
  BY <1>10, <1>11, <1>12, <1>13, <1>14, <1>15 DEF ReadLoop

\* The service sends a file back only as long as it has it.
LEMMA DeletionServe ==
  ASSUME Types, DeletionInv, Serve
  PROVE  DeletionInv'
<1> DEFINE m == Head(toSvc)
<1>1. /\ toSvc # <<>> /\ toSvc' = Tail(toSvc)
      /\ UNCHANGED <<offlineDelete, disk, drops, restarts, st, saved, saves, round, copy, found,
                     pendingDelete, pendingAck, push, gone>>
      /\ \/ m.type = "push" /\ svc' = m.rev
         \/ m.type = "sync" /\ svc' = (IF m.result.del THEN 0 ELSE svc)
      /\ Extends(toClient, toClient', AnswersTo(m))
  BY Served
<1>2. Sent' \subseteq Sent /\ m \in Sent
  BY <1>1, MessagesOfTail DEF Types, WireTypes, Sent
<1>3. Answered' \subseteq Answered \cup AnswersTo(m)
  BY <1>1, MessagesOfExtended DEF Answered
<1>4. \A t : Coming(t)' => Coming(t) \/ \E a \in AnswersTo(m) : a.type = t
  BY <1>3 DEF Coming
<1>5. /\ \A a \in AnswersTo(m) : a.type = "Modify" =>
           m.type = "sync" /\ svc # 0 /\ m.result.missing
      /\ \A a \in AnswersTo(m) : a.type = "DeleteAck" => m.type = "push" /\ m.rev = 0
      /\ \A a \in AnswersTo(m) : a.type = "SyncEnd" => m.type = "sync"
  BY DEF AnswersTo
<1>6. gone /\ disk = 0 /\ svc = 0 => svc' = 0
  BY <1>1, <1>2 DEF DeletionInv, DeletionQuiet
<1>7. StillKnown'
  <2>1. AllKnown' = AllKnown
    BY <1>1 DEF AllKnown, States, Readable
  <2>2. Dead /\ gone => Dead'
    BY <1>1, <1>4, <1>5, <1>6 DEF Dead
  <2>3. QED
    BY <1>1, <2>1, <2>2 DEF DeletionInv, StillKnown
<1>8. DeletionQuiet'
  <2> SUFFICES ASSUME gone, disk = 0
               PROVE  /\ push' \subseteq {0}
                      /\ \A x \in Sent' : x.type = "push" => x.rev = 0
                      /\ Coming("DeleteAck")' => svc' = 0
                      /\ \A i, j \in 1 .. Len(toClient') :
                           i < j /\ toClient'[i].type = "DeleteAck" =>
                             toClient'[j].type # "Modify"
    BY <1>1 DEF DeletionQuiet
  <2>1. Coming("DeleteAck")' => svc' = 0
    BY <1>1, <1>4, <1>5, <1>6 DEF DeletionInv, DeletionQuiet
  <2>2. ASSUME NEW i \in 1 .. Len(toClient'), NEW j \in 1 .. Len(toClient'), i < j,
               toClient'[i].type = "DeleteAck"
        PROVE  toClient'[j].type # "Modify"
    <3>1. /\ Len(toClient) \in Nat /\ Len(toClient') \in Nat
          /\ \A k \in 1 .. Len(toClient) : toClient'[k] = toClient[k]
          /\ \A k \in 1 .. Len(toClient') : k > Len(toClient) => toClient'[k] \in AnswersTo(m)
      BY <1>1 DEF Extends
    <3>2. CASE j <= Len(toClient)
      <4>1. /\ i \in 1 .. Len(toClient) /\ toClient[i].type = "DeleteAck"
            /\ j \in 1 .. Len(toClient) /\ toClient'[j] = toClient[j]
        BY <2>2, <3>1, <3>2
      <4>2. QED
        BY <2>2, <4>1 DEF DeletionInv, DeletionQuiet
    <3>3. CASE j > Len(toClient) /\ i <= Len(toClient)
      <4>1. i \in 1 .. Len(toClient) /\ toClient[i].type = "DeleteAck"
        BY <2>2, <3>1, <3>3
      <4>2. Coming("DeleteAck")
        BY <4>1 DEF Coming, Answered, Messages
      <4>3. svc = 0
        BY <4>2 DEF DeletionInv, DeletionQuiet
      <4>4. QED
        BY <1>5, <3>1, <3>3, <4>3
    <3>4. CASE j > Len(toClient) /\ i > Len(toClient)
      BY <1>5, <2>2, <3>1, <3>4
    <3>5. QED
      BY <3>1, <3>2, <3>3, <3>4
  <2>3. QED
    BY <1>1, <1>2, <2>1, <2>2 DEF DeletionInv, DeletionQuiet
<1>9. AckOfDeletion'
  BY <1>1 DEF DeletionInv, AckOfDeletion
<1>10. SettingHolds'
  BY <1>1, <1>2, <1>4, <1>5 DEF DeletionInv, SettingHolds
<1>11. Requested'
  <2> SUFFICES ASSUME gone, offlineDelete
               PROVE  disk = 0 /\ svc' = 0
    BY <1>1 DEF Requested
  <2>1. disk = 0
    BY DEF DeletionInv, Requested
  <2>2. CASE svc = 0
    BY <1>6, <2>1, <2>2
  <2>3. CASE svc # 0
    BY <1>1, <1>2, <2>1, <2>3 DEF DeletionInv, Requested, DeletionQuiet
  <2>4. QED
    BY <2>1, <2>2, <2>3
<1>12. QED
  BY <1>7, <1>8, <1>9, <1>10, <1>11 DEF DeletionInv

\* A state is written, or the connection is made.
LEMMA DeletionFile ==
  ASSUME Types, DeletionInv, Connect \/ \E a \in Actors : WriteState(a)
  PROVE  DeletionInv'
<1> USE DEF chosen, world, net, file, results, records, pushes, wires, history
<1>1. UNCHANGED <<offlineDelete, disk, drops, restarts, st, round, copy, found, pendingDelete,
                  pendingAck, push, toSvc, toClient, svc, gone>>
  BY DEF Connect, WriteState
<1>2. States' \subseteq States
  <2>1. CASE Connect
    BY <2>1 DEF Connect, States, Readable
  <2>2. ASSUME NEW a \in Actors, WriteState(a) PROVE States' \subseteq States
    <3>1. saved' \in saves[a] /\ saves' = [saves EXCEPT ![a] = {}]
      BY <2>2 DEF WriteState
    <3>2. saves \in [Actors -> Snapshots]
      BY DEF Types, StateTypes
    <3>3. \A b \in Actors : saves'[b] \subseteq saves[b]
      BY <3>1, <3>2
    <3>4. QED
      BY <1>1, <3>1, <3>3 DEF States, Readable
  <2>3. QED
    BY <2>1, <2>2
<1>3. StillKnown'
  BY <1>1, <1>2 DEF DeletionInv, StillKnown, AllKnown, Dead, Coming, Answered
<1>4. DeletionQuiet' /\ AckOfDeletion' /\ SettingHolds' /\ Requested'
  BY <1>1
     DEF DeletionInv, DeletionQuiet, AckOfDeletion, SettingHolds, Requested, Coming, Answered, Sent
<1>5. QED
  BY <1>3, <1>4 DEF DeletionInv

\* The end of a connection, or of the process: what is read next was saved.
LEMMA DeletionEnd ==
  ASSUME Types, DeletionInv, ConnectionLost \/ Restart
  PROVE  DeletionInv'
<1> USE DEF Disconnected, RoundOver, chosen, world, net, file, results, records, pushes, wires,
            history
<1>1. /\ UNCHANGED <<offlineDelete, disk, saved, svc, gone>> /\ round' = "none"
      /\ found' = NoResult /\ toSvc' = <<>> /\ toClient' = <<>>
      /\ push' \in {push, {}} /\ (pendingDelete' => pendingDelete)
      /\ (pendingAck' => pendingAck)
  BY DEF ConnectionLost, Restart
<1>2. Sent' = {} /\ Answered' = {} /\ 1 .. Len(toClient') = {}
  BY <1>1, MessagesOfEmpty, EmptyQueue DEF Sent, Answered
<1>3. States' \subseteq States
  <2>1. Readable' => Readable
    BY VaultScanAssumption DEF ConnectionLost, Restart, Readable, Types, NetTypes,
       VaultScanAssumption
  <2>2. CASE ConnectionLost
    <3>1. UNCHANGED <<st, saved, saves>>
      BY <2>2 DEF ConnectionLost
    <3>2. QED
      BY <2>1, <3>1 DEF States
  <2>3. CASE Restart
    <3>1. Readable /\ st' = saved /\ saved' = saved /\ saves' = [a \in Actors |-> {}]
      BY <2>3 DEF Restart
    <3>2. QED
      BY <3>1 DEF States
  <2>4. QED
    BY <2>2, <2>3
<1>4. StillKnown'
  BY <1>1, <1>2, <1>3 DEF DeletionInv, StillKnown, AllKnown, Dead, Coming
<1>5. DeletionQuiet'
  BY <1>1, <1>2 DEF DeletionInv, DeletionQuiet, Coming
<1>6. AckOfDeletion' /\ Requested' /\ SettingHolds'
  BY <1>1, <1>2 DEF DeletionInv, AckOfDeletion, Requested, SettingHolds, Coming, NoResult
<1>7. QED
  BY <1>4, <1>5, <1>6 DEF DeletionInv

\* Every step keeps what is known.
LEMMA DeletionNext == Types /\ OffersInv /\ DeletionInv /\ [Next]_vars => DeletionInv'
<1> SUFFICES ASSUME Types, OffersInv, DeletionInv, [Next]_vars PROVE DeletionInv'
  OBVIOUS
<1>1. CASE UNCHANGED vars
  <2>1. UNCHANGED <<offlineDelete, disk, drops, restarts, st, saved, saves, round, copy, found,
                    pendingDelete, pendingAck, push, toSvc, toClient, svc, gone>>
    BY <1>1 DEF vars, chosen, world, net, file, results, records, pushes, wires, history
  <2>2. States' = States /\ Sent' = Sent /\ Answered' = Answered
    BY <2>1 DEF States, Readable, Sent, Answered
  <2>3. QED
    BY <2>1, <2>2
       DEF DeletionInv, StillKnown, AllKnown, Dead, DeletionQuiet, AckOfDeletion, SettingHolds,
           Requested, Coming
<1>2. QED
  BY <1>1, DeletionUser, DeletionPush, DeletionRound, DeletionReader, DeletionServe, DeletionFile,
     DeletionEnd
     DEF Next, Daemon

\* What the service has, and the vault has not, is known.
LEMMA DeletionSuffices == DeletionInv => OfflineDeletionReported
BY DEF DeletionInv, StillKnown, AllKnown, Dead, OfflineDeletionReported

-----------------------------------------------------------------------------
(* The theorems.                                                             *)

IInv == Types /\ OffersInv /\ DeletionInv

\* What every reachable state satisfies: the types, that offers are noted wherever
\* they are kept until they are served, and that deletions made while not connected
\* stay known until reported.
THEOREM Invariance == Spec => []IInv
<1>1. Init => IInv
  BY InitTypes, OffersInit, DeletionInit DEF IInv
<1>2. IInv /\ [Next]_vars => IInv'
  BY NextTypes, OffersNext, DeletionNext DEF IInv
<1>3. QED
  BY <1>1, <1>2, PTL DEF Spec

\* Every variable keeps its type (startup.go, state.go).
THEOREM TypeCorrectness == Spec => []TypeOK
<1>1. IInv => TypeOK
  BY TypesSuffice DEF IInv
<1>2. QED
  BY <1>1, Invariance, PTL

\* An edit that a round offered is offered again by every later scan, also by one after a crash,
\* until the service has had it: its pending hash keeps it from being skipped, and no cached hash
\* hides it (startup.go:239-256, note_sync.go:45-49, hash.go:119-121).
THEOREM OffersSurvive == Spec => []OfferedIsNotForgotten
<1>1. IInv => OfferedIsNotForgotten
  BY OffersSuffice DEF IInv
<1>2. QED
  BY <1>1, Invariance, PTL

\* A file deleted while the daemon was not connected stays known, in memory and in every state a
\* crash could leave, until the service has heard of it or sent it back (note_sync.go:30-34,
\* startup.go:745-766).
THEOREM DeletionsSurvive == Spec => []OfflineDeletionReported
<1>1. IInv => OfflineDeletionReported
  BY DeletionSuffices DEF IInv
<1>2. QED
  BY <1>1, Invariance, PTL

=============================================================================
