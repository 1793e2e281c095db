---------------------------- MODULE LocalOpsProofs ----------------------------
(***************************************************************************)
(* Proofs about LocalOps for every finite set of operations, of whatever   *)
(* kind and path, every number of slots and every bound on drops, stalls   *)
(* and remote changes: its types, and how far the operations in flight can *)
(* exceed the slots.                                                       *)
(***************************************************************************)
EXTENDS LocalOps, FiniteSetTheorems, TLAPS

-----------------------------------------------------------------------------
(* What is on its way, and who works for which upload.                       *)

\* A request of an operation that began is answered once: by a FileUpload,
\* which starts a session, or by an acknowledgment, which is the last.  A session
\* works for an upload.  What the service asks for is not sent by an operation,
\* and only a delete looks at its path again.
Stage(o) ==
  /\ <<o, "FileUpload">> \in wire => /\ o \in Uploads /\ run[o] = "none"
                                     /\ pc[o] \in {"sent", "done"}
                                     /\ <<o, "Ack">> \notin wire
  /\ <<o, "Ack">> \in wire => /\ pc[o] \in {"sent", "done"}
                              /\ o \in Uploads => run[o] \in {"last", "over"}
  /\ run[o] # "none" => o \in Uploads /\ pc[o] \in {"sent", "done"} /\ upload[o] # NoUpload
  /\ run[o] = "none" => upload[o] = NoUpload
  /\ Kind[o] = "asked" => pc[o] \in {"idle", "done"}
  /\ pc[o] = "recheck" => o \in Deletes

EveryStage == \A o \in Ops : Stage(o)

\* The ActiveUpload u exists, or did.
Made(u) == \/ u \in SlotHeld \/ u \in Cancelled
           \/ \E p \in Paths : activeUploads[p] = u
           \/ \E o \in Ops : upload[o] = u

\* Each is made once ...
Fresh == \A o \in Ops :
  /\ Made(<<o, "check">>)   => Kind[o] = "upload" /\ pc[o] = "done"
  /\ Made(<<o, "session">>) => run[o] # "none"

\* ... is that of its path, and is not active again once it was cancelled.
ActiveOfPath == \A p \in Paths : activeUploads[p] # NoUpload =>
  activeUploads[p] \notin Cancelled /\ Path[activeUploads[p][1]] = p

Stages == EveryStage /\ Fresh /\ ActiveOfPath

\* Names that are told apart.
LEMMA Names ==
  /\ NoUpload \notin ActiveUploads
  /\ \A o \in Ops : /\ o # None /\ Path[o] \in Paths /\ From[o] \in Paths /\ Kind[o] \in Kinds
                    /\ <<o, "check">> # NoUpload /\ <<o, "session">> # NoUpload
  /\ \A o \in Uploads : /\ o \in Ops /\ Kind[o] \in {"upload", "asked"}
                        /\ <<o, "check">> \in ActiveUploads
                        /\ <<o, "session">> \in ActiveUploads
  /\ \A o \in Ops : /\ Kind[o] \in {"upload", "asked"} <=> o \in Uploads
                    /\ Kind[o] \in {"delete", "filedelete"} <=> o \in Deletes
                    /\ Kind[o] = "rename" <=> o \in OpsOf("rename")
BY LocalOpsAssumption DEF NoUpload, ActiveUploads, Uploads, Deletes, OpsOf, Paths

\* A slot is taken or given back within the capacity of the channel.
LEMMA TokenTypes ==
  ASSUME TypeOK
  PROVE  /\ WaitForSlot => slots' \in 0..MaxUploads /\ fifo' \in 0..1
         /\ ReleaseSlot => slots' \in 0..MaxUploads /\ fifo' \in 0..1
         /\ WaitForFifo => slots' \in 0..MaxUploads /\ fifo' \in 0..1
         /\ ReleaseFifo => slots' \in 0..MaxUploads /\ fifo' \in 0..1
         /\ \A b \in BOOLEAN : ReleaseIf(b) => slots' \in 0..MaxUploads /\ fifo' \in 0..1
<1> USE DEF TypeOK
<1>1. MaxUploads \in Nat /\ 0 \in 0..1 /\ 1 \in 0..1
  BY LocalOpsAssumption
<1>2. ReleaseSlot => slots' \in 0..MaxUploads /\ fifo' \in 0..1
  BY <1>1 DEF ReleaseSlot
<1>3. WaitForSlot => slots' \in 0..MaxUploads /\ fifo' \in 0..1
  BY <1>1 DEF WaitForSlot
<1>4. /\ WaitForFifo => slots' \in 0..MaxUploads /\ fifo' \in 0..1
      /\ ReleaseFifo => slots' \in 0..MaxUploads /\ fifo' \in 0..1
  BY <1>1 DEF WaitForFifo, ReleaseFifo
<1>5. \A b \in BOOLEAN : ReleaseIf(b) => slots' \in 0..MaxUploads /\ fifo' \in 0..1
  BY <1>2 DEF ReleaseIf, tokens
<1>6. QED
  BY <1>2, <1>3, <1>4, <1>5

\* cancelUpload keeps the types, and ends what it cancels.
LEMMA CancelTypes ==
  ASSUME TypeOK, NEW p \in Paths, CancelUpload(p)
  PROVE  /\ slots' \in 0..MaxUploads /\ fifo' \in 0..1
         /\ SlotHeld' \subseteq SlotHeld
         /\ Cancelled' = Cancelled \cup ({activeUploads[p]} \ {NoUpload})
         /\ Cancelled' \subseteq ActiveUploads
         /\ activeUploads' \in [Paths -> ActiveUploads \cup {NoUpload}]
         /\ activeUploads'[p] = NoUpload
         /\ \A q \in Paths : q # p => activeUploads'[q] = activeUploads[q]
         /\ pending' \in [Paths -> Ops \cup {None}]
<1> DEFINE b == activeUploads[p] \in SlotHeld
<1>1. ReleaseIf(b)
  BY DEF CancelUpload
<1>2. slots' \in 0..MaxUploads /\ fifo' \in 0..1
  <2>1. b \in BOOLEAN
    OBVIOUS
  <2> HIDE DEF b
  <2>2. QED
    BY <1>1, <2>1, TokenTypes
<1>3. QED
  BY <1>2 DEF CancelUpload, TypeOK

-----------------------------------------------------------------------------
(* Types.                                                                    *)

\* The goroutine of an operation keeps the types.
LEMMA OperationTypes ==
  ASSUME TypeOK, NEW o \in Ops, Begin(o) \/ Operation(o)
  PROVE  TypeOK'
<1> USE DEF TypeOK, OpFrame, netVars
<1>1. Path[o] \in Paths /\ From[o] \in Paths /\ o # None
  BY Names
<1>2. ASSUME NEW l \in {"wait", "recheck", "send", "sent", "done", "failed", "skipped"},
             Goto(o, l)
      PROVE  pc' \in [Ops -> {"idle", "wait", "recheck", "send", "sent", "done", "failed",
                              "skipped"}]
  BY <1>2 DEF Goto
<1>3. CASE Begin(o)
  <2>1. pc' \in [Ops -> {"idle", "wait", "recheck", "send", "sent", "done", "failed",
                         "skipped"}]
    BY <1>2, <1>3 DEF Begin
  <2>2. CASE CancelUpload(Path[o])
    <3>1. /\ slots' \in 0..MaxUploads /\ fifo' \in 0..1
          /\ SlotHeld' \subseteq SlotHeld /\ Cancelled' \subseteq ActiveUploads
          /\ activeUploads' \in [Paths -> ActiveUploads \cup {NoUpload}]
          /\ pending' \in [Paths -> Ops \cup {None}]
      BY <1>1, <2>2, CancelTypes
    <3>2. QED
      BY <1>3, <2>1, <3>1 DEF Begin
  <2>3. CASE UNCHANGED <<tokens, pending, activeUploads, SlotHeld, Cancelled>>
    BY <1>3, <2>1, <2>3 DEF Begin, tokens
  <2>4. QED
    BY <1>3, <2>2, <2>3 DEF Begin
<1>4. CASE TakeSlot(o)
  <2>1. slots' \in 0..MaxUploads /\ fifo' \in 0..1
    BY <1>4, TokenTypes DEF TakeSlot
  <2>2. pc' \in [Ops -> {"idle", "wait", "recheck", "send", "sent", "done", "failed",
                         "skipped"}]
    BY <1>2, <1>4 DEF TakeSlot
  <2>3. QED
    BY <1>4, <2>1, <2>2 DEF TakeSlot
<1>5. CASE Recheck(o)
  <2>1. slots' \in 0..MaxUploads /\ fifo' \in 0..1
    BY <1>5, TokenTypes DEF Recheck, tokens
  <2>2. pc' \in [Ops -> {"idle", "wait", "recheck", "send", "sent", "done", "failed",
                         "skipped"}]
    BY <1>2, <1>5 DEF Recheck
  <2>3. QED
    BY <1>1, <1>5, <2>1, <2>2 DEF Recheck
<1>6. CASE SendSucceeds(o)
  <2>1. Reply(o) \in Ops \X {"FileUpload", "Ack"}
    BY DEF Reply
  <2>2. pc' \in [Ops -> {"idle", "wait", "recheck", "send", "sent", "done", "failed",
                         "skipped"}]
    BY <1>2, <1>6 DEF SendSucceeds
  <2>3. QED
    BY <1>6, <2>1, <2>2 DEF SendSucceeds, tokens
<1>7. CASE SendFails(o)
  <2>1. slots' \in 0..MaxUploads /\ fifo' \in 0..1
    BY <1>7, TokenTypes DEF SendFails
  <2>2. pc' \in [Ops -> {"idle", "wait", "recheck", "send", "sent", "done", "failed",
                         "skipped"}]
    BY <1>2, <1>7 DEF SendFails
  <2>3. QED
    BY <1>7, <2>1, <2>2 DEF SendFails
<1>8. CASE RecordPending(o)
  <2>1. pc' \in [Ops -> {"idle", "wait", "recheck", "send", "sent", "done", "failed",
                         "skipped"}]
    BY <1>2, <1>8 DEF RecordPending
  <2>2. /\ pending' \in [Paths -> Ops \cup {None}] /\ pendingDeletes' \subseteq Paths
        /\ pathLocks' \subseteq Paths
    BY <1>1, <1>8 DEF RecordPending
  <2>3. pendingRenames' \in Seq(OpsOf("rename"))
    <3>1. Kind[o] = "rename" => o \in OpsOf("rename")
      BY DEF OpsOf
    <3>2. QED
      BY <1>8, <3>1 DEF RecordPending
  <2>4. /\ activeUploads' \in [Paths -> ActiveUploads \cup {NoUpload}]
        /\ SlotHeld' \subseteq ActiveUploads
    <3>1. Kind[o] = "upload" => <<o, "check">> \in ActiveUploads
      BY Names
    <3>2. QED
      BY <1>1, <1>8, <3>1 DEF RecordPending
  <2>5. QED
    BY <1>8, <2>1, <2>2, <2>3, <2>4 DEF RecordPending, tokens
<1>9. QED
  BY <1>3, <1>4, <1>5, <1>6, <1>7, <1>8 DEF Operation

\* A session keeps the types.
LEMMA SessionTypes ==
  ASSUME TypeOK, EveryStage, NEW o \in Ops,
         ServiceAsks(o) \/ HandleFileUpload(o) \/ RunUpload(o)
  PROVE  TypeOK'
<1> USE DEF TypeOK, UploadFrame, netVars, reading
<1>1. Path[o] \in Paths /\ o # None
  BY Names
<1>2. ASSUME NEW l \in {"wait", "slot", "start", "chunk", "send", "last", "over"},
             RunTo(o, l)
      PROVE  run' \in [Ops -> {"none", "wait", "slot", "start", "chunk", "send", "last",
                               "over"}]
  BY <1>2 DEF RunTo
<1>3. CASE ServiceAsks(o)
  BY <1>3 DEF ServiceAsks, Goto, tokens, settles, uploads
<1>4. CASE HandleFileUpload(o)
  <2> DEFINE u == IF activeUploads[Path[o]] = NoUpload THEN <<o, "session">>
                                                       ELSE activeUploads[Path[o]]
  <2>1. u \in ActiveUploads
    <3>1. o \in Uploads
      BY <1>4 DEF HandleFileUpload, EveryStage, Stage
    <3>2. QED
      BY ZenonT(40), <1>1, <3>1, Names
  <2>2. \/ /\ activeUploads' = [activeUploads EXCEPT ![Path[o]] = u]
           /\ upload' = [upload EXCEPT ![o] = u]
           /\ RunTo(o, IF u \in SlotHeld THEN "start" ELSE "wait")
        \/ UNCHANGED <<activeUploads, upload, run>>
    BY <1>4 DEF HandleFileUpload
  <2> HIDE DEF u
  <2>3. /\ activeUploads' \in [Paths -> ActiveUploads \cup {NoUpload}]
        /\ upload' \in [Ops -> ActiveUploads \cup {NoUpload}]
    BY <1>1, <2>1, <2>2
  <2>4. run' \in [Ops -> {"none", "wait", "slot", "start", "chunk", "send", "last", "over"}]
    BY <1>2, <2>2
  <2>5. QED
    BY <1>4, <2>3, <2>4 DEF HandleFileUpload
<1>5. CASE UploadTakesSlot(o)
  <2>1. slots' \in 0..MaxUploads
    BY <1>5, TokenTypes DEF UploadTakesSlot
  <2>2. QED
    BY <1>2, <1>5, <2>1 DEF UploadTakesSlot
<1>6. CASE UploadMarksSlot(o)
  <2>1. upload[o] \in ActiveUploads
    BY <1>6 DEF UploadMarksSlot, EveryStage, Stage
  <2>2. QED
    BY <1>2, <1>6, <2>1 DEF UploadMarksSlot
<1>7. CASE UploadFails(o)
  <2> DEFINE b == upload[o] \in SlotHeld
  <2>1. slots' \in 0..MaxUploads
    <3>1. ReleaseIf(b) /\ b \in BOOLEAN
      BY <1>7 DEF UploadFails
    <3> HIDE DEF b
    <3>2. QED
      BY <3>1, TokenTypes
  <2>2. QED
    BY <1>2, <1>7, <2>1 DEF UploadFails
<1>8. CASE UploadCancelled(o)
  <2>1. CancelUpload(Path[o])
    BY <1>8 DEF UploadCancelled
  <2>2. /\ slots' \in 0..MaxUploads /\ fifo' \in 0..1
        /\ SlotHeld' \subseteq SlotHeld /\ Cancelled' \subseteq ActiveUploads
        /\ activeUploads' \in [Paths -> ActiveUploads \cup {NoUpload}]
        /\ pending' \in [Paths -> Ops \cup {None}]
    BY <1>1, <2>1, CancelTypes
  <2>3. QED
    BY <1>2, <1>8, <2>2 DEF UploadCancelled
<1>9. CASE UploadStarts(o)
  BY <1>1, <1>2, <1>9 DEF UploadStarts
<1>10. CASE UploadNextChunk(o) \/ UploadSendsChunk(o) \/ UploadSendsLastChunk(o)
  BY <1>2, <1>10 DEF UploadNextChunk, UploadSendsChunk, UploadSendsLastChunk
<1>11. CASE UploadEnds(o)
  BY <1>1, <1>2, <1>11 DEF UploadEnds
<1>12. QED
  BY <1>3, <1>4, <1>5, <1>6, <1>7, <1>8, <1>9, <1>10, <1>11 DEF RunUpload

\* The read loop keeps the types.
LEMMA ReaderTypes ==
  ASSUME TypeOK,
         \/ \E o \in Ops : HandleAck(o) \/ RequestRefused(o)
         \/ \E p \in Paths : ReadRemoteChange(p)
         \/ ApplyRemoteChange
  PROVE  TypeOK'
<1> USE DEF TypeOK, AckFrame, netVars, reading, tokens, settles, uploads
<1>1. ASSUME NEW o \in Ops, HandleModifyAck(o)
      PROVE  TypeOK'
  <2>1. slots' \in 0..MaxUploads /\ fifo' \in 0..1
    BY <1>1, TokenTypes DEF HandleModifyAck
  <2>2. Path[o] \in Paths
    BY Names
  <2>3. base' \in [Paths -> Ops \cup {None}] /\ pending' \in [Paths -> Ops \cup {None}]
    BY <1>1, <2>2 DEF HandleModifyAck
  <2>4. QED
    BY <1>1, <2>1, <2>3 DEF HandleModifyAck, Read
<1>2. ASSUME NEW o \in Ops, HandleDeleteAck(o)
      PROVE  TypeOK'
  <2>1. slots' \in 0..MaxUploads /\ fifo' \in 0..1
    BY <1>2, TokenTypes DEF HandleDeleteAck
  <2>2. Path[o] \in Paths
    BY Names
  <2>3. base' \in [Paths -> Ops \cup {None}]
    BY <1>2, <2>2 DEF HandleDeleteAck
  <2>4. QED
    BY <1>2, <2>1, <2>3 DEF HandleDeleteAck, Read
<1>3. ASSUME NEW o \in Ops, HandleRenameAck(o)
      PROVE  TypeOK'
  <2>1. slots' \in 0..MaxUploads /\ fifo' \in 0..1
    BY <1>3, TokenTypes DEF HandleRenameAck
  <2>2. base' \in [Paths -> Ops \cup {None}] /\ pendingRenames' \in Seq(OpsOf("rename"))
    <3>1. CASE pendingRenames = <<>>
      BY <1>3, <3>1 DEF HandleRenameAck
    <3>2. CASE pendingRenames # <<>>
      <4>1. /\ Head(pendingRenames) \in OpsOf("rename")
            /\ Tail(pendingRenames) \in Seq(OpsOf("rename"))
        BY <3>2
      <4>2. Head(pendingRenames) \in Ops
        BY <4>1 DEF OpsOf
      <4>3. Path[Head(pendingRenames)] \in Paths /\ From[Head(pendingRenames)] \in Paths
        BY <4>2, Names
      <4>4. QED
        BY <1>3, <3>2, <4>1, <4>2, <4>3 DEF HandleRenameAck
    <3>3. QED
      BY <3>1, <3>2
  <2>3. QED
    BY <1>3, <2>1, <2>2 DEF HandleRenameAck, Read
<1>4. ASSUME NEW o \in Ops, RequestRefused(o)
      PROVE  TypeOK'
  BY <1>4 DEF RequestRefused
<1>5. ASSUME NEW p \in Paths, ReadRemoteChange(p)
      PROVE  TypeOK'
  <2>1. remote' \in 0..MaxRemote
    BY <1>5, LocalOpsAssumption DEF ReadRemoteChange
  <2>2. QED
    BY <1>5, <2>1 DEF ReadRemoteChange
<1>6. CASE ApplyRemoteChange
  BY <1>6 DEF ApplyRemoteChange
<1>7. QED
  BY <1>1, <1>2, <1>3, <1>4, <1>5, <1>6 DEF HandleAck

\* Connections and stalls keep the types.
LEMMA NetTypes ==
  ASSUME TypeOK, ConnectionLost \/ Reconnect \/ CleanupOnTimeout
  PROVE  TypeOK'
<1> USE DEF TypeOK, netVars, reading, tokens, settles, uploads
<1>1. CASE ConnectionLost
  <2>1. drops' \in 0..MaxDrops
    BY <1>1, LocalOpsAssumption DEF ConnectionLost
  <2>2. QED
    BY <1>1, <2>1 DEF ConnectionLost
<1>2. CASE Reconnect
  BY <1>2 DEF Reconnect
<1>3. CASE CleanupOnTimeout
  <2>1. stalls' \in 0..MaxStalls /\ slots' \in 0..MaxUploads /\ fifo' \in 0..1
    BY <1>3, LocalOpsAssumption DEF CleanupOnTimeout
  <2>2. Cancelled' \subseteq ActiveUploads /\ SlotHeld' \subseteq ActiveUploads
    BY <1>3 DEF CleanupOnTimeout
  <2>3. /\ pending' \in [Paths -> Ops \cup {None}]
        /\ activeUploads' \in [Paths -> ActiveUploads \cup {NoUpload}]
    BY <1>3 DEF CleanupOnTimeout
  <2>4. QED
    BY <1>3, <2>1, <2>2, <2>3 DEF CleanupOnTimeout
<1>4. QED
  BY <1>1, <1>2, <1>3

\* The system starts with nothing sent and nothing made.
LEMMA InitStages ==
  Init => TypeOK /\ Stages
<1> SUFFICES ASSUME Init
             PROVE  TypeOK /\ Stages
  OBVIOUS
<1>1. TypeOK
  BY LocalOpsAssumption DEF Init, TypeOK
<1>2. EveryStage
  BY Names DEF Init, EveryStage, Stage
<1>3. Fresh
  BY Names DEF Init, Fresh, Made
<1>4. ActiveOfPath
  BY DEF Init, ActiveOfPath
<1>5. QED
  BY <1>1, <1>2, <1>3, <1>4 DEF Stages

-----------------------------------------------------------------------------
(* How an operation, its session and its messages advance.                   *)

\* What an action of the operation o leaves alone, for the others.
Touches(o) == \A q \in Ops \ {o} :
  /\ pc'[q] = pc[q] /\ run'[q] = run[q] /\ upload'[q] = upload[q]
  /\ \A a \in {"FileUpload", "Ack"} : <<q, a>> \in wire' => <<q, a>> \in wire

\* What is done stays done, a session that began is not forgotten, and the
\* upload it works for stays the same.
Persists(o) ==
  /\ pc[o] = "done" => pc'[o] = "done"
  /\ run[o] # "none" => run'[o] # "none" /\ upload'[o] = upload[o]

\* An action of o only has to keep the stage of o.
LEMMA OneStage ==
  ASSUME EveryStage, NEW o \in Ops, Touches(o), Stage(o)'
  PROVE  EveryStage'
<1>1. ASSUME NEW q \in Ops, q # o
      PROVE  Stage(q)'
  <2>1. /\ pc'[q] = pc[q] /\ run'[q] = run[q] /\ upload'[q] = upload[q]
        /\ <<q, "FileUpload">> \in wire' => <<q, "FileUpload">> \in wire
        /\ <<q, "Ack">> \in wire' => <<q, "Ack">> \in wire
    BY <1>1 DEF Touches
  <2>2. Stage(q)
    BY DEF EveryStage
  <2>3. QED
    BY <2>1, <2>2 DEF Stage
<1>2. QED
  BY <1>1 DEF EveryStage

\* The steps of the goroutine of o.
LEMMA OperationStages ==
  ASSUME TypeOK, EveryStage, NEW o \in Ops, Begin(o) \/ Operation(o) \/ ServiceAsks(o)
  PROVE  Touches(o) /\ Persists(o) /\ Stage(o)' /\ UNCHANGED <<run, upload>>
<1>1. Stage(o)
  BY DEF EveryStage
<1>2. ASSUME NEW l, Goto(o, l)
      PROVE  pc'[o] = l /\ \A q \in Ops \ {o} : pc'[q] = pc[q]
  BY <1>2 DEF Goto, TypeOK
<1>3. Kind[o] = "asked" => o \in Uploads
  BY Names
<1>4. CASE Begin(o)
  <2>1. UNCHANGED <<run, upload, wire>> /\ pc[o] = "idle" /\ Kind[o] # "asked"
    BY <1>4 DEF Begin, OpFrame, At
  <2>2. pc'[o] \in {"wait", "skipped"} /\ \A q \in Ops \ {o} : pc'[q] = pc[q]
    BY <1>2, <1>4 DEF Begin
  <2>3. QED
    BY <1>1, <2>1, <2>2 DEF Touches, Persists, Stage
<1>5. CASE TakeSlot(o) \/ Recheck(o) \/ SendFails(o)
  <2>1. UNCHANGED <<run, upload, wire>> /\ pc[o] \in {"wait", "recheck", "send"}
    BY <1>5 DEF TakeSlot, Recheck, SendFails, OpFrame, At
  <2>2. /\ pc'[o] \in {"recheck", "send", "skipped", "failed"}
        /\ pc'[o] = "recheck" => o \in Deletes
        /\ \A q \in Ops \ {o} : pc'[q] = pc[q]
    BY <1>2, <1>5 DEF TakeSlot, Recheck, SendFails
  <2>3. QED
    BY <1>1, <2>1, <2>2 DEF Touches, Persists, Stage
<1>6. CASE SendSucceeds(o)
  <2>1. UNCHANGED <<run, upload>> /\ pc[o] = "send" /\ wire' = wire \cup {Reply(o)}
    BY <1>6 DEF SendSucceeds, OpFrame, At
  <2>2. pc'[o] = "sent" /\ \A q \in Ops \ {o} : pc'[q] = pc[q]
    BY <1>2, <1>6 DEF SendSucceeds
  <2>3. Kind[o] # "asked" /\ (Kind[o] = "upload" <=> o \in Uploads)
    BY <1>1, <2>1, Names DEF Stage
  <2>4. /\ Kind[o] = "upload" => Reply(o) = <<o, "FileUpload">>
        /\ Kind[o] # "upload" => Reply(o) = <<o, "Ack">>
    BY DEF Reply
  <2>5. Touches(o)
    BY <2>1, <2>2, <2>4 DEF Touches
  <2>6. QED
    BY <1>1, <2>1, <2>2, <2>3, <2>4, <2>5 DEF Persists, Stage
<1>7. CASE RecordPending(o)
  <2>1. UNCHANGED <<run, upload, wire>> /\ pc[o] = "sent"
    BY <1>7 DEF RecordPending, OpFrame, At
  <2>2. pc'[o] = "done" /\ \A q \in Ops \ {o} : pc'[q] = pc[q]
    BY <1>2, <1>7 DEF RecordPending
  <2>3. QED
    BY <1>1, <2>1, <2>2 DEF Touches, Persists, Stage
<1>8. CASE ServiceAsks(o)
  <2>1. /\ UNCHANGED <<run, upload>> /\ pc[o] = "idle" /\ Kind[o] = "asked"
        /\ wire' = wire \cup {<<o, "FileUpload">>}
    BY <1>8 DEF ServiceAsks, uploads, At
  <2>2. pc'[o] = "done" /\ \A q \in Ops \ {o} : pc'[q] = pc[q]
    BY <1>2, <1>8 DEF ServiceAsks
  <2>3. QED
    BY <1>1, <1>3, <2>1, <2>2 DEF Touches, Persists, Stage
<1>9. QED
  BY <1>4, <1>5, <1>6, <1>7, <1>8 DEF Operation

\* The steps of a session of o.
LEMMA SessionStages ==
  ASSUME TypeOK, EveryStage, NEW o \in Ops, HandleFileUpload(o) \/ RunUpload(o)
  PROVE  Touches(o) /\ Persists(o) /\ Stage(o)' /\ UNCHANGED pc
<1>1. Stage(o)
  BY DEF EveryStage
<1>2. ASSUME NEW l, RunTo(o, l)
      PROVE  run'[o] = l /\ \A q \in Ops \ {o} : run'[q] = run[q]
  BY <1>2 DEF RunTo, TypeOK
<1>3. UNCHANGED pc
  BY DEF HandleFileUpload, RunUpload, UploadTakesSlot, UploadMarksSlot, UploadCancelled,
         UploadFails, UploadStarts, UploadNextChunk, UploadSendsChunk,
         UploadSendsLastChunk, UploadEnds, UploadFrame
<1>4. CASE HandleFileUpload(o)
  <2> DEFINE u == IF activeUploads[Path[o]] = NoUpload THEN <<o, "session">>
                                                       ELSE activeUploads[Path[o]]
  <2>1. <<o, "FileUpload">> \in wire /\ wire' = wire \ {<<o, "FileUpload">>}
    BY <1>4 DEF HandleFileUpload
  <2>2. u # NoUpload
    BY Names
  <2>3. \/ /\ upload' = [upload EXCEPT ![o] = u]
           /\ RunTo(o, IF u \in SlotHeld THEN "start" ELSE "wait")
        \/ UNCHANGED <<upload, run>>
    BY <1>4 DEF HandleFileUpload
  <2> HIDE DEF u
  <2>4. CASE UNCHANGED <<upload, run>>
    BY <1>1, <1>3, <2>1, <2>4 DEF Touches, Persists, Stage
  <2>5. CASE /\ upload' = [upload EXCEPT ![o] = u]
             /\ RunTo(o, IF u \in SlotHeld THEN "start" ELSE "wait")
    <3>1. run'[o] \in {"start", "wait"} /\ \A q \in Ops \ {o} : run'[q] = run[q]
      BY <1>2, <2>5
    <3>2. upload'[o] = u /\ \A q \in Ops \ {o} : upload'[q] = upload[q]
      BY <2>5 DEF TypeOK
    <3>3. Touches(o)
      BY <1>3, <2>1, <3>1, <3>2 DEF Touches
    <3>4. QED
      BY <1>1, <1>3, <2>1, <2>2, <3>1, <3>2, <3>3 DEF Persists, Stage
  <2>6. QED
    BY <2>3, <2>4, <2>5
<1>5. CASE UploadSendsLastChunk(o)
  <2>1. UNCHANGED upload /\ run[o] = "send" /\ wire' = wire \cup {<<o, "Ack">>}
    BY <1>5 DEF UploadSendsLastChunk
  <2>2. run'[o] = "last" /\ \A q \in Ops \ {o} : run'[q] = run[q]
    BY <1>2, <1>5 DEF UploadSendsLastChunk
  <2>3. QED
    BY <1>1, <1>3, <2>1, <2>2 DEF Touches, Persists, Stage
<1>6. CASE RunUpload(o) /\ ~UploadSendsLastChunk(o)
  <2>1. /\ UNCHANGED <<upload, wire>>
        /\ run[o] \in {"wait", "slot", "start", "chunk", "send", "last"}
    BY <1>6 DEF RunUpload, UploadTakesSlot, UploadMarksSlot, UploadCancelled,
                UploadFails, UploadStarts, UploadNextChunk, UploadSendsChunk, UploadEnds
  <2>2. /\ run'[o] \in {"slot", "start", "chunk", "send", "over"}
        /\ run[o] \in {"last", "over"} => run'[o] = "over"
        /\ \A q \in Ops \ {o} : run'[q] = run[q]
    BY <1>2, <1>6 DEF RunUpload, UploadTakesSlot, UploadMarksSlot, UploadCancelled,
                      UploadFails, UploadStarts, UploadNextChunk, UploadSendsChunk,
                      UploadEnds
  <2>3. QED
    BY <1>1, <1>3, <2>1, <2>2 DEF Touches, Persists, Stage
<1>7. QED
  BY <1>3, <1>4, <1>5, <1>6

\* The steps of the read loop about an acknowledgment of o.
LEMMA AckStages ==
  ASSUME EveryStage, NEW o \in Ops, HandleAck(o) \/ RequestRefused(o)
  PROVE  /\ Touches(o) /\ Persists(o) /\ Stage(o)' /\ UNCHANGED <<pc, uploads>>
<1>1. Stage(o)
  BY DEF EveryStage
<1>2. UNCHANGED <<pc, uploads>> /\ wire' \subseteq wire
  BY DEF HandleAck, HandleModifyAck, HandleDeleteAck, HandleRenameAck, RequestRefused,
         Read, AckFrame
<1>3. QED
  BY <1>1, <1>2 DEF Touches, Persists, Stage, uploads

-----------------------------------------------------------------------------
(* Which uploads were made, and which are active.                            *)

\* A step that makes no upload and cancels no active one.
LEMMA NothingMade ==
  ASSUME TypeOK, Fresh, \A o \in Ops : Persists(o),
         \A v \in SlotHeld' \cup Cancelled' : Made(v),
         \A p \in Paths : activeUploads'[p] # NoUpload =>
           activeUploads'[p] = activeUploads[p] /\ activeUploads[p] \notin Cancelled',
         \A o \in Ops : upload'[o] # NoUpload => Made(upload'[o]),
         ActiveOfPath
  PROVE  Fresh' /\ ActiveOfPath'
<1>1. ASSUME NEW v, v # NoUpload, Made(v)'
      PROVE  Made(v)
  <2>1. CASE v \in SlotHeld' \cup Cancelled'
    BY <2>1
  <2>2. CASE \E p \in Paths : activeUploads'[p] = v
    BY <1>1, <2>2 DEF Made
  <2>3. CASE \E o \in Ops : upload'[o] = v
    BY <1>1, <2>3
  <2>4. QED
    BY <1>1, <2>1, <2>2, <2>3 DEF Made
<1>2. ASSUME NEW o \in Ops
      PROVE  /\ Made(<<o, "check">>)'   => Kind[o] = "upload" /\ pc'[o] = "done"
             /\ Made(<<o, "session">>)' => run'[o] # "none"
  <2>1. /\ Made(<<o, "check">>)'   => Made(<<o, "check">>)
        /\ Made(<<o, "session">>)' => Made(<<o, "session">>)
    BY <1>1, Names
  <2>2. QED
    BY <2>1 DEF Fresh, Persists
<1>3. Fresh'
  BY <1>2 DEF Fresh
<1>4. ActiveOfPath'
  BY DEF ActiveOfPath
<1>5. QED
  BY <1>3, <1>4

\* Cancelling the upload of a path cancels no other active upload.
LEMMA CancelMakesNothing ==
  ASSUME TypeOK, ActiveOfPath, NEW p \in Paths, CancelUpload(p)
  PROVE  /\ \A v \in SlotHeld' \cup Cancelled' : Made(v)
         /\ \A q \in Paths : activeUploads'[q] # NoUpload =>
              activeUploads'[q] = activeUploads[q] /\ activeUploads[q] \notin Cancelled'
<1>1. /\ SlotHeld' \subseteq SlotHeld
      /\ Cancelled' = Cancelled \cup ({activeUploads[p]} \ {NoUpload})
      /\ activeUploads'[p] = NoUpload
      /\ \A q \in Paths : q # p => activeUploads'[q] = activeUploads[q]
  BY CancelTypes
<1>2. \A v \in SlotHeld' \cup Cancelled' : Made(v)
  BY <1>1 DEF Made
<1>3. ASSUME NEW q \in Paths, activeUploads'[q] # NoUpload
      PROVE  activeUploads'[q] = activeUploads[q] /\ activeUploads[q] \notin Cancelled'
  <2>1. q # p /\ activeUploads'[q] = activeUploads[q]
    BY <1>1, <1>3
  <2>2. activeUploads[q] # NoUpload
    BY <1>3, <2>1
  <2>3. activeUploads[q] \notin Cancelled /\ Path[activeUploads[q][1]] = q
    BY <2>2 DEF ActiveOfPath
  <2>4. activeUploads[p] # NoUpload => Path[activeUploads[p][1]] = p
    BY DEF ActiveOfPath
  <2>5. QED
    BY <1>1, <2>1, <2>3, <2>4
<1>4. QED
  BY <1>2, <1>3

\* The goroutine of o makes an upload only when it records what it sent.
LEMMA OperationMakes ==
  ASSUME TypeOK, Stages, NEW o \in Ops, \A q \in Ops : Persists(q),
         Begin(o) \/ Operation(o) \/ ServiceAsks(o), UNCHANGED upload
  PROVE  Fresh' /\ ActiveOfPath'
<1> USE DEF Stages
<1>1. Path[o] \in Paths
  BY Names
<1>2. \A q \in Ops : upload'[q] # NoUpload => Made(upload'[q])
  BY DEF Made
<1>3. CASE UNCHANGED <<activeUploads, SlotHeld, Cancelled>>
  <2>1. \A v \in SlotHeld' \cup Cancelled' : Made(v)
    BY <1>3 DEF Made
  <2>2. \A p \in Paths : activeUploads'[p] # NoUpload =>
          activeUploads'[p] = activeUploads[p] /\ activeUploads[p] \notin Cancelled'
    BY <1>3 DEF ActiveOfPath
  <2>3. QED
    BY <1>2, <2>1, <2>2, NothingMade
<1>4. CASE CancelUpload(Path[o])
  <2>1. PICK p \in Paths : p = Path[o]
    BY <1>1
  <2>2. CancelUpload(p)
    BY <1>4, <2>1
  <2>3. QED
    BY <1>2, <2>2, CancelMakesNothing, NothingMade
<1>5. CASE RecordPending(o) /\ Kind[o] = "upload"
  <2> DEFINE u == <<o, "check">>
  <2>1. /\ activeUploads' = [activeUploads EXCEPT ![Path[o]] = u]
        /\ SlotHeld' = SlotHeld \cup {u} /\ UNCHANGED Cancelled
        /\ pc[o] = "sent" /\ pc'[o] = "done"
    BY <1>5 DEF RecordPending, At, Goto, TypeOK
  <2>2. activeUploads'[Path[o]] = u
        /\ \A p \in Paths : p # Path[o] => activeUploads'[p] = activeUploads[p]
    BY <1>1, <2>1 DEF TypeOK
  <2>3. ~Made(u)
    BY <2>1 DEF Fresh
  <2>4. ASSUME NEW v, Made(v)', v # u
        PROVE  Made(v)
    BY <2>1, <2>2, <2>4 DEF Made
  <2>5. ASSUME NEW q \in Ops
        PROVE  /\ Made(<<q, "check">>)'   => Kind[q] = "upload" /\ pc'[q] = "done"
               /\ Made(<<q, "session">>)' => run'[q] # "none"
    <3>1. /\ Made(<<q, "check">>)'   => q = o \/ Made(<<q, "check">>)
          /\ Made(<<q, "session">>)' => Made(<<q, "session">>)
      BY <2>4
    <3>2. QED
      BY <1>5, <2>1, <3>1 DEF Fresh, Persists
  <2>6. Fresh'
    BY <2>5 DEF Fresh
  <2>7. ActiveOfPath'
    <3>1. u \notin Cancelled
      BY <2>3 DEF Made
    <3>2. QED
      BY <2>1, <2>2, <3>1 DEF ActiveOfPath
  <2>8. QED
    BY <2>6, <2>7
<1>6. QED
  BY <1>3, <1>4, <1>5 DEF Begin, Operation, TakeSlot, Recheck, SendSucceeds, SendFails,
                          RecordPending, ServiceAsks, uploads

\* A session makes an upload only when it finds none for its path.
LEMMA SessionMakes ==
  ASSUME TypeOK, Stages, NEW o \in Ops, \A q \in Ops : Persists(q),
         HandleFileUpload(o) \/ RunUpload(o)
  PROVE  Fresh' /\ ActiveOfPath'
<1> USE DEF Stages
<1>1. Path[o] \in Paths
  BY Names
<1>2. (\A q \in Ops : upload'[q] = upload[q]) =>
        \A q \in Ops : upload'[q] # NoUpload => Made(upload'[q])
  BY DEF Made
<1>3. CASE HandleFileUpload(o)
  <2> DEFINE u == IF activeUploads[Path[o]] = NoUpload THEN <<o, "session">>
                                                       ELSE activeUploads[Path[o]]
  <2>1. <<o, "FileUpload">> \in wire /\ UNCHANGED <<SlotHeld, Cancelled>>
    BY <1>3 DEF HandleFileUpload
  <2>2. run[o] = "none"
    BY <2>1 DEF EveryStage, Stage
  <2>3. ~Made(<<o, "session">>)
    BY <2>2 DEF Fresh
  <2>4. \A v \in SlotHeld' \cup Cancelled' : Made(v)
    BY <2>1 DEF Made
  <2>5. CASE UNCHANGED <<activeUploads, upload, run>>
    <3>1. \A p \in Paths : activeUploads'[p] # NoUpload =>
            activeUploads'[p] = activeUploads[p] /\ activeUploads[p] \notin Cancelled'
      BY <2>1, <2>5 DEF ActiveOfPath
    <3>2. QED
      BY <1>2, <2>4, <2>5, <3>1, NothingMade
  <2>6. CASE /\ activeUploads' = [activeUploads EXCEPT ![Path[o]] = u]
             /\ upload' = [upload EXCEPT ![o] = u]
             /\ RunTo(o, IF u \in SlotHeld THEN "start" ELSE "wait")
    <3>1. /\ u # NoUpload
          /\ u = <<o, "session">> \/ (u = activeUploads[Path[o]] /\ Made(u))
      BY <1>1, Names DEF Made
    <3>2. u \notin Cancelled /\ Path[u[1]] = Path[o]
      <4>1. <<o, "session">> \notin Cancelled /\ <<o, "session">>[1] = o
        BY <2>3 DEF Made
      <4>2. activeUploads[Path[o]] # NoUpload =>
              /\ activeUploads[Path[o]] \notin Cancelled
              /\ Path[activeUploads[Path[o]][1]] = Path[o]
        BY <1>1 DEF ActiveOfPath
      <4>3. QED
        BY <4>1, <4>2
    <3>3. run'[o] # "none"
      BY <2>6 DEF RunTo, TypeOK
    <3> HIDE DEF u
    <3>4. /\ activeUploads'[Path[o]] = u /\ upload'[o] = u
          /\ \A p \in Paths : p # Path[o] => activeUploads'[p] = activeUploads[p]
          /\ \A q \in Ops : q # o => upload'[q] = upload[q]
      BY <1>1, <2>6 DEF TypeOK
    <3>5. ASSUME NEW v, Made(v)', v # u
          PROVE  Made(v)
      BY <2>1, <3>4, <3>5 DEF Made
    <3>6. ASSUME NEW q \in Ops
          PROVE  /\ Made(<<q, "check">>)'   => Kind[q] = "upload" /\ pc'[q] = "done"
                 /\ Made(<<q, "session">>)' => run'[q] # "none"
      <4>1. /\ Made(<<q, "check">>)'   => Made(<<q, "check">>)
            /\ Made(<<q, "session">>)' => q = o \/ Made(<<q, "session">>)
        BY <3>1, <3>5
      <4>2. QED
        BY <3>3, <4>1 DEF Fresh, Persists
    <3>7. Fresh'
      BY <3>6 DEF Fresh
    <3>8. ActiveOfPath'
      BY <2>1, <3>2, <3>4 DEF ActiveOfPath
    <3>9. QED
      BY <3>7, <3>8
  <2>7. QED
    BY <1>3, <2>5, <2>6 DEF HandleFileUpload
<1>4. CASE UploadCancelled(o)
  <2>1. PICK p \in Paths : p = Path[o]
    BY <1>1
  <2>2. CancelUpload(p) /\ UNCHANGED upload
    BY <1>4, <2>1 DEF UploadCancelled
  <2>3. QED
    BY <1>2, <2>2, CancelMakesNothing, NothingMade
<1>5. CASE RunUpload(o) /\ ~UploadCancelled(o)
  <2>1. UNCHANGED <<Cancelled, upload>> /\ SlotHeld' \subseteq SlotHeld \cup {upload[o]}
    BY <1>5 DEF RunUpload, UploadTakesSlot, UploadMarksSlot, UploadFails, UploadStarts,
                UploadNextChunk, UploadSendsChunk, UploadSendsLastChunk, UploadEnds
  <2>2. \/ UNCHANGED activeUploads
        \/ activeUploads' = [activeUploads EXCEPT ![Path[o]] = NoUpload]
    BY <1>5 DEF RunUpload, UploadTakesSlot, UploadMarksSlot, UploadFails, UploadStarts,
                UploadNextChunk, UploadSendsChunk, UploadSendsLastChunk, UploadEnds
  <2>3. \A v \in SlotHeld' \cup Cancelled' : Made(v)
    BY <2>1 DEF Made
  <2>4. \A p \in Paths : activeUploads'[p] # NoUpload =>
          activeUploads'[p] = activeUploads[p] /\ activeUploads[p] \notin Cancelled'
    <3>1. \A p \in Paths : activeUploads'[p] # NoUpload => activeUploads'[p] = activeUploads[p]
      BY <1>1, <2>2 DEF TypeOK
    <3>2. QED
      BY <2>1, <3>1 DEF ActiveOfPath
  <2>5. QED
    BY <1>2, <2>1, <2>3, <2>4, NothingMade
<1>6. QED
  BY <1>3, <1>4, <1>5

\* The read loop makes no upload, and a lost connection none either; a stall
\* cancels every active one.
LEMMA OthersMake ==
  ASSUME TypeOK, Stages, \A q \in Ops : Persists(q),
         UNCHANGED uploads \/ (CleanupOnTimeout /\ UNCHANGED upload)
  PROVE  Fresh' /\ ActiveOfPath'
<1> USE DEF Stages
<1>1. UNCHANGED upload
  BY DEF uploads
<1>2. \A q \in Ops : upload'[q] # NoUpload => Made(upload'[q])
  BY <1>1 DEF Made
<1>3. CASE UNCHANGED uploads
  <2>1. \A v \in SlotHeld' \cup Cancelled' : Made(v)
    BY <1>3 DEF Made, uploads
  <2>2. \A p \in Paths : activeUploads'[p] # NoUpload =>
          activeUploads'[p] = activeUploads[p] /\ activeUploads[p] \notin Cancelled'
    BY <1>3 DEF ActiveOfPath, uploads
  <2>3. QED
    BY <1>2, <2>1, <2>2, NothingMade
<1>4. CASE CleanupOnTimeout
  <2>1. /\ SlotHeld' \subseteq SlotHeld
        /\ Cancelled' = Cancelled \cup ({activeUploads[p] : p \in Paths} \ {NoUpload})
        /\ \A p \in Paths : activeUploads'[p] = NoUpload
    BY <1>4 DEF CleanupOnTimeout
  <2>2. \A v \in SlotHeld' \cup Cancelled' : Made(v)
    BY <2>1 DEF Made
  <2>3. \A p \in Paths : activeUploads'[p] # NoUpload =>
          activeUploads'[p] = activeUploads[p] /\ activeUploads[p] \notin Cancelled'
    BY <2>1
  <2>4. QED
    BY <1>2, <2>2, <2>3, NothingMade
<1>5. QED
  BY <1>3, <1>4

\* What every step advances: no operation and no session goes back to its start.
LEMMA StepStages ==
  ASSUME TypeOK, Stages, [Next]_vars
  PROVE  Stages' /\ \A q \in Ops : Persists(q)
<1> USE DEF Stages
<1>1. ASSUME NEW o \in Ops, Touches(o), Persists(o)
      PROVE  \A q \in Ops : Persists(q)
  <2>1. ASSUME NEW q \in Ops, q # o
        PROVE  Persists(q)
    BY <1>1, <2>1 DEF Touches, Persists
  <2>2. QED
    BY <1>1, <2>1
<1>2. ASSUME NEW o \in Ops, Begin(o) \/ Operation(o) \/ ServiceAsks(o)
      PROVE  Stages' /\ \A q \in Ops : Persists(q)
  <2>1. Touches(o) /\ Persists(o) /\ Stage(o)' /\ UNCHANGED upload
    BY <1>2, OperationStages
  <2>2. EveryStage'
    BY <2>1, OneStage
  <2>3. \A q \in Ops : Persists(q)
    BY <1>1, <2>1
  <2>4. Fresh' /\ ActiveOfPath'
    BY <1>2, <2>1, <2>3, OperationMakes
  <2>5. QED
    BY <2>2, <2>3, <2>4
<1>3. ASSUME NEW o \in Ops, HandleFileUpload(o) \/ RunUpload(o)
      PROVE  Stages' /\ \A q \in Ops : Persists(q)
  <2>1. Touches(o) /\ Persists(o) /\ Stage(o)'
    BY <1>3, SessionStages
  <2>2. EveryStage'
    BY <2>1, OneStage
  <2>3. \A q \in Ops : Persists(q)
    BY <1>1, <2>1
  <2>4. Fresh' /\ ActiveOfPath'
    BY <1>3, <2>3, SessionMakes
  <2>5. QED
    BY <2>2, <2>3, <2>4
<1>4. ASSUME NEW o \in Ops, HandleAck(o) \/ RequestRefused(o)
      PROVE  Stages' /\ \A q \in Ops : Persists(q)
  <2>1. Touches(o) /\ Persists(o) /\ Stage(o)' /\ UNCHANGED uploads
    BY <1>4, AckStages
  <2>2. EveryStage'
    BY <2>1, OneStage
  <2>3. \A q \in Ops : Persists(q)
    BY <1>1, <2>1
  <2>4. Fresh' /\ ActiveOfPath'
    BY <2>1, <2>3, OthersMake
  <2>5. QED
    BY <2>2, <2>3, <2>4
<1>5. ASSUME UNCHANGED <<pc, run, upload>>, wire' \subseteq wire,
             UNCHANGED uploads \/ CleanupOnTimeout
      PROVE  Stages' /\ \A q \in Ops : Persists(q)
  <2>1. EveryStage'
    BY <1>5 DEF EveryStage, Stage
  <2>2. \A q \in Ops : Persists(q)
    BY <1>5 DEF Persists
  <2>3. Fresh' /\ ActiveOfPath'
    BY <1>5, <2>2, OthersMake
  <2>4. QED
    BY <2>1, <2>2, <2>3
<1>6. CASE \/ \E p \in Paths : ReadRemoteChange(p)
           \/ ApplyRemoteChange \/ ConnectionLost \/ Reconnect \/ CleanupOnTimeout
           \/ UNCHANGED vars
  <2>1. UNCHANGED <<pc, run, upload>> /\ wire' \subseteq wire
    BY <1>6 DEF ReadRemoteChange, ApplyRemoteChange, ConnectionLost, Reconnect,
                CleanupOnTimeout, uploads, vars
  <2>2. UNCHANGED uploads \/ CleanupOnTimeout
    BY <1>6 DEF ReadRemoteChange, ApplyRemoteChange, ConnectionLost, Reconnect,
                uploads, vars
  <2>3. QED
    BY <1>5, <2>1, <2>2
<1>7. QED
  BY <1>2, <1>3, <1>4, <1>6 DEF Next

\* Every step keeps the types.
LEMMA StepTypes ==
  ASSUME TypeOK, Stages, [Next]_vars
  PROVE  TypeOK'
<1>1. CASE UNCHANGED vars
  BY <1>1 DEF vars, netVars, tokens, reading, settles, uploads, TypeOK
<1>2. QED
  BY <1>1, OperationTypes, SessionTypes, ReaderTypes, NetTypes DEF Next, Stages

-----------------------------------------------------------------------------
(* Who a token in the channel of slots is for.                               *)

\* o took a slot, or would have: it is between the slot and the send, is sent
\* and not answered, or is uploading.
Claims(o) == \/ pc[o] \in {"recheck", "send"}
             \/ <<o, "Ack">> \in wire
             \/ Kind[o] = "upload" /\ <<o, "FileUpload">> \in wire
             \/ run[o] \in {"slot", "start", "chunk", "send"}

Claimants == {o \in Ops \ OpsOf("rename") : Claims(o)}

\* The tokens that were given back though another operation still claims one are
\* accounted for: by a stall cleanup, which takes all, by a cancelled upload,
\* whose token may be given back twice, or by a session that joined an upload.
TokensOwned ==
  Cardinality(Claimants)
    <= slots + MaxUploads * stalls + Cardinality(Cancelled) + Cardinality(Joined)

\* There are finitely many operations and uploads.
LEMMA Finite ==
  IsFiniteSet(Ops) /\ IsFiniteSet(ActiveUploads)
<1>1. IsFiniteSet(Ops)
  BY LocalOpsAssumption
<1>2. IsFiniteSet(Uploads)
  <2>1. Uploads \subseteq Ops
    BY DEF Uploads, OpsOf
  <2>2. QED
    BY <1>1, <2>1, FS_Subset
<1>3. IsFiniteSet({"check", "session"})
  <2>1. IsFiniteSet({"check"})
    BY FS_Singleton
  <2>2. IsFiniteSet({"check"} \cup {"session"})
    BY <2>1, FS_AddElement
  <2>3. {"check", "session"} = {"check"} \cup {"session"}
    OBVIOUS
  <2>4. QED
    BY <2>2, <2>3
<1>4. QED
  BY <1>1, <1>2, <1>3, FS_Product DEF ActiveUploads

\* How the sizes of two sets compare when they differ by one element at most.
LEMMA Sizes ==
  ASSUME NEW A, NEW B, IsFiniteSet(B)
  PROVE  /\ A \subseteq B => Cardinality(A) <= Cardinality(B)
         /\ \A e : A \subseteq B \cup {e} => Cardinality(A) <= Cardinality(B) + 1
         /\ \A e \in B : A \subseteq B \ {e} => Cardinality(A) <= Cardinality(B) - 1
<1>1. Cardinality(B) \in Nat
  BY FS_CardinalityType
<1>2. A \subseteq B => Cardinality(A) <= Cardinality(B)
  BY FS_Subset
<1>3. ASSUME NEW e, A \subseteq B \cup {e}
      PROVE  Cardinality(A) <= Cardinality(B) + 1
  <2>1. IsFiniteSet(B \cup {e}) /\ Cardinality(B \cup {e}) \in {Cardinality(B), Cardinality(B) + 1}
    BY FS_AddElement
  <2>2. Cardinality(A) <= Cardinality(B \cup {e})
    BY <1>3, <2>1, FS_Subset
  <2>3. IsFiniteSet(A)
    BY <1>3, <2>1, FS_Subset
  <2>4. Cardinality(A) \in Nat
    BY <2>3, FS_CardinalityType
  <2>5. QED
    BY <1>1, <2>1, <2>2, <2>4
<1>4. ASSUME NEW e \in B, A \subseteq B \ {e}
      PROVE  Cardinality(A) <= Cardinality(B) - 1
  <2>1. IsFiniteSet(B \ {e}) /\ Cardinality(B \ {e}) = Cardinality(B) - 1
    BY FS_RemoveElement
  <2>2. QED
    BY <1>4, <2>1, FS_Subset
<1>5. QED
  BY <1>2, <1>3, <1>4

\* What a step does to the claims and to the tokens.  It keeps both; an operation
\* takes a token with its claim; it gives one back with its claim; it gives one
\* back for an upload it cancels; it claims the token of an upload it joins; or a
\* stall takes back all.
Kept == slots' = slots /\ Claimants' \subseteq Claimants
Taken(o) == slots' = slots + 1 /\ Claimants' \subseteq Claimants \cup {o}
Returned(o) == /\ slots' >= slots - 1 /\ o \in Claimants
               /\ Claimants' \subseteq Claimants \ {o}
ReturnedFor(u) == /\ slots' >= slots - 1 /\ Claimants' \subseteq Claimants
                  /\ u \in Cancelled' /\ u \notin Cancelled
JoinedBy(o) == /\ slots' = slots /\ Claimants' \subseteq Claimants \cup {o}
               /\ o \in Joined' /\ o \notin Joined
TakenBack == stalls' = stalls + 1 /\ Claimants' \subseteq Claimants

Accounted == \/ Kept
             \/ \E o \in Ops : Taken(o) \/ Returned(o) \/ JoinedBy(o)
             \/ \E u \in ActiveUploads : ReturnedFor(u)
             \/ TakenBack

\* No step of these kinds leaves a claim without a token or a reason.
LEMMA AccountingStep ==
  ASSUME TypeOK, TypeOK', TokensOwned, Accounted,
         Cancelled \subseteq Cancelled', Joined \subseteq Joined',
         stalls' = stalls \/ TakenBack
  PROVE  TokensOwned'
<1>1. /\ IsFiniteSet(Claimants) /\ IsFiniteSet(Cancelled) /\ IsFiniteSet(Joined)
      /\ IsFiniteSet(Claimants') /\ IsFiniteSet(Cancelled') /\ IsFiniteSet(Joined')
  <2>1. /\ Claimants \subseteq Ops /\ Joined \subseteq Ops
        /\ Claimants' \subseteq Ops /\ Joined' \subseteq Ops
    BY DEF Claimants, Joined, OpsOf
  <2>2. Cancelled \subseteq ActiveUploads /\ Cancelled' \subseteq ActiveUploads
    BY DEF TypeOK
  <2>3. QED
    BY <2>1, <2>2, Finite, FS_Subset
<1>2. PICK m \in Nat : m = MaxUploads
  BY LocalOpsAssumption
<1>3. PICK c \in Nat, c2 \in Nat : c = Cardinality(Claimants) /\ c2 = Cardinality(Claimants')
  BY <1>1, FS_CardinalityType
<1>4. PICK k \in Nat, k2 \in Nat : k = Cardinality(Cancelled) /\ k2 = Cardinality(Cancelled')
  BY <1>1, FS_CardinalityType
<1>5. PICK j \in Nat, j2 \in Nat : j = Cardinality(Joined) /\ j2 = Cardinality(Joined')
  BY <1>1, FS_CardinalityType
<1>6. PICK s \in Nat, s2 \in Nat : s = slots /\ s2 = slots' /\ s <= m
  BY <1>2 DEF TypeOK
<1>7. PICK t \in Nat : t = stalls
  BY DEF TypeOK
<1>8. PICK n \in Nat : n = m * t
  OBVIOUS
<1>9. c <= s + n + k + j
  BY <1>2, <1>3, <1>4, <1>5, <1>6, <1>7, <1>8 DEF TokensOwned
<1>10. k <= k2 /\ j <= j2
  BY <1>1, <1>4, <1>5, Sizes
<1>11. SUFFICES c2 <= s2 + m * stalls' + k2 + j2
  BY <1>2, <1>3, <1>4, <1>5, <1>6 DEF TokensOwned
<1>12. CASE TakenBack
  <2>1. c2 <= c
    BY <1>1, <1>3, <1>12, Sizes DEF TakenBack
  <2>2. m * stalls' = n + m
    BY <1>7, <1>8, <1>12 DEF TakenBack
  <2>3. c2 <= s2 + (n + m) + k2 + j2
    <3>1. c2 <= s + n + k2 + j2
      BY <1>9, <1>10, <2>1
    <3>2. s <= s2 + m
      <4>1. s <= m
        BY <1>6
      <4>2. QED
        BY <4>1
    <3>3. QED
      BY <3>1, <3>2
  <2>4. QED
    BY <2>2, <2>3
<1>13. CASE stalls' = stalls
  <2>1. m * stalls' = n
    BY <1>7, <1>8, <1>13
  <2>2. SUFFICES c2 <= s2 + n + k2 + j2
    BY <2>1
  <2>3. CASE Kept
    <3>1. c2 <= c /\ s2 = s
      BY <1>1, <1>3, <1>6, <2>3, Sizes DEF Kept
    <3>2. QED
      BY <1>9, <1>10, <3>1
  <2>4. ASSUME NEW o \in Ops, Taken(o)
        PROVE  c2 <= s2 + n + k2 + j2
    <3>1. c2 <= c + 1 /\ s2 = s + 1
      BY <1>1, <1>3, <1>6, <2>4, Sizes DEF Taken
    <3>2. QED
      BY <1>9, <1>10, <3>1
  <2>5. ASSUME NEW o \in Ops, Returned(o)
        PROVE  c2 <= s2 + n + k2 + j2
    <3>1. c2 <= c - 1 /\ s2 >= s - 1
      BY <1>1, <1>3, <1>6, <2>5, Sizes DEF Returned
    <3>2. QED
      BY <1>9, <1>10, <3>1
  <2>6. ASSUME NEW o \in Ops, JoinedBy(o)
        PROVE  c2 <= s2 + n + k2 + j2
    <3>1. c2 <= c + 1 /\ s2 = s
      BY <1>1, <1>3, <1>6, <2>6, Sizes DEF JoinedBy
    <3>2. o \in Joined' /\ Joined \subseteq Joined' \ {o}
      BY <2>6 DEF JoinedBy
    <3>3. j <= j2 - 1
      BY <1>1, <1>5, <3>2, Sizes
    <3>4. QED
      BY <1>9, <1>10, <3>1, <3>3
  <2>7. ASSUME NEW u \in ActiveUploads, ReturnedFor(u)
        PROVE  c2 <= s2 + n + k2 + j2
    <3>1. c2 <= c /\ s2 >= s - 1
      BY <1>1, <1>3, <1>6, <2>7, Sizes DEF ReturnedFor
    <3>2. u \in Cancelled' /\ Cancelled \subseteq Cancelled' \ {u}
      BY <2>7 DEF ReturnedFor
    <3>3. k <= k2 - 1
      BY <1>1, <1>4, <3>2, Sizes
    <3>4. QED
      BY <1>9, <1>10, <3>1, <3>3
  <2>8. CASE TakenBack
    BY <1>7, <1>13, <2>8 DEF TakenBack
  <2>9. QED
    BY <2>3, <2>4, <2>5, <2>6, <2>7, <2>8 DEF Accounted
<1>14. QED
  BY <1>12, <1>13

\* An action of o changes no other claim.
LEMMA OneClaims ==
  ASSUME NEW o \in Ops, Touches(o)
  PROVE  /\ Claimants' \subseteq Claimants \cup {o}
         /\ ~Claims(o)' => Claimants' \subseteq Claimants \ {o}
         /\ Claims(o) \/ ~Claims(o)' \/ Kind[o] = "rename" => Claimants' \subseteq Claimants
<1>1. ASSUME NEW q \in Ops, q # o, Claims(q)'
      PROVE  Claims(q)
  BY <1>1 DEF Touches, Claims
<1>2. QED
  BY <1>1 DEF Claimants, OpsOf

\* What is Cancelled stays so, and the upload of a session stays joined.
LEMMA ReasonsStay ==
  ASSUME TypeOK, Stages, \A o \in Ops : Persists(o), [Next]_vars
  PROVE  Cancelled \subseteq Cancelled' /\ Joined \subseteq Joined'
<1>1. Joined \subseteq Joined'
  <2>1. ASSUME NEW o \in Joined
        PROVE  upload'[o] = upload[o]
    <3>1. o \in Ops /\ upload[o] # NoUpload
      BY <2>1 DEF Joined, OpsOf
    <3>2. run[o] # "none"
      BY <3>1 DEF Stages, EveryStage, Stage
    <3>3. QED
      BY <3>1, <3>2 DEF Persists
  <2>2. QED
    BY <2>1 DEF Joined
<1>2. Cancelled \subseteq Cancelled'
  <2>1. ASSUME NEW o \in Ops, Begin(o) \/ Operation(o) \/ ServiceAsks(o)
        PROVE  Cancelled \subseteq Cancelled'
    BY <2>1 DEF Begin, Operation, TakeSlot, Recheck, SendSucceeds, SendFails,
                RecordPending, ServiceAsks, CancelUpload, uploads
  <2>2. ASSUME NEW o \in Ops, HandleFileUpload(o) \/ RunUpload(o)
        PROVE  Cancelled \subseteq Cancelled'
    BY <2>2 DEF HandleFileUpload, RunUpload, UploadTakesSlot, UploadMarksSlot,
                UploadCancelled, UploadFails, UploadStarts, UploadNextChunk,
                UploadSendsChunk, UploadSendsLastChunk, UploadEnds, CancelUpload
  <2>3. ASSUME NEW o \in Ops, HandleAck(o) \/ RequestRefused(o)
        PROVE  Cancelled \subseteq Cancelled'
    BY <2>3 DEF HandleAck, HandleModifyAck, HandleDeleteAck, HandleRenameAck,
                RequestRefused, AckFrame, uploads
  <2>4. CASE \/ \E p \in Paths : ReadRemoteChange(p)
             \/ ApplyRemoteChange \/ ConnectionLost \/ Reconnect \/ CleanupOnTimeout
             \/ UNCHANGED vars
    BY <2>4 DEF ReadRemoteChange, ApplyRemoteChange, ConnectionLost, Reconnect,
                CleanupOnTimeout, uploads, vars
  <2>5. QED
    BY <2>1, <2>2, <2>3, <2>4 DEF Next
<1>3. QED
  BY <1>1, <1>2

\* What a release on a channel takes from it.
LEMMA Releases ==
  ASSUME TypeOK
  PROVE  /\ ReleaseSlot => slots' >= slots - 1
         /\ \A b \in BOOLEAN : ReleaseIf(b) => slots' >= slots - 1
         /\ \A b \in BOOLEAN : ReleaseIf(b) /\ ~b => slots' = slots
<1>1. slots \in Nat
  BY LocalOpsAssumption DEF TypeOK
<1>2. ReleaseSlot => slots' >= slots - 1
  BY <1>1 DEF ReleaseSlot
<1>3. QED
  BY <1>1, <1>2 DEF ReleaseIf, tokens

\* Cancelling an upload gives a token back only with the flag that says so.
LEMMA CancelAccounts ==
  ASSUME TypeOK, ActiveOfPath, NEW p \in Paths, CancelUpload(p)
  PROVE  /\ slots' >= slots - 1
         /\ \/ slots' = slots
            \/ \E u \in ActiveUploads : u \in Cancelled' /\ u \notin Cancelled
<1> DEFINE b == activeUploads[p] \in SlotHeld
<1>1. ReleaseIf(b) /\ b \in BOOLEAN
  BY DEF CancelUpload
<1>2. b => /\ activeUploads[p] \in ActiveUploads
           /\ activeUploads[p] \in Cancelled' /\ activeUploads[p] \notin Cancelled
  <2>1. b => activeUploads[p] \in ActiveUploads
    BY DEF TypeOK
  <2>2. b => activeUploads[p] # NoUpload
    BY <2>1, Names
  <2>3. Cancelled' = Cancelled \cup ({activeUploads[p]} \ {NoUpload})
    BY DEF CancelUpload
  <2>4. QED
    BY <2>1, <2>2, <2>3 DEF ActiveOfPath
<1> HIDE DEF b
<1>3. slots' >= slots - 1 /\ (~b => slots' = slots)
  BY <1>1, Releases
<1>4. QED
  BY <1>2, <1>3

\* The goroutine of an operation accounts for its token.
LEMMA OperationAccounts ==
  ASSUME TypeOK, Stages, NEW o \in Ops, Begin(o) \/ Operation(o) \/ ServiceAsks(o)
  PROVE  Accounted
<1>1. Touches(o) /\ UNCHANGED <<run, upload>> /\ Stage(o)'
  BY OperationStages DEF Stages
<1>2. Stage(o)
  BY DEF Stages, EveryStage
<1>3. o \in Claimants <=> Claims(o) /\ Kind[o] # "rename"
  BY DEF Claimants, OpsOf
<1>4. ASSUME NEW l, Goto(o, l)
      PROVE  pc'[o] = l
  BY <1>4 DEF Goto, TypeOK
<1>5. CASE Begin(o)
  <2>1. pc[o] = "idle" /\ pc'[o] \in {"wait", "skipped"} /\ UNCHANGED wire
    BY <1>4, <1>5 DEF Begin, At
  <2>2. ~Claims(o)'
    BY <1>1, <1>2, <2>1 DEF Claims, Stage
  <2>3. Claimants' \subseteq Claimants
    BY <1>1, <2>2, OneClaims
  <2>4. CASE CancelUpload(Path[o])
    <3>1. PICK p \in Paths : p = Path[o]
      BY Names
    <3>2. CancelUpload(p)
      BY <2>4, <3>1
    <3>3. /\ slots' >= slots - 1
          /\ \/ slots' = slots
             \/ \E u \in ActiveUploads : u \in Cancelled' /\ u \notin Cancelled
      BY <3>2, CancelAccounts DEF Stages
    <3>4. QED
      BY <2>3, <3>3 DEF Accounted, Kept, ReturnedFor
  <2>5. CASE UNCHANGED tokens
    BY <2>3, <2>5 DEF Accounted, Kept, tokens
  <2>6. QED
    BY <1>5, <2>4, <2>5 DEF Begin
<1>6. CASE TakeSlot(o)
  <2>1. CASE Kind[o] = "rename"
    <3>1. Claimants' \subseteq Claimants
      BY <1>1, <2>1, OneClaims
    <3>2. slots' = slots
      BY <1>6, <2>1 DEF TakeSlot, WaitForFifo
    <3>3. QED
      BY <3>1, <3>2 DEF Accounted, Kept
  <2>2. CASE Kind[o] # "rename"
    <3>1. Claimants' \subseteq Claimants \cup {o}
      BY <1>1, OneClaims
    <3>2. slots' = slots + 1
      BY <1>6, <2>2 DEF TakeSlot, WaitForSlot
    <3>3. QED
      BY <3>1, <3>2 DEF Accounted, Taken
  <2>3. QED
    BY <2>1, <2>2
<1>7. CASE Recheck(o)
  <2>1. pc[o] = "recheck" /\ UNCHANGED wire
    BY <1>7 DEF Recheck, At
  <2>2. Claims(o)
    BY <2>1 DEF Claims
  <2>3. CASE UNCHANGED tokens
    <3>1. Claimants' \subseteq Claimants
      BY <1>1, <2>2, OneClaims
    <3>2. QED
      BY <2>3, <3>1 DEF Accounted, Kept, tokens
  <2>4. CASE Goto(o, "skipped") /\ ReleaseSlot
    <3>1. pc'[o] = "skipped" /\ slots' >= slots - 1
      BY <1>4, <2>4, Releases
    <3>2. ~Claims(o)'
      BY <1>1, <1>2, <2>1, <3>1 DEF Claims, Stage
    <3>3. Claimants' \subseteq Claimants \ {o}
      BY <1>1, <3>2, OneClaims
    <3>4. Kind[o] # "rename"
      BY <1>2, <2>1, Names DEF Stage
    <3>5. QED
      BY <1>3, <2>2, <3>1, <3>3, <3>4 DEF Accounted, Returned
  <2>5. QED
    BY <1>7, <2>3, <2>4 DEF Recheck
<1>8. CASE SendSucceeds(o)
  <2>1. pc[o] = "send" /\ UNCHANGED tokens
    BY <1>8 DEF SendSucceeds, At
  <2>2. Claims(o)
    BY <2>1 DEF Claims
  <2>3. Claimants' \subseteq Claimants
    BY <1>1, <2>2, OneClaims
  <2>4. QED
    BY <2>1, <2>3 DEF Accounted, Kept, tokens
<1>9. CASE SendFails(o)
  <2>1. pc[o] = "send" /\ pc'[o] = "failed" /\ UNCHANGED wire
    BY <1>4, <1>9 DEF SendFails, At
  <2>2. Claims(o) /\ ~Claims(o)'
    BY <1>1, <1>2, <2>1 DEF Claims, Stage
  <2>3. Claimants' \subseteq Claimants \ {o}
    BY <1>1, <2>2, OneClaims
  <2>4. CASE Kind[o] = "rename"
    <3>1. slots' = slots
      BY <1>9, <2>4 DEF SendFails, ReleaseFifo
    <3>2. QED
      BY <2>3, <3>1 DEF Accounted, Kept
  <2>5. CASE Kind[o] # "rename"
    <3>1. slots' >= slots - 1
      BY <1>9, <2>5, Releases DEF SendFails
    <3>2. QED
      BY <1>3, <2>2, <2>3, <2>5, <3>1 DEF Accounted, Returned
  <2>6. QED
    BY <2>4, <2>5
<1>10. CASE RecordPending(o) \/ ServiceAsks(o)
  <2>1. UNCHANGED tokens
    BY <1>10 DEF RecordPending, ServiceAsks
  <2>2. Claims(o)' => Claims(o)
    <3>1. CASE RecordPending(o)
      <4>1. pc'[o] = "done" /\ UNCHANGED wire
        BY <1>4, <3>1 DEF RecordPending
      <4>2. QED
        BY <1>1, <4>1 DEF Claims
    <3>2. CASE ServiceAsks(o)
      <4>1. /\ pc'[o] = "done" /\ Kind[o] = "asked"
            /\ wire' = wire \cup {<<o, "FileUpload">>}
        BY <1>4, <3>2 DEF ServiceAsks
      <4>2. QED
        BY <1>1, <4>1 DEF Claims
    <3>3. QED
      BY <1>10, <3>1, <3>2
  <2>3. Claimants' \subseteq Claimants
    BY <1>1, <2>2, OneClaims
  <2>4. QED
    BY <2>1, <2>3 DEF Accounted, Kept, tokens
<1>11. QED
  BY <1>5, <1>6, <1>7, <1>8, <1>9, <1>10 DEF Operation

\* A session accounts for its token, and for the one of the upload it joins.
LEMMA SessionAccounts ==
  ASSUME TypeOK, Stages, NEW o \in Ops, HandleFileUpload(o) \/ RunUpload(o)
  PROVE  Accounted
<1>1. Touches(o) /\ Stage(o)' /\ UNCHANGED pc
  BY SessionStages DEF Stages
<1>2. Stage(o)
  BY DEF Stages, EveryStage
<1>3. ASSUME NEW l, RunTo(o, l)
      PROVE  run'[o] = l
  BY <1>3 DEF RunTo, TypeOK
<1>4. ASSUME Claims(o) \/ ~Claims(o)', slots' = slots
      PROVE  Accounted
  <2>1. Claimants' \subseteq Claimants
    BY <1>1, <1>4, OneClaims
  <2>2. QED
    BY <1>4, <2>1 DEF Accounted, Kept
<1>5. ASSUME o \in Uploads, Claims(o), ~Claims(o)', slots' >= slots - 1
      PROVE  Accounted
  <2>1. Claimants' \subseteq Claimants \ {o}
    BY <1>1, <1>5, OneClaims
  <2>2. o \in Claimants
    BY <1>5, Names DEF Claimants
  <2>3. QED
    BY <1>5, <2>1, <2>2 DEF Accounted, Returned
<1>6. CASE HandleFileUpload(o)
  <2> DEFINE u == IF activeUploads[Path[o]] = NoUpload THEN <<o, "session">>
                                                       ELSE activeUploads[Path[o]]
  <2>1. /\ <<o, "FileUpload">> \in wire /\ wire' = wire \ {<<o, "FileUpload">>}
        /\ slots' = slots
    BY <1>6 DEF HandleFileUpload
  <2>2. /\ o \in Uploads /\ run[o] = "none" /\ upload[o] = NoUpload
        /\ pc[o] \in {"sent", "done"} /\ <<o, "Ack">> \notin wire
    BY <1>2, <2>1 DEF Stage
  <2>3. CASE Kind[o] = "upload" \/ run'[o] \notin {"slot", "start", "chunk", "send"}
    <3>1. Claims(o) \/ ~Claims(o)'
      BY <1>1, <2>1, <2>2, <2>3 DEF Claims
    <3>2. QED
      BY <1>4, <2>1, <3>1
  <2>4. CASE Kind[o] # "upload" /\ run'[o] \in {"slot", "start", "chunk", "send"}
    <3>1. /\ upload' = [upload EXCEPT ![o] = u]
          /\ RunTo(o, IF u \in SlotHeld THEN "start" ELSE "wait")
      <4>1. run' # run
        BY <2>2, <2>4
      <4>2. QED
        BY <1>6, <4>1 DEF HandleFileUpload
    <3>2. u \in SlotHeld
      BY <1>3, <2>4, <3>1
    <3>3. Kind[o] = "asked" /\ Made(u) /\ u \in ActiveUploads /\ u # NoUpload
      BY <2>2, <2>4, <3>2, Names DEF Made, TypeOK
    <3>4. u[1] # o
      <4>1. ~Made(<<o, "check">>) /\ ~Made(<<o, "session">>)
        BY <2>2, <2>4 DEF Stages, Fresh
      <4>2. u # <<o, "check">> /\ u # <<o, "session">>
        BY <3>3, <4>1
      <4> HIDE DEF u
      <4>3. QED
        BY <3>3, <4>2 DEF ActiveUploads
    <3>5. upload'[o] = u
      BY <3>1 DEF TypeOK
    <3> HIDE DEF u
    <3>6. o \in Joined' /\ o \notin Joined
      BY <2>2, <3>3, <3>4, <3>5 DEF Joined, OpsOf
    <3>7. Claimants' \subseteq Claimants \cup {o}
      BY <1>1, OneClaims
    <3>8. QED
      BY <2>1, <3>6, <3>7 DEF Accounted, JoinedBy
  <2>5. QED
    BY <2>3, <2>4
<1>7. ASSUME run[o] # "none"
      PROVE  /\ o \in Uploads /\ pc[o] \in {"sent", "done"} /\ <<o, "FileUpload">> \notin wire
             /\ run[o] \notin {"last", "over"} => <<o, "Ack">> \notin wire
  BY <1>2, <1>7 DEF Stage
<1>8. CASE UploadTakesSlot(o)
  <2>1. slots' = slots + 1
    BY <1>8 DEF UploadTakesSlot, WaitForSlot
  <2>2. Claimants' \subseteq Claimants \cup {o}
    BY <1>1, OneClaims
  <2>3. QED
    BY <2>1, <2>2 DEF Accounted, Taken
<1>9. CASE UploadFails(o)
  <2>1. run[o] \in {"start", "send"} /\ run'[o] = "over" /\ UNCHANGED wire
    BY <1>3, <1>9 DEF UploadFails
  <2>2. Claims(o) /\ ~Claims(o)'
    BY <1>1, <1>7, <2>1 DEF Claims
  <2>3. slots' >= slots - 1
    <3> DEFINE b == upload[o] \in SlotHeld
    <3>1. ReleaseIf(b) /\ b \in BOOLEAN
      BY <1>9 DEF UploadFails
    <3> HIDE DEF b
    <3>2. QED
      BY <3>1, Releases
  <2>4. QED
    BY <1>5, <1>7, <2>1, <2>2, <2>3
<1>10. CASE UploadCancelled(o)
  <2>1. run[o] \in {"start", "chunk"} /\ run'[o] = "over" /\ UNCHANGED wire
    BY <1>3, <1>10 DEF UploadCancelled
  <2>2. Claims(o) /\ ~Claims(o)'
    BY <1>1, <1>7, <2>1 DEF Claims
  <2>3. PICK p \in Paths : p = Path[o]
    BY Names
  <2>4. CancelUpload(p)
    BY <1>10, <2>3 DEF UploadCancelled
  <2>5. slots' >= slots - 1
    BY <2>4, CancelAccounts DEF Stages
  <2>6. QED
    BY <1>5, <1>7, <2>1, <2>2, <2>5
<1>11. CASE \/ UploadMarksSlot(o) \/ UploadStarts(o) \/ UploadNextChunk(o)
            \/ UploadSendsChunk(o) \/ UploadSendsLastChunk(o)
  <2>1. slots' = slots /\ run[o] \in {"slot", "start", "chunk", "send"}
    BY <1>11 DEF UploadMarksSlot, UploadStarts, UploadNextChunk, UploadSendsChunk,
                 UploadSendsLastChunk
  <2>2. Claims(o)
    BY <2>1 DEF Claims
  <2>3. QED
    BY <1>4, <2>1, <2>2
<1>12. CASE UploadEnds(o)
  <2>1. slots' = slots /\ run'[o] = "over" /\ UNCHANGED wire
    BY <1>3, <1>12 DEF UploadEnds
  <2>2. Claims(o)' => Claims(o)
    BY <1>1, <2>1 DEF Claims
  <2>3. QED
    BY <1>4, <2>1, <2>2
<1>13. QED
  BY <1>6, <1>8, <1>9, <1>10, <1>11, <1>12 DEF RunUpload

\* An acknowledgment gives back the token of the operation it is for, and what
\* the service refuses keeps it.
LEMMA AckAccounts ==
  ASSUME TypeOK, Stages, NEW o \in Ops, HandleAck(o) \/ RequestRefused(o)
  PROVE  Accounted
<1>1. Touches(o) /\ UNCHANGED <<pc, uploads>>
  BY AckStages DEF Stages
<1>2. Stage(o)
  BY DEF Stages, EveryStage
<1>3. Claims(o)' => Claims(o)
  <2>1. wire' \subseteq wire
    BY DEF HandleAck, HandleModifyAck, HandleDeleteAck, HandleRenameAck, RequestRefused,
           Read
  <2>2. QED
    BY <1>1, <2>1 DEF Claims, uploads
<1>4. Claimants' \subseteq Claimants
  BY <1>1, <1>3, OneClaims
<1>5. CASE HandleModifyAck(o) \/ HandleDeleteAck(o)
  <2>1. /\ <<o, "Ack">> \in wire /\ wire' = wire \ {<<o, "Ack">>}
        /\ ReleaseSlot /\ Kind[o] # "rename"
    BY <1>5, Names DEF HandleModifyAck, HandleDeleteAck, Read
  <2>2. slots' >= slots - 1
    BY <2>1, Releases
  <2>3. Claims(o) /\ ~Claims(o)'
    BY <1>1, <1>2, <2>1 DEF Claims, Stage, uploads
  <2>4. o \in Claimants /\ Claimants' \subseteq Claimants \ {o}
    BY <1>1, <2>1, <2>3, OneClaims DEF Claimants, OpsOf
  <2>5. QED
    BY <2>2, <2>4 DEF Accounted, Returned
<1>6. CASE HandleRenameAck(o)
  <2>1. slots' = slots
    BY <1>6 DEF HandleRenameAck, ReleaseFifo
  <2>2. QED
    BY <1>4, <2>1 DEF Accounted, Kept
<1>7. CASE RequestRefused(o)
  BY <1>4, <1>7 DEF RequestRefused, tokens, Accounted, Kept
<1>8. QED
  BY <1>5, <1>6, <1>7 DEF HandleAck

\* Every step accounts for its tokens.
LEMMA StepAccounts ==
  ASSUME TypeOK, Stages, [Next]_vars
  PROVE  Accounted /\ (stalls' = stalls \/ TakenBack)
<1>1. ASSUME NEW o \in Ops, \/ Begin(o) \/ Operation(o) \/ ServiceAsks(o)
                            \/ HandleFileUpload(o) \/ RunUpload(o)
                            \/ HandleAck(o) \/ RequestRefused(o)
      PROVE  Accounted /\ stalls' = stalls
  <2>1. Accounted
    BY <1>1, OperationAccounts, SessionAccounts, AckAccounts
  <2>2. CASE Begin(o) \/ Operation(o) \/ ServiceAsks(o)
    BY <2>1, <2>2 DEF Begin, Operation, TakeSlot, Recheck, SendSucceeds, SendFails,
                RecordPending, ServiceAsks, OpFrame, netVars
  <2>3. CASE HandleFileUpload(o) \/ RunUpload(o)
    BY <2>1, <2>3 DEF HandleFileUpload, RunUpload, UploadTakesSlot, UploadMarksSlot,
                UploadCancelled, UploadFails, UploadStarts, UploadNextChunk,
                UploadSendsChunk, UploadSendsLastChunk, UploadEnds, UploadFrame, netVars
  <2>4. CASE HandleAck(o) \/ RequestRefused(o)
    BY <2>1, <2>4 DEF HandleAck, HandleModifyAck, HandleDeleteAck, HandleRenameAck,
                RequestRefused, AckFrame, netVars
  <2>5. QED
    BY <1>1, <2>2, <2>3, <2>4
<1>2. CASE CleanupOnTimeout
  <2>1. stalls' = stalls + 1 /\ Claimants' \subseteq Claimants
    BY <1>2 DEF CleanupOnTimeout, Claimants, Claims
  <2>2. QED
    BY <2>1 DEF TakenBack, Accounted
<1>3. CASE \/ \E p \in Paths : ReadRemoteChange(p)
           \/ ApplyRemoteChange \/ ConnectionLost \/ Reconnect \/ UNCHANGED vars
  <2>1. UNCHANGED <<pc, run, tokens, stalls>> /\ wire' \subseteq wire
    BY <1>3 DEF ReadRemoteChange, ApplyRemoteChange, ConnectionLost, Reconnect,
                uploads, netVars, vars
  <2>2. Claimants' \subseteq Claimants
    BY <2>1 DEF Claimants, Claims
  <2>3. QED
    BY <2>1, <2>2 DEF Accounted, Kept, tokens
<1>4. QED
  BY <1>1, <1>2, <1>3 DEF Next

-----------------------------------------------------------------------------
(* The theorems.                                                             *)

IInv == TypeOK /\ Stages /\ TokensOwned

\* The stages of the operations, the uploads they made and the account of the
\* tokens are an inductive invariant.
THEOREM Invariance == Spec => []IInv
<1>1. Init => IInv
  <2> SUFFICES ASSUME Init
               PROVE  IInv
    OBVIOUS
  <2>1. TypeOK /\ Stages
    BY InitStages
  <2>2. Claimants = {} /\ Joined = {} /\ Cancelled = {} /\ slots = 0 /\ stalls = 0
    BY DEF Init, Claimants, Claims, Joined, OpsOf
  <2>3. Cardinality({}) = 0 /\ MaxUploads * 0 = 0
    BY FS_EmptySet, LocalOpsAssumption
  <2>4. TokensOwned
    BY <2>2, <2>3 DEF TokensOwned
  <2>5. QED
    BY <2>1, <2>4 DEF IInv
<1>2. IInv /\ [Next]_vars => IInv'
  <2> SUFFICES ASSUME IInv, [Next]_vars
               PROVE  IInv'
    OBVIOUS
  <2>1. TypeOK /\ Stages /\ TokensOwned
    BY DEF IInv
  <2>2. TypeOK'
    BY <2>1, StepTypes
  <2>3. Stages' /\ \A q \in Ops : Persists(q)
    BY <2>1, StepStages
  <2>4. Cancelled \subseteq Cancelled' /\ Joined \subseteq Joined'
    BY <2>1, <2>3, ReasonsStay
  <2>5. Accounted /\ (stalls' = stalls \/ TakenBack)
    BY <2>1, StepAccounts
  <2>6. TokensOwned'
    BY <2>1, <2>2, <2>4, <2>5, AccountingStep
  <2>7. QED
    BY <2>2, <2>3, <2>6 DEF IInv
<1>3. QED
  BY <1>1, <1>2, PTL DEF Spec

\* Every variable keeps its type: in particular the channels never hold more
\* tokens than their capacity, and an acknowledgment is only of what was sent.
THEOREM TypeCorrectness == Spec => []TypeOK
<1>1. IInv => TypeOK
  BY DEF IInv
<1>2. QED
  BY <1>1, Invariance, PTL

\* However many operations, connections and rounds there are, the operations in
\* flight exceed the slots only by the uploads that were cancelled, the sessions
\* that joined one, and what the stall cleanups took back: every other path of
\* the code takes one token and gives one back (OvercommitBounded).
THEOREM OvercommitIsBounded == Spec => []OvercommitBounded
<1>1. IInv => OvercommitBounded
  <2> SUFFICES ASSUME TypeOK, Stages, TokensOwned
               PROVE  OvercommitBounded
    BY DEF IInv
  <2>1. InFlight \subseteq Claimants
    <3>1. ASSUME NEW o \in InFlight
          PROVE  o \in Claimants
      <4>1. o \in Ops \ OpsOf("rename")
        BY DEF InFlight
      <4>2. Stage(o)
        BY <4>1 DEF Stages, EveryStage
      <4>3. <<o, "FileUpload">> \in wire => Kind[o] \in {"upload", "asked"}
        BY <4>1, <4>2, Names DEF Stage
      <4>4. QED
        BY <4>1, <4>3 DEF InFlight, Claimants, Claims
    <3>2. QED
      BY <3>1
  <2>2. IsFiniteSet(Claimants) /\ IsFiniteSet(Cancelled) /\ IsFiniteSet(Joined)
    <3>1. Claimants \subseteq Ops /\ Joined \subseteq Ops /\ Cancelled \subseteq ActiveUploads
      BY DEF Claimants, Joined, OpsOf, TypeOK
    <3>2. QED
      BY <3>1, Finite, FS_Subset
  <2>3. PICK i \in Nat, c \in Nat : i = Cardinality(InFlight) /\ c = Cardinality(Claimants)
    <3>1. IsFiniteSet(InFlight)
      BY <2>1, <2>2, FS_Subset
    <3>2. QED
      BY <2>2, <3>1, FS_CardinalityType
  <2>4. i <= c
    BY <2>1, <2>2, <2>3, Sizes
  <2>5. PICK k \in Nat, j \in Nat : k = Cardinality(Cancelled) /\ j = Cardinality(Joined)
    BY <2>2, FS_CardinalityType
  <2>6. PICK m \in Nat, s \in Nat, t \in Nat : m = MaxUploads /\ s = slots /\ t = stalls
    BY LocalOpsAssumption DEF TypeOK
  <2>7. s <= m
    BY <2>6 DEF TypeOK
  <2>8. PICK n \in Nat : n = m * t
    OBVIOUS
  <2>9. c <= s + n + k + j
    BY <2>3, <2>5, <2>6, <2>8 DEF TokensOwned
  <2>10. m * (1 + t) = m + n
    BY <2>8
  <2>11. i <= (m + n) + k + j
    BY <2>4, <2>7, <2>9
  <2>12. i <= m * (1 + t) + k + j
    BY <2>10, <2>11
  <2>13. QED
    BY <2>3, <2>5, <2>6, <2>12 DEF OvercommitBounded
<1>2. QED
  BY <1>1, Invariance, PTL

=============================================================================
