--------------------------- MODULE FileUploadProofs ---------------------------
(***************************************************************************)
(* Proofs about FileUpload for every number of revisions and their sizes,  *)
(* every chunk size, number of uploads and number of faults.               *)
(***************************************************************************)
EXTENDS FileUpload, FiniteSetTheorems, WellFoundedInduction, TLAPS

Messages == [type : {"ack", "upload", "deleteAck", "end"}, session : Nat,
             found : Revs \cup {0}, deleted : BOOLEAN]
Uploading == {"pend", "expire", "send", "mark", "done"}
Threads  == [at : {"none", "read"} \cup Uploading, session : Nat,
             upload : 0 .. MaxRuns + 1, rev : Revs \cup {0}, i : Nat]
Sessions == [id : Nat, rev : Revs \cup {0}, got : SUBSET (Revs \X Nat)]

\* The types of all variables.
WorldTypes ==
  /\ Size \in [Revs -> Nat] /\ disk \in Revs \cup {0} /\ last \in Revs
  /\ conn \in {"up", "down", "broken"} /\ check \subseteq Revs
StateTypes == st \in States /\ saved \in States /\ saving \subseteq Writers
UploadTypes ==
  /\ active \in 0 .. MaxRuns + 1 /\ cancelled \subseteq 1 .. MaxRuns + 1
  /\ active \notin cancelled
RunTypes == run \in [Runs -> Threads]
ServiceTypes ==
  /\ svc \in Revs \cup {0} /\ session \in Sessions /\ toClient \in Seq(Messages)
SentTypes == sent \subseteq Nat \X Revs \X Nat
Types == WorldTypes /\ StateTypes /\ UploadTypes /\ RunTypes /\ ServiceTypes /\ SentTypes

\* The number of chunks of each revision.
Total == [r \in Revs |-> TotalChunks(r)]

\* What a goroutine at r has behind it: every chunk before the one it is at was
\* written to its session, also those it skipped.
Placed(r) ==
  /\ r.at = "read" => r.i = 0
  /\ r.at \in Uploading => r.rev \in Revs
  /\ r.at \in {"pend", "expire", "send"} =>
       r.i < Total[r.rev] /\ WasSent(r.session, r.rev, r.i)
  /\ r.at = "mark" =>
       r.i + 1 < Total[r.rev] /\ WasSent(r.session, r.rev, r.i + 1)
  /\ r.at = "done" =>
       r.i + 1 = Total[r.rev] /\ WasSent(r.session, r.rev, r.i + 1)

\* What a checkpoint covers was written, and it is one of a content.
Covered(c) == c # NoCheckpoint =>
  c.hash \in Revs /\ WasSent(c.session, c.hash, c.last + 1)

RunsPlaced == \A k \in Runs : Placed(run[k])
CheckpointsCovered == Covered(st.cp) /\ Covered(saved.cp)

IInv == Types /\ RunsPlaced /\ CheckpointsCovered

-----------------------------------------------------------------------------
(* The numbers of chunks and uploads.                                        *)

\* Division with remainder.
LEMMA DivBounds ==
  ASSUME NEW a \in Nat, NEW c \in Nat \ {0}
  PROVE  /\ a \div c \in Nat
         /\ (a \div c) * c <= a
         /\ a < ((a \div c) + 1) * c
BY SMT

\* A file has at least one chunk, also an empty one.
LEMMA TotalIsPositive ==
  ASSUME Size \in [Revs -> Nat], NEW r \in Revs
  PROVE  TotalChunks(r) \in Nat \ {0}
<1>1. Size[r] \in Nat /\ ChunkSize \in Nat \ {0}
  BY FileUploadAssumption DEF FileUploadAssumption
<1>2. CASE Size[r] = 0
  BY <1>2 DEF TotalChunks
<1>3. CASE Size[r] # 0
  <2> DEFINE a == Size[r] + ChunkSize - 1
  <2>1. a \in Nat /\ ChunkSize <= a
    BY <1>1, <1>3
  <2>2. a \div ChunkSize \in Nat /\ a < ((a \div ChunkSize) + 1) * ChunkSize
    BY <1>1, <2>1, DivBounds
  <2>3. a \div ChunkSize # 0
    BY <1>1, <2>1, <2>2
  <2>4. QED
    BY <1>3, <2>2, <2>3 DEF TotalChunks
<1>4. QED
  BY <1>2, <1>3

\* Every byte of a file is in one of its chunks.
LEMMA ChunksCoverFile ==
  ASSUME Size \in [Revs -> Nat], NEW r \in Revs, NEW b \in 0 .. Size[r] - 1
  PROVE  \E j \in 0 .. TotalChunks(r) - 1 : b \in Bytes(r, j)
<1>1. Size[r] \in Nat \ {0} /\ ChunkSize \in Nat \ {0} /\ b \in Nat /\ b < Size[r]
  BY FileUploadAssumption DEF FileUploadAssumption
<1> DEFINE q == b \div ChunkSize
           a == Size[r] + ChunkSize - 1
<1>2. q \in Nat /\ q * ChunkSize <= b /\ b < (q + 1) * ChunkSize
  BY <1>1, DivBounds
<1>3. a \in Nat /\ a \div ChunkSize \in Nat /\ a < ((a \div ChunkSize) + 1) * ChunkSize
  <2>1. a \in Nat
    BY <1>1
  <2> HIDE DEF a
  <2>2. QED
    BY <1>1, <2>1, DivBounds
<1>4. q < a \div ChunkSize
  <2> DEFINE d == a \div ChunkSize
  <2>1. a = Size[r] + ChunkSize - 1 /\ q \in Nat /\ d \in Nat
        /\ q * ChunkSize <= b /\ a < (d + 1) * ChunkSize
    BY <1>2, <1>3
  <2> HIDE DEF q, d, a
  <2>2. (q + 1) * ChunkSize = q * ChunkSize + ChunkSize
    BY <1>1, <2>1
  <2>3. q * ChunkSize \in Nat /\ (d + 1) * ChunkSize \in Nat
    BY <1>1, <2>1
  <2>4. (q + 1) * ChunkSize < (d + 1) * ChunkSize
    BY <1>1, <2>1, <2>2, <2>3
  <2>5. q < d
    BY <1>1, <2>1, <2>4
  <2>6. QED
    BY <2>5 DEF d
<1>5. TotalChunks(r) = a \div ChunkSize
  BY <1>1 DEF TotalChunks
<1> HIDE DEF q, a
<1>6. q \in 0 .. TotalChunks(r) - 1
  BY <1>2, <1>3, <1>4, <1>5
<1>7. b \in Bytes(r, q)
  BY <1>1, <1>2 DEF Bytes
<1>8. QED
  BY <1>6, <1>7

\* The numbers of chunks are positive, and the content of a revision never changes.
LEMMA Totals ==
  ASSUME Size \in [Revs -> Nat]
  PROVE  /\ Total \in [Revs -> Nat \ {0}]
         /\ \A r \in Revs : Total[r] = TotalChunks(r)
         /\ Size' = Size => Total' = Total
<1>1. \A r \in Revs : TotalChunks(r) \in Nat \ {0}
  BY TotalIsPositive
<1>2. Size' = Size => Total' = Total
  BY DEF Total, TotalChunks
<1>3. QED
  BY <1>1, <1>2 DEF Total

\* A set of numbers that is not empty has a least one.
LEMMA LeastNumber ==
  ASSUME NEW S, S \subseteq Nat, S # {}
  PROVE  \E m \in S : \A w \in S : m <= w
<1> DEFINE R == {ss \in Nat \X Nat : ss[1] < ss[2]}
<1>1. IsWellFoundedOn(R, Nat)
  BY NatLessThanWellFounded DEF OpToRel
<1>2. PICK m \in S : \A w \in S : ~(<<w, m>> \in R)
  <2> HIDE DEF R
  <2>1. QED
    BY <1>1, WFMin
<1>3. ASSUME NEW w \in S PROVE m <= w
  <2>1. w \in Nat /\ m \in Nat /\ ~(<<w, m>> \in R)
    BY <1>2
  <2>2. ~(w < m)
    BY <2>1
  <2>3. QED
    BY <2>1, <2>2
<1>4. QED
  BY <1>3

\* There is always an ActiveUpload that no goroutine holds, and a first one.
LEMMA FreeUpload ==
  ASSUME RunTypes
  PROVE  \E u \in 1 .. MaxRuns + 1 : u \notin Held /\ \A v \in 1 .. u - 1 : v \in Held
<1> DEFINE All == 1 .. MaxRuns + 1
           S == {run[k].upload : k \in Runs}
<1>1. MaxRuns \in Nat \ {0}
  BY FileUploadAssumption DEF FileUploadAssumption
<1>2. IsFiniteSet(Runs) /\ Cardinality(Runs) = MaxRuns
  BY <1>1, FS_Interval DEF Runs
<1>3. IsFiniteSet(All) /\ Cardinality(All) = MaxRuns + 1
  BY <1>1, FS_Interval
<1>4. IsFiniteSet(S) /\ Cardinality(S) <= MaxRuns
  <2> DEFINE f == [k \in Runs |-> run[k].upload]
  <2>1. f \in Surjection(Runs, S)
    BY DEF Surjection
  <2> HIDE DEF f, S
  <2>2. QED
    BY <1>2, <2>1, FS_Surjection
<1>5. All \ Held # {}
  <2>1. SUFFICES ASSUME All \subseteq S PROVE FALSE
    BY <1>1 DEF Held
  <2> HIDE DEF All, S
  <2>2. Cardinality(All) <= Cardinality(S)
    BY <1>4, <2>1, FS_Subset
  <2>3. Cardinality(S) \in Nat
    BY <1>4, FS_CardinalityType
  <2>4. QED
    BY <1>1, <1>3, <1>4, <2>2, <2>3
<1>6. PICK u \in All \ Held : \A v \in All \ Held : u <= v
  <2>1. All \ Held \subseteq Nat
    BY <1>1
  <2> HIDE DEF All
  <2>2. QED
    BY <1>5, <2>1, LeastNumber
<1>7. ASSUME NEW v \in 1 .. u - 1 PROVE v \in Held
  <2>1. v \in All /\ ~(u <= v)
    BY <1>1
  <2>2. QED
    BY <1>6, <2>1
<1>8. QED
  BY <1>6, <1>7

\* A path that gets a new upload gets one that was not cancelled.
LEMMA NewUploadTypes ==
  ASSUME RunTypes, UploadTypes, NewUpload
  PROVE  UploadTypes' /\ active' # 0
<1> DEFINE P(u) == u \notin Held /\ \A v \in 1 .. u - 1 : v \in Held
<1>1. active' = CHOOSE u \in 1 .. MaxRuns + 1 : P(u)
  BY DEF NewUpload
<1>2. \E u \in 1 .. MaxRuns + 1 : P(u)
  BY FreeUpload
<1>3. active' \in 1 .. MaxRuns + 1 /\ P(active')
  <2> HIDE DEF P
  <2>1. QED
    BY <1>1, <1>2
<1>4. cancelled' = cancelled \cap Held
  BY DEF NewUpload
<1>5. active' \in 1 .. MaxRuns + 1 /\ active' \notin Held
  BY <1>3
<1> HIDE DEF P
<1>6. active' \in 0 .. MaxRuns + 1 /\ active' # 0
  BY <1>5, FileUploadAssumption DEF FileUploadAssumption
<1>7. QED
  BY <1>4, <1>5, <1>6 DEF UploadTypes

\* cancelUpload leaves the path without an upload and without a checkpoint or with the
\* one it had when it had no upload.
LEMMA CancelTypes ==
  ASSUME StateTypes, UploadTypes, NEW w \in Writers, CancelUpload(w)
  PROVE  /\ UploadTypes'
         /\ st' \in States /\ st'.cp \in {st.cp, NoCheckpoint}
         /\ saving' \subseteq Writers
<1>1. NoCheckpoint \in Checkpoints /\ 0 \in Revs \cup {0}
  BY DEF NoCheckpoint, Checkpoints
<1> DEFINE c == IF active # 0 THEN NoCheckpoint ELSE st.cp
<1>2. c \in Checkpoints /\ st \in States
  BY <1>1 DEF StateTypes, States
<1>3. st' = [st EXCEPT !.pending = 0, !.cp = c]
  BY DEF CancelUpload
<1>4. c \in {st.cp, NoCheckpoint}
  OBVIOUS
<1> HIDE DEF c
<1>5. st' \in States /\ st'.cp = c
  BY <1>1, <1>2, <1>3 DEF States
<1>6. saving' \subseteq Writers
  BY DEF StateTypes, CancelUpload, MustSave
<1>7. UploadTypes'
  <2>1. 0 \in 0 .. MaxRuns + 1 /\ 0 \notin 1 .. MaxRuns + 1
    BY FileUploadAssumption DEF FileUploadAssumption
  <2>2. {active} \cap Held \subseteq 1 .. MaxRuns + 1
    BY FileUploadAssumption DEF UploadTypes, Held, FileUploadAssumption
  <2>3. QED
    BY <2>1, <2>2 DEF UploadTypes, CancelUpload
<1>8. QED
  BY <1>4, <1>5, <1>6, <1>7

-----------------------------------------------------------------------------
(* What every step keeps: the content of the revisions, and what was sent.   *)

Grows == Size' = Size /\ sent \subseteq sent'

\* A goroutine that does not move stays where it was allowed to be.
LEMMA PlacedKept ==
  ASSUME Types, RunsPlaced, Grows, NEW k \in Runs, run'[k] = run[k]
  PROVE  Placed(run[k])'
<1>1. Placed(run[k]) /\ Total' = Total
  BY Totals DEF RunsPlaced, Grows, Types, WorldTypes
<1>2. QED
  BY <1>1 DEF Placed, WasSent, Grows

\* A goroutine that is at none of the steps of an upload has nothing behind it.
LEMMA NothingPlaced ==
  ASSUME NEW k \in Runs, run'[k].at \in {"none", "read"}, run'[k].i = 0
  PROVE  Placed(run[k])'
BY DEF Placed, Uploading

\* A goroutine before its next chunk.
LEMMA PlacedBefore ==
  ASSUME NEW k \in Runs, run'[k].at \in {"pend", "expire", "send"}, run'[k].rev \in Revs,
         run'[k].i < Total'[run'[k].rev],
         \A j \in 0 .. run'[k].i - 1 : <<run'[k].session, run'[k].rev, j>> \in sent'
  PROVE  Placed(run[k])'
BY DEF Placed, WasSent

\* A goroutine that has written a chunk: there are more, or it was the last one.
LEMMA PlacedBehind ==
  ASSUME NEW k \in Runs, run'[k].rev \in Revs, run'[k].i \in Nat,
         \/ run'[k].at = "mark" /\ run'[k].i + 1 < Total'[run'[k].rev]
         \/ run'[k].at = "done" /\ run'[k].i + 1 = Total'[run'[k].rev],
         \A j \in 0 .. run'[k].i : <<run'[k].session, run'[k].rev, j>> \in sent'
  PROVE  Placed(run[k])'
<1>1. run'[k].i + 1 - 1 = run'[k].i
  OBVIOUS
<1>2. QED
  BY <1>1 DEF Placed, WasSent

\* A checkpoint stays covered when it is kept, marked as old, or forgotten.
LEMMA CoveredKept ==
  ASSUME Grows, NEW c, NEW d, Covered(c), c \in Checkpoints,
         d = c \/ d = NoCheckpoint \/ (d = [c EXCEPT !.old = TRUE] /\ c # NoCheckpoint)
  PROVE  d # NoCheckpoint =>
           d.hash \in Revs /\ \A j \in 0 .. d.last : <<d.session, d.hash, j>> \in sent'
<1>1. \A n \in Nat : n + 1 - 1 = n
  OBVIOUS
<1>2. QED
  BY <1>1 DEF Covered, WasSent, Grows, Checkpoints, NoCheckpoint

\* So is the one of the next state.
LEMMA StateCovered ==
  ASSUME Types, CheckpointsCovered, Grows, st'.cp \in Checkpoints, saved'.cp \in Checkpoints,
         \/ st'.cp \in {st.cp, saved.cp, NoCheckpoint}
         \/ st'.cp = [st.cp EXCEPT !.old = TRUE] /\ st.cp # NoCheckpoint,
         saved'.cp \in {st.cp, saved.cp, NoCheckpoint}
  PROVE  CheckpointsCovered'
<1>1. st.cp \in Checkpoints /\ saved.cp \in Checkpoints
  BY DEF Types, StateTypes, States
<1>2. \A n \in Nat : n + 1 - 1 = n
  OBVIOUS
<1>3. st'.cp # NoCheckpoint =>
        st'.cp.hash \in Revs /\ \A j \in 0 .. st'.cp.last : <<st'.cp.session, st'.cp.hash, j>> \in sent'
  BY <1>1, CoveredKept DEF CheckpointsCovered
<1>4. saved'.cp # NoCheckpoint =>
        saved'.cp.hash \in Revs /\ \A j \in 0 .. saved'.cp.last : <<saved'.cp.session, saved'.cp.hash, j>> \in sent'
  BY <1>1, CoveredKept DEF CheckpointsCovered
<1>5. QED
  BY <1>2, <1>3, <1>4 DEF CheckpointsCovered, Covered, WasSent, Checkpoints

\* The initial states satisfy the invariant.
LEMMA InitInv == Init => IInv
<1> SUFFICES ASSUME Init PROVE IInv
  OBVIOUS
<1>1. 1 \in Revs /\ MaxRev \in Nat /\ MaxRuns \in Nat
  BY FileUploadAssumption DEF FileUploadAssumption, Revs
<1>2. WorldTypes
  BY <1>1, FileUploadAssumption DEF Init, WorldTypes, FileUploadAssumption
<1>3. NoState \in States /\ NoState.cp = NoCheckpoint
  BY DEF NoState, NoCheckpoint, States, Checkpoints
<1>4. StateTypes /\ st.cp = NoCheckpoint /\ saved.cp = NoCheckpoint
  <2>1. PICK k \in BOOLEAN : st = [NoState EXCEPT !.known = k]
    BY DEF Init
  <2>2. ASSUME NEW x \in States
        PROVE  [x EXCEPT !.known = k] \in States /\ [x EXCEPT !.known = k].cp = x.cp
    BY <2>1 DEF States
  <2>3. st \in States /\ st.cp = NoCheckpoint
    BY <1>3, <2>1, <2>2
  <2>4. QED
    BY <2>3 DEF Init, StateTypes
<1>5. UploadTypes
  BY <1>1 DEF Init, UploadTypes
<1>6. RunTypes /\ RunsPlaced
  BY <1>1 DEF Init, RunTypes, RunsPlaced, Placed, Threads, NoRun, Uploading
<1>7. ServiceTypes /\ SentTypes
  BY <1>1 DEF Init, ServiceTypes, SentTypes, Sessions, NoSession
<1>8. QED
  BY <1>2, <1>4, <1>5, <1>6, <1>7 DEF IInv, Types, CheckpointsCovered, Covered

-----------------------------------------------------------------------------
(* The steps that move no goroutine of an upload.                            *)

\* Such a step keeps the invariant when it keeps the types and the checkpoints.
LEMMA RunsKept ==
  ASSUME IInv, Grows, run' = run, Types', CheckpointsCovered'
  PROVE  IInv'
<1>1. ASSUME NEW k \in Runs PROVE Placed(run[k])'
  BY PlacedKept DEF IInv
<1>2. QED
  BY <1>1 DEF IInv, RunsPlaced

\* The user and the network, which leave the state alone.
LEMMA WorldStep ==
  ASSUME IInv, Edit \/ Delete \/ Connect \/ Break \/ Disconnected
  PROVE  IInv'
<1> USE DEF WorldOnly, NetOnly, file, uploads, service, history, net, world
<1>1. st' = st /\ saved' = saved /\ run' = run /\ Grows
  BY DEF Edit, Delete, Connect, Break, Disconnected, Grows
<1>2. Types'
  <2> USE DEF IInv, Types
  <2>1. WorldTypes'
    BY DEF Edit, Delete, Connect, Break, Disconnected, WorldTypes
  <2>2. toClient' \in Seq(Messages)
    <3>1. toClient' = toClient \/ toClient' = <<>>
      BY DEF Edit, Delete, Connect, Break, Disconnected
    <3>2. <<>> \in Seq(Messages)
      OBVIOUS
    <3>3. QED
      BY <3>1, <3>2 DEF ServiceTypes
  <2>3. UNCHANGED <<saving, active, cancelled, svc, session, sent>>
    BY DEF Edit, Delete, Connect, Break, Disconnected
  <2>4. QED
    BY <1>1, <2>1, <2>2, <2>3 DEF StateTypes, UploadTypes, RunTypes, ServiceTypes, SentTypes
<1>3. CheckpointsCovered'
  BY <1>1, <1>2, StateCovered DEF IInv, Types, StateTypes, States
<1>4. QED
  BY <1>1, <1>2, <1>3, RunsKept

\* The state file, and a checkpoint that gets old.
LEMMA FileStep ==
  ASSUME IInv, (\E w \in Writers : SaveState(w)) \/ CheckpointAges
  PROVE  IInv'
<1> USE DEF file, uploads, service, history, net, world
<1>1. run' = run /\ Grows
  BY DEF SaveState, CheckpointAges, Grows
<1>2. /\ saved' \in {st, saved}
      /\ st' = st \/ (st' = [st EXCEPT !.cp.old = TRUE] /\ st.cp # NoCheckpoint)
  BY DEF SaveState, CheckpointAges
<1>3. \/ st' = st
      \/ /\ st' \in States /\ st'.cp = [st.cp EXCEPT !.old = TRUE]
         /\ st.cp # NoCheckpoint
  <2>1. ASSUME NEW x \in States
        PROVE  /\ [x EXCEPT !.cp.old = TRUE] \in States
               /\ [x EXCEPT !.cp.old = TRUE].cp = [x.cp EXCEPT !.old = TRUE]
    BY DEF States, Checkpoints
  <2>2. QED
    BY <1>2, <2>1 DEF IInv, Types, StateTypes
<1>4. Types'
  <2> USE DEF IInv, Types
  <2>1. StateTypes'
    <3>1. saving' \subseteq Writers
      BY DEF SaveState, CheckpointAges, StateTypes
    <3>2. QED
      BY <1>2, <1>3, <3>1 DEF StateTypes
  <2>2. UNCHANGED <<world, conn, active, cancelled, check, run, toClient, svc, session, sent>>
    BY DEF SaveState, CheckpointAges
  <2>3. QED
    BY <2>1, <2>2 DEF WorldTypes, UploadTypes, RunTypes, ServiceTypes, SentTypes
<1>5. CheckpointsCovered'
  BY <1>1, <1>2, <1>3, <1>4, StateCovered DEF IInv, Types, StateTypes, States
<1>6. QED
  BY <1>1, <1>4, <1>5, RunsKept

\* The session the service has after a request.
LEMMA RequestTypes ==
  ASSUME ServiceTypes, NEW rev \in Revs, Request(rev)
  PROVE  session' \in Sessions
<1>1. CASE session' = session
  BY <1>1 DEF ServiceTypes
<1>2. CASE session' = [id |-> session.id + 1, rev |-> rev, got |-> {}]
  BY <1>2 DEF ServiceTypes, Sessions
<1>3. QED
  BY <1>1, <1>2 DEF Request

\* A closed session is one.
LEMMA ClosedTypes ==
  ASSUME ServiceTypes
  PROVE  Closed \in Sessions
BY DEF Closed, ServiceTypes, Sessions

\* What the service sends.
LEMMA MessageTypes ==
  /\ Message("ack", 0) \in Messages /\ Message("deleteAck", 0) \in Messages
  /\ \A n \in Nat : Message("upload", n) \in Messages
  /\ \A f \in Revs \cup {0}, d \in BOOLEAN :
       [Message("end", 0) EXCEPT !.found = f, !.deleted = d] \in Messages
BY DEF Message, Messages

\* A message more in the queue.
LEMMA AppendTypes ==
  ASSUME ServiceTypes, NEW m \in Messages
  PROVE  Append(toClient, m) \in Seq(Messages)
BY DEF ServiceTypes

\* What the service answers to a revision that is announced.
LEMMA AnnouncedTypes ==
  ASSUME ServiceTypes, NEW rev \in Revs, Announced(rev)
  PROVE  ServiceTypes'
<1>1. session' \in Sessions /\ svc' = svc
  BY RequestTypes DEF Announced
<1> DEFINE m == IF svc = rev THEN Message("ack", 0) ELSE Message("upload", session'.id)
<1>2. m \in Messages
  BY <1>1, MessageTypes DEF Sessions
<1>3. toClient' = Append(toClient, m)
  BY DEF Announced
<1> HIDE DEF m
<1>4. toClient' \in Seq(Messages)
  BY <1>2, <1>3 DEF ServiceTypes
<1>5. QED
  BY <1>1, <1>4 DEF ServiceTypes

\* The announcement of a file, its record, and the report of a deletion.
LEMMA LocalStep ==
  ASSUME IInv, SendFileUploadCheck \/ RecordCheck \/ ReportDelete
  PROVE  IInv'
<1> USE DEF file, uploads, service, history, net, world
<1>1. run' = run /\ Grows /\ saved' = saved
  BY DEF SendFileUploadCheck, RecordCheck, ReportDelete, Grows
<1>2. UNCHANGED <<Size, disk, last, conn, run, sent>> /\ WorldTypes'
  BY DEF SendFileUploadCheck, RecordCheck, ReportDelete, IInv, Types, WorldTypes
<1>3. ASSUME UploadTypes', st' \in States, saving' \subseteq Writers, ServiceTypes',
             st'.cp \in {st.cp, NoCheckpoint}
      PROVE  IInv'
  <2>1. Types'
    BY <1>1, <1>2, <1>3 DEF IInv, Types, StateTypes, RunTypes, SentTypes
  <2>2. CheckpointsCovered'
    BY <1>1, <1>3, StateCovered DEF IInv, Types, StateTypes, States
  <2>3. QED
    BY <1>1, <2>1, <2>2, RunsKept
<1>4. CASE SendFileUploadCheck
  <2>1. UNCHANGED <<st, saving, active, cancelled>> /\ disk \in Revs
    BY <1>4 DEF SendFileUploadCheck, IInv, Types, WorldTypes
  <2>2. ServiceTypes'
    <3>1. Announced(disk) \/ UNCHANGED service
      BY <1>4 DEF SendFileUploadCheck
    <3>2. QED
      BY <2>1, <3>1, AnnouncedTypes DEF IInv, Types, ServiceTypes
  <2>3. QED
    BY <1>3, <2>1, <2>2 DEF IInv, Types, StateTypes, UploadTypes
<1>5. CASE RecordCheck
  <2>1. PICK rev \in check : st' = [st EXCEPT !.pending = rev] /\ NewUpload
                             /\ MustSave(By("check")) /\ UNCHANGED service
    BY <1>5 DEF RecordCheck
  <2>2. UploadTypes'
    BY <2>1, NewUploadTypes DEF IInv, Types
  <2>3. st' \in States /\ st'.cp = st.cp
    BY <2>1 DEF IInv, Types, StateTypes, WorldTypes, States
  <2>4. saving' \subseteq Writers
    BY <2>1 DEF MustSave, Writers, IInv, Types, StateTypes
  <2>5. ServiceTypes'
    BY <2>1 DEF IInv, Types, ServiceTypes
  <2>6. QED
    BY <1>3, <2>2, <2>3, <2>4, <2>5
<1>6. CASE ReportDelete
  <2>1. CASE UNCHANGED <<st, saving, uploads, service>>
    BY <1>3, <2>1 DEF IInv, Types, StateTypes, UploadTypes, ServiceTypes
  <2>2. CASE CancelUpload(By("delete"))
    <3>1. UploadTypes' /\ st' \in States /\ saving' \subseteq Writers
          /\ st'.cp \in {st.cp, NoCheckpoint}
      BY <2>2, CancelTypes DEF IInv, Types, Writers
    <3>2. \/ UNCHANGED service
          \/ /\ svc' = 0 /\ session' = Closed
             /\ toClient' = Append(toClient, Message("deleteAck", 0))
      BY <1>6 DEF ReportDelete
    <3>3. ServiceTypes'
      <4>1. Append(toClient, Message("deleteAck", 0)) \in Seq(Messages)
        BY MessageTypes, AppendTypes DEF IInv, Types
      <4>2. Closed \in Sessions /\ ServiceTypes
        BY ClosedTypes DEF IInv, Types
      <4>3. CASE svc' = 0 /\ session' = Closed
                 /\ toClient' = Append(toClient, Message("deleteAck", 0))
        BY <4>1, <4>2, <4>3 DEF ServiceTypes
      <4>4. CASE UNCHANGED service
        BY <4>2, <4>4 DEF ServiceTypes
      <4>5. QED
        BY <3>2, <4>3, <4>4
    <3>4. QED
      BY <1>3, <3>1, <3>3
  <2>3. QED
    BY <1>6, <2>1, <2>2 DEF ReportDelete
<1>7. QED
  BY <1>4, <1>5, <1>6

\* A round that asks, and one that is given up.
LEMMA RoundStep ==
  ASSUME IInv, FileSync \/ Stall
  PROVE  IInv'
<1> USE DEF file, uploads, service, history, net, world
<1>1. run' = run /\ Grows /\ saved' = saved /\ sent' = sent
  BY DEF FileSync, Stall, Grows
<1>2. WorldTypes'
  BY DEF FileSync, Stall, IInv, Types, WorldTypes
<1>3. ASSUME UploadTypes', st' \in States, saving' \subseteq Writers, ServiceTypes',
             st'.cp \in {st.cp, NoCheckpoint}
      PROVE  IInv'
  <2>1. Types'
    BY <1>1, <1>2, <1>3 DEF IInv, Types, StateTypes, RunTypes, SentTypes
  <2>2. CheckpointsCovered'
    BY <1>1, <1>3, StateCovered DEF IInv, Types, StateTypes, States
  <2>3. QED
    BY <1>1, <2>1, <2>2, RunsKept
<1>4. CASE FileSync
  <2>1. UNCHANGED <<st, saving, active, cancelled>>
    BY <1>4 DEF FileSync
  <2>2. PICK skip \in {Skipped, FALSE} :
       LET found == IF disk = 0 \/ skip THEN 0 ELSE disk
           end   == [Message("end", 0) EXCEPT !.found = found, !.deleted = disk = 0 /\ st.known]
       IN IF found # 0 /\ svc # found
            THEN /\ Request(found) /\ UNCHANGED svc
                 /\ toClient' = toClient \o <<end, Message("upload", session'.id)>>
            ELSE /\ toClient' = Append(toClient, end)
                 /\ svc' = IF end.deleted THEN 0 ELSE svc
                 /\ session' = IF end.deleted THEN Closed ELSE session
    BY <1>4 DEF FileSync
  <2> DEFINE found == IF disk = 0 \/ skip THEN 0 ELSE disk
             end == [Message("end", 0) EXCEPT !.found = found, !.deleted = disk = 0 /\ st.known]
  <2>3. found \in Revs \cup {0} /\ end \in Messages
    <3>1. found \in Revs \cup {0} /\ (disk = 0 /\ st.known) \in BOOLEAN
      BY DEF IInv, Types, WorldTypes
    <3> HIDE DEF found
    <3>2. QED
      BY <3>1, MessageTypes
  <2>4. \/ /\ Request(found) /\ svc' = svc /\ found # 0
           /\ toClient' = toClient \o <<end, Message("upload", session'.id)>>
        \/ /\ toClient' = Append(toClient, end)
           /\ svc' \in {0, svc} /\ session' \in {Closed, session}
    BY <2>2
  <2> HIDE DEF found, end
  <2>5. ServiceTypes'
    <3>1. ServiceTypes /\ Closed \in Sessions
      BY ClosedTypes DEF IInv, Types
    <3>2. CASE /\ Request(found) /\ svc' = svc /\ found # 0
               /\ toClient' = toClient \o <<end, Message("upload", session'.id)>>
      <4>1. session' \in Sessions
        BY <2>3, <3>1, <3>2, RequestTypes
      <4>2. Message("upload", session'.id) \in Messages
        BY <4>1, MessageTypes DEF Sessions
      <4>3. <<end, Message("upload", session'.id)>> \in Seq(Messages)
        BY <2>3, <4>2
      <4>4. toClient' \in Seq(Messages)
        BY <3>1, <3>2, <4>3 DEF ServiceTypes
      <4>5. QED
        BY <3>1, <3>2, <4>1, <4>4 DEF ServiceTypes
    <3>3. CASE /\ toClient' = Append(toClient, end)
               /\ svc' \in {0, svc} /\ session' \in {Closed, session}
      <4>1. toClient' \in Seq(Messages)
        BY <2>3, <3>1, <3>3 DEF ServiceTypes
      <4>2. QED
        BY <3>1, <3>3, <4>1 DEF ServiceTypes
    <3>4. QED
      BY <2>4, <3>2, <3>3
  <2>6. QED
    BY <1>3, <2>1, <2>5 DEF IInv, Types, StateTypes, UploadTypes
<1>5. CASE Stall
  <2>1. /\ cancelled' = cancelled \cup ({active} \cap Held) /\ active' = 0
        /\ st' = st \/ st' = [st EXCEPT !.pending = 0, !.cp = NoCheckpoint]
        /\ MustSave(By("round")) /\ UNCHANGED service
    BY <1>5 DEF Stall
  <2>2. UploadTypes'
    <3>1. 0 \in 0 .. MaxRuns + 1 /\ 0 \notin 1 .. MaxRuns + 1
      BY FileUploadAssumption DEF FileUploadAssumption
    <3>2. {active} \cap Held \subseteq 1 .. MaxRuns + 1
      BY FileUploadAssumption DEF IInv, Types, UploadTypes, Held, FileUploadAssumption
    <3>3. QED
      BY <2>1, <3>1, <3>2 DEF IInv, Types, UploadTypes
  <2>3. st' \in States /\ st'.cp \in {st.cp, NoCheckpoint}
    <3>1. NoCheckpoint \in Checkpoints /\ 0 \in Revs \cup {0}
      BY DEF NoCheckpoint, Checkpoints
    <3>2. ASSUME NEW x \in States
          PROVE  /\ [x EXCEPT !.pending = 0, !.cp = NoCheckpoint] \in States
                 /\ [x EXCEPT !.pending = 0, !.cp = NoCheckpoint].cp = NoCheckpoint
      BY <3>1 DEF States
    <3>3. QED
      BY <2>1, <3>2 DEF IInv, Types, StateTypes
  <2>4. saving' \subseteq Writers /\ ServiceTypes'
    BY <2>1 DEF MustSave, Writers, IInv, Types, StateTypes, ServiceTypes
  <2>5. QED
    BY <1>3, <2>2, <2>3, <2>4
<1>6. QED
  BY <1>4, <1>5

\* The messages of the service that answer a round, an upload or a deletion.
LEMMA AnswerStep ==
  ASSUME IInv, HandleFileSyncEnd \/ HandleFileUploadAck \/ HandleFileDeleteAck
  PROVE  IInv'
<1> USE DEF uploads, service, history, net, world
<1>1. /\ UNCHANGED <<run, sent, saved, active, cancelled, world, conn, check, svc, session>>
      /\ toClient # <<>> /\ toClient' = Tail(toClient)
      /\ MustSave(By("reader")) \/ UNCHANGED saving
  BY DEF HandleFileSyncEnd, HandleFileUploadAck, HandleFileDeleteAck, Reads
<1>2. NoCheckpoint \in Checkpoints /\ 0 \in Revs \cup {0}
  BY DEF NoCheckpoint, Checkpoints
<1>3. st' \in States /\ st'.cp \in {st.cp, NoCheckpoint}
  <2>1. ASSUME NEW x \in States, NEW b \in BOOLEAN
        PROVE  [x EXCEPT !.known = b] \in States /\ [x EXCEPT !.known = b].cp = x.cp
    BY DEF States
  <2>2. ASSUME NEW x \in States
        PROVE  /\ [x EXCEPT !.cp = NoCheckpoint] \in States
               /\ [x EXCEPT !.cp = NoCheckpoint].cp = NoCheckpoint
    BY <1>2 DEF States
  <2>3. [known |-> TRUE, pending |-> 0, cp |-> NoCheckpoint] \in States
    BY <1>2 DEF States
  <2>4. st \in States
    BY DEF IInv, Types, StateTypes
  <2>5. CASE HandleFileSyncEnd
    <3>1. PICK b \in BOOLEAN : st' = [st EXCEPT !.known = b]
      BY <2>5 DEF HandleFileSyncEnd
    <3>2. QED
      BY <2>1, <2>4, <3>1
  <2>6. CASE HandleFileUploadAck
    <3>1. \/ st' = [known |-> TRUE, pending |-> 0, cp |-> NoCheckpoint]
          \/ st' = [st EXCEPT !.cp = NoCheckpoint]
      BY <2>6 DEF HandleFileUploadAck
    <3>2. CASE st' = [known |-> TRUE, pending |-> 0, cp |-> NoCheckpoint]
      BY <2>3, <3>2
    <3>3. CASE st' = [st EXCEPT !.cp = NoCheckpoint]
      BY <2>2, <2>4, <3>3
    <3>4. QED
      BY <3>1, <3>2, <3>3
  <2>7. CASE HandleFileDeleteAck
    BY <2>1, <2>4, <2>7 DEF HandleFileDeleteAck
  <2>8. QED
    BY <2>5, <2>6, <2>7
<1>4. saving' \subseteq Writers
  BY <1>1 DEF MustSave, Writers, IInv, Types, StateTypes
<1>5. toClient' \in Seq(Messages)
  BY <1>1 DEF IInv, Types, ServiceTypes
<1>6. Types'
  BY <1>1, <1>3, <1>4, <1>5
     DEF IInv, Types, WorldTypes, StateTypes, UploadTypes, RunTypes, ServiceTypes, SentTypes
<1>7. CheckpointsCovered' /\ Grows
  BY <1>1, <1>3, <1>6, StateCovered DEF IInv, Types, StateTypes, States, Grows
<1>8. QED
  BY <1>1, <1>6, <1>7, RunsKept

-----------------------------------------------------------------------------
(* The goroutines of uploads.                                                *)

\* A step of one goroutine keeps the invariant when it keeps the types and the
\* checkpoints and the goroutine has behind it what its place requires.
LEMMA RunMoves ==
  ASSUME IInv, Grows, NEW k \in Runs, \A j \in Runs \ {k} : run'[j] = run[j],
         Placed(run[k])', Types', CheckpointsCovered'
  PROVE  IInv'
<1>1. ASSUME NEW j \in Runs, j # k PROVE Placed(run[j])'
  BY <1>1, PlacedKept DEF IInv
<1>2. QED
  BY <1>1 DEF IInv, RunsPlaced

\* A crash and the next start leave no goroutine, and the checkpoint of the state file.
LEMMA RestartStep ==
  ASSUME IInv, Restart
  PROVE  IInv'
<1> USE DEF service, history
<1>1. /\ UNCHANGED <<Size, disk, last, svc, session, sent>> /\ conn' = "down"
      /\ toClient' = <<>> /\ st' = saved /\ saving' = {} /\ saved' \in {saved, NoState}
      /\ active' = 0 /\ check' = {} /\ cancelled' = {} /\ run' = [k \in Runs |-> NoRun]
  BY DEF Restart
<1>2. NoState \in States /\ NoState.cp = NoCheckpoint
  BY DEF NoState, NoCheckpoint, States, Checkpoints
<1>3. NoRun \in Threads /\ NoRun.at = "none" /\ NoRun.i = 0
  BY FileUploadAssumption DEF NoRun, Threads, FileUploadAssumption
<1>4. WorldTypes' /\ StateTypes' /\ RunTypes' /\ SentTypes'
  BY <1>1, <1>2, <1>3 DEF IInv, Types, WorldTypes, StateTypes, RunTypes, SentTypes
<1>5. UploadTypes' /\ ServiceTypes'
  <2>1. 0 \in 0 .. MaxRuns + 1 /\ <<>> \in Seq(Messages)
    BY FileUploadAssumption DEF FileUploadAssumption
  <2>2. QED
    BY <1>1, <2>1 DEF IInv, Types, UploadTypes, ServiceTypes
<1>6. RunsPlaced'
  BY <1>1, <1>3, NothingPlaced DEF RunsPlaced
<1>7. Grows
  BY <1>1 DEF Grows
<1>8. CheckpointsCovered'
  BY <1>1, <1>2, <1>4, <1>7, StateCovered DEF IInv, Types, StateTypes, States
<1>9. QED
  BY <1>4, <1>5, <1>6, <1>8 DEF IInv, Types

\* A FileUpload of the service starts a goroutine, which has read nothing yet.
LEMMA UploadArrives ==
  ASSUME IInv, HandleFileUpload
  PROVE  IInv'
<1> USE DEF uploads, service, history, net, world
<1>1. /\ UNCHANGED <<st, saving, saved, world, conn, check, svc, session, sent>>
      /\ toClient # <<>> /\ toClient' = Tail(toClient)
  BY DEF HandleFileUpload, Reads
<1>2. toClient' \in Seq(Messages) /\ Head(toClient) \in Messages
  BY <1>1 DEF IInv, Types, ServiceTypes
<1>3. Grows
  BY <1>1 DEF Grows
<1>4. ASSUME UploadTypes', RunTypes' PROVE Types' /\ CheckpointsCovered'
  <2>1. Types'
    BY <1>1, <1>2, <1>4
       DEF IInv, Types, WorldTypes, StateTypes, ServiceTypes, SentTypes
  <2>2. QED
    BY <1>1, <1>3, <2>1, StateCovered DEF IInv, Types, StateTypes, States
<1>5. CASE UNCHANGED <<uploads, run>>
  <2>1. UploadTypes' /\ RunTypes'
    BY <1>5 DEF IInv, Types, UploadTypes, RunTypes
  <2>2. QED
    BY <1>3, <1>4, <1>5, <2>1, RunsKept
<1>6. ASSUME NEW k \in Runs,
             IF active = 0 THEN NewUpload ELSE UNCHANGED uploads,
             run' = [run EXCEPT ![k] = [NoRun EXCEPT !.at = "read", !.upload = active',
                                                     !.session = Head(toClient).session]]
      PROVE  IInv'
  <2>1. UploadTypes'
    BY <1>6, NewUploadTypes DEF IInv, Types, UploadTypes
  <2> DEFINE r == [NoRun EXCEPT !.at = "read", !.upload = active',
                                !.session = Head(toClient).session]
  <2>2. r \in Threads /\ r.at = "read" /\ r.i = 0
    BY <1>2, <2>1 DEF Threads, NoRun, UploadTypes, Messages
  <2>3. run' = [run EXCEPT ![k] = r] /\ run \in [Runs -> Threads]
    BY <1>6 DEF IInv, Types, RunTypes
  <2> HIDE DEF r
  <2>4. /\ run' \in [Runs -> Threads] /\ run'[k].at = "read" /\ run'[k].i = 0
        /\ \A j \in Runs \ {k} : run'[j] = run[j]
    BY <2>2, <2>3
  <2>5. Placed(run[k])'
    BY <2>4, NothingPlaced
  <2>6. QED
    BY <1>3, <1>4, <2>1, <2>4, <2>5, RunMoves DEF RunTypes
<1>7. QED
  BY <1>5, <1>6 DEF HandleFileUpload

\* What a goroutine becomes, where it is all that changes of the goroutines.
Becomes(k, r) == run' = [run EXCEPT ![k] = r]

\* The types and the other goroutines follow.
LEMMA BecomesTypes ==
  ASSUME RunTypes, NEW k \in Runs, NEW r \in Threads, run' = [run EXCEPT ![k] = r]
  PROVE  RunTypes' /\ run'[k] = r /\ \A j \in Runs \ {k} : run'[j] = run[j]
BY DEF RunTypes

\* A goroutine that ends.
LEMMA RunEnds ==
  ASSUME IInv, NEW k \in Runs, End(k)
  PROVE  RunTypes' /\ Placed(run[k])' /\ \A j \in Runs \ {k} : run'[j] = run[j]
<1>1. NoRun \in Threads /\ NoRun.at = "none" /\ NoRun.i = 0
  BY FileUploadAssumption DEF NoRun, Threads, FileUploadAssumption
<1>2. run' = [run EXCEPT ![k] = NoRun] /\ RunTypes
  BY DEF End, IInv, Types
<1>3. RunTypes' /\ run'[k] = NoRun /\ \A j \in Runs \ {k} : run'[j] = run[j]
  BY <1>1, <1>2, BecomesTypes
<1>4. Placed(run[k])'
  BY <1>1, <1>3, NothingPlaced
<1>5. QED
  BY <1>3, <1>4

\* A goroutine that goes to another place with what it has.
LEMMA GotoTypes ==
  ASSUME RunTypes, NEW k \in Runs, NEW l \in {"none", "read"} \cup Uploading, Goto(k, l)
  PROVE  /\ RunTypes' /\ \A j \in Runs \ {k} : run'[j] = run[j]
         /\ run'[k] = [run[k] EXCEPT !.at = l] /\ run'[k] \in Threads
<1> DEFINE r == [run[k] EXCEPT !.at = l]
<1>1. run[k] \in Threads
  BY DEF RunTypes
<1>2. r \in Threads
  BY <1>1 DEF Threads
<1>3. run' = [run EXCEPT ![k] = r]
  BY DEF Goto
<1> HIDE DEF r
<1>4. RunTypes' /\ run'[k] = r /\ \A j \in Runs \ {k} : run'[j] = run[j]
  BY <1>2, <1>3, BecomesTypes
<1>5. QED
  BY <1>2, <1>4 DEF r

\* An upload that was cancelled and sees it.
LEMMA AbandonStep ==
  ASSUME IInv, NEW k \in Runs, Abandon(k), RunFrame
  PROVE  IInv'
<1> USE DEF world, net, service, history
<1>1. CancelUpload(Me(k)) /\ End(k) /\ Me(k) \in Writers
  BY DEF Abandon, Writers
<1>2. UNCHANGED <<world, conn, saved, check, toClient, svc, session, sent>> /\ Grows
  BY DEF Abandon, RunFrame, Grows
<1>3. UploadTypes' /\ st' \in States /\ saving' \subseteq Writers
      /\ st'.cp \in {st.cp, NoCheckpoint}
  BY <1>1, CancelTypes DEF IInv, Types
<1>4. RunTypes' /\ Placed(run[k])' /\ \A j \in Runs \ {k} : run'[j] = run[j]
  BY <1>1, RunEnds
<1>5. Types'
  BY <1>2, <1>3, <1>4 DEF IInv, Types, WorldTypes, StateTypes, ServiceTypes, SentTypes
<1>6. CheckpointsCovered'
  BY <1>2, <1>3, <1>5, StateCovered DEF IInv, Types, StateTypes, States
<1>7. QED
  BY <1>2, <1>4, <1>5, <1>6, RunMoves

\* Steps that leave the state, the uploads and the service alone.
LEMMA QuietStep ==
  ASSUME IInv, NEW k \in Runs, RunFrame, Quiet,
         RunTypes', Placed(run[k])', \A j \in Runs \ {k} : run'[j] = run[j]
  PROVE  IInv'
<1> USE DEF world, net, uploads, service, history
<1>1. UNCHANGED <<world, conn, saved, check, st, saving, active, cancelled,
                  toClient, svc, session, sent>> /\ Grows
  BY DEF Quiet, RunFrame, Grows
<1>2. Types'
  BY <1>1 DEF IInv, Types, WorldTypes, StateTypes, UploadTypes, ServiceTypes, SentTypes
<1>3. CheckpointsCovered'
  BY <1>1, <1>2, StateCovered DEF IInv, Types, StateTypes, States
<1>4. QED
  BY <1>1, <1>2, <1>3, RunMoves

\* The file is read; an upload that is resumed skips what the checkpoint covers.
LEMMA StartStep ==
  ASSUME IInv, NEW k \in Runs, StartUpload(k)
  PROVE  IInv'
<1> DEFINE r == [run[k] EXCEPT !.rev = disk]
<1>1. RunFrame /\ Quiet /\ run[k].at = "read"
  BY DEF StartUpload, Step, At
<1>2. run[k] \in Threads /\ run[k].i = 0 /\ disk \in Revs \cup {0} /\ RunTypes
  BY <1>1 DEF IInv, Types, RunTypes, RunsPlaced, Placed, WorldTypes
<1>3. r \in Threads /\ r.i = 0 /\ r.rev = disk
  BY <1>2 DEF Threads
<1>4. Total' = Total /\ sent' = sent /\ Size' = Size
  BY <1>1, Totals DEF RunFrame, Quiet, world, history, IInv, Types, WorldTypes
<1>5. CASE End(k)
  BY <1>1, <1>5, RunEnds, QuietStep
<1>6. ASSUME disk \in Revs, Usable(st.cp, r),
             run' = [run EXCEPT ![k] = [r EXCEPT !.at = "pend", !.i = st.cp.last + 1]]
      PROVE  IInv'
  <2> DEFINE q == [r EXCEPT !.at = "pend", !.i = st.cp.last + 1]
  <2>1. /\ st.cp \in Checkpoints /\ st.cp # NoCheckpoint
        /\ st.cp.session = r.session /\ st.cp.hash = disk
        /\ st.cp.last < Total[disk] - 1 /\ Total[disk] \in Nat
    BY <1>3, <1>6, Totals
       DEF Usable, IInv, Types, StateTypes, States, WorldTypes
  <2>2. /\ q \in Threads /\ q.at = "pend" /\ q.rev = disk /\ q.session = st.cp.session
        /\ q.i = st.cp.last + 1
    <3>1. st.cp.last + 1 \in Nat
      BY <2>1 DEF Checkpoints
    <3> HIDE DEF r
    <3>2. QED
      BY <1>3, <2>1, <3>1 DEF Threads, Uploading
  <2>3. run' = [run EXCEPT ![k] = q]
    BY <1>6
  <2> HIDE DEF q, r
  <2>4. RunTypes' /\ run'[k] = q /\ \A j \in Runs \ {k} : run'[j] = run[j]
    BY <1>2, <2>2, <2>3, BecomesTypes
  <2>5. q.i < Total[disk]
    BY <2>1, <2>2 DEF Checkpoints
  <2>6. \A j \in 0 .. q.i - 1 : <<q.session, q.rev, j>> \in sent
    BY <2>1, <2>2 DEF IInv, CheckpointsCovered, Covered, WasSent
  <2>7. Placed(run[k])'
    <3>1. disk \in Revs
      BY <1>6
    <3>2. /\ q.at \in {"pend", "expire", "send"} /\ q.rev \in Revs /\ q.i < Total'[q.rev]
          /\ \A j \in 0 .. q.i - 1 : <<q.session, q.rev, j>> \in sent'
      BY <1>4, <2>2, <2>5, <2>6, <3>1
    <3>3. QED
      BY <2>4, <3>2, PlacedBefore
  <2>8. QED
    BY <1>1, <2>4, <2>7, QuietStep
<1>7. ASSUME disk \in Revs, NEW l \in {"pend", "expire"},
             run' = [run EXCEPT ![k] = [r EXCEPT !.at = l]]
      PROVE  IInv'
  <2> DEFINE q == [r EXCEPT !.at = l]
  <2>1. q \in Threads /\ q.at = l /\ q.rev = disk /\ q.i = 0
    <3> HIDE DEF r
    <3>1. QED
      BY <1>3 DEF Threads, Uploading
  <2>2. run' = [run EXCEPT ![k] = q]
    BY <1>7
  <2> HIDE DEF q, r
  <2>3. RunTypes' /\ run'[k] = q /\ \A j \in Runs \ {k} : run'[j] = run[j]
    BY <1>2, <2>1, <2>2, BecomesTypes
  <2>4. 0 < Total[disk]
    BY <1>7, Totals DEF IInv, Types, WorldTypes
  <2>5. Placed(run[k])'
    <3>1. 0 .. q.i - 1 = {}
      BY <2>1
    <3>2. QED
      BY <1>4, <1>7, <2>1, <2>3, <2>4, <3>1, PlacedBefore
  <2>6. QED
    BY <1>1, <2>3, <2>5, QuietStep
<1>8. CASE disk = 0
  <2>1. ~Usable(st.cp, r)
    BY <1>3, <1>8 DEF Usable, IInv, CheckpointsCovered, Covered, Revs
  <2>2. QED
    BY <1>5, <1>8, <2>1 DEF StartUpload
<1>9. CASE disk # 0
  <2>1. disk \in Revs
    BY <1>2, <1>9
  <2>2. CASE Usable(st.cp, r)
    BY <1>6, <1>9, <2>1, <2>2 DEF StartUpload
  <2>3. CASE ~Usable(st.cp, r)
    <3> DEFINE l == IF st.cp = NoCheckpoint THEN "pend" ELSE "expire"
    <3>1. run' = [run EXCEPT ![k] = [r EXCEPT !.at = l]] /\ l \in {"pend", "expire"}
      BY <1>9, <2>3 DEF StartUpload
    <3> HIDE DEF l
    <3>2. QED
      BY <1>7, <2>1, <3>1
  <2>4. QED
    BY <2>2, <2>3
<1>10. QED
  BY <1>8, <1>9

\* A checkpoint that does not fit is dropped.
LEMMA ExpireStep ==
  ASSUME IInv, NEW k \in Runs, ExpireCheckpoint(k)
  PROVE  IInv'
<1> USE DEF world, net, uploads, service, history
<1>1. /\ run[k].at = "expire" /\ Goto(k, "pend") /\ MustSave(Me(k))
      /\ st' = [st EXCEPT !.cp = NoCheckpoint] /\ RunFrame
      /\ UNCHANGED <<uploads, service, history>>
  BY DEF ExpireCheckpoint, Step, At
<1>2. st' \in States /\ st'.cp = NoCheckpoint
  <2>1. NoCheckpoint \in Checkpoints
    BY DEF NoCheckpoint, Checkpoints
  <2>2. QED
    BY <1>1, <2>1 DEF IInv, Types, StateTypes, States
<1>3. /\ RunTypes' /\ \A j \in Runs \ {k} : run'[j] = run[j]
      /\ run'[k] = [run[k] EXCEPT !.at = "pend"] /\ run[k] \in Threads
  BY <1>1, GotoTypes DEF Uploading, IInv, Types, RunTypes
<1>4. run'[k].at = "pend" /\ run'[k].session = run[k].session /\ run'[k].rev = run[k].rev
      /\ run'[k].i = run[k].i
  BY <1>3 DEF Threads
<1>5. Grows /\ Total' = Total /\ sent' = sent
  BY <1>1, Totals DEF Grows, RunFrame, IInv, Types, WorldTypes
<1>6. Placed(run[k])'
  <2>1. Placed(run[k])
    BY DEF IInv, RunsPlaced
  <2>2. /\ run[k].rev \in Revs /\ run[k].i < Total[run[k].rev]
        /\ \A j \in 0 .. run[k].i - 1 : <<run[k].session, run[k].rev, j>> \in sent
    BY <1>1, <2>1 DEF Placed, WasSent, Uploading
  <2>3. QED
    BY <1>4, <1>5, <2>2, PlacedBefore
<1>7. Types'
  <2>1. saving' \subseteq Writers
    BY <1>1 DEF MustSave, Writers, IInv, Types, StateTypes
  <2>2. UNCHANGED <<world, conn, saved, check, active, cancelled, toClient, svc, session, sent>>
    BY <1>1 DEF RunFrame
  <2>3. QED
    BY <1>2, <1>3, <2>1, <2>2
       DEF IInv, Types, WorldTypes, StateTypes, UploadTypes, ServiceTypes, SentTypes
<1>8. CheckpointsCovered'
  BY <1>1, <1>2, <1>5, <1>7, StateCovered DEF RunFrame, IInv, Types, StateTypes, States
<1>9. QED
  BY <1>3, <1>5, <1>6, <1>7, <1>8, RunMoves

\* The hash of the content is recorded as pending.
LEMMA PendingStep ==
  ASSUME IInv, NEW k \in Runs, RecordPending(k)
  PROVE  IInv'
<1> USE DEF world, net, uploads, service, history
<1>1. CASE Abandon(k)
  BY <1>1, AbandonStep DEF RecordPending, Step
<1>2. CASE ~Abandon(k)
  <2>1. /\ run[k].at = "pend" /\ Goto(k, "send") /\ MustSave(Me(k))
        /\ st' = [st EXCEPT !.pending = run[k].rev] /\ RunFrame
        /\ UNCHANGED <<uploads, service, history>>
    BY <1>2 DEF RecordPending, Step, At
  <2>2. Placed(run[k])
    BY DEF IInv, RunsPlaced
  <2>3. /\ run[k].rev \in Revs /\ run[k].i < Total[run[k].rev]
        /\ \A j \in 0 .. run[k].i - 1 : <<run[k].session, run[k].rev, j>> \in sent
    BY <2>1, <2>2 DEF Placed, WasSent, Uploading
  <2>4. st' \in States /\ st'.cp = st.cp
    BY <2>1, <2>3 DEF IInv, Types, StateTypes, States
  <2>5. /\ RunTypes' /\ \A j \in Runs \ {k} : run'[j] = run[j]
        /\ run'[k] = [run[k] EXCEPT !.at = "send"] /\ run[k] \in Threads
    BY <2>1, GotoTypes DEF Uploading, IInv, Types, RunTypes
  <2>6. /\ run'[k].at = "send" /\ run'[k].session = run[k].session
        /\ run'[k].rev = run[k].rev /\ run'[k].i = run[k].i
    BY <2>5 DEF Threads
  <2>7. Grows /\ Total' = Total /\ sent' = sent
    BY <2>1, Totals DEF Grows, RunFrame, IInv, Types, WorldTypes
  <2>8. Placed(run[k])'
    BY <2>3, <2>6, <2>7, PlacedBefore
  <2>9. Types'
    <3>1. saving' \subseteq Writers
      BY <2>1 DEF MustSave, Writers, IInv, Types, StateTypes
    <3>2. UNCHANGED <<world, conn, saved, check, active, cancelled,
                      toClient, svc, session, sent>>
      BY <2>1 DEF RunFrame
    <3>3. QED
      BY <2>4, <2>5, <3>1, <3>2
         DEF IInv, Types, WorldTypes, StateTypes, UploadTypes, ServiceTypes, SentTypes
  <2>10. CheckpointsCovered'
    BY <2>1, <2>4, <2>7, <2>9, StateCovered DEF RunFrame, IInv, Types, StateTypes, States
  <2>11. QED
    BY <2>5, <2>7, <2>8, <2>9, <2>10, RunMoves
<1>3. QED
  BY <1>1, <1>2

\* What the service does with a chunk.
LEMMA ChunkTypes ==
  ASSUME ServiceTypes, NEW id \in Nat, NEW rev \in Revs, NEW i \in Nat, Chunk(id, rev, i)
  PROVE  ServiceTypes'
<1> DEFINE got == session.got \cup {<<rev, i>>}
           whole == \A j \in 0 .. TotalChunks(session.rev) - 1 : <<session.rev, j>> \in got
<1>1. CASE session.id # id \/ session.rev = 0
  BY <1>1 DEF Chunk, ServiceTypes, service
<1>2. CASE ~(session.id # id \/ session.rev = 0)
  <2>1. /\ session' = IF whole THEN Closed ELSE [session EXCEPT !.got = got]
        /\ svc' = IF whole THEN session.rev ELSE svc
        /\ toClient' = IF whole THEN Append(toClient, Message("ack", 0)) ELSE toClient
    BY <1>2 DEF Chunk
  <2> HIDE DEF whole
  <2>2. [session EXCEPT !.got = got] \in Sessions /\ Closed \in Sessions
        /\ session.rev \in Revs \cup {0}
    BY ClosedTypes DEF ServiceTypes, Sessions
  <2>3. Append(toClient, Message("ack", 0)) \in Seq(Messages)
    BY MessageTypes, AppendTypes
  <2> HIDE DEF got
  <2>4. QED
    BY <2>1, <2>2, <2>3 DEF ServiceTypes
<1>3. QED
  BY <1>1, <1>2

\* A chunk is written, to whatever connection there is.
LEMMA SendStep ==
  ASSUME IInv, NEW k \in Runs, SendChunk(k)
  PROVE  IInv'
<1> USE DEF world, net, uploads, service, history
<1>1. CASE Abandon(k)
  BY <1>1, AbandonStep DEF SendChunk, Step
<1>2. CASE End(k) /\ Quiet
  BY <1>2, RunEnds, QuietStep DEF SendChunk, Step
<1>3. CASE ~Abandon(k) /\ ~(End(k) /\ Quiet)
  <2> DEFINE l == IF run[k].i < TotalChunks(run[k].rev) - 1 THEN "mark" ELSE "done"
  <2>1. /\ run[k].at = "send" /\ RunFrame /\ UNCHANGED <<st, saving, uploads>>
        /\ sent' = sent \cup {<<run[k].session, run[k].rev, run[k].i>>}
        /\ Goto(k, l)
        /\ Chunk(run[k].session, run[k].rev, run[k].i) \/ UNCHANGED service
    BY <1>3 DEF SendChunk, Step, At
  <2>2. Placed(run[k]) /\ run[k] \in Threads
    BY DEF IInv, RunsPlaced, Types, RunTypes
  <2>3. /\ run[k].rev \in Revs /\ run[k].i < Total[run[k].rev]
        /\ \A j \in 0 .. run[k].i - 1 : <<run[k].session, run[k].rev, j>> \in sent
        /\ run[k].i \in Nat /\ run[k].session \in Nat
    BY <2>1, <2>2 DEF Placed, WasSent, Uploading, Threads
  <2>4. /\ Total[run[k].rev] \in Nat /\ Total[run[k].rev] = TotalChunks(run[k].rev)
        /\ Total' = Total /\ Size' = Size
    BY <2>1, <2>3, Totals DEF RunFrame, IInv, Types, WorldTypes
  <2>5. \/ l = "mark" /\ run[k].i + 1 < Total[run[k].rev]
        \/ l = "done" /\ run[k].i + 1 = Total[run[k].rev]
    BY <2>3, <2>4
  <2> HIDE DEF l
  <2>6. /\ RunTypes' /\ \A j \in Runs \ {k} : run'[j] = run[j]
        /\ run'[k] = [run[k] EXCEPT !.at = l]
    BY <2>1, <2>5, GotoTypes DEF Uploading, IInv, Types
  <2>7. /\ run'[k].at = l /\ run'[k].session = run[k].session
        /\ run'[k].rev = run[k].rev /\ run'[k].i = run[k].i
    BY <2>2, <2>6 DEF Threads
  <2>8. \A j \in 0 .. run[k].i : <<run[k].session, run[k].rev, j>> \in sent'
    BY <2>1, <2>3
  <2>9. Placed(run[k])'
    BY <2>3, <2>4, <2>5, <2>7, <2>8, PlacedBehind
  <2>10. Grows /\ sent' \subseteq Nat \X Revs \X Nat
    BY <2>1, <2>3, <2>4 DEF Grows, IInv, Types, SentTypes
  <2>11. ServiceTypes'
    <3>1. CASE UNCHANGED service
      BY <3>1 DEF IInv, Types, ServiceTypes
    <3>2. QED
      BY <2>1, <2>3, <3>1, ChunkTypes DEF IInv, Types
  <2>12. Types'
    BY <2>1, <2>6, <2>10, <2>11
       DEF RunFrame, IInv, Types, WorldTypes, StateTypes, UploadTypes, SentTypes
  <2>13. CheckpointsCovered'
    BY <2>1, <2>10, <2>12, StateCovered DEF RunFrame, IInv, Types, StateTypes, States
  <2>14. QED
    BY <2>6, <2>9, <2>10, <2>12, <2>13, RunMoves
<1>4. QED
  BY <1>1, <1>2, <1>3

\* The chunk that was written is the last one the checkpoint covers.
LEMMA MarkStep ==
  ASSUME IInv, NEW k \in Runs, MarkChunk(k)
  PROVE  IInv'
<1> USE DEF world, net, uploads, service, history
<1> DEFINE c == [session |-> run[k].session, hash |-> run[k].rev,
                 last |-> run[k].i, old |-> FALSE]
           r == [run[k] EXCEPT !.at = "send", !.i = run[k].i + 1]
<1>1. /\ run[k].at = "mark" /\ RunFrame /\ UNCHANGED <<uploads, service, history>>
      /\ st' = [st EXCEPT !.cp = c] /\ MustSave(Me(k))
      /\ run' = [run EXCEPT ![k].at = "send", ![k].i = @ + 1]
  BY DEF MarkChunk, Step, At
<1>2. Placed(run[k]) /\ run[k] \in Threads /\ run \in [Runs -> Threads]
  BY DEF IInv, RunsPlaced, Types, RunTypes
<1>3. /\ run[k].rev \in Revs /\ run[k].i + 1 < Total[run[k].rev]
      /\ \A j \in 0 .. run[k].i + 1 - 1 : <<run[k].session, run[k].rev, j>> \in sent
      /\ run[k].i \in Nat /\ run[k].session \in Nat
  BY <1>1, <1>2 DEF Placed, WasSent, Uploading, Threads
<1>4. c \in Checkpoints /\ r \in Threads
  <2>1. c \in Checkpoints
    BY <1>3 DEF Checkpoints
  <2>2. ASSUME NEW x \in Threads, NEW n \in Nat
        PROVE  [x EXCEPT !.at = "send", !.i = n] \in Threads
    BY DEF Threads, Uploading
  <2>3. run[k].i + 1 \in Nat
    BY <1>3
  <2>4. QED
    BY <1>2, <2>1, <2>2, <2>3
<1>5. st' \in States /\ st'.cp = c
  <2> HIDE DEF c
  <2>1. QED
    BY <1>1, <1>4 DEF IInv, Types, StateTypes, States
<1>6. r.at = "send" /\ r.session = run[k].session /\ r.rev = run[k].rev /\ r.i = run[k].i + 1
  BY <1>2 DEF Threads
<1>7. run' = [run EXCEPT ![k] = r]
  BY <1>1, <1>2 DEF Threads
<1> HIDE DEF r
<1>8. RunTypes' /\ run'[k] = r /\ \A j \in Runs \ {k} : run'[j] = run[j]
  BY <1>4, <1>7, BecomesTypes DEF IInv, Types
<1>9. Grows /\ Total' = Total /\ sent' = sent
  BY <1>1, Totals DEF Grows, RunFrame, IInv, Types, WorldTypes
<1>10. Placed(run[k])'
  BY <1>3, <1>6, <1>8, <1>9, PlacedBefore
<1>11. Types'
  <2>1. saving' \subseteq Writers
    BY <1>1 DEF MustSave, Writers, IInv, Types, StateTypes
  <2>2. UNCHANGED <<world, conn, saved, check, active, cancelled, toClient, svc, session, sent>>
    BY <1>1 DEF RunFrame
  <2>3. QED
    BY <1>5, <1>8, <2>1, <2>2
       DEF IInv, Types, WorldTypes, StateTypes, UploadTypes, ServiceTypes, SentTypes
<1>12. CheckpointsCovered'
  <2>1. Covered(st.cp)'
    BY <1>3, <1>5, <1>9 DEF Covered, WasSent
  <2>2. Covered(saved.cp)'
    BY <1>1, <1>9 DEF RunFrame, IInv, CheckpointsCovered, Covered, WasSent
  <2>3. QED
    BY <2>1, <2>2 DEF CheckpointsCovered
<1>13. QED
  BY <1>8, <1>9, <1>10, <1>11, <1>12, RunMoves

\* An upload that is complete leaves the path without one.
LEMMA FinishStep ==
  ASSUME IInv, NEW k \in Runs, FinishUpload(k)
  PROVE  IInv'
<1> USE DEF world, net, uploads, service, history
<1>1. /\ End(k) /\ active' = 0
      /\ UNCHANGED <<st, saving, cancelled, service, history, world, net, saved, check>>
  BY DEF FinishUpload, Step, RunFrame
<1>2. RunTypes' /\ Placed(run[k])' /\ \A j \in Runs \ {k} : run'[j] = run[j]
  BY <1>1, RunEnds
<1>3. UploadTypes'
  <2>1. 0 \in 0 .. MaxRuns + 1 /\ 0 \notin 1 .. MaxRuns + 1
    BY FileUploadAssumption DEF FileUploadAssumption
  <2>2. QED
    BY <1>1, <2>1 DEF IInv, Types, UploadTypes
<1>4. Types' /\ Grows
  BY <1>1, <1>2, <1>3
     DEF IInv, Types, WorldTypes, StateTypes, ServiceTypes, SentTypes, Grows
<1>5. CheckpointsCovered'
  BY <1>1, <1>4, StateCovered DEF IInv, Types, StateTypes, States
<1>6. QED
  BY <1>2, <1>4, <1>5, RunMoves

-----------------------------------------------------------------------------
(* The theorems.                                                             *)

\* Every step keeps the invariant.
LEMMA Inductive == IInv /\ [Next]_vars => IInv'
<1> SUFFICES ASSUME IInv, [Next]_vars PROVE IInv'
  OBVIOUS
<1>1. CASE RunStep
  BY <1>1, StartStep, ExpireStep, PendingStep, SendStep, MarkStep, FinishStep DEF RunStep
<1>2. CASE Daemon
  BY <1>1, <1>2, FileStep, LocalStep, RoundStep, AnswerStep, UploadArrives, WorldStep
     DEF Daemon
<1>3. CASE Edit \/ Delete \/ Break
  BY <1>3, WorldStep
<1>4. CASE Restart
  BY <1>4, RestartStep
<1>5. CASE CheckpointAges
  BY <1>5, FileStep
<1>6. CASE Stall
  BY <1>6, RoundStep
<1>7. CASE UNCHANGED vars
  <2>1. run' = run /\ Grows
    BY <1>7 DEF vars, Grows, world, history
  <2>2. Types'
    BY <1>7 DEF vars, world, net, file, uploads, service, history, IInv, Types,
                WorldTypes, StateTypes, UploadTypes, RunTypes, ServiceTypes, SentTypes
  <2>3. st' = st /\ saved' = saved
    BY <1>7 DEF vars, file
  <2>4. CheckpointsCovered'
    BY <2>1, <2>2, <2>3, StateCovered DEF IInv, Types, StateTypes, States
  <2>5. QED
    BY <2>1, <2>2, <2>4, RunsKept
<1>8. QED
  BY <1>2, <1>3, <1>4, <1>5, <1>6, <1>7 DEF Next

\* In every reachable state everything has its type, and every goroutine and every
\* checkpoint has behind it the chunks it stands for.
THEOREM Invariance == Spec => []IInv
<1>1. Init => IInv
  BY InitInv
<1>2. IInv /\ [Next]_vars => IInv'
  BY Inductive
<1>3. QED
  BY <1>1, <1>2, PTL DEF Spec

\* The state, the uploads and the service have their types, and a goroutine that sends
\* is at a chunk its file has (runFileUpload, file_sync.go).
THEOREM TypeCorrectness == Spec => []TypeOK
<1>1. IInv => TypeOK
  <2> SUFFICES ASSUME IInv PROVE TypeOK
    OBVIOUS
  <2>1. ASSUME NEW k \in Runs, At(k, "send") PROVE run[k].i < TotalChunks(run[k].rev)
    <3>1. run[k].rev \in Revs /\ run[k].i < Total[run[k].rev]
      BY <2>1 DEF IInv, RunsPlaced, Placed, At, Uploading
    <3>2. QED
      BY <3>1, Totals DEF IInv, Types, WorldTypes
  <2>2. QED
    BY <2>1 DEF IInv, Types, WorldTypes, StateTypes, UploadTypes, ServiceTypes, TypeOK
<1>2. QED
  BY <1>1, Invariance, PTL

\* An upload that is taken up again, also after a restart, skips only chunks that were
\* written for its session and its content (uploadStartChunk).
THEOREM ResumedSkipOnlySent == Spec => []ResumeSkipsOnlySent
<1>1. IInv => ResumeSkipsOnlySent
  <2> SUFFICES ASSUME IInv PROVE ResumeSkipsOnlySent
    OBVIOUS
  <2>1. ASSUME NEW k \in Runs, At(k, "send")
        PROVE  WasSent(run[k].session, run[k].rev, run[k].i)
    BY <2>1 DEF IInv, RunsPlaced, Placed, At
  <2>2. QED
    BY <2>1 DEF IInv, CheckpointsCovered, Covered, ResumeSkipsOnlySent
<1>2. QED
  BY <1>1, Invariance, PTL

\* An upload that comes to its end has written every byte of the content it read, in at
\* least one chunk, whatever the size of the file and of a chunk (runFileUpload).
THEOREM FinishedAreWhole == Spec => []FinishedIsWhole
<1>1. IInv => FinishedIsWhole
  <2> SUFFICES ASSUME IInv, NEW k \in Runs, At(k, "done")
               PROVE  LET chunks == {c \in sent : c[1] = run[k].session /\ c[2] = run[k].rev}
                      IN /\ chunks # {}
                         /\ UNION {Bytes(c[2], c[3]) : c \in chunks} = 0 .. Size[run[k].rev] - 1
    BY DEF FinishedIsWhole
  <2> DEFINE s == run[k].session
             rev == run[k].rev
             chunks == {c \in sent : c[1] = s /\ c[2] = rev}
  <2>1. Placed(run[k]) /\ run[k].at = "done" /\ Size \in [Revs -> Nat]
    BY DEF IInv, RunsPlaced, At, Types, WorldTypes
  <2>2. /\ rev \in Revs /\ TotalChunks(rev) \in Nat \ {0}
        /\ run[k].i + 1 = TotalChunks(rev) /\ WasSent(s, rev, run[k].i + 1)
    BY <2>1, Totals DEF Placed, Uploading
  <2>3. \A j \in 0 .. TotalChunks(rev) - 1 : <<s, rev, j>> \in chunks
    <3>1. WasSent(s, rev, TotalChunks(rev))
      BY <2>2
    <3> HIDE DEF s, rev
    <3>2. QED
      BY <3>1 DEF WasSent
  <2>4. chunks # {}
    <3>1. 0 \in 0 .. TotalChunks(rev) - 1
      BY <2>2
    <3>2. QED
      BY <2>3, <3>1
  <2>5. ASSUME NEW b \in 0 .. Size[rev] - 1
        PROVE  b \in UNION {Bytes(c[2], c[3]) : c \in chunks}
    <3>1. PICK j \in 0 .. TotalChunks(rev) - 1 : b \in Bytes(rev, j)
      BY <2>1, <2>2, ChunksCoverFile
    <3>2. <<s, rev, j>> \in chunks
      BY <2>3
    <3>3. QED
      BY <3>1, <3>2
  <2>6. ASSUME NEW c \in chunks PROVE Bytes(c[2], c[3]) \subseteq 0 .. Size[rev] - 1
    BY DEF Bytes
  <2>7. QED
    BY <2>4, <2>5, <2>6
<1>2. QED
  BY <1>1, Invariance, PTL

===============================================================================
