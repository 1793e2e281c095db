-------------------------- MODULE FileDownloadProofs --------------------------
(***************************************************************************)
(* Proofs about FileDownload for every number of updates, paths, chunks and*)
(* slots and every bound on drops, stalls and faults.                      *)
(***************************************************************************)
EXTENDS FileDownload, FiniteSetTheorems, TLAPS, WellFoundedInduction

\* A request was made by a handler that is over: it is not made twice.
AskedIsOver == \A u \in Updates : svc[u] = "asked" => upd[u] = "over"

\* A session in the map was opened by the answer to a request.
LiveIsOpen == \A s \in live : upd[s] = "over" /\ svc[s] # "asked"

\* The chunk that is written belongs to a session that misses it.
ReaderMissesChunk ==
  reader[1] = "chunk" => sess[reader[2]].got < Total(reader[2])

\* What is merged has all its chunks and is not opened again.
MergedIsComplete ==
  \A s, u \in Updates :
    merge[<<s, u>>] # "none" => /\ ~(sess[s].got < Total(s))
                                /\ upd[s] = "over" /\ svc[s] # "asked"

\* What is committed was checked, and no chunk came since.
CommittedIsWhole ==
  \A s, u \in Updates : merge[<<s, u>>] = "commit" => ~sess[s].damaged

Inv == /\ TypeOK /\ AskedIsOver /\ LiveIsOpen /\ ReaderMissesChunk
       /\ MergedIsComplete /\ CommittedIsWhole /\ DiskIsWhole

-----------------------------------------------------------------------------
(* A nonempty set of updates has a largest element.                          *)

\* Updates are numbered, so that they can be compared.
LEMMA UpdatesAreNumbers == N \in Nat /\ Updates \subseteq Nat
BY FileDownloadAssumption DEF FileDownloadAssumption, Updates

\* Every update is an index.
LEMMA UpdateIsIndex == \A u \in Updates : u \in 0..N
BY FileDownloadAssumption DEF FileDownloadAssumption, Updates

\* A set of updates that is not empty has a latest one.
LEMMA LargestUpdate ==
  ASSUME NEW S, S \subseteq Updates, S # {}
  PROVE  \E m \in S : \A w \in S : w <= m
<1> DEFINE R == {ss \in Nat \X Nat : ss[1] < ss[2]}
           T == {N - v : v \in S}
<1>1. T \subseteq Nat /\ T # {}
  <2>1. ASSUME NEW v \in S PROVE N - v \in Nat
    <3>1. v \in 1..N /\ N \in Nat
      BY UpdatesAreNumbers DEF Updates
    <3>2. QED
      BY <3>1
  <2>2. PICK v \in S : TRUE
    OBVIOUS
  <2>3. N - v \in T
    OBVIOUS
  <2>4. QED
    BY <2>1, <2>3
<1>2. IsWellFoundedOn(R, Nat)
  BY NatLessThanWellFounded DEF OpToRel
<1>3. PICK t \in T : \A y \in T : ~(<<y, t>> \in R)
  <2> HIDE DEF R, T
  <2>1. QED
    BY <1>1, <1>2, WFMin
<1>4. PICK m \in S : t = N - m
  BY <1>3
<1>5. ASSUME NEW w \in S PROVE w <= m
  <2>1. N - w \in Nat /\ t \in Nat /\ ~(<<N - w, t>> \in R)
    BY <1>1, <1>3
  <2>2. ~(N - w < t)
    BY <2>1
  <2>3. m \in Nat /\ w \in Nat
    BY UpdatesAreNumbers
  <2>4. QED
    BY <1>4, <2>2, <2>3, UpdatesAreNumbers
<1>6. QED
  BY <1>5

\* The service answers with a revision it announced.
LEMMA LatestIsUpdate ==
  ASSUME NEW s \in Updates, upd[s] # "later"
  PROVE  Latest(Path[s]) \in Updates
<1> DEFINE S == {v \in Updates : Path[v] = Path[s] /\ upd[v] # "later"}
<1>1. PICK m \in S : \A w \in S : w <= m
  <2>1. S \subseteq Updates /\ S # {}
    OBVIOUS
  <2> HIDE DEF S
  <2>2. QED
    BY <2>1, LargestUpdate
<1>2. QED
  BY <1>1 DEF Latest

-----------------------------------------------------------------------------
(* Initially Inv holds; the steps of each actor keep the types.               *)

\* The daemon starts with nothing open, and no file is replaced yet.
LEMMA InitInv == Init => Inv
<1> SUFFICES ASSUME Init PROVE Inv
  OBVIOUS
<1>1. 0 \in 0..N /\ 0 \in 0..MaxSlots /\ 0 \in 0..MaxDrops /\ 0 \in 0..MaxStalls
      /\ 0 \in 0..MaxFaults
  BY FileDownloadAssumption DEF FileDownloadAssumption
<1>2. TypeOK
  BY <1>1 DEF Init, TypeOK, Sessions, MergePlaces, NoSession, NoFile, Idle, None
<1>3. AskedIsOver /\ LiveIsOpen /\ ReaderMissesChunk
  BY DEF Init, AskedIsOver, LiveIsOpen, ReaderMissesChunk, Idle
<1>4. MergedIsComplete /\ CommittedIsWhole
  BY DEF Init, MergedIsComplete, CommittedIsWhole
<1>5. DiskIsWhole
  BY DEF Init, DiskIsWhole, NoFile
<1>6. QED
  BY <1>2, <1>3, <1>4, <1>5 DEF Inv

\* The release of a slot, held or not.
ReleaseCases == \/ slots' = slots
                \/ slots = 0 /\ slots' = 0
                \/ slots # 0 /\ slots' = slots - 1

\* A release never takes the number of tokens out of its range.
LEMMA ReleaseType ==
  ASSUME slots \in 0..MaxSlots, ReleaseCases
  PROVE  slots' \in 0..MaxSlots
BY FileDownloadAssumption DEF FileDownloadAssumption, ReleaseCases

\* ReleaseSlot gives back one token or, when there is none, nothing.
LEMMA ReleaseIsOne ==
  ASSUME slots \in 0..MaxSlots, NEW b, Release(b)
  PROVE  ReleaseCases
BY FileDownloadAssumption DEF FileDownloadAssumption, ReleaseCases, Release, ReleaseSlots

\* abortDownloadSession keeps the types of what it changes.
LEMMA AbortType ==
  ASSUME TypeOK, NEW s \in Updates, Abort(s)
  PROVE  /\ slots' \in 0..MaxSlots /\ pages' \subseteq Updates
         /\ live' \subseteq Updates /\ held' \subseteq Updates /\ Cancelled' \subseteq Updates
<1>1. sess[s].page \in 0..N
  <2>1. sess[s] \in Sessions
    BY DEF TypeOK
  <2>2. QED
    BY <2>1 DEF Sessions
<1>2. {sess[s].page} \ {None} \subseteq Updates
  BY <1>1, FileDownloadAssumption DEF None, Updates, FileDownloadAssumption
<1>3. CASE s \in live
  <2>1. slots' \in 0..MaxSlots
    BY <1>3, ReleaseType, ReleaseIsOne DEF Abort, TypeOK
  <2>2. QED
    BY <1>2, <1>3, <2>1 DEF Abort, TypeOK, CompletePage
<1>4. CASE s \notin live
  BY <1>4 DEF Abort, TypeOK, entries
<1>5. QED
  BY <1>3, <1>4

\* The handler of an update keeps the types.
LEMMA HandlerType ==
  ASSUME TypeOK, NEW u \in Updates, UpdateArrives(u) \/ Handler(u)
  PROVE  TypeOK'
<1> USE DEF TypeOK, netVars, entries, fileVars
<1>0. u \in 0..N /\ 0 \in 0..N /\ PageOf(u) \in 0..N /\ Path[u] \in Paths
  BY FileDownloadAssumption DEF FileDownloadAssumption, Updates, PageOf, None, Paths
<1>1. CASE UpdateArrives(u)
  <2>1. Path[u] \in Paths
    BY DEF Paths
  <2> DEFINE n == IF Busy(Path[u]) THEN overlaps[Path[u]] + 1 ELSE overlaps[Path[u]]
  <2>2. overlaps' \in [Paths -> Nat]
    <3>1. n \in Nat
      BY <2>1
    <3>2. overlaps' = [overlaps EXCEPT ![Path[u]] = n]
      BY <1>1 DEF UpdateArrives
    <3> HIDE DEF n
    <3>3. QED
      BY <2>1, <3>1, <3>2
  <2>3. QED
    BY <1>1, <2>2 DEF UpdateArrives
<1>2. CASE LookForSession(u)
  <2>1. ASSUME NEW s \in SessionsOf(Path[u]) PROVE s \in 0..N
    <3>1. s \in Updates
      BY DEF SessionsOf
    <3>2. QED
      BY <3>1, UpdateIsIndex
  <2>2. found' \in [Updates -> 0..N]
    BY <1>2, <2>1 DEF LookForSession
  <2>3. QED
    BY <1>2, <2>2 DEF LookForSession
<1>3. CASE TakeSlot(u)
  BY <1>3, FileDownloadAssumption DEF TakeSlot, FileDownloadAssumption
<1>4. CASE Attach(u)
  <2>1. found[u] \in Updates
    BY <1>4, FileDownloadAssumption DEF Attach, None, Updates, FileDownloadAssumption
  <2>2. sess' \in [Updates -> Sessions]
    <3> DEFINE rec == [sess[found[u]] EXCEPT !.hash = u, !.time = u, !.page = PageOf(u)]
    <3>1. rec \in Sessions
      <4>1. sess[found[u]] \in Sessions
        BY <2>1
      <4>2. ASSUME NEW r \in Sessions
            PROVE  [r EXCEPT !.hash = u, !.time = u, !.page = PageOf(u)] \in Sessions
        BY <1>0 DEF Sessions
      <4>3. QED
        BY <4>1, <4>2
    <3>2. sess' = [sess EXCEPT ![found[u]] = rec]
      BY <1>4, <2>1 DEF Attach
    <3> HIDE DEF rec
    <3>3. QED
      BY <2>1, <3>1, <3>2
  <2>3. merge' \in [Updates \X Updates -> MergePlaces] /\ Merging' \subseteq Updates
    <3>1. CASE UNCHANGED <<Merging, merge>>
      BY <3>1
    <3>2. CASE merge' = [merge EXCEPT ![<<found[u], u>>] = "lock"]
               /\ Merging' = Merging \cup {found[u]}
      BY <2>1, <3>2 DEF MergePlaces
    <3>3. QED
      BY <1>4, <3>1, <3>2 DEF Attach, CompleteEmpty
  <2>4. QED
    BY <1>4, <2>1, <2>2, <2>3 DEF Attach
<1>5. CASE CreateTemp(u)
  BY <1>0, <1>5 DEF CreateTemp
<1>6. CASE RequestChunks(u)
  BY <1>6 DEF RequestChunks
<1>7. CASE RequestFails(u)
  <2>1. slots' \in 0..MaxSlots
    BY <1>7, ReleaseType, ReleaseIsOne DEF RequestFails
  <2>2. pages' \subseteq Updates
    BY <1>7 DEF RequestFails, CompletePage, PageOf, None
  <2>3. QED
    BY <1>0, <1>7, <2>1, <2>2 DEF RequestFails, None
<1>8. QED
  BY <1>1, <1>2, <1>3, <1>4, <1>5, <1>6, <1>7 DEF Handler

\* The read loop keeps the types.
LEMMA ReaderType ==
  ASSUME TypeOK, AskedIsOver, ReaderMissesChunk, Reader
  PROVE  TypeOK'
<1> USE DEF TypeOK, netVars, entries, fileVars
<1>0. Idle \in {Idle} \cup ({"open", "disorder", "chunk"} \X Updates)
  OBVIOUS
<1>1. ASSUME NEW s \in Updates, OpenSession(s) PROVE TypeOK'
  <2>1. Latest(Path[s]) \in Updates
    BY <1>1, LatestIsUpdate DEF OpenSession, AskedIsOver
  <2>2. Path[s] \in Paths /\ temp[Path[s]] \in 0..N /\ 0 \in 0..N
    BY FileDownloadAssumption DEF Paths, FileDownloadAssumption
  <2>3. Latest(Path[s]) \in 0..N /\ PageOf(temp[Path[s]]) \in 0..N /\ None \in 0..N
    BY <2>1, <2>2, UpdateIsIndex DEF PageOf, None
  <2> DEFINE pg  == IF temp[Path[s]] = None THEN None ELSE PageOf(temp[Path[s]])
             rec == [NoSession EXCEPT !.rev = Latest(Path[s]), !.hash = Latest(Path[s]),
                                      !.time = temp[Path[s]], !.page = pg]
  <2>4. rec \in Sessions
    <3>1. pg \in 0..N
      BY <2>3
    <3> HIDE DEF pg
    <3>2. QED
      BY <2>2, <2>3, <3>1 DEF NoSession, Sessions
  <2>5. sess' \in [Updates -> Sessions]
    <3>1. sess' = [sess EXCEPT ![s] = rec]
      BY <1>1 DEF OpenSession
    <3> HIDE DEF rec
    <3>2. QED
      BY <2>4, <3>1
  <2>6. temp' \in [Paths -> 0..N]
    BY <1>1, <2>2, <2>3 DEF OpenSession
  <2>7. reader' \in {"open", "disorder", "chunk"} \X Updates
    BY <1>1 DEF OpenSession
  <2>8. QED
    BY <1>1, <2>5, <2>6, <2>7 DEF OpenSession
<1>2. ASSUME NEW s \in Updates, ChunkArrives(s) PROVE TypeOK'
  <2>1. sess' \in [Updates -> Sessions] /\ faults' \in 0..MaxFaults
    <3>1. CASE UNCHANGED <<faults, sess>>
      BY <3>1
    <3>2. CASE Fault /\ sess' = [sess EXCEPT ![s].damaged = TRUE]
      <4>1. sess[s] \in Sessions
        OBVIOUS
      <4>2. [sess[s] EXCEPT !.damaged = TRUE] \in Sessions
        BY <4>1 DEF Sessions
      <4>3. faults' \in 0..MaxFaults
        BY <3>2, FileDownloadAssumption DEF Fault, FileDownloadAssumption
      <4>4. QED
        BY <3>2, <4>2, <4>3
    <3>3. QED
      BY <1>2, <3>1, <3>2 DEF ChunkArrives
  <2>2. reader' \in {"open", "disorder", "chunk"} \X Updates
    BY <1>2 DEF ChunkArrives
  <2>3. QED
    BY <1>2, <2>1, <2>2 DEF ChunkArrives
<1>3. ASSUME reader # Idle PROVE reader[2] \in Updates
  BY <1>3
<1>4. CASE DirectoryMade
  <2>1. reader[2] \in Updates
    BY <1>3, <1>4 DEF DirectoryMade, Idle
  <2>2. Merging' \subseteq Updates /\ merge' \in [Updates \X Updates -> MergePlaces]
    BY <1>4, <2>1 DEF DirectoryMade, CompleteEmpty, MergePlaces
  <2>3. QED
    BY <1>4, <2>2 DEF DirectoryMade, ReaderFrame
<1>5. CASE ChunkStored
  <2>1. reader[2] \in Updates
    BY <1>3, <1>5 DEF ChunkStored, Idle
  <2>2. Merging' \subseteq Updates /\ merge' \in [Updates \X Updates -> MergePlaces]
    <3>1. CASE UNCHANGED <<Merging, merge>>
      BY <3>1
    <3>2. CASE /\ Merging' = Merging \cup {reader[2]}
               /\ merge' = [merge EXCEPT ![<<reader[2], reader[2]>>] = "lock"]
      BY <2>1, <3>2 DEF MergePlaces
    <3>3. QED
      BY <1>5, <3>1, <3>2 DEF ChunkStored
  <2> DEFINE rec == [sess[reader[2]] EXCEPT !.got = sess[reader[2]].got + 1]
  <2>3. sess' \in [Updates -> Sessions]
    <3>1. sess[reader[2]] \in Sessions
      BY <2>1
    <3>2. ASSUME NEW r \in Sessions PROVE [r EXCEPT !.got = r.got + 1] \in Sessions
      BY DEF Sessions
    <3>3. rec \in Sessions
      BY <3>1, <3>2
    <3>4. sess' = sess \/ sess' = [sess EXCEPT ![reader[2]] = rec]
      BY <1>5 DEF ChunkStored
    <3> HIDE DEF rec
    <3>5. QED
      BY <2>1, <3>3, <3>4
  <2>4. QED
    BY <1>5, <2>2, <2>3 DEF ChunkStored, ReaderFrame
<1>6. CASE StoreFails
  <2>1. reader[2] \in Updates
    BY <1>3, <1>6 DEF StoreFails
  <2>2. faults' \in 0..MaxFaults
    BY <1>6, FileDownloadAssumption DEF StoreFails, Fault, FileDownloadAssumption
  <2>3. Abort(reader[2])
    BY <1>6 DEF StoreFails
  <2>4. /\ slots' \in 0..MaxSlots /\ pages' \subseteq Updates
        /\ live' \subseteq Updates /\ held' \subseteq Updates
        /\ Cancelled' \subseteq Updates
    BY <2>1, <2>3, AbortType
  <2>5. QED
    BY <1>6, <2>2, <2>4 DEF StoreFails, ReaderFrame
<1>7. QED
  BY <1>1, <1>2, <1>4, <1>5, <1>6 DEF Reader

\* A merge keeps the types.
LEMMA MergeType ==
  ASSUME TypeOK, NEW m \in Updates \X Updates, Merge(m)
  PROVE  TypeOK'
<1> USE DEF TypeOK, netVars, entries, fileVars
<1>0. m[1] \in Updates /\ Path[m[1]] \in Paths
  BY DEF Paths
<1>1. CASE MergeLocksPath(m)
  BY <1>0, <1>1 DEF MergeLocksPath, MergeFrame, MergeTo, MergePlaces
<1>2. CASE MergeChecks(m)
  BY <1>2 DEF MergeChecks, MergeFrame, MergeTo, MergePlaces
<1>3. CASE MergeAborts(m)
  <2>1. faults' \in 0..MaxFaults
    BY <1>3, FileDownloadAssumption DEF MergeAborts, Fault, FileDownloadAssumption
  <2>2. Abort(m[1])
    BY <1>3 DEF MergeAborts
  <2>3. /\ slots' \in 0..MaxSlots /\ pages' \subseteq Updates
        /\ live' \subseteq Updates /\ held' \subseteq Updates
        /\ Cancelled' \subseteq Updates
    BY <1>0, <2>2, AbortType
  <2>4. QED
    BY <1>3, <2>1, <2>3 DEF MergeAborts, MergeFrame, MergeTo, MergePlaces, Unlock
<1>4. CASE MergeDiscards(m)
  BY <1>4 DEF MergeDiscards, MergeFrame, MergeTo, MergePlaces, Unlock
<1>5. CASE MergeCommits(m)
  <2>1. slots' \in 0..MaxSlots
    BY <1>5, ReleaseType, ReleaseIsOne DEF MergeCommits
  <2>2. /\ sess[m[1]].rev \in 0..N /\ sess[m[1]].hash \in 0..N /\ sess[m[1]].time \in 0..N
        /\ sess[m[1]].damaged \in BOOLEAN
    <3>1. sess[m[1]] \in Sessions
      BY <1>0
    <3>2. QED
      BY <3>1 DEF Sessions
  <2>3. disk' \in [Paths -> [rev : 0..N, whole : BOOLEAN]] /\ base' \in [Paths -> 0..N]
    BY <1>0, <1>5, <2>2 DEF MergeCommits
  <2>4. syncTime' \in 0..N
    BY <1>5, <2>2 DEF MergeCommits, Larger
  <2>5. merge' \in [Updates \X Updates -> MergePlaces]
    BY <1>5 DEF MergeCommits, MergeTo, MergePlaces
  <2>6. live' \subseteq Updates /\ held' \subseteq Updates
    BY <1>5 DEF MergeCommits
  <2>7. QED
    BY <1>5, <2>1, <2>3, <2>4, <2>5, <2>6 DEF MergeCommits, MergeFrame
<1>6. CASE MergeCompletesPage(m)
  <2>1. sess[m[1]].page \in 0..N
    <3>1. sess[m[1]] \in Sessions
      BY <1>0
    <3>2. QED
      BY <3>1 DEF Sessions
  <2>2. {sess[m[1]].page} \ {None} \subseteq Updates
    BY <2>1, FileDownloadAssumption DEF None, Updates, FileDownloadAssumption
  <2>3. pages' \subseteq Updates
    BY <1>6, <2>2 DEF MergeCompletesPage, CompletePage
  <2>4. QED
    BY <1>6, <2>3 DEF MergeCompletesPage, MergeFrame, MergeTo, MergePlaces, Unlock
<1>7. QED
  BY <1>1, <1>2, <1>3, <1>4, <1>5, <1>6 DEF Merge

\* Losing the connection, dialling again and the cleanup keep the types.
LEMMA ConnectionType ==
  ASSUME TypeOK, ConnectionLost \/ Reconnects \/ CleanupTransfers
  PROVE  TypeOK'
<1> USE DEF TypeOK, netVars, entries, fileVars
<1>1. CASE ConnectionLost
  <2>1. drops' \in 0..MaxDrops
    BY <1>1, FileDownloadAssumption DEF ConnectionLost, FileDownloadAssumption
  <2>2. svc' \in [Updates -> {"none", "asked", "open"}]
    BY <1>1 DEF ConnectionLost
  <2>3. QED
    BY <1>1, <2>1, <2>2 DEF ConnectionLost
<1>2. CASE Reconnects
  BY <1>2 DEF Reconnects
<1>3. CASE CleanupTransfers
  <2>1. stalls' \in 0..MaxStalls /\ slots' \in 0..MaxSlots
    BY <1>3, FileDownloadAssumption DEF CleanupTransfers, FileDownloadAssumption
  <2>2. temp' \in [Paths -> 0..N]
    BY <1>3, FileDownloadAssumption DEF CleanupTransfers, None, FileDownloadAssumption
  <2>3. QED
    BY <1>3, <2>1, <2>2 DEF CleanupTransfers
<1>4. QED
  BY <1>1, <1>2, <1>3

-----------------------------------------------------------------------------
(* What the steps of each actor leave alone, as far as Inv looks at it.      *)

\* The handler of an update requests its chunks once, opens no session, and
\* starts merging only a session that has nothing to receive.
LEMMA HandlerStep ==
  ASSUME TypeOK, NEW u \in Updates, UpdateArrives(u) \/ Handler(u)
  PROVE  /\ live' = live /\ reader' = reader /\ disk' = disk
         /\ \A s \in Updates : upd[s] = "over" => upd'[s] = "over"
         /\ \A s \in Updates :
              svc'[s] = "asked" => \/ svc[s] = "asked"
                                   \/ upd[s] = "send" /\ upd'[s] = "over"
         /\ \A s \in Updates : /\ sess'[s].rev = sess[s].rev /\ sess'[s].got = sess[s].got
                               /\ sess'[s].damaged = sess[s].damaged
         /\ \A s, v \in Updates :
              merge'[<<s, v>>] # merge[<<s, v>>] =>
                merge'[<<s, v>>] = "lock" /\ s \in live /\ Total(s) = 0
<1> USE DEF entries, fileVars
<1>1. CASE UpdateArrives(u)
  BY <1>1 DEF UpdateArrives, TypeOK
<1>2. CASE LookForSession(u)
  BY <1>2 DEF LookForSession, TypeOK
<1>3. CASE TakeSlot(u)
  BY <1>3 DEF TakeSlot, TypeOK
<1>4. CASE Attach(u)
  <2>1. found[u] \in Updates
    BY <1>4, FileDownloadAssumption DEF Attach, None, Updates, FileDownloadAssumption, TypeOK
  <2>2. /\ live' = live /\ reader' = reader /\ disk' = disk /\ svc' = svc
        /\ \A s \in Updates : upd[s] = "over" => upd'[s] = "over"
    BY <1>4 DEF Attach, TypeOK
  <2>3. \A s \in Updates : /\ sess'[s].rev = sess[s].rev /\ sess'[s].got = sess[s].got
                           /\ sess'[s].damaged = sess[s].damaged
    <3>1. ASSUME NEW s \in Updates, s # found[u] PROVE sess'[s] = sess[s]
      BY <1>4, <2>1, <3>1 DEF Attach, TypeOK
    <3>2. sess'[found[u]] = [sess[found[u]] EXCEPT !.hash = u, !.time = u, !.page = PageOf(u)]
      BY <1>4, <2>1 DEF Attach, TypeOK
    <3>3. sess[found[u]] \in Sessions
      BY <2>1 DEF TypeOK
    <3>4. /\ sess'[found[u]].rev = sess[found[u]].rev
          /\ sess'[found[u]].got = sess[found[u]].got
          /\ sess'[found[u]].damaged = sess[found[u]].damaged
      BY <3>2, <3>3 DEF Sessions
    <3>5. QED
      BY <3>1, <3>4
  <2>4. ASSUME NEW s \in Updates, NEW v \in Updates, merge'[<<s, v>>] # merge[<<s, v>>]
        PROVE  merge'[<<s, v>>] = "lock" /\ s \in live /\ Total(s) = 0
    <3>1. Total(found[u]) = 0 /\ CompleteEmpty(found[u], u)
      BY <1>4, <2>4 DEF Attach
    <3>2. found[u] \in live /\ merge' = [merge EXCEPT ![<<found[u], u>>] = "lock"]
      BY <2>4, <3>1 DEF CompleteEmpty
    <3>3. <<s, v>> = <<found[u], u>>
      BY <2>1, <2>4, <3>2 DEF TypeOK
    <3>4. QED
      BY <2>1, <3>1, <3>2, <3>3 DEF TypeOK
  <2>5. QED
    BY <2>2, <2>3, <2>4
<1>5. CASE CreateTemp(u)
  BY <1>5 DEF CreateTemp, TypeOK
<1>6. CASE RequestChunks(u)
  BY <1>6 DEF RequestChunks, TypeOK
<1>7. CASE RequestFails(u)
  BY <1>7 DEF RequestFails, TypeOK
<1>8. QED
  BY <1>1, <1>2, <1>3, <1>4, <1>5, <1>6, <1>7 DEF Handler

\* A merge starts no merge and opens no session; what it commits it checked, and
\* what it writes is what it commits.
LEMMA MergeStep ==
  ASSUME TypeOK, NEW m \in Updates \X Updates, Merge(m)
  PROVE  /\ upd' = upd /\ svc' = svc /\ sess' = sess /\ reader' = reader
         /\ live' \subseteq live
         /\ \A k \in Updates \X Updates : merge'[k] # "none" => merge[k] # "none"
         /\ \A k \in Updates \X Updates :
              merge'[k] = "commit" => merge[k] = "commit" \/ ~sess[k[1]].damaged
         /\ \A p \in Paths : \/ disk'[p] = disk[p]
                             \/ /\ merge[m] = "commit"
                                /\ disk'[p].whole = ~sess[m[1]].damaged
<1> USE DEF entries, fileVars, MergeFrame, MergeTo
<1>1. CASE MergeLocksPath(m)
  BY <1>1 DEF MergeLocksPath, TypeOK
<1>2. CASE MergeChecks(m)
  BY <1>2 DEF MergeChecks, HashMatches, TypeOK
<1>3. CASE MergeAborts(m)
  <2>1. live' \subseteq live
    BY <1>3 DEF MergeAborts, Abort
  <2>2. QED
    BY <1>3, <2>1 DEF MergeAborts, TypeOK
<1>4. CASE MergeDiscards(m)
  BY <1>4 DEF MergeDiscards, TypeOK
<1>5. CASE MergeCommits(m)
  BY <1>5 DEF MergeCommits, TypeOK
<1>6. CASE MergeCompletesPage(m)
  BY <1>6 DEF MergeCompletesPage, TypeOK
<1>7. QED
  BY <1>1, <1>2, <1>3, <1>4, <1>5, <1>6 DEF Merge

\* A lost connection, a new one and the cleanup drop requests and sessions only.
LEMMA ConnectionStep ==
  ASSUME TypeOK, ConnectionLost \/ Reconnects \/ CleanupTransfers
  PROVE  /\ upd' = upd /\ sess' = sess /\ reader' = reader /\ merge' = merge
         /\ disk' = disk /\ live' \subseteq live
         /\ \A s \in Updates : svc'[s] = "asked" => svc[s] = "asked"
<1> USE DEF entries, fileVars
<1>1. CASE ConnectionLost
  BY <1>1 DEF ConnectionLost
<1>2. CASE Reconnects
  BY <1>2 DEF Reconnects
<1>3. CASE CleanupTransfers
  BY <1>3 DEF CleanupTransfers
<1>4. QED
  BY <1>1, <1>2, <1>3

-----------------------------------------------------------------------------
(* The steps of the read loop preserve the rest of Inv.                      *)

\* A new session is opened by the answer to a request; nothing of it is merged.
LEMMA OpenSessionInv ==
  ASSUME Inv, NEW s \in Updates, OpenSession(s), TypeOK'
  PROVE  Inv'
<1> USE DEF Inv, TypeOK, entries, fileVars
<1>1. /\ upd' = upd /\ svc' = [svc EXCEPT ![s] = "open"] /\ merge' = merge /\ disk' = disk
      /\ live' = live \cup {s} /\ svc[s] = "asked" /\ reader = Idle
      /\ reader' \in {"open", "disorder"} \X {s}
      /\ \A v \in Updates : v # s => sess'[v] = sess[v]
  BY DEF OpenSession
<1>2. upd[s] = "over" /\ \A u \in Updates : merge[<<s, u>>] = "none"
  BY <1>1 DEF AskedIsOver, MergedIsComplete
<1>3. AskedIsOver'
  BY <1>1 DEF AskedIsOver
<1>4. LiveIsOpen'
  BY <1>1, <1>2 DEF LiveIsOpen
<1>5. ReaderMissesChunk'
  BY <1>1 DEF ReaderMissesChunk
<1>6. MergedIsComplete'
  BY <1>1, <1>2 DEF MergedIsComplete, Total
<1>7. CommittedIsWhole'
  BY <1>1, <1>2 DEF CommittedIsWhole
<1>8. DiskIsWhole'
  BY <1>1 DEF DiskIsWhole
<1>9. QED
  BY <1>3, <1>4, <1>5, <1>6, <1>7, <1>8

\* A chunk comes only for a session that misses one, of which nothing is merged.
LEMMA ChunkArrivesInv ==
  ASSUME Inv, NEW s \in Updates, ChunkArrives(s), TypeOK'
  PROVE  Inv'
<1> USE DEF Inv, TypeOK, entries, fileVars
<1>1. /\ upd' = upd /\ svc' = svc /\ merge' = merge /\ disk' = disk /\ live' = live
      /\ reader' = <<"chunk", s>> /\ sess[s].got < Total(s)
      /\ \A v \in Updates : v # s => sess'[v] = sess[v]
  BY DEF ChunkArrives
<1>2. \A u \in Updates : merge[<<s, u>>] = "none"
  BY <1>1 DEF MergedIsComplete
<1>3. sess'[s].rev = sess[s].rev /\ sess'[s].got = sess[s].got
  <2>1. sess[s] \in Sessions
    OBVIOUS
  <2>2. QED
    BY <2>1 DEF ChunkArrives, Sessions
<1>4. AskedIsOver'
  BY <1>1 DEF AskedIsOver
<1>5. LiveIsOpen'
  BY <1>1 DEF LiveIsOpen
<1>6. ReaderMissesChunk'
  BY <1>1, <1>3 DEF ReaderMissesChunk, Total
<1>7. MergedIsComplete'
  BY <1>1, <1>2 DEF MergedIsComplete, Total
<1>8. CommittedIsWhole'
  BY <1>1, <1>2 DEF CommittedIsWhole
<1>9. DiskIsWhole'
  BY <1>1 DEF DiskIsWhole
<1>10. QED
  BY <1>4, <1>5, <1>6, <1>7, <1>8, <1>9

\* The last chunk of a session starts its merge, a session without chunks too.
LEMMA StoredInv ==
  ASSUME Inv, DirectoryMade \/ ChunkStored \/ StoreFails, TypeOK'
  PROVE  Inv'
<1> USE DEF Inv, TypeOK, entries, fileVars
<1>1. /\ upd' = upd /\ svc' = svc /\ disk' = disk /\ reader' = Idle
      /\ live' \subseteq live
  BY DEF DirectoryMade, ChunkStored, StoreFails, ReaderFrame, Abort
<1>2. reader[2] \in Updates
  BY DEF DirectoryMade, ChunkStored, StoreFails, Idle
<1>3. \A s \in Updates : sess'[s].rev = sess[s].rev /\ sess'[s].damaged = sess[s].damaged
  <2>1. CASE UNCHANGED sess
    BY <2>1
  <2>2. CASE sess' = [sess EXCEPT ![reader[2]].got = sess[reader[2]].got + 1]
    <3>1. sess[reader[2]] \in Sessions
      BY <1>2
    <3>2. /\ sess'[reader[2]].rev = sess[reader[2]].rev
          /\ sess'[reader[2]].damaged = sess[reader[2]].damaged
      BY <1>2, <2>2, <3>1 DEF Sessions
    <3>3. QED
      BY <1>2, <2>2, <3>2
  <2>3. QED
    BY <2>1, <2>2 DEF DirectoryMade, ChunkStored, StoreFails
<1>4. ASSUME NEW s \in Updates, NEW u \in Updates, merge'[<<s, u>>] # "none"
      PROVE  /\ ~(sess'[s].got < Chunks[sess'[s].rev])
             /\ upd[s] = "over" /\ svc[s] # "asked"
  <2>1. CASE merge[<<s, u>>] # "none"
    <3>1. ~(sess[s].got < Total(s)) /\ upd[s] = "over" /\ svc[s] # "asked"
      BY <2>1 DEF MergedIsComplete
    <3>2. sess'[s] = sess[s]
      <4>1. CASE ChunkStored
        <5>1. s # reader[2]
          BY <3>1, <4>1 DEF ReaderMissesChunk, ChunkStored
        <5>2. QED
          BY <1>2, <4>1, <5>1 DEF ChunkStored
      <4>2. CASE DirectoryMade \/ StoreFails
        BY <4>2 DEF DirectoryMade, StoreFails
      <4>3. QED
        BY <4>1, <4>2
    <3>3. QED
      BY <3>1, <3>2 DEF Total
  <2>2. CASE merge[<<s, u>>] = "none"
    <3>1. ~StoreFails
      BY <1>4, <2>2 DEF StoreFails
    <3>2. CASE DirectoryMade
      <4>1. /\ s = reader[2] /\ s \in live /\ Total(s) = 0
            /\ sess' = sess
        BY <1>2, <1>4, <2>2, <3>2 DEF DirectoryMade, CompleteEmpty
      <4>2. sess[s].got \in Nat
        <5>1. sess[s] \in Sessions
          OBVIOUS
        <5>2. QED
          BY <5>1 DEF Sessions
      <4>3. QED
        BY <4>1, <4>2 DEF LiveIsOpen, Total
    <3>3. CASE ChunkStored
      <4>1. merge' # merge
        BY <1>4, <2>2
      <4>2. /\ s = reader[2] /\ s \in live /\ sess[s].got + 1 = Total(s)
            /\ sess' = [sess EXCEPT ![s].got = sess[s].got + 1]
        BY <1>2, <1>4, <2>2, <3>3, <4>1 DEF ChunkStored
      <4>3. sess[s] \in Sessions
        OBVIOUS
      <4>4. sess'[s].got = sess[s].got + 1 /\ sess[s].got \in Nat
        BY <4>2, <4>3 DEF Sessions
      <4>5. sess'[s].got = Chunks[sess'[s].rev]
        BY <1>3, <4>2, <4>4 DEF Total
      <4>6. ~(sess'[s].got < Chunks[sess'[s].rev])
        BY <4>4, <4>5
      <4>7. QED
        BY <4>2, <4>6 DEF LiveIsOpen
    <3>4. QED
      BY <3>1, <3>2, <3>3
  <2>3. QED
    BY <2>1, <2>2
<1>5. AskedIsOver' /\ LiveIsOpen' /\ ReaderMissesChunk'
  BY <1>1 DEF AskedIsOver, LiveIsOpen, ReaderMissesChunk, Idle
<1>6. MergedIsComplete'
  BY <1>1, <1>4 DEF MergedIsComplete, Total
<1>7. CommittedIsWhole'
  <2>1. \A s, u \in Updates : merge'[<<s, u>>] = "commit" => merge[<<s, u>>] = "commit"
    <3>1. CASE UNCHANGED merge
      BY <3>1
    <3>2. CASE merge' = [merge EXCEPT ![<<reader[2], reader[2]>>] = "lock"]
      BY <1>2, <3>2
    <3>3. QED
      BY <3>1, <3>2 DEF DirectoryMade, ChunkStored, StoreFails, CompleteEmpty
  <2>2. QED
    BY <1>3, <2>1 DEF CommittedIsWhole
<1>8. DiskIsWhole'
  BY <1>1 DEF DiskIsWhole
<1>9. QED
  BY <1>5, <1>6, <1>7, <1>8

-----------------------------------------------------------------------------
(* Every step preserves Inv.                                                 *)

\* The handler of an update preserves Inv.
LEMMA HandlerInv ==
  ASSUME Inv, NEW u \in Updates, UpdateArrives(u) \/ Handler(u)
  PROVE  Inv'
<1> USE DEF Inv
<1>1. TypeOK'
  BY HandlerType
<1>2. /\ live' = live /\ reader' = reader /\ disk' = disk
      /\ \A s \in Updates : upd[s] = "over" => upd'[s] = "over"
      /\ \A s \in Updates :
           svc'[s] = "asked" => \/ svc[s] = "asked"
                                \/ upd[s] = "send" /\ upd'[s] = "over"
      /\ \A s \in Updates : /\ sess'[s].rev = sess[s].rev /\ sess'[s].got = sess[s].got
                            /\ sess'[s].damaged = sess[s].damaged
      /\ \A s, v \in Updates :
           merge'[<<s, v>>] # merge[<<s, v>>] =>
             merge'[<<s, v>>] = "lock" /\ s \in live /\ Total(s) = 0
  BY HandlerStep
<1>3. AskedIsOver'
  BY <1>2 DEF AskedIsOver
<1>4. \A s \in Updates : upd[s] = "over" /\ svc[s] # "asked" =>
                           upd'[s] = "over" /\ svc'[s] # "asked"
  BY <1>2
<1>5. LiveIsOpen'
  BY <1>2, <1>4 DEF LiveIsOpen, TypeOK
<1>6. ReaderMissesChunk'
  BY <1>2 DEF ReaderMissesChunk, Total, TypeOK, Idle
<1>7. \A s \in Updates : Total(s)' = Total(s)
  BY <1>2 DEF Total
<1>8. MergedIsComplete'
  <2> SUFFICES ASSUME NEW s \in Updates, NEW v \in Updates, merge'[<<s, v>>] # "none"
               PROVE  /\ ~(sess'[s].got < Total(s)')
                      /\ upd'[s] = "over" /\ svc'[s] # "asked"
    BY DEF MergedIsComplete
  <2>1. CASE merge'[<<s, v>>] = merge[<<s, v>>]
    BY <1>2, <1>4, <1>7, <2>1 DEF MergedIsComplete
  <2>2. CASE merge'[<<s, v>>] # merge[<<s, v>>]
    <3>1. s \in live /\ Total(s) = 0
      BY <1>2, <2>2
    <3>2. sess[s].got \in Nat
      <4>1. sess[s] \in Sessions
        BY DEF TypeOK
      <4>2. QED
        BY <4>1 DEF Sessions
    <3>3. ~(sess'[s].got < Total(s)')
      BY <1>2, <1>7, <3>1, <3>2
    <3>4. QED
      BY <1>4, <3>1, <3>3 DEF LiveIsOpen
  <2>3. QED
    BY <2>1, <2>2
<1>9. CommittedIsWhole'
  BY <1>2 DEF CommittedIsWhole
<1>10. DiskIsWhole'
  BY <1>2 DEF DiskIsWhole
<1>11. QED
  BY <1>1, <1>3, <1>5, <1>6, <1>8, <1>9, <1>10

\* A merge preserves Inv.
LEMMA MergeInv ==
  ASSUME Inv, NEW m \in Updates \X Updates, Merge(m)
  PROVE  Inv'
<1> USE DEF Inv
<1>1. TypeOK'
  BY MergeType
<1>2. /\ upd' = upd /\ svc' = svc /\ sess' = sess /\ reader' = reader
      /\ live' \subseteq live
      /\ \A k \in Updates \X Updates : merge'[k] # "none" => merge[k] # "none"
      /\ \A k \in Updates \X Updates :
           merge'[k] = "commit" => merge[k] = "commit" \/ ~sess[k[1]].damaged
      /\ \A p \in Paths : \/ disk'[p] = disk[p]
                          \/ /\ merge[m] = "commit"
                             /\ disk'[p].whole = ~sess[m[1]].damaged
  BY MergeStep
<1>3. AskedIsOver' /\ LiveIsOpen' /\ ReaderMissesChunk'
  BY <1>2 DEF AskedIsOver, LiveIsOpen, ReaderMissesChunk, Total
<1>4. MergedIsComplete'
  BY <1>2 DEF MergedIsComplete, Total
<1>5. CommittedIsWhole'
  BY <1>2 DEF CommittedIsWhole
<1>6. DiskIsWhole'
  <2>1. m = <<m[1], m[2]>> /\ m[1] \in Updates /\ m[2] \in Updates
    OBVIOUS
  <2>2. merge[m] = "commit" => ~sess[m[1]].damaged
    BY <2>1 DEF CommittedIsWhole
  <2>3. QED
    BY <1>2, <2>2 DEF DiskIsWhole
<1>7. QED
  BY <1>1, <1>3, <1>4, <1>5, <1>6

\* A lost connection, a new one and the cleanup preserve Inv.
LEMMA ConnectionInv ==
  ASSUME Inv, ConnectionLost \/ Reconnects \/ CleanupTransfers
  PROVE  Inv'
<1> USE DEF Inv
<1>1. TypeOK'
  BY ConnectionType
<1>2. /\ upd' = upd /\ sess' = sess /\ reader' = reader /\ merge' = merge
      /\ disk' = disk /\ live' \subseteq live
      /\ \A s \in Updates : svc'[s] = "asked" => svc[s] = "asked"
  BY ConnectionStep
<1>3. AskedIsOver' /\ LiveIsOpen' /\ ReaderMissesChunk'
  BY <1>2 DEF AskedIsOver, LiveIsOpen, ReaderMissesChunk, Total, TypeOK
<1>4. MergedIsComplete' /\ CommittedIsWhole' /\ DiskIsWhole'
  BY <1>2 DEF MergedIsComplete, CommittedIsWhole, DiskIsWhole, Total
<1>5. QED
  BY <1>1, <1>3, <1>4

\* No step of any actor breaks Inv.
LEMMA StepInv == Inv /\ [Next]_vars => Inv'
<1> SUFFICES ASSUME Inv, [Next]_vars PROVE Inv'
  OBVIOUS
<1>1. CASE \E u \in Updates : UpdateArrives(u) \/ Handler(u)
  BY <1>1, HandlerInv
<1>2. CASE Reader
  <2>1. TypeOK'
    BY <1>2, ReaderType DEF Inv
  <2>2. QED
    BY <1>2, <2>1, OpenSessionInv, ChunkArrivesInv, StoredInv DEF Reader
<1>3. CASE \E m \in Updates \X Updates : Merge(m)
  BY <1>3, MergeInv
<1>4. CASE ConnectionLost \/ Reconnects \/ CleanupTransfers
  BY <1>4, ConnectionInv
<1>5. CASE UNCHANGED vars
  BY <1>5 DEF Inv, vars, netVars, entries, fileVars, TypeOK, AskedIsOver, LiveIsOpen,
              ReaderMissesChunk, MergedIsComplete, CommittedIsWhole, DiskIsWhole, Total
<1>6. QED
  BY <1>1, <1>2, <1>3, <1>4, <1>5 DEF Next

-----------------------------------------------------------------------------
(* The theorems.                                                             *)

\* The inductive invariant: what is requested, open, read and merged fits
\* together in every reachable state.
THEOREM Invariance == Spec => []Inv
<1>1. Init => Inv
  BY InitInv
<1>2. Inv /\ [Next]_vars => Inv'
  BY StepInv
<1>3. QED
  BY <1>1, <1>2, PTL DEF Spec

\* Type correctness of every entry, session, merge and file.
THEOREM TypeCorrectness == Spec => []TypeOK
<1>1. Inv => TypeOK
  BY DEF Inv
<1>2. QED
  BY <1>1, Invariance, PTL

\* mergeDownloadSession never replaces a file by anything but a whole revision,
\* whatever overlaps, is damaged, fails, is cancelled or lost.
THEOREM FilesAreWhole == Spec => []DiskIsWhole
<1>1. Inv => DiskIsWhole
  BY DEF Inv
<1>2. QED
  BY <1>1, Invariance, PTL

\* A cancelled session changes no file, whatever its merge was doing: only
\* mergeDownloadSession replaces files, and it looks the session up once more.
THEOREM CancelledSessionsAreHarmless == Spec => CancelledNeverCommits
<1> DEFINE Live == \A p \in Paths : disk'[p] # disk[p] =>
                     \E s \in live \ Cancelled :
                       Path[s] = p /\ s \notin live' /\ disk'[p].rev = sess[s].rev
<1>1. ASSUME TypeOK, [Next]_vars PROVE Live
  <2>1. ASSUME NEW u \in Updates, UpdateArrives(u) \/ Handler(u) PROVE disk' = disk
    BY <1>1, <2>1, HandlerStep
  <2>2. CASE Reader
    BY <2>2 DEF Reader, DirectoryMade, ChunkStored, StoreFails, OpenSession, ChunkArrives,
                ReaderFrame, fileVars
  <2>3. ASSUME NEW m \in Updates \X Updates, Merge(m) PROVE Live
    <3>1. CASE ~MergeCommits(m)
      BY <2>3, <3>1 DEF Merge, MergeLocksPath, MergeChecks, MergeAborts, MergeDiscards,
                        MergeCompletesPage, fileVars
    <3>2. CASE MergeCommits(m)
      <4>1. m[1] \in live \ Cancelled /\ m[1] \notin live'
        BY <3>2 DEF MergeCommits
      <4>2. ASSUME NEW p \in Paths, disk'[p] # disk[p]
            PROVE  Path[m[1]] = p /\ disk'[p].rev = sess[m[1]].rev
        BY <1>1, <3>2, <4>2 DEF MergeCommits, TypeOK
      <4>3. QED
        BY <4>1, <4>2
    <3>3. QED
      BY <3>1, <3>2
  <2>4. CASE ConnectionLost \/ Reconnects \/ CleanupTransfers
    BY <1>1, <2>4, ConnectionStep
  <2>5. CASE UNCHANGED vars
    BY <2>5 DEF vars, fileVars
  <2>6. QED
    BY <1>1, <2>1, <2>2, <2>3, <2>4, <2>5 DEF Next
<1>2. TypeOK /\ [Next]_vars => [Live]_vars
  BY <1>1
<1>3. QED
  BY <1>2, TypeCorrectness, PTL DEF Spec, CancelledNeverCommits

-----------------------------------------------------------------------------
(* Who is at work on a path.  As long as no update of a path overlaps another *)
(* one is at work on it at a time, and what it holds is in one place; of two  *)
(* that overlap the later attaches to the session of the earlier.             *)

\* Something of update u is at work: its handler, its request, its session or
\* its temporary entry.
InHand(u) == \/ upd[u] \in {"look", "wait", "record", "send"} \/ svc[u] = "asked"
             \/ u \in live \/ temp[Path[u]] = u

\* Without overlaps one update of a path is at work, and none attaches.
Alone == \A u, v \in Updates :
  Path[u] = Path[v] /\ overlaps[Path[u]] = 0 /\ InHand(u) /\ InHand(v) => u = v
NoneFound == \A u \in Updates : overlaps[Path[u]] = 0 => found[u] = None

\* A handler attaches to a session of its own path.
FoundOfPath == \A u \in Updates :
  found[u] # None => found[u] \in Updates /\ Path[found[u]] = Path[u]

\* The temporary entry of a path is that of a handler that made its request.
TempIsOwn == \A p \in Paths : temp[p] # None =>
  temp[p] \in Updates /\ Path[temp[p]] = p /\ upd[temp[p]] \in {"send", "over"}
TempHeldLater == \A u \in tempHeld : upd[u] \in {"send", "over"}

\* What holds a slot is in the maps, where the slot is given back from.
HeldTemp == \A u \in tempHeld :
  overlaps[Path[u]] = 0 /\ upd[u] = "send" => temp[Path[u]] = u
HeldLive == \A s \in held : overlaps[Path[s]] = 0 => s \in live

\* The hash a session compares with is that of the revision it receives.
RevIsHash == \A s \in live : overlaps[Path[s]] = 0 => sess[s].rev = sess[s].hash

Hand == /\ Alone /\ NoneFound /\ FoundOfPath /\ TempIsOwn /\ TempHeldLater
        /\ HeldTemp /\ HeldLive /\ RevIsHash

\* Only what is at work makes a path busy.
LEMMA HandIsBusy ==
  ASSUME NEW u \in Updates, InHand(u)
  PROVE  Busy(Path[u])
<1>1. u # None
  BY UpdatesAreNumbers DEF Updates, None
<1>2. QED
  BY <1>1 DEF InHand, Busy, SessionsOf

\* An arrival counts an overlap iff the path is busy.
LEMMA ArrivalCounts ==
  ASSUME TypeOK, NEW u \in Updates, UpdateArrives(u), NEW v \in Updates
  PROVE  /\ overlaps[Path[v]] \in Nat /\ overlaps'[Path[v]] \in Nat
         /\ overlaps[Path[v]] <= overlaps'[Path[v]]
         /\ Path[v] # Path[u] => overlaps'[Path[v]] = overlaps[Path[v]]
         /\ Path[v] = Path[u] /\ Busy(Path[u]) =>
              overlaps'[Path[v]] = overlaps[Path[v]] + 1
<1>1. Path[u] \in Paths /\ Path[v] \in Paths
  BY DEF Paths
<1> DEFINE n == IF Busy(Path[u]) THEN overlaps[Path[u]] + 1 ELSE overlaps[Path[u]]
<1>2. overlaps' = [overlaps EXCEPT ![Path[u]] = n]
  BY DEF UpdateArrives
<1>3. overlaps \in [Paths -> Nat]
  BY DEF TypeOK
<1>4. n \in Nat /\ overlaps[Path[u]] <= n
      /\ (Busy(Path[u]) => n = overlaps[Path[u]] + 1)
  BY <1>1, <1>3
<1> HIDE DEF n
<1>5. QED
  BY <1>1, <1>2, <1>3, <1>4

\* An arrival on a busy path ends its being free of overlaps.
LEMMA HandOfArrival ==
  ASSUME Inv, Hand, NEW u \in Updates, UpdateArrives(u)
  PROVE  Hand'
<1>1. /\ upd[u] = "later" /\ upd' = [upd EXCEPT ![u] = "look"]
      /\ UNCHANGED <<svc, live, temp, tempHeld, held, found, sess>>
  BY DEF UpdateArrives, entries
<1>2. \A v \in Updates : overlaps'[Path[v]] = 0 => overlaps[Path[v]] = 0
  BY ArrivalCounts DEF Inv
<1>3. \A v \in Updates : InHand(v)' => v = u \/ InHand(v)
  BY <1>1 DEF InHand, Inv, TypeOK
<1>4. ASSUME NEW v \in Updates, Path[v] = Path[u], overlaps'[Path[v]] = 0
      PROVE  ~InHand(v)
  BY <1>4, ArrivalCounts, HandIsBusy DEF Inv
<1>5. Alone'
  <2> SUFFICES ASSUME NEW v \in Updates, NEW w \in Updates, Path[v] = Path[w],
                      overlaps'[Path[v]] = 0, InHand(v)', InHand(w)'
               PROVE  v = w
    BY DEF Alone
  <2>1. v = u => w = u
    BY <1>3, <1>4
  <2>2. w = u => v = u
    BY <1>3, <1>4
  <2>3. InHand(v) /\ InHand(w) => v = w
    BY <1>2 DEF Hand, Alone
  <2>4. QED
    BY <1>3, <2>1, <2>2, <2>3
<1>6. NoneFound' /\ FoundOfPath' /\ HeldLive' /\ RevIsHash'
  BY <1>1, <1>2 DEF Hand, NoneFound, FoundOfPath, HeldLive, RevIsHash, Inv, TypeOK
<1>7. \A v \in Updates : upd[v] \in {"send", "over"} => upd'[v] = upd[v]
  BY <1>1 DEF Inv, TypeOK
<1>8. TempIsOwn'
  BY <1>1, <1>7 DEF Hand, TempIsOwn
<1>9. TempHeldLater' /\ HeldTemp'
  BY <1>1, <1>2, <1>7 DEF Hand, TempHeldLater, HeldTemp, Inv, TypeOK
<1>10. QED
  BY <1>5, <1>6, <1>8, <1>9 DEF Hand

\* While a path is free of overlaps a handler finds no session and records its
\* slot in an entry of its own.
LEMMA HandOfHandler ==
  ASSUME Inv, Hand, NEW u \in Updates, Handler(u)
  PROVE  Hand'
<1> USE DEF Inv
<1>1. upd[u] \in {"look", "wait", "record", "send"} /\ InHand(u) /\ u \notin live
      /\ svc[u] # "asked" /\ overlaps' = overlaps /\ u # None
  <2>1. upd[u] \in {"look", "wait", "record", "send"} /\ overlaps' = overlaps
    BY DEF Handler, LookForSession, TakeSlot, Attach, CreateTemp, RequestChunks, RequestFails
  <2>2. QED
    BY <2>1, UpdatesAreNumbers DEF InHand, LiveIsOpen, AskedIsOver, None, Updates
<1>2. ASSUME NEW v \in Updates, Path[v] = Path[u], overlaps[Path[v]] = 0, InHand(v)
      PROVE  v = u
  BY <1>1, <1>2 DEF Hand, Alone
<1>3. ASSUME \A v \in Updates : InHand(v)' => InHand(v)
      PROVE  Alone'
  BY <1>1, <1>3 DEF Hand, Alone
<1>4. CASE LookForSession(u)
  <2>1. /\ upd[u] = "look" /\ upd' = [upd EXCEPT ![u] = "wait"]
        /\ UNCHANGED <<svc, live, temp, tempHeld, held, sess>>
    BY <1>4 DEF LookForSession, entries
  <2>2. Alone'
    <3>1. \A v \in Updates : InHand(v)' => InHand(v)
      BY <1>1, <2>1 DEF InHand, TypeOK
    <3>2. QED
      BY <1>3, <3>1
  <2>3. found' = found \/ \E s \in SessionsOf(Path[u]) : found' = [found EXCEPT ![u] = s]
    BY <1>4 DEF LookForSession
  <2>4. ASSUME overlaps[Path[u]] = 0
        PROVE  found' = found
    <3>1. ASSUME NEW s \in SessionsOf(Path[u])
          PROVE  FALSE
      <4>1. s \in live /\ Path[s] = Path[u] /\ s \in Updates
        BY DEF SessionsOf, TypeOK
      <4>2. s = u
        BY <1>2, <2>4, <4>1 DEF InHand
      <4>3. QED
        BY <1>1, <4>1, <4>2
    <3>2. QED
      BY <2>3, <3>1
  <2>5. FoundOfPath'
    <3>1. CASE found' = found
      BY <3>1 DEF Hand, FoundOfPath
    <3>2. ASSUME NEW s \in SessionsOf(Path[u]), found' = [found EXCEPT ![u] = s]
          PROVE  FoundOfPath'
      BY <3>2 DEF Hand, FoundOfPath, SessionsOf, TypeOK
    <3>3. QED
      BY <2>3, <3>1, <3>2
  <2>6. NoneFound'
    <3> SUFFICES ASSUME NEW v \in Updates, overlaps[Path[v]] = 0
                 PROVE  found'[v] = None
      BY <1>1 DEF NoneFound
    <3>1. found'[v] = found[v]
      BY <2>3, <2>4 DEF TypeOK
    <3>2. QED
      BY <3>1 DEF Hand, NoneFound
  <2>7. TempIsOwn' /\ TempHeldLater' /\ HeldTemp' /\ HeldLive' /\ RevIsHash'
    BY <1>1, <2>1 DEF Hand, TempIsOwn, TempHeldLater, HeldTemp, HeldLive, RevIsHash, TypeOK
  <2>8. QED
    BY <2>2, <2>5, <2>6, <2>7 DEF Hand
<1>5. CASE TakeSlot(u)
  <2>1. /\ upd[u] = "wait" /\ upd' = [upd EXCEPT ![u] = "record"]
        /\ UNCHANGED <<svc, live, temp, tempHeld, held, sess, found>>
    BY <1>5 DEF TakeSlot, entries
  <2>2. \A v \in Updates : InHand(v)' => InHand(v)
    BY <1>1, <2>1 DEF InHand, TypeOK
  <2>3. TempIsOwn' /\ TempHeldLater' /\ HeldTemp'
    BY <1>1, <2>1 DEF Hand, TempIsOwn, TempHeldLater, HeldTemp, TypeOK
  <2>4. NoneFound' /\ FoundOfPath' /\ HeldLive' /\ RevIsHash'
    BY <1>1, <2>1 DEF Hand, NoneFound, FoundOfPath, HeldLive, RevIsHash
  <2>5. QED
    BY <1>3, <2>2, <2>3, <2>4 DEF Hand
<1>6. CASE Attach(u)
  <2>1. /\ upd[u] = "record" /\ upd' \in {[upd EXCEPT ![u] = "over"], [upd EXCEPT ![u] = "send"]}
        /\ found[u] # None /\ held' = held \cup {found[u]}
        /\ UNCHANGED <<svc, live, temp, tempHeld, found>>
    BY <1>6 DEF Attach, entries
  <2>2. found[u] \in Updates /\ Path[found[u]] = Path[u] /\ overlaps[Path[u]] # 0
    BY <2>1 DEF Hand, FoundOfPath, NoneFound
  <2>3. \A v \in Updates : v # found[u] => sess'[v] = sess[v]
    BY <1>6 DEF Attach, TypeOK
  <2>4. \A v \in Updates : InHand(v)' => InHand(v)
    BY <1>1, <2>1 DEF InHand, TypeOK
  <2>5. \A v \in Updates : v # u => upd'[v] = upd[v]
    BY <2>1 DEF TypeOK
  <2>6. TempIsOwn' /\ TempHeldLater' /\ HeldTemp'
    <3>1. u \notin tempHeld /\ \A p \in Paths : temp[p] # u \/ temp[p] = None
      BY <2>1 DEF Hand, TempHeldLater, TempIsOwn
    <3>2. TempIsOwn'
      BY <2>1, <2>5, <3>1 DEF Hand, TempIsOwn
    <3>3. QED
      BY <1>1, <2>1, <2>5, <3>1, <3>2 DEF Hand, TempHeldLater, HeldTemp, TypeOK
  <2>7. HeldLive' /\ RevIsHash'
    BY <1>1, <2>1, <2>2, <2>3 DEF Hand, HeldLive, RevIsHash, TypeOK
  <2>8. NoneFound' /\ FoundOfPath'
    BY <1>1, <2>1 DEF Hand, NoneFound, FoundOfPath
  <2>9. QED
    BY <1>3, <2>4, <2>5, <2>6, <2>7, <2>8 DEF Hand
<1>7. CASE CreateTemp(u)
  <2>1. /\ upd[u] = "record" /\ upd' = [upd EXCEPT ![u] = "send"]
        /\ temp' = [temp EXCEPT ![Path[u]] = u] /\ tempHeld' = tempHeld \cup {u}
        /\ UNCHANGED <<svc, live, held, sess, found>>
    BY <1>7 DEF CreateTemp, entries
  <2>2. Path[u] \in Paths
    BY DEF Paths
  <2>3. \A v \in Updates : InHand(v)' => InHand(v)
    <3> SUFFICES ASSUME NEW v \in Updates, InHand(v)', v # u
                 PROVE  InHand(v)
      BY <1>1
    <3>1. temp'[Path[v]] = v => temp[Path[v]] = v
      BY <2>1, <2>2 DEF TypeOK, Paths
    <3>2. QED
      BY <2>1, <3>1 DEF InHand, TypeOK
  <2>4. TempIsOwn'
    <3> SUFFICES ASSUME NEW p \in Paths, temp'[p] # None
                 PROVE  /\ temp'[p] \in Updates /\ Path[temp'[p]] = p
                        /\ upd'[temp'[p]] \in {"send", "over"}
      BY DEF TempIsOwn
    <3>1. CASE p = Path[u]
      BY <2>1, <2>2, <3>1 DEF TypeOK
    <3>2. CASE p # Path[u]
      <4>1. temp'[p] = temp[p]
        BY <2>1, <3>2 DEF TypeOK
      <4>2. QED
        BY <2>1, <4>1 DEF Hand, TempIsOwn, TypeOK
    <3>3. QED
      BY <3>1, <3>2
  <2>5. TempHeldLater'
    BY <2>1 DEF Hand, TempHeldLater, TypeOK
  <2>6. HeldTemp'
    <3> SUFFICES ASSUME NEW v \in tempHeld', overlaps[Path[v]] = 0, upd'[v] = "send"
                 PROVE  temp'[Path[v]] = v
      BY <1>1 DEF HeldTemp
    <3>1. CASE v = u
      BY <2>1, <2>2, <3>1 DEF TypeOK
    <3>2. CASE v # u
      <4>1. v \in tempHeld /\ v \in Updates /\ upd[v] = "send"
        BY <2>1, <3>2 DEF TypeOK
      <4>2. temp[Path[v]] = v
        BY <4>1 DEF Hand, HeldTemp
      <4>3. Path[v] # Path[u]
        BY <1>2, <3>2, <4>1 DEF InHand
      <4>4. QED
        BY <2>1, <4>1, <4>2, <4>3 DEF TypeOK, Paths
    <3>3. QED
      BY <3>1, <3>2
  <2>7. NoneFound' /\ FoundOfPath' /\ HeldLive' /\ RevIsHash'
    BY <1>1, <2>1 DEF Hand, NoneFound, FoundOfPath, HeldLive, RevIsHash
  <2>8. QED
    BY <1>3, <2>3, <2>4, <2>5, <2>6, <2>7 DEF Hand
<1>8. CASE RequestChunks(u)
  <2>1. /\ upd[u] = "send" /\ upd' = [upd EXCEPT ![u] = "over"]
        /\ svc' = [svc EXCEPT ![u] = "asked"]
        /\ UNCHANGED <<live, temp, tempHeld, held, sess, found>>
    BY <1>8 DEF RequestChunks, entries
  <2>2. \A v \in Updates : InHand(v)' => InHand(v)
    BY <1>1, <2>1 DEF InHand, TypeOK
  <2>3. TempIsOwn' /\ TempHeldLater' /\ HeldTemp'
    BY <1>1, <2>1 DEF Hand, TempIsOwn, TempHeldLater, HeldTemp, TypeOK
  <2>4. NoneFound' /\ FoundOfPath' /\ HeldLive' /\ RevIsHash'
    BY <1>1, <2>1 DEF Hand, NoneFound, FoundOfPath, HeldLive, RevIsHash
  <2>5. QED
    BY <1>3, <2>2, <2>3, <2>4 DEF Hand
<1>9. CASE RequestFails(u)
  <2>1. /\ upd[u] = "send" /\ upd' = [upd EXCEPT ![u] = "over"]
        /\ UNCHANGED <<svc, live, sess, found>>
        /\ held' \subseteq held /\ tempHeld' \subseteq tempHeld
        /\ \/ temp' = temp
           \/ temp' = [temp EXCEPT ![Path[u]] = None]
    BY <1>9 DEF RequestFails
  <2>2. Path[u] \in Paths
    BY DEF Paths
  <2>3. \A p \in Paths : temp'[p] = temp[p] \/ (p = Path[u] /\ temp'[p] = None)
    BY <2>1 DEF TypeOK
  <2>4. \A v \in Updates : v # None /\ Path[v] \in Paths
    BY UpdatesAreNumbers DEF Updates, None, Paths
  <2>5. \A v \in Updates : InHand(v)' => InHand(v)
    BY <1>1, <2>1, <2>3, <2>4 DEF InHand, TypeOK
  <2>6. \A v \in Updates : upd[v] \in {"send", "over"} => upd'[v] \in {"send", "over"}
    BY <2>1 DEF TypeOK
  <2>7. TempIsOwn'
    BY <2>3, <2>6 DEF Hand, TempIsOwn
  <2>8. TempHeldLater'
    BY <2>1, <2>6 DEF Hand, TempHeldLater, TypeOK
  <2>9. HeldTemp'
    <3> SUFFICES ASSUME NEW v \in tempHeld', overlaps[Path[v]] = 0, upd'[v] = "send"
                 PROVE  temp'[Path[v]] = v
      BY <1>1 DEF HeldTemp
    <3>1. v \in tempHeld /\ v \in Updates /\ v # u /\ upd[v] = "send"
      BY <2>1 DEF TypeOK
    <3>2. Path[v] # Path[u]
      BY <1>2, <3>1 DEF InHand
    <3>3. QED
      BY <2>3, <2>4, <3>1, <3>2 DEF Hand, HeldTemp
  <2>10. NoneFound' /\ FoundOfPath' /\ HeldLive' /\ RevIsHash'
    BY <1>1, <2>1 DEF Hand, NoneFound, FoundOfPath, HeldLive, RevIsHash
  <2>11. QED
    BY <1>3, <2>5, <2>7, <2>8, <2>9, <2>10 DEF Hand
<1>10. QED
  BY <1>4, <1>5, <1>6, <1>7, <1>8, <1>9 DEF Handler

\* The answer to a request finds the entry of the update that made it.
LEMMA HandOfOpenSession ==
  ASSUME Inv, Hand, NEW s \in Updates, OpenSession(s)
  PROVE  Hand'
<1> USE DEF Inv
<1>1. /\ svc[s] = "asked" /\ svc' = [svc EXCEPT ![s] = "open"] /\ live' = live \cup {s}
      /\ temp' = [temp EXCEPT ![Path[s]] = None] /\ held' \subseteq held \cup {s}
      /\ UNCHANGED <<upd, found, tempHeld, overlaps>>
      /\ upd[s] = "over" /\ InHand(s) /\ Path[s] \in Paths
  BY DEF OpenSession, AskedIsOver, InHand, Paths
<1>2. \A p \in Paths : temp'[p] = temp[p] \/ (p = Path[s] /\ temp'[p] = None)
  BY <1>1 DEF TypeOK
<1>3. \A v \in Updates : v # None /\ Path[v] \in Paths
  BY UpdatesAreNumbers DEF Updates, None, Paths
<1>4. Alone'
  <2>1. \A v \in Updates : InHand(v)' => InHand(v)
    BY <1>1, <1>2, <1>3 DEF InHand, TypeOK
  <2>2. QED
    BY <1>1, <2>1 DEF Hand, Alone
<1>5. TempIsOwn' /\ TempHeldLater' /\ NoneFound' /\ FoundOfPath'
  BY <1>1, <1>2 DEF Hand, TempIsOwn, TempHeldLater, NoneFound, FoundOfPath
<1>6. HeldTemp'
  <2> SUFFICES ASSUME NEW v \in tempHeld, overlaps[Path[v]] = 0, upd[v] = "send"
               PROVE  temp'[Path[v]] = v
    BY <1>1 DEF HeldTemp
  <2>1. v \in Updates /\ v # s /\ InHand(v)
    BY <1>1 DEF TypeOK, InHand
  <2>2. Path[v] # Path[s]
    BY <1>1, <2>1 DEF Hand, Alone
  <2>3. QED
    BY <1>2, <1>3, <2>1, <2>2 DEF Hand, HeldTemp
<1>7. HeldLive'
  BY <1>1 DEF Hand, HeldLive
<1>8. RevIsHash'
  <2>1. sess'[s].rev = sess'[s].hash
    BY DEF OpenSession, TypeOK, NoSession
  <2>2. \A v \in Updates : v # s => sess'[v] = sess[v]
    BY DEF OpenSession, TypeOK
  <2>3. QED
    BY <1>1, <2>1, <2>2 DEF Hand, RevIsHash, TypeOK
<1>9. QED
  BY <1>4, <1>5, <1>6, <1>7, <1>8 DEF Hand

\* The other steps: they start nothing, and what they drop they drop everywhere.
Shrinks ==
  /\ upd' = upd /\ found' = found /\ overlaps' = overlaps /\ live' \subseteq live
  /\ \A s \in Updates : /\ svc'[s] = "asked" => svc[s] = "asked"
                        /\ sess'[s].rev = sess[s].rev /\ sess'[s].hash = sess[s].hash
  /\ \A p \in Paths : temp'[p] \in {temp[p], None}
  /\ tempHeld' \subseteq tempHeld
  /\ \A u \in tempHeld' : temp[Path[u]] = u => temp'[Path[u]] = u
  /\ held' \subseteq held /\ \A s \in held' : s \in live => s \in live'

\* Such a step leaves the rest as it was.
LEMMA HandOfShrink ==
  ASSUME Inv, Hand, Shrinks
  PROVE  Hand'
<1> USE DEF Inv, Shrinks
<1>1. \A v \in Updates : v # None /\ Path[v] \in Paths
  BY UpdatesAreNumbers DEF Updates, None, Paths
<1>2. Alone'
  <2>1. \A v \in Updates : InHand(v)' => InHand(v)
    BY <1>1 DEF InHand
  <2>2. QED
    BY <2>1 DEF Hand, Alone
<1>3. TempIsOwn'
  BY DEF Hand, TempIsOwn
<1>4. TempHeldLater' /\ HeldTemp'
  BY DEF Hand, TempHeldLater, HeldTemp
<1>5. NoneFound' /\ FoundOfPath'
  BY DEF Hand, NoneFound, FoundOfPath
<1>6. HeldLive' /\ RevIsHash'
  BY DEF Hand, HeldLive, RevIsHash, TypeOK
<1>7. QED
  BY <1>2, <1>3, <1>4, <1>5, <1>6 DEF Hand

\* What such a step does with slots: nothing, or it gives back that of one
\* session that goes, or it gives back all.
SlotsFollow ==
  \/ UNCHANGED <<slots, upd, live, held, temp, tempHeld>>
  \/ \E x \in live : /\ live' = live \ {x} /\ held' = held \ {x} /\ Release(x \in held)
                     /\ UNCHANGED <<upd, temp, tempHeld>>
  \/ slots' = 0

\* abortDownloadSession drops an entry, its slot and its flag together.
LEMMA AbortShrinks ==
  ASSUME TypeOK, NEW s \in Updates, Abort(s),
         UNCHANGED <<upd, found, temp, tempHeld, svc, sess, overlaps>>
  PROVE  Shrinks /\ SlotsFollow
<1>1. CASE s \in live
  BY <1>1 DEF Abort, Shrinks, SlotsFollow
<1>2. CASE s \notin live
  BY <1>2 DEF Abort, Shrinks, SlotsFollow, entries
<1>3. QED
  BY <1>1, <1>2

\* The read loop, but for the answer to a request, starts nothing.
LEMMA ReaderShrinks ==
  ASSUME TypeOK, \/ DirectoryMade \/ ChunkStored \/ StoreFails
                 \/ \E s \in Updates : ChunkArrives(s)
  PROVE  Shrinks /\ SlotsFollow
<1>1. ASSUME UNCHANGED <<upd, found, overlaps, live, held, temp, tempHeld, svc, slots>>,
             \A s \in Updates : sess'[s].rev = sess[s].rev /\ sess'[s].hash = sess[s].hash
      PROVE  Shrinks /\ SlotsFollow
  BY <1>1 DEF Shrinks, SlotsFollow
<1>2. CASE DirectoryMade
  BY <1>1, <1>2 DEF DirectoryMade, ReaderFrame, entries
<1>3. CASE ChunkStored
  <2>1. reader[2] \in Updates
    BY <1>3 DEF ChunkStored, Idle, TypeOK
  <2>2. \A s \in Updates : sess'[s].rev = sess[s].rev /\ sess'[s].hash = sess[s].hash
    <3>1. CASE UNCHANGED sess
      BY <3>1
    <3>2. CASE sess' = [sess EXCEPT ![reader[2]].got = sess[reader[2]].got + 1]
      <4>1. sess[reader[2]] \in Sessions
        BY <2>1 DEF TypeOK
      <4>2. /\ sess'[reader[2]].rev = sess[reader[2]].rev
            /\ sess'[reader[2]].hash = sess[reader[2]].hash
        BY <2>1, <3>2, <4>1 DEF Sessions, TypeOK
      <4>3. QED
        BY <2>1, <3>2, <4>2 DEF TypeOK
    <3>3. QED
      BY <1>3, <3>1, <3>2 DEF ChunkStored
  <2>3. QED
    BY <1>1, <1>3, <2>2 DEF ChunkStored, ReaderFrame, entries
<1>4. CASE StoreFails
  <2>1. reader[2] \in Updates
    BY <1>4 DEF StoreFails, Idle, TypeOK
  <2>2. QED
    BY <1>4, <2>1, AbortShrinks DEF StoreFails, ReaderFrame
<1>5. ASSUME NEW s \in Updates, ChunkArrives(s)
      PROVE  Shrinks /\ SlotsFollow
  <2>1. \A v \in Updates : sess'[v].rev = sess[v].rev /\ sess'[v].hash = sess[v].hash
    <3>1. CASE UNCHANGED sess
      BY <3>1
    <3>2. CASE sess' = [sess EXCEPT ![s].damaged = TRUE]
      <4>1. sess[s] \in Sessions
        BY DEF TypeOK
      <4>2. sess'[s].rev = sess[s].rev /\ sess'[s].hash = sess[s].hash
        BY <3>2, <4>1 DEF Sessions, TypeOK
      <4>3. QED
        BY <3>2, <4>2 DEF TypeOK
    <3>3. QED
      BY <1>5, <3>1, <3>2 DEF ChunkArrives
  <2>2. QED
    BY <1>1, <1>5, <2>1 DEF ChunkArrives, entries
<1>6. QED
  BY <1>2, <1>3, <1>4, <1>5

\* A merge, a lost connection, a new one and the cleanup start nothing.
LEMMA OthersShrink ==
  ASSUME Inv, Hand, \/ \E m \in Updates \X Updates : Merge(m)
                    \/ ConnectionLost \/ Reconnects \/ CleanupTransfers
  PROVE  Shrinks /\ SlotsFollow
<1> USE DEF Inv
<1>1. ASSUME NEW m \in Updates \X Updates, Merge(m)
      PROVE  Shrinks /\ SlotsFollow
  <2>1. m[1] \in Updates /\ UNCHANGED <<upd, found, temp, tempHeld, svc, sess, overlaps>>
    BY <1>1, MergeStep DEF Merge, MergeLocksPath, MergeChecks, MergeAborts, MergeDiscards,
                           MergeCommits, MergeCompletesPage, MergeFrame
  <2>2. CASE MergeAborts(m)
    BY <2>1, <2>2, AbortShrinks DEF MergeAborts
  <2>3. CASE MergeCommits(m)
    BY <2>1, <2>3 DEF MergeCommits, Shrinks, SlotsFollow
  <2>4. CASE UNCHANGED <<entries, slots>>
    BY <2>1, <2>4 DEF Shrinks, SlotsFollow, entries
  <2>5. QED
    BY <1>1, <2>2, <2>3, <2>4
    DEF Merge, MergeLocksPath, MergeChecks, MergeDiscards, MergeCompletesPage, entries
<1>2. CASE ConnectionLost
  BY <1>2 DEF ConnectionLost, Shrinks, SlotsFollow, entries
<1>3. CASE Reconnects
  BY <1>3 DEF Reconnects, Shrinks, SlotsFollow, entries
<1>4. CASE CleanupTransfers
  <2>1. \A u \in tempHeld' : temp[Path[u]] # u
    BY <1>4 DEF CleanupTransfers, Paths, TypeOK
  <2>2. QED
    BY <1>4, <2>1 DEF CleanupTransfers, Shrinks, SlotsFollow
<1>5. QED
  BY <1>1, <1>2, <1>3, <1>4

-----------------------------------------------------------------------------
(* Slots.                                                                    *)

\* The updates that hold a slot which will be given back.
Holders == {u \in Updates : \/ upd[u] = "record"
                            \/ u \in tempHeld /\ temp[Path[u]] = u
                            \/ u \in held \cap live}

\* No token is taken by nobody.
SlotsOwned == Calm => slots <= Cardinality(Holders)

\* There are finitely many holders.
LEMMA HoldersAreFew == IsFiniteSet(Holders) /\ Cardinality(Holders) \in Nat
<1>1. IsFiniteSet(Updates)
  BY FileDownloadAssumption, FS_Interval DEF FileDownloadAssumption, Updates
<1>2. Holders \subseteq Updates
  BY DEF Holders
<1>3. QED
  BY <1>1, <1>2, FS_Subset, FS_CardinalityType

\* Adding a holder, keeping them all, and losing one.
LEMMA CountHolders ==
  ASSUME NEW H, NEW G, IsFiniteSet(H), IsFiniteSet(G)
  PROVE  /\ Cardinality(H) \in Nat /\ Cardinality(G) \in Nat
         /\ H \subseteq G => Cardinality(H) <= Cardinality(G)
         /\ \A x : H \ {x} \subseteq G => Cardinality(H) <= Cardinality(G) + 1
         /\ \A x : x \in G \ H /\ H \subseteq G => Cardinality(H) + 1 <= Cardinality(G)
<1>1. Cardinality(H) \in Nat /\ Cardinality(G) \in Nat
  BY FS_CardinalityType
<1>2. ASSUME H \subseteq G
      PROVE  Cardinality(H) <= Cardinality(G)
  BY <1>2, FS_Subset
<1>3. ASSUME NEW x, H \ {x} \subseteq G
      PROVE  Cardinality(H) <= Cardinality(G) + 1
  <2>1. /\ IsFiniteSet(G \cup {x})
        /\ Cardinality(G \cup {x}) \in {Cardinality(G), Cardinality(G) + 1}
    BY FS_AddElement
  <2>2. H \subseteq G \cup {x}
    BY <1>3
  <2>3. Cardinality(H) <= Cardinality(G \cup {x})
    BY <2>1, <2>2, FS_Subset
  <2>4. QED
    BY <1>1, <2>1, <2>3
<1>4. ASSUME NEW x, x \in G \ H, H \subseteq G
      PROVE  Cardinality(H) + 1 <= Cardinality(G)
  <2>1. IsFiniteSet(H \cup {x}) /\ Cardinality(H \cup {x}) = Cardinality(H) + 1
    BY <1>4, FS_AddElement
  <2>2. H \cup {x} \subseteq G
    BY <1>4
  <2>3. Cardinality(H \cup {x}) <= Cardinality(G)
    BY <2>2, FS_Subset
  <2>4. QED
    BY <2>1, <2>3
<1>5. QED
  BY <1>1, <1>2, <1>3, <1>4

\* A slot that is given back.
Freed == (slots = 0 /\ slots' = 0) \/ (slots # 0 /\ slots' = slots - 1)

\* A token more for a holder more, a token less for at most a holder less.
LEMMA SlotsCount ==
  ASSUME slots \in Nat, slots <= Cardinality(Holders),
         \/ slots' = slots /\ Holders \subseteq Holders'
         \/ Freed /\ \E x : Holders \ {x} \subseteq Holders'
         \/ slots' = slots + 1 /\ \E x \in Holders' \ Holders : Holders \subseteq Holders'
         \/ slots' = 0
  PROVE  slots' <= Cardinality(Holders')
<1>1. PICK H, G : H = Holders /\ G = Holders'
  OBVIOUS
<1>2. IsFiniteSet(H) /\ IsFiniteSet(G)
  <2>1. IsFiniteSet(Updates)
    BY FileDownloadAssumption, FS_Interval DEF FileDownloadAssumption, Updates
  <2>2. G \subseteq Updates
    BY <1>1 DEF Holders
  <2>3. QED
    BY <1>1, <2>1, <2>2, HoldersAreFew, FS_Subset
<1>3. PICK h, g : h = Cardinality(H) /\ g = Cardinality(G)
  OBVIOUS
<1>4. /\ h \in Nat /\ g \in Nat /\ slots <= h
      /\ H \subseteq G => h <= g
      /\ \A x : H \ {x} \subseteq G => h <= g + 1
      /\ \A x : x \in G \ H /\ H \subseteq G => h + 1 <= g
  BY <1>1, <1>2, <1>3, CountHolders
<1>5. slots' <= g
  <2>1. CASE slots' = slots /\ H \subseteq G
    BY <1>4, <2>1
  <2>2. CASE Freed /\ \E x : H \ {x} \subseteq G
    <3>1. h <= g + 1
      BY <1>4, <2>2
    <3>2. QED
      BY <1>4, <2>2, <3>1 DEF Freed
  <2>3. CASE slots' = slots + 1 /\ \E x \in G \ H : H \subseteq G
    <3>1. h + 1 <= g
      BY <1>4, <2>3
    <3>2. QED
      BY <1>4, <2>3, <3>1
  <2>4. CASE slots' = 0
    BY <1>4, <2>4
  <2>5. QED
    BY <1>1, <2>1, <2>2, <2>3, <2>4
<1>6. QED
  BY <1>1, <1>3, <1>5

\* A release for nobody leaves the tokens alone, and one for somebody frees a slot.
LEMMA ReleaseFrees ==
  ASSUME slots \in 0..MaxSlots, NEW b \in BOOLEAN, Release(b)
  PROVE  /\ b => Freed
         /\ ~b => slots' = slots
BY FileDownloadAssumption DEF FileDownloadAssumption, Release, ReleaseSlots, Freed

\* Calm states have calm predecessors.
LEMMA CalmBefore ==
  ASSUME TypeOK, Calm', \/ \E u \in Updates : UpdateArrives(u)
                        \/ overlaps' = overlaps
  PROVE  Calm
<1>1. ASSUME NEW u \in Updates, UpdateArrives(u), NEW v \in Updates
      PROVE  overlaps[Path[v]] = 0
  BY <1>1, ArrivalCounts DEF Calm, Paths
<1>2. QED
  BY <1>1 DEF Calm, Paths

\* A handler takes one slot and records it, or gives it back.
LEMMA SlotsOfHandler ==
  ASSUME Inv, Hand, Calm, slots <= Cardinality(Holders), NEW u \in Updates, Handler(u)
  PROVE  slots' <= Cardinality(Holders')
<1> USE DEF Inv
<1>1. slots \in Nat /\ slots \in 0..MaxSlots
  BY FileDownloadAssumption DEF FileDownloadAssumption, TypeOK
<1>2. \A v \in Updates : overlaps[Path[v]] = 0 /\ Path[v] \in Paths /\ v # None
  BY UpdatesAreNumbers DEF Calm, Paths, None, Updates
<1>3. upd[u] \in {"look", "wait", "record", "send"} /\ InHand(u) /\ u \notin live
  BY DEF Handler, LookForSession, TakeSlot, Attach, CreateTemp, RequestChunks, RequestFails,
         InHand, LiveIsOpen
<1>4. ASSUME NEW v \in Updates, Path[v] = Path[u], InHand(v)
      PROVE  v = u
  BY <1>2, <1>3, <1>4 DEF Hand, Alone
<1>5. ASSUME NEW v \in Updates, v # u, temp[Path[v]] = v
      PROVE  Path[v] # Path[u]
  BY <1>4, <1>5 DEF InHand
<1>6. found[u] = None
  BY <1>2 DEF Hand, NoneFound
<1>7. CASE LookForSession(u)
  <2>1. slots' = slots /\ Holders \subseteq Holders'
    BY <1>7 DEF LookForSession, entries, Holders, TypeOK
  <2>2. QED
    BY <1>1, <2>1, SlotsCount
<1>8. CASE TakeSlot(u)
  <2>1. /\ slots' = slots + 1 /\ upd[u] = "wait" /\ upd' = [upd EXCEPT ![u] = "record"]
        /\ UNCHANGED <<temp, tempHeld, live, held>>
    BY <1>8 DEF TakeSlot, entries
  <2>2. u \in Holders' \ Holders /\ Holders \subseteq Holders'
    BY <1>3, <2>1 DEF Holders, TypeOK, Hand, TempHeldLater
  <2>3. QED
    BY <1>1, <2>1, <2>2, SlotsCount
<1>9. CASE CreateTemp(u)
  <2>1. /\ slots' = slots /\ upd' = [upd EXCEPT ![u] = "send"]
        /\ temp' = [temp EXCEPT ![Path[u]] = u] /\ tempHeld' = tempHeld \cup {u}
        /\ UNCHANGED <<live, held>>
    BY <1>9 DEF CreateTemp, entries
  <2>2. ASSUME NEW v \in Holders
        PROVE  v \in Holders'
    <3>1. v \in Updates
      BY DEF Holders
    <3>2. CASE v = u
      BY <1>2, <2>1, <3>2 DEF Holders, TypeOK
    <3>3. CASE v # u
      BY <1>2, <1>5, <2>1, <3>1, <3>3 DEF Holders, TypeOK
    <3>4. QED
      BY <3>2, <3>3
  <2>3. QED
    BY <1>1, <2>1, <2>2, SlotsCount
<1>10. CASE RequestChunks(u)
  <2>1. /\ slots' = slots /\ upd[u] = "send" /\ upd' = [upd EXCEPT ![u] = "over"]
        /\ UNCHANGED <<temp, tempHeld, live, held>>
    BY <1>10 DEF RequestChunks, entries
  <2>2. Holders \subseteq Holders'
    BY <2>1 DEF Holders, TypeOK
  <2>3. QED
    BY <1>1, <2>1, <2>2, SlotsCount
<1>11. CASE RequestFails(u)
  <2>1. /\ upd[u] = "send" /\ upd' = [upd EXCEPT ![u] = "over"]
        /\ Release(u \in tempHeld) /\ tempHeld' = tempHeld \ {u}
        /\ temp' = [temp EXCEPT ![Path[u]] = None] /\ UNCHANGED <<live, held>>
    BY <1>6, <1>11 DEF RequestFails
  <2>2. ASSUME NEW v \in Holders, v # u
        PROVE  v \in Holders'
    <3>1. v \in Updates
      BY DEF Holders
    <3>2. QED
      BY <1>2, <1>5, <2>1, <2>2, <3>1 DEF Holders, TypeOK
  <2>3. CASE u \in tempHeld
    <3>1. Release(TRUE)
      BY <2>1, <2>3 DEF Release
    <3>2. Freed
      BY <1>1, <3>1, ReleaseFrees
    <3>3. Holders \ {u} \subseteq Holders'
      BY <2>2
    <3>4. QED
      BY <1>1, <3>2, <3>3, SlotsCount
  <2>4. CASE u \notin tempHeld
    <3>1. Release(FALSE)
      BY <2>1, <2>4 DEF Release
    <3>2. slots' = slots
      BY <1>1, <3>1, ReleaseFrees
    <3>3. u \notin Holders
      BY <1>3, <2>1, <2>4 DEF Holders
    <3>4. Holders \subseteq Holders'
      BY <2>2, <3>3
    <3>5. QED
      BY <1>1, <3>2, <3>4, SlotsCount
  <2>5. QED
    BY <2>3, <2>4
<1>12. ~Attach(u)
  BY <1>6 DEF Attach
<1>13. QED
  BY <1>7, <1>8, <1>9, <1>10, <1>11, <1>12 DEF Handler

\* No step takes a token without a holder, or drops a holder and keeps its token.
LEMMA SlotsKept ==
  ASSUME Inv, Hand, SlotsOwned, [Next]_vars
  PROVE  SlotsOwned'
<1> USE DEF Inv
<1> SUFFICES ASSUME Calm'
             PROVE  slots' <= Cardinality(Holders')
  BY DEF SlotsOwned
<1>1. slots \in Nat /\ slots \in 0..MaxSlots
  BY FileDownloadAssumption DEF FileDownloadAssumption, TypeOK
<1>2. ASSUME Calm
      PROVE  /\ slots <= Cardinality(Holders)
             /\ \A v \in Updates : overlaps[Path[v]] = 0 /\ Path[v] \in Paths
  BY <1>2 DEF SlotsOwned, Calm, Paths
<1>3. CASE \E u \in Updates : UpdateArrives(u)
  <2>1. PICK u \in Updates : UpdateArrives(u)
    BY <1>3
  <2>2. Calm
    BY <2>1, CalmBefore
  <2>3. slots' = slots /\ Holders \subseteq Holders'
    BY <2>1 DEF UpdateArrives, entries, Holders, TypeOK
  <2>4. QED
    BY <1>1, <1>2, <2>2, <2>3, SlotsCount
<1>4. CASE \E u \in Updates : Handler(u)
  <2>1. PICK u \in Updates : Handler(u)
    BY <1>4
  <2>2. overlaps' = overlaps
    BY <2>1 DEF Handler, LookForSession, TakeSlot, Attach, CreateTemp, RequestChunks,
                RequestFails
  <2>3. Calm
    BY <2>2, CalmBefore
  <2>4. QED
    BY <1>2, <2>1, <2>3, SlotsOfHandler
<1>5. CASE \E s \in Updates : OpenSession(s)
  <2>1. PICK s \in Updates : OpenSession(s)
    BY <1>5
  <2>2. Calm
    BY <2>1, CalmBefore DEF OpenSession
  <2>3. /\ svc[s] = "asked" /\ live' = live \cup {s} /\ slots' = slots
        /\ temp' = [temp EXCEPT ![Path[s]] = None]
        /\ (temp[Path[s]] # None /\ temp[Path[s]] \in tempHeld => s \in held')
        /\ held \subseteq held' /\ UNCHANGED <<upd, tempHeld>>
    BY <2>1 DEF OpenSession
  <2>4. ASSUME NEW v \in Holders
        PROVE  v \in Holders'
    <3>1. v \in Updates /\ v # None
      BY UpdatesAreNumbers DEF Holders, None, Updates
    <3>2. CASE upd[v] = "record" \/ v \in held \cap live
      BY <2>3, <3>1, <3>2 DEF Holders
    <3>3. CASE v \in tempHeld /\ temp[Path[v]] = v
      <4>1. CASE Path[v] = Path[s]
        <5>1. v = s
          BY <1>2, <2>2, <2>3, <3>1, <3>3, <4>1 DEF Hand, Alone, InHand
        <5>2. QED
          BY <2>3, <3>1, <3>3, <5>1 DEF Holders
      <4>2. CASE Path[v] # Path[s]
        BY <1>2, <2>2, <2>3, <3>1, <3>3, <4>2 DEF Holders, TypeOK
      <4>3. QED
        BY <4>1, <4>2
    <3>4. QED
      BY <3>2, <3>3 DEF Holders
  <2>5. QED
    BY <1>1, <1>2, <2>2, <2>3, <2>4, SlotsCount
<1>6. ASSUME Shrinks, SlotsFollow
      PROVE  slots' <= Cardinality(Holders')
  <2>1. slots <= Cardinality(Holders)
    BY <1>2, <1>6, CalmBefore DEF Shrinks
  <2>2. CASE UNCHANGED <<slots, upd, live, held, temp, tempHeld>>
    <3>1. slots' = slots /\ Holders \subseteq Holders'
      BY <2>2 DEF Holders
    <3>2. QED
      BY <1>1, <2>1, <3>1, SlotsCount
  <2>3. CASE slots' = 0
    BY <1>1, <2>1, <2>3, SlotsCount
  <2>4. ASSUME NEW x \in live, live' = live \ {x}, held' = held \ {x}, Release(x \in held),
               UNCHANGED <<upd, temp, tempHeld>>
        PROVE  slots' <= Cardinality(Holders')
    <3>1. Holders \ {x} \subseteq Holders'
      BY <2>4 DEF Holders
    <3>2. CASE x \in held
      <4>1. Release(TRUE)
        BY <2>4, <3>2 DEF Release
      <4>2. Freed
        BY <1>1, <4>1, ReleaseFrees
      <4>3. QED
        BY <1>1, <2>1, <3>1, <4>2, SlotsCount
    <3>3. CASE x \notin held
      <4>1. Release(FALSE)
        BY <2>4, <3>3 DEF Release
      <4>2. slots' = slots
        BY <1>1, <4>1, ReleaseFrees
      <4>3. Holders \subseteq Holders'
        BY <2>4, <3>3 DEF Holders
      <4>4. QED
        BY <1>1, <2>1, <4>2, <4>3, SlotsCount
    <3>4. QED
      BY <3>2, <3>3
  <2>5. QED
    BY <1>6, <2>2, <2>3, <2>4 DEF SlotsFollow
<1>7. CASE UNCHANGED vars
  <2>1. Shrinks /\ SlotsFollow
    BY <1>7 DEF vars, netVars, entries, Shrinks, SlotsFollow
  <2>2. QED
    BY <1>6, <2>1
<1>8. QED
  BY <1>3, <1>4, <1>5, <1>6, <1>7, ReaderShrinks, OthersShrink DEF Next, Reader

-----------------------------------------------------------------------------
(* The order of revisions.  While at most one update of a path overlaps      *)
(* another, a session that receives an old revision cannot be committed.     *)

\* Revision r of p was announced.
Announced(r, p) == r \in Updates /\ Path[r] = p /\ upd[r] # "later"
RevAnnounced  == \A s \in live : Announced(sess[s].rev, Path[s])
DiskAnnounced == \A p \in Paths : disk[p].rev = None \/ Announced(disk[p].rev, p)

\* Update u came after session s was opened.
Newer(u, s) == s \in live /\ Path[u] = Path[s] /\ upd[u] # "later" /\ u > sess[s].rev

\* It attaches to that session before it asks for its own chunks, which changes
\* the hash the session compares with ...
NewerAttaches == \A s \in live, u \in Updates :
  overlaps[Path[s]] <= 1 /\ Newer(u, s) =>
    /\ upd[u] = "look" \/ found[u] = s
    /\ upd[u] \in {"send", "over"} => sess[s].hash > sess[s].rev

\* ... and nobody else is at work on the path.
OnlyTwo == \A s \in live, u, v \in Updates :
  overlaps[Path[s]] <= 1 /\ Newer(u, s) /\ InHand(v) /\ Path[v] = Path[s] => v \in {s, u}

\* A session that is older than the file will not pass its check.
StaleStays == \A s \in live : overlaps[Path[s]] <= 1 /\ disk[Path[s]].rev > sess[s].rev =>
  /\ sess[s].hash > sess[s].rev
  /\ \A u \in Updates : merge[<<s, u>>] # "commit"

\* One merge of a path at a time is past its lock.
Inside   == {"check", "commit", "page"}
OneInside ==
  /\ \A m \in Updates \X Updates : merge[m] \in Inside => Path[m[1]] \in locked
  /\ \A m, k \in Updates \X Updates :
       merge[m] \in Inside /\ merge[k] \in Inside /\ Path[m[1]] = Path[k[1]] => m = k

Order == RevAnnounced /\ DiskAnnounced /\ NewerAttaches /\ OnlyTwo /\ StaleStays /\ OneInside

\* The service answers with the last revision it announced.
LEMMA LatestIsLast ==
  ASSUME NEW s \in Updates, upd[s] # "later"
  PROVE  /\ Announced(Latest(Path[s]), Path[s])
         /\ \A w \in Updates : Path[w] = Path[s] /\ upd[w] # "later" => w <= Latest(Path[s])
<1> DEFINE S == {v \in Updates : Path[v] = Path[s] /\ upd[v] # "later"}
<1>1. PICK m \in S : \A w \in S : w <= m
  <2>1. S \subseteq Updates /\ S # {}
    OBVIOUS
  <2> HIDE DEF S
  <2>2. QED
    BY <2>1, LargestUpdate
<1>2. QED
  BY <1>1 DEF Latest, Announced

\* The numbers that are compared.
LEMMA OrderNumbers ==
  ASSUME TypeOK
  PROVE  /\ \A s \in Updates : /\ sess[s].rev \in Nat /\ sess[s].hash \in Nat
                               /\ Path[s] \in Paths /\ s \in Nat /\ s # None
         /\ \A p \in Paths : overlaps[p] \in Nat /\ disk[p].rev \in Nat
<1>1. N \in Nat /\ \A n \in 0..N : n \in Nat
  BY UpdatesAreNumbers
<1>2. ASSUME NEW s \in Updates
      PROVE  sess[s].rev \in Nat /\ sess[s].hash \in Nat
  <2>1. sess[s] \in Sessions
    BY DEF TypeOK
  <2>2. QED
    BY <1>1, <2>1 DEF Sessions
<1>3. ASSUME NEW p \in Paths
      PROVE  overlaps[p] \in Nat /\ disk[p].rev \in Nat
  <2>1. disk[p] \in [rev : 0..N, whole : BOOLEAN] /\ overlaps[p] \in Nat
    BY DEF TypeOK
  <2>2. QED
    BY <1>1, <2>1
<1>4. QED
  BY <1>2, <1>3, UpdatesAreNumbers DEF Paths, None, Updates

\* An update that arrives finds at most one session, and that is the only one at work.
LEMMA OrderOfArrival ==
  ASSUME Inv, Hand, Order, NEW u \in Updates, UpdateArrives(u)
  PROVE  Order'
<1> USE DEF Inv
<1>1. /\ upd[u] = "later" /\ upd' = [upd EXCEPT ![u] = "look"]
      /\ UNCHANGED <<svc, live, temp, found, sess, disk, merge, locked>>
  BY DEF UpdateArrives, entries, fileVars
<1>2. \A v \in Updates : overlaps'[Path[v]] <= 1 => overlaps[Path[v]] <= 1
  BY ArrivalCounts
<1>3. \A v \in Updates : v # u => upd'[v] = upd[v]
  BY <1>1 DEF TypeOK
<1>4. upd'[u] = "look"
  BY <1>1 DEF TypeOK
<1>5. \A v \in Updates : InHand(v)' => v = u \/ InHand(v)
  BY <1>1, <1>3 DEF InHand
<1>6. RevAnnounced' /\ DiskAnnounced'
  <2>1. \A r, p : Announced(r, p) => Announced(r, p)'
    BY <1>1, <1>3, <1>4 DEF Announced
  <2>2. QED
    BY <1>1, <2>1 DEF Order, RevAnnounced, DiskAnnounced
<1>7. NewerAttaches'
  <2> SUFFICES ASSUME NEW s \in live, NEW w \in Updates, overlaps'[Path[s]] <= 1,
                      Newer(w, s)'
               PROVE  /\ upd'[w] = "look" \/ found[w] = s
                      /\ upd'[w] \in {"send", "over"} => sess[s].hash > sess[s].rev
    BY <1>1 DEF NewerAttaches
  <2>1. CASE w = u
    BY <1>4, <2>1
  <2>2. CASE w # u
    <3>1. upd'[w] = upd[w] /\ Newer(w, s)
      BY <1>1, <1>3, <2>2 DEF Newer
    <3>2. overlaps[Path[s]] <= 1
      BY <1>2 DEF TypeOK
    <3>3. QED
      BY <3>1, <3>2 DEF Order, NewerAttaches
  <2>3. QED
    BY <2>1, <2>2
<1>8. OnlyTwo'
  <2> SUFFICES ASSUME NEW s \in live, NEW w \in Updates, NEW v \in Updates,
                      overlaps'[Path[s]] <= 1, Newer(w, s)', InHand(v)', Path[v] = Path[s]
               PROVE  v \in {s, w}
    BY <1>1 DEF OnlyTwo
  <2>1. s \in Updates /\ overlaps[Path[s]] <= 1
    BY <1>2 DEF TypeOK
  <2>2. CASE Path[s] # Path[u]
    <3>1. w # u /\ v # u
      BY <2>2 DEF Newer
    <3>2. Newer(w, s) /\ InHand(v)
      BY <1>1, <1>3, <1>5, <3>1 DEF Newer
    <3>3. QED
      BY <2>1, <3>2 DEF Order, OnlyTwo
  <2>3. CASE Path[s] = Path[u]
    <3>1. InHand(s) /\ upd[s] = "over" /\ s # None
      BY <2>1, UpdatesAreNumbers DEF InHand, LiveIsOpen, None, Updates
    <3>2. overlaps[Path[s]] = 0
      <4>1. Busy(Path[u])
        BY <2>1, <2>3, <3>1, HandIsBusy
      <4>2. QED
        BY <2>1, <2>3, <4>1, ArrivalCounts
    <3>3. \A x \in Updates : Path[x] = Path[s] /\ InHand(x) => x = s
      BY <2>1, <3>1, <3>2 DEF Hand, Alone
    <3>4. w = u
      <4>1. SUFFICES ASSUME w # u
                     PROVE  FALSE
        OBVIOUS
      <4>2. Newer(w, s) /\ Path[w] = Path[s]
        BY <1>1, <1>3, <4>1 DEF Newer
      <4>3. upd[w] = "look" \/ found[w] = s
        BY <2>1, <4>2 DEF Order, NewerAttaches
      <4>4. found[w] = None
        BY <3>2, <4>2 DEF Hand, NoneFound
      <4>5. w = s
        BY <3>1, <3>3, <4>2, <4>3, <4>4 DEF InHand
      <4>6. QED
        BY <3>1, <4>3, <4>4, <4>5
    <3>5. QED
      BY <1>5, <3>3, <3>4
  <2>4. QED
    BY <2>2, <2>3
<1>9. StaleStays'
  BY <1>1, <1>2 DEF Order, StaleStays, TypeOK
<1>10. OneInside'
  BY <1>1 DEF Order, OneInside
<1>11. QED
  BY <1>6, <1>7, <1>8, <1>9, <1>10 DEF Order

\* The handlers of a path add nobody to those at work and announce nothing.
LEMMA HandlerAddsNone ==
  ASSUME Inv, NEW u \in Updates, Handler(u)
  PROVE  /\ \A v \in Updates : InHand(v)' => InHand(v)
         /\ \A v \in Updates : v # u => upd'[v] = upd[v] /\ found'[v] = found[v]
         /\ upd[u] \in {"look", "wait", "record", "send"}
         /\ upd'[u] \in {"wait", "record", "send", "over"}
         /\ overlaps' = overlaps
<1> USE DEF Inv
<1>1. /\ upd[u] \in {"look", "wait", "record", "send"}
      /\ upd' \in {[upd EXCEPT ![u] = x] : x \in {"wait", "record", "send", "over"}}
      /\ overlaps' = overlaps /\ live' = live
  BY DEF Handler, LookForSession, TakeSlot, Attach, CreateTemp, RequestChunks, RequestFails,
         entries
<1>2. \A v \in Updates : v # u => upd'[v] = upd[v]
  BY <1>1 DEF TypeOK
<1>3. upd'[u] \in {"wait", "record", "send", "over"}
  BY <1>1 DEF TypeOK
<1>4. \A v \in Updates : v # u => found'[v] = found[v]
  <2>1. CASE UNCHANGED found
    BY <2>1
  <2>2. CASE LookForSession(u)
    BY <2>2 DEF LookForSession, TypeOK
  <2>3. QED
    BY <2>1, <2>2 DEF Handler, TakeSlot, Attach, CreateTemp, RequestChunks, RequestFails
<1>5. \A v \in Updates : v # u /\ svc'[v] = "asked" => svc[v] = "asked"
  BY DEF Handler, LookForSession, TakeSlot, Attach, CreateTemp, RequestChunks, RequestFails,
         TypeOK
<1>6. \A v \in Updates : v # u /\ temp'[Path[v]] = v => temp[Path[v]] = v
  <2>1. CASE UNCHANGED temp
    BY <2>1
  <2>2. ASSUME NEW x, temp' = [temp EXCEPT ![Path[u]] = x], x \in {u, None}
        PROVE  \A v \in Updates : v # u /\ temp'[Path[v]] = v => temp[Path[v]] = v
    BY <2>2, UpdatesAreNumbers DEF TypeOK, Paths, None, Updates
  <2>3. QED
    BY <2>1, <2>2
    DEF Handler, LookForSession, TakeSlot, Attach, CreateTemp, RequestChunks, RequestFails
<1>7. QED
  BY <1>1, <1>2, <1>3, <1>4, <1>5, <1>6 DEF InHand

\* Only attaching changes the hash of a session, to that of the newer update.
LEMMA HandlerHashes ==
  ASSUME Inv, NEW u \in Updates, Handler(u), NEW s \in Updates
  PROVE  \/ sess'[s].hash = sess[s].hash
         \/ upd[u] = "record" /\ s = found[u] /\ sess'[s].hash = u
<1> USE DEF Inv
<1>1. CASE Attach(u)
  <2>1. found[u] \in Updates
    BY <1>1, FileDownloadAssumption DEF Attach, None, Updates, FileDownloadAssumption, TypeOK
  <2>2. CASE s # found[u]
    BY <1>1, <2>1, <2>2 DEF Attach, TypeOK
  <2>3. CASE s = found[u]
    <3>1. sess[s] \in Sessions
      BY DEF TypeOK
    <3>2. sess'[s] = [sess[s] EXCEPT !.hash = u, !.time = u, !.page = PageOf(u)]
      BY <1>1, <2>1, <2>3 DEF Attach, TypeOK
    <3>3. sess'[s].hash = u
      BY <3>1, <3>2 DEF Sessions
    <3>4. QED
      BY <1>1, <2>3, <3>3 DEF Attach
  <2>4. QED
    BY <2>2, <2>3
<1>2. CASE ~Attach(u)
  BY <1>2 DEF Handler, LookForSession, TakeSlot, CreateTemp, RequestChunks, RequestFails
<1>3. QED
  BY <1>1, <1>2

\* A newer update attaches to the one session there is, and its hash with it.
LEMMA OrderOfHandler ==
  ASSUME Inv, Hand, Order, NEW u \in Updates, Handler(u)
  PROVE  Order'
<1> USE DEF Inv
<1>1. /\ \A v \in Updates : InHand(v)' => InHand(v)
      /\ \A v \in Updates : v # u => upd'[v] = upd[v] /\ found'[v] = found[v]
      /\ upd[u] \in {"look", "wait", "record", "send"}
      /\ upd'[u] \in {"wait", "record", "send", "over"}
      /\ overlaps' = overlaps
  BY HandlerAddsNone
<1>2. InHand(u) /\ u \notin live
  BY <1>1 DEF InHand, LiveIsOpen
<1>3. /\ live' = live /\ disk' = disk
      /\ \A s \in Updates : sess'[s].rev = sess[s].rev
      /\ \A s, v \in Updates :
           merge'[<<s, v>>] # merge[<<s, v>>] => merge'[<<s, v>>] = "lock"
  BY HandlerStep
<1>4. locked' = locked
  BY DEF Handler, LookForSession, TakeSlot, Attach, CreateTemp, RequestChunks, RequestFails
<1>5. \A v \in Updates : upd'[v] # "later" <=> upd[v] # "later"
  BY <1>1
<1>6. RevAnnounced' /\ DiskAnnounced'
  BY <1>3, <1>5 DEF Order, RevAnnounced, DiskAnnounced, Announced, TypeOK
<1>7. \A s \in live, w \in Updates : Newer(w, s)' <=> Newer(w, s)
  BY <1>3, <1>5 DEF Newer, TypeOK
<1>8. OnlyTwo'
  BY <1>1, <1>3, <1>7 DEF Order, OnlyTwo
<1>9. ASSUME NEW s \in live, overlaps[Path[s]] <= 1, NEW w \in Updates, Newer(w, s),
             sess'[s].hash # sess[s].hash
      PROVE  sess'[s].hash = w
  <2>1. s \in Updates
    BY DEF TypeOK
  <2>2. s = found[u] /\ sess'[s].hash = u
    BY <1>9, <2>1, HandlerHashes
  <2>3. Path[u] = Path[s]
    BY <2>1, <2>2, OrderNumbers DEF Hand, FoundOfPath
  <2>4. u \in {s, w}
    BY <1>2, <1>9, <2>3 DEF Order, OnlyTwo
  <2>5. QED
    BY <1>2, <2>2, <2>4
<1>10. NewerAttaches'
  <2> SUFFICES ASSUME NEW s \in live, NEW w \in Updates, overlaps[Path[s]] <= 1, Newer(w, s)
               PROVE  /\ upd'[w] = "look" \/ found'[w] = s
                      /\ upd'[w] \in {"send", "over"} => sess'[s].hash > sess'[s].rev
    BY <1>1, <1>3, <1>7 DEF NewerAttaches
  <2>1. /\ upd[w] = "look" \/ found[w] = s
        /\ upd[w] \in {"send", "over"} => sess[s].hash > sess[s].rev
    BY DEF Order, NewerAttaches
  <2>2. s \in Updates /\ w > sess[s].rev
    BY DEF Newer, TypeOK
  <2>3. CASE w # u
    BY <1>1, <1>3, <1>9, <2>1, <2>2, <2>3
  <2>4. CASE w = u /\ LookForSession(u)
    <3>1. s \in SessionsOf(Path[u])
      BY <2>4 DEF SessionsOf, Newer
    <3>2. PICK t \in SessionsOf(Path[u]) : found' = [found EXCEPT ![u] = t]
      BY <2>4, <3>1 DEF LookForSession
    <3>3. t \in live /\ t \in Updates /\ Path[t] = Path[s] /\ InHand(t)
      BY <2>4 DEF SessionsOf, Newer, InHand, TypeOK
    <3>4. t \in {s, w}
      BY <3>3 DEF Order, OnlyTwo
    <3>5. t = s
      BY <1>2, <2>4, <3>3, <3>4
    <3>6. found'[u] = s /\ upd'[u] = "wait"
      BY <2>4, <3>2, <3>5 DEF LookForSession, TypeOK
    <3>7. QED
      BY <2>4, <3>6
  <2>5. CASE w = u /\ ~LookForSession(u)
    <3>1. upd[u] # "look" /\ found' = found
      BY <2>5 DEF Handler, LookForSession, TakeSlot, Attach, CreateTemp, RequestChunks,
                  RequestFails
    <3>2. found'[u] = s /\ found[u] = s
      BY <2>1, <2>5, <3>1
    <3>3. ASSUME upd'[u] \in {"send", "over"}
          PROVE  sess'[s].hash > sess'[s].rev
      <4>1. CASE upd[u] = "send"
        BY <1>3, <1>9, <2>1, <2>2, <2>5, <4>1
      <4>2. CASE upd[u] # "send"
        <5>1. Attach(u)
          BY <2>2, <3>2, <3>3, <4>2, OrderNumbers
          DEF Handler, LookForSession, TakeSlot, CreateTemp, RequestChunks, RequestFails,
              TypeOK
        <5>2. sess[s] \in Sessions
          BY <2>2 DEF TypeOK
        <5>3. sess'[s] = [sess[s] EXCEPT !.hash = u, !.time = u, !.page = PageOf(u)]
          BY <2>2, <3>2, <5>1 DEF Attach, TypeOK
        <5>4. sess'[s].hash = u
          BY <5>2, <5>3 DEF Sessions
        <5>5. QED
          BY <1>3, <2>2, <2>5, <5>4
      <4>3. QED
        BY <4>1, <4>2
    <3>4. QED
      BY <2>5, <3>2, <3>3
  <2>6. QED
    BY <2>3, <2>4, <2>5
<1>11. StaleStays'
  <2> SUFFICES ASSUME NEW s \in live, overlaps[Path[s]] <= 1, disk[Path[s]].rev > sess[s].rev
               PROVE  /\ sess'[s].hash > sess[s].rev
                      /\ \A v \in Updates : merge'[<<s, v>>] # "commit"
    BY SMTT(30), <1>1, <1>3 DEF StaleStays, TypeOK
  <2>1. /\ sess[s].hash > sess[s].rev
        /\ \A v \in Updates : merge[<<s, v>>] # "commit"
    BY DEF Order, StaleStays
  <2>2. PICK d : d = disk[Path[s]].rev
    OBVIOUS
  <2>3. s \in Updates /\ sess[s].rev \in Nat /\ d \in Nat /\ d > sess[s].rev /\ Path[s] \in Paths
    BY <2>2, OrderNumbers DEF TypeOK
  <2>4. d \in Updates /\ Newer(d, s)
    <3>1. d # None
      BY <2>3 DEF None
    <3>2. QED
      BY <2>2, <2>3, <3>1 DEF Order, DiskAnnounced, Announced, Newer
  <2>5. sess'[s].hash > sess[s].rev
    BY <1>9, <2>1, <2>3, <2>4
  <2>6. QED
    BY <1>3, <2>1, <2>3, <2>5
<1>12. OneInside'
  <2>1. \A m \in Updates \X Updates : merge'[m] \in Inside => merge[m] \in Inside
    <3> SUFFICES ASSUME NEW s \in Updates, NEW v \in Updates, merge'[<<s, v>>] \in Inside
                 PROVE  merge[<<s, v>>] \in Inside
      OBVIOUS
    <3>1. QED
      BY <1>3 DEF Inside
  <2>2. QED
    BY <1>4, <2>1 DEF Order, OneInside
<1>13. QED
  BY <1>6, <1>8, <1>10, <1>11, <1>12 DEF Order

\* A session is opened with the last revision, and older ones have been told.
LEMMA OrderOfOpenSession ==
  ASSUME Inv, Hand, Order, NEW s \in Updates, OpenSession(s)
  PROVE  Order'
<1> USE DEF Inv
<1>1. /\ svc[s] = "asked" /\ svc' = [svc EXCEPT ![s] = "open"] /\ live' = live \cup {s}
      /\ temp' = [temp EXCEPT ![Path[s]] = None]
      /\ UNCHANGED <<upd, found, overlaps, disk, merge, locked>>
      /\ upd[s] = "over" /\ InHand(s) /\ Path[s] \in Paths /\ s \notin live
  BY DEF OpenSession, AskedIsOver, InHand, Paths, LiveIsOpen, fileVars
<1>2. \A v \in Updates : InHand(v)' => InHand(v)
  <2>1. \A v \in Updates : v # None /\ Path[v] \in Paths
    BY OrderNumbers
  <2>2. QED
    BY <1>1, <2>1 DEF InHand, TypeOK
<1>3. \A v \in Updates : v # s => sess'[v] = sess[v]
  BY DEF OpenSession, TypeOK
<1>4. sess'[s].rev = Latest(Path[s])
  BY DEF OpenSession, TypeOK, NoSession
<1>5. /\ Announced(Latest(Path[s]), Path[s])
      /\ \A w \in Updates : Path[w] = Path[s] /\ upd[w] # "later" => w <= Latest(Path[s])
  BY <1>1, LatestIsLast
<1>6. Latest(Path[s]) \in Nat /\ \A w \in Updates : w \in Nat
  BY <1>5, OrderNumbers DEF Announced
<1>7. RevAnnounced' /\ DiskAnnounced'
  BY <1>1, <1>3, <1>4, <1>5 DEF Order, RevAnnounced, DiskAnnounced, Announced, TypeOK
<1>8. \A w \in Updates : ~Newer(w, s)'
  BY <1>1, <1>4, <1>5, <1>6 DEF Newer
<1>9. \A t \in live, w \in Updates : Newer(w, t)' <=> Newer(w, t)
  BY <1>1, <1>3 DEF Newer, TypeOK
<1>10. NewerAttaches'
  BY <1>1, <1>3, <1>8, <1>9 DEF Order, NewerAttaches, TypeOK
<1>11. OnlyTwo'
  BY <1>1, <1>2, <1>8, <1>9 DEF Order, OnlyTwo, TypeOK
<1>12. StaleStays'
  <2>1. ~(disk[Path[s]].rev > Latest(Path[s]))
    <3>1. PICK d : d = disk[Path[s]].rev
      OBVIOUS
    <3>2. d = None \/ (d \in Updates /\ Path[d] = Path[s] /\ upd[d] # "later")
      BY <1>1, <3>1 DEF Order, DiskAnnounced, Announced
    <3>3. QED
      BY <1>5, <1>6, <3>1, <3>2 DEF None
  <2>2. QED
    BY <1>1, <1>3, <1>4, <2>1 DEF Order, StaleStays, TypeOK
<1>13. OneInside'
  BY <1>1 DEF Order, OneInside
<1>14. QED
  BY <1>7, <1>10, <1>11, <1>12, <1>13 DEF Order

\* A step that starts nothing, writes no file and lets no merge past its lock.
LEMMA OrderOfShrink ==
  ASSUME Inv, Order, Shrinks, UNCHANGED <<disk, locked>>,
         \A m \in Updates \X Updates : merge'[m] \in Inside => merge'[m] = merge[m]
  PROVE  Order'
<1> USE DEF Inv, Shrinks
<1>1. \A v \in Updates : InHand(v)' => InHand(v)
  BY OrderNumbers DEF InHand
<1>2. live' \subseteq live /\ live \subseteq Updates
  BY DEF TypeOK
<1>3. \A s \in live', w \in Updates : Newer(w, s)' <=> Newer(w, s)
  BY <1>2 DEF Newer
<1>4. RevAnnounced' /\ DiskAnnounced'
  BY <1>2 DEF Order, RevAnnounced, DiskAnnounced, Announced
<1>5. NewerAttaches' /\ OnlyTwo'
  BY <1>1, <1>2, <1>3 DEF Order, NewerAttaches, OnlyTwo
<1>6. StaleStays'
  BY <1>2 DEF Order, StaleStays, Inside
<1>7. OneInside'
  BY DEF Order, OneInside
<1>8. QED
  BY <1>4, <1>5, <1>6, <1>7 DEF Order

\* A merge whose step writes no file: it may pass its lock or its check, or give up.
LEMMA OrderOfMergeStep ==
  ASSUME Inv, Hand, Order, NEW m \in Updates \X Updates, Merge(m), ~MergeCommits(m)
  PROVE  Order'
<1> USE DEF Inv
<1>1. /\ disk' = disk /\ Path[m[1]] \in Paths
      /\ \A k \in Updates \X Updates : k # m => merge'[k] = merge[k]
  BY DEF Merge, MergeLocksPath, MergeChecks, MergeAborts, MergeDiscards, MergeCompletesPage,
         MergeTo, fileVars, TypeOK, Paths
<1>2. Shrinks
  BY OthersShrink
<1>3. live' \subseteq live /\ live \subseteq Updates /\ sess' = sess /\ upd' = upd
  BY <1>2, MergeStep DEF Shrinks, TypeOK
<1>4. \A v \in Updates : InHand(v)' => InHand(v)
  BY <1>2, OrderNumbers DEF InHand, Shrinks
<1>5. \A s \in live', w \in Updates : Newer(w, s)' <=> Newer(w, s)
  BY <1>3 DEF Newer
<1>6. RevAnnounced' /\ DiskAnnounced'
  BY <1>1, <1>3 DEF Order, RevAnnounced, DiskAnnounced, Announced
<1>7. NewerAttaches' /\ OnlyTwo'
  BY <1>2, <1>3, <1>4, <1>5 DEF Order, NewerAttaches, OnlyTwo, Shrinks
<1>8. \/ merge[m] = "lock" /\ merge'[m] = "check" /\ Path[m[1]] \notin locked
                           /\ locked' = locked \cup {Path[m[1]]}
      \/ merge[m] = "check" /\ merge'[m] = "commit" /\ locked' = locked /\ HashMatches(m[1])
      \/ merge[m] \in Inside /\ merge'[m] = "over" /\ locked' = locked \ {Path[m[1]]}
  BY DEF Merge, MergeLocksPath, MergeChecks, MergeAborts, MergeDiscards, MergeCompletesPage,
         MergeTo, Unlock, Inside, TypeOK
<1>9. StaleStays'
  <2> SUFFICES ASSUME NEW s \in live', overlaps[Path[s]] <= 1,
                      disk[Path[s]].rev > sess[s].rev
               PROVE  /\ sess[s].hash > sess[s].rev
                      /\ \A u \in Updates : merge'[<<s, u>>] # "commit"
    BY <1>1, <1>2, <1>3 DEF StaleStays, Shrinks
  <2>1. /\ sess[s].hash > sess[s].rev
        /\ \A u \in Updates : merge[<<s, u>>] # "commit"
    BY <1>3 DEF Order, StaleStays
  <2>2. ASSUME NEW u \in Updates, merge'[<<s, u>>] = "commit"
        PROVE  FALSE
    <3>1. s \in Updates /\ m = <<s, u>> /\ HashMatches(m[1])
      BY <1>1, <1>3, <1>8, <2>1, <2>2
    <3>2. sess[s].rev = sess[s].hash /\ sess[s].rev \in Nat
      BY <3>1, OrderNumbers DEF HashMatches
    <3>3. QED
      BY <2>1, <3>2
  <2>3. QED
    BY <2>1, <2>2
<1>10. OneInside'
  <2>1. \A k \in Updates \X Updates : merge[k] \in Inside => Path[k[1]] \in locked
    BY DEF Order, OneInside
  <2>2. \A j, k \in Updates \X Updates :
          merge[j] \in Inside /\ merge[k] \in Inside /\ Path[j[1]] = Path[k[1]] => j = k
    BY DEF Order, OneInside
  <2>3. CASE merge[m] = "lock" /\ merge'[m] = "check" /\ Path[m[1]] \notin locked
                               /\ locked' = locked \cup {Path[m[1]]}
    <3>1. \A k \in Updates \X Updates :
            merge'[k] \in Inside => k = m \/ (merge[k] \in Inside /\ Path[k[1]] # Path[m[1]])
      BY <1>1, <2>1, <2>3
    <3>2. QED
      BY <2>1, <2>2, <2>3, <3>1 DEF OneInside
  <2>4. CASE merge[m] = "check" /\ merge'[m] = "commit" /\ locked' = locked
    <3>1. \A k \in Updates \X Updates : merge'[k] \in Inside => merge[k] \in Inside
      BY <1>1, <2>4 DEF Inside
    <3>2. QED
      BY <2>1, <2>2, <2>4, <3>1 DEF OneInside
  <2>5. CASE merge[m] \in Inside /\ merge'[m] = "over" /\ locked' = locked \ {Path[m[1]]}
    <3>1. \A k \in Updates \X Updates :
            merge'[k] \in Inside => merge[k] \in Inside /\ Path[k[1]] # Path[m[1]]
      BY <1>1, <2>2, <2>5 DEF Inside
    <3>2. QED
      BY <2>1, <2>2, <2>5, <3>1 DEF OneInside
  <2>6. QED
    BY <1>8, <2>3, <2>4, <2>5
<1>11. QED
  BY <1>6, <1>7, <1>9, <1>10 DEF Order

\* A session that is committed is not older than the file, where updates of the
\* path overlapped once at most.
LEMMA CommitIsNewer ==
  ASSUME TypeOK, Order, NEW m \in Updates \X Updates, MergeCommits(m),
         overlaps[Path[m[1]]] <= 1
  PROVE  disk'[Path[m[1]]].rev >= disk[Path[m[1]]].rev
<1>1. m[1] \in live /\ m[1] \in Updates /\ merge[<<m[1], m[2]>>] = "commit"
      /\ m[2] \in Updates /\ Path[m[1]] \in Paths
  BY DEF MergeCommits, Paths
<1>2. disk'[Path[m[1]]].rev = sess[m[1]].rev
  BY <1>1 DEF MergeCommits, TypeOK
<1>3. ~(disk[Path[m[1]]].rev > sess[m[1]].rev)
  BY <1>1 DEF Order, StaleStays
<1>4. PICK a, b : a = disk[Path[m[1]]].rev /\ b = sess[m[1]].rev
  OBVIOUS
<1>5. a \in Nat /\ b \in Nat /\ ~(a > b)
  BY <1>1, <1>3, <1>4, OrderNumbers
<1>6. b >= a
  BY <1>5
<1>7. QED
  BY <1>2, <1>4, <1>6

\* A commit makes the sessions stale that another update has already attached to.
LEMMA OrderOfCommit ==
  ASSUME Inv, Hand, Order, NEW m \in Updates \X Updates, MergeCommits(m)
  PROVE  Order'
<1> USE DEF Inv
<1> DEFINE t == m[1]
           r == sess[m[1]].rev
<1>1. /\ t \in Updates /\ t \in live /\ merge[m] = "commit" /\ Path[t] \in Paths
      /\ merge' = [merge EXCEPT ![m] = "page"] /\ live' = live \ {t}
      /\ UNCHANGED <<locked, sess, upd, overlaps, found>>
  BY MergeStep DEF MergeCommits, MergeTo, MergeFrame, Paths
<1>2. disk'[Path[t]].rev = r /\ \A p \in Paths : p # Path[t] => disk'[p] = disk[p]
  BY <1>1 DEF MergeCommits, TypeOK
<1>3. Announced(r, Path[t]) /\ r \in Nat
  BY <1>1, OrderNumbers DEF Order, RevAnnounced
<1>4. InHand(t) /\ upd[t] = "over"
  BY <1>1 DEF InHand, LiveIsOpen
<1>5. \A k \in Updates \X Updates :
        /\ merge'[k] = "commit" => merge[k] = "commit" /\ k # m
        /\ merge'[k] \in Inside => merge[k] \in Inside
  BY <1>1 DEF TypeOK, Inside
<1> HIDE DEF t, r
<1>6. \A v \in Updates : InHand(v)' => InHand(v)
  <2>1. Shrinks
    BY OthersShrink DEF Merge
  <2>2. QED
    BY <2>1, OrderNumbers DEF InHand, Shrinks
<1>7. \A s \in live', w \in Updates : Newer(w, s)' <=> Newer(w, s)
  BY <1>1 DEF Newer
<1>8. RevAnnounced'
  BY <1>1 DEF Order, RevAnnounced, Announced
<1>9. DiskAnnounced'
  <2>1. ASSUME NEW p \in Paths
        PROVE  disk'[p].rev = None \/ Announced(disk'[p].rev, p)
    <3>1. CASE p = Path[t]
      BY <1>2, <1>3, <3>1
    <3>2. CASE p # Path[t]
      BY <1>2, <3>2 DEF Order, DiskAnnounced
    <3>3. QED
      BY <3>1, <3>2
  <2>2. QED
    BY <1>1, <2>1 DEF DiskAnnounced, Announced
<1>10. NewerAttaches' /\ OnlyTwo'
  BY <1>1, <1>6, <1>7 DEF Order, NewerAttaches, OnlyTwo
<1>11. StaleStays'
  <2> SUFFICES ASSUME NEW s \in live', overlaps[Path[s]] <= 1,
                      disk'[Path[s]].rev > sess[s].rev
               PROVE  /\ sess[s].hash > sess[s].rev
                      /\ \A u \in Updates : merge'[<<s, u>>] # "commit"
    BY <1>1 DEF StaleStays
  <2>1. s \in Updates /\ s \in live /\ s # t /\ Path[s] \in Paths
    BY <1>1, OrderNumbers DEF TypeOK
  <2>2. CASE Path[s] # Path[t]
    <3>1. disk[Path[s]].rev > sess[s].rev
      BY <1>2, <2>1, <2>2
    <3>2. QED
      BY <1>5, <2>1, <3>1 DEF Order, StaleStays
  <2>3. CASE Path[s] = Path[t]
    <3>1. r > sess[s].rev
      BY <1>2, <2>3
    <3>2. r \in Updates /\ Newer(r, s)
      BY <1>3, <2>1, <2>3, <3>1 DEF Newer, Announced
    <3>3. t \in {s, r}
      BY <1>1, <1>4, <2>1, <2>3, <3>2 DEF Order, OnlyTwo
    <3>4. sess[s].hash > sess[s].rev
      BY <1>4, <2>1, <3>2, <3>3 DEF Order, NewerAttaches
    <3>5. ASSUME NEW u \in Updates, merge'[<<s, u>>] = "commit"
          PROVE  FALSE
      <4>1. <<s, u>> \in Updates \X Updates /\ merge[<<s, u>>] = "commit" /\ <<s, u>> # m
        BY <1>5, <2>1, <3>5
      <4>2. <<s, u>>[1] = s /\ Path[<<s, u>>[1]] = Path[m[1]]
        BY <2>3 DEF t
      <4>3. QED
        BY <1>1, <4>1, <4>2 DEF Order, OneInside, Inside
    <3>6. QED
      BY <3>4, <3>5
  <2>4. QED
    BY <2>2, <2>3
<1>12. OneInside'
  BY <1>1, <1>5 DEF Order, OneInside
<1>13. QED
  BY <1>8, <1>9, <1>10, <1>11, <1>12 DEF Order

\* The read loop lets no merge past its lock.
LEMMA ReaderMerges ==
  ASSUME TypeOK, \/ DirectoryMade \/ ChunkStored \/ StoreFails
                 \/ \E s \in Updates : ChunkArrives(s)
  PROVE  /\ UNCHANGED <<disk, locked>>
         /\ \A m \in Updates \X Updates : merge'[m] \in Inside => merge'[m] = merge[m]
<1>1. UNCHANGED <<disk, locked>>
  BY DEF DirectoryMade, ChunkStored, StoreFails, ChunkArrives, ReaderFrame, fileVars
<1>2. \/ merge' = merge
      \/ \E k \in Updates \X Updates : merge' = [merge EXCEPT ![k] = "lock"]
  <2>1. CASE DirectoryMade \/ ChunkStored
    <3>1. <<reader[2], reader[2]>> \in Updates \X Updates
      BY <2>1 DEF DirectoryMade, ChunkStored, Idle, TypeOK
    <3>2. \/ merge' = merge
          \/ merge' = [merge EXCEPT ![<<reader[2], reader[2]>>] = "lock"]
      BY <2>1 DEF DirectoryMade, ChunkStored, CompleteEmpty
    <3>3. QED
      BY <3>1, <3>2
  <2>2. CASE StoreFails \/ \E s \in Updates : ChunkArrives(s)
    BY <2>2 DEF StoreFails, ChunkArrives
  <2>3. QED
    BY <2>1, <2>2
<1>3. QED
  BY <1>1, <1>2 DEF Inside, TypeOK

-----------------------------------------------------------------------------
(* What these give.                                                          *)

\* Without overlaps FileHashMap says what the file is.
BaseFollows == \A p \in Paths : overlaps[p] = 0 => base[p] = disk[p].rev

Owned == Hand /\ Order /\ SlotsOwned /\ BaseFollows

\* The daemon starts with nobody at work, and no file is replaced yet.
LEMMA InitOwned == Init => Owned
<1> SUFFICES ASSUME Init
             PROVE  Owned
  OBVIOUS
<1>1. /\ \A u \in Updates : upd[u] = "later" /\ found[u] = None /\ svc[u] = "none"
      /\ \A p \in Paths : temp[p] = None /\ disk[p].rev = None /\ base[p] = None
      /\ live = {} /\ held = {} /\ tempHeld = {} /\ slots = 0
      /\ \A m \in Updates \X Updates : merge[m] = "none"
  BY DEF Init, NoFile
<1>2. \A u \in Updates : ~InHand(u)
  <2>1. \A u \in Updates : u # None /\ Path[u] \in Paths
    BY UpdatesAreNumbers DEF Updates, None, Paths
  <2>2. QED
    BY <1>1, <2>1 DEF InHand
<1>3. Hand
  BY <1>1, <1>2 DEF Hand, Alone, NoneFound, FoundOfPath, TempIsOwn, TempHeldLater, HeldTemp,
                    HeldLive, RevIsHash
<1>4. Order
  BY <1>1 DEF Order, RevAnnounced, DiskAnnounced, NewerAttaches, OnlyTwo, StaleStays,
              OneInside, Inside
<1>5. SlotsOwned
  BY <1>1, HoldersAreFew DEF SlotsOwned
<1>6. BaseFollows
  BY <1>1 DEF BaseFollows
<1>7. QED
  BY <1>3, <1>4, <1>5, <1>6 DEF Owned

\* Who holds what stays in order.
LEMMA HandKept ==
  ASSUME Inv, Hand, [Next]_vars
  PROVE  Hand'
<1>1. Inv => TypeOK
  BY DEF Inv
<1>2. Shrinks => Hand'
  BY HandOfShrink
<1>3. CASE \E u \in Updates : UpdateArrives(u) \/ Handler(u)
  BY <1>3, HandOfArrival, HandOfHandler
<1>4. CASE Reader
  BY <1>1, <1>2, <1>4, HandOfOpenSession, ReaderShrinks DEF Reader
<1>5. CASE (\E m \in Updates \X Updates : Merge(m))
           \/ ConnectionLost \/ Reconnects \/ CleanupTransfers
  BY <1>2, <1>5, OthersShrink
<1>6. CASE UNCHANGED vars
  <2>1. Shrinks
    BY <1>6 DEF vars, netVars, entries, Shrinks
  <2>2. QED
    BY <1>2, <2>1
<1>7. QED
  BY <1>3, <1>4, <1>5, <1>6 DEF Next

\* The order of revisions is kept.
LEMMA OrderKept ==
  ASSUME Inv, Hand, Order, [Next]_vars
  PROVE  Order'
<1>1. Inv => TypeOK
  BY DEF Inv
<1>2. CASE \E u \in Updates : UpdateArrives(u) \/ Handler(u)
  BY <1>2, OrderOfArrival, OrderOfHandler
<1>3. CASE \E s \in Updates : OpenSession(s)
  BY <1>3, OrderOfOpenSession
<1>4. CASE \/ DirectoryMade \/ ChunkStored \/ StoreFails
           \/ \E s \in Updates : ChunkArrives(s)
  <2>1. Shrinks
    BY <1>1, <1>4, ReaderShrinks
  <2>2. /\ UNCHANGED <<disk, locked>>
        /\ \A m \in Updates \X Updates : merge'[m] \in Inside => merge'[m] = merge[m]
    BY <1>1, <1>4, ReaderMerges
  <2>3. QED
    BY <2>1, <2>2, OrderOfShrink
<1>5. CASE \E m \in Updates \X Updates : Merge(m)
  BY <1>5, OrderOfMergeStep, OrderOfCommit
<1>6. CASE ConnectionLost \/ Reconnects \/ CleanupTransfers \/ UNCHANGED vars
  <2>1. Shrinks
    <3>1. CASE UNCHANGED vars
      BY <3>1 DEF vars, netVars, entries, Shrinks
    <3>2. QED
      BY <1>6, <3>1, OthersShrink
  <2>2. UNCHANGED <<disk, locked, merge>>
    BY <1>6 DEF ConnectionLost, Reconnects, CleanupTransfers, vars, fileVars
  <2>3. QED
    BY <2>1, <2>2, OrderOfShrink
<1>7. QED
  BY <1>2, <1>3, <1>4, <1>5, <1>6 DEF Next, Reader

\* Only mergeDownloadSession replaces files and records them.
LEMMA OnlyCommitsWrite ==
  ASSUME [Next]_vars, \A m \in Updates \X Updates : ~MergeCommits(m)
  PROVE  UNCHANGED <<disk, base>>
<1> USE DEF fileVars
<1>1. ASSUME NEW u \in Updates, UpdateArrives(u) \/ Handler(u)
      PROVE  UNCHANGED <<disk, base>>
  BY <1>1 DEF UpdateArrives, Handler, LookForSession, TakeSlot, Attach, CreateTemp,
              RequestChunks, RequestFails
<1>2. CASE Reader
  BY <1>2 DEF Reader, DirectoryMade, ChunkStored, StoreFails, OpenSession, ChunkArrives,
              ReaderFrame
<1>3. ASSUME NEW m \in Updates \X Updates, Merge(m)
      PROVE  UNCHANGED <<disk, base>>
  BY <1>3 DEF Merge, MergeLocksPath, MergeChecks, MergeAborts, MergeDiscards,
              MergeCompletesPage
<1>4. CASE ConnectionLost \/ Reconnects \/ CleanupTransfers \/ UNCHANGED vars
  BY <1>4 DEF ConnectionLost, Reconnects, CleanupTransfers, vars
<1>5. QED
  BY <1>1, <1>2, <1>3, <1>4 DEF Next

\* An overlap that was counted is not forgotten.
LEMMA OverlapsGrow ==
  ASSUME Inv, Hand, [Next]_vars, NEW p \in Paths
  PROVE  overlaps[p] \in Nat /\ overlaps'[p] \in Nat /\ overlaps[p] <= overlaps'[p]
<1> USE DEF Inv
<1>1. PICK v \in Updates : p = Path[v]
  BY DEF Paths
<1>2. overlaps[p] \in Nat
  BY OrderNumbers
<1>3. CASE \E u \in Updates : UpdateArrives(u)
  BY <1>1, <1>3, ArrivalCounts
<1>4. ASSUME overlaps' = overlaps
      PROVE  overlaps[p] \in Nat /\ overlaps'[p] \in Nat /\ overlaps[p] <= overlaps'[p]
  BY <1>2, <1>4
<1>5. CASE \E u \in Updates : Handler(u)
  BY <1>4, <1>5, HandlerAddsNone
<1>6. CASE Reader
  BY <1>4, <1>6 DEF Reader, DirectoryMade, ChunkStored, StoreFails, OpenSession, ChunkArrives,
                    ReaderFrame
<1>7. CASE (\E m \in Updates \X Updates : Merge(m))
           \/ ConnectionLost \/ Reconnects \/ CleanupTransfers
  BY <1>4, <1>7, OthersShrink DEF Shrinks
<1>8. CASE UNCHANGED vars
  BY <1>4, <1>8 DEF vars
<1>9. QED
  BY <1>3, <1>5, <1>6, <1>7, <1>8 DEF Next

\* A file that is replaced is recorded with the hash of what replaced it.
LEMMA BaseKept ==
  ASSUME Inv, Hand, BaseFollows, [Next]_vars
  PROVE  BaseFollows'
<1> SUFFICES ASSUME NEW p \in Paths, overlaps'[p] = 0
             PROVE  base'[p] = disk'[p].rev
  BY DEF BaseFollows
<1>1. overlaps[p] = 0
  BY OverlapsGrow
<1>2. base[p] = disk[p].rev
  BY <1>1 DEF BaseFollows
<1>3. ASSUME NEW m \in Updates \X Updates, MergeCommits(m)
      PROVE  base'[p] = disk'[p].rev
  <2>1. m[1] \in live /\ m[1] \in Updates /\ Path[m[1]] \in Paths
    BY <1>3 DEF MergeCommits, Paths
  <2>2. CASE p # Path[m[1]]
    BY <1>2, <1>3, <2>2 DEF MergeCommits, Inv, TypeOK
  <2>3. CASE p = Path[m[1]]
    <3>1. sess[m[1]].rev = sess[m[1]].hash
      BY <1>1, <2>1, <2>3 DEF Hand, RevIsHash
    <3>2. QED
      BY <1>3, <2>3, <3>1 DEF MergeCommits, Inv, TypeOK
  <2>4. QED
    BY <2>2, <2>3
<1>4. QED
  BY <1>2, <1>3, OnlyCommitsWrite

\* The second inductive invariant: who is at work on a path, who holds which
\* slot, and which session an update that overlaps another attaches to.
THEOREM Ownership == Spec => []Owned
<1>1. Init => Owned
  BY InitOwned
<1>2. Inv /\ Owned /\ [Next]_vars => Owned'
  BY HandKept, OrderKept, SlotsKept, BaseKept DEF Owned
<1>3. QED
  BY <1>1, <1>2, Invariance, PTL DEF Spec

\* FileHashMap follows the files, where no updates of a path overlap.
THEOREM HashesFollowFiles == Spec => []BaseMatchesDisk
<1>1. Inv /\ Owned => BaseMatchesDisk
  BY DEF Inv, Owned, BaseFollows, DiskIsWhole, BaseMatchesDisk
<1>2. QED
  BY <1>1, Invariance, Ownership, PTL

\* Every slot that is taken is given back, where no updates of a path overlap.
THEOREM EverySlotReturns == Spec => []SlotsReturned
<1>1. Inv /\ Owned => SlotsReturned
  <2> SUFFICES ASSUME Inv, Owned, Calm, Quiet
               PROVE  slots = 0
    BY DEF SlotsReturned
  <2>1. Holders = {}
    <3>1. \A u \in Updates : u # None /\ Path[u] \in Paths
      BY UpdatesAreNumbers DEF Updates, None, Paths
    <3>2. QED
      BY <3>1 DEF Holders, Quiet
  <2>2. slots <= 0
    BY <2>1, FS_EmptySet DEF Owned, SlotsOwned
  <2>3. slots \in Nat
    BY FileDownloadAssumption DEF Inv, TypeOK, FileDownloadAssumption
  <2>4. QED
    BY <2>2, <2>3
<1>2. QED
  BY <1>1, Invariance, Ownership, PTL

\* No file goes back to an earlier revision, where updates of its path overlapped
\* once at most.
THEOREM RevisionsNeverGoBack == Spec => NeverGoesBack
<1> DEFINE Forward == \A p \in Paths : overlaps[p] <= 1 => disk'[p].rev >= disk[p].rev
<1>1. ASSUME Inv, Owned, [Next]_vars
      PROVE  Forward
  <2> SUFFICES ASSUME NEW p \in Paths, overlaps[p] <= 1
               PROVE  disk'[p].rev >= disk[p].rev
    OBVIOUS
  <2>1. disk'[p] = disk[p] => disk'[p].rev >= disk[p].rev
    <3>1. disk[p].rev \in Nat
      BY <1>1, OrderNumbers DEF Inv
    <3>2. QED
      BY <3>1
  <2>2. ASSUME NEW m \in Updates \X Updates, MergeCommits(m)
        PROVE  disk'[p].rev >= disk[p].rev
    <3>1. CASE p = Path[m[1]]
      BY <1>1, <2>2, <3>1, CommitIsNewer DEF Inv, Owned
    <3>2. CASE p # Path[m[1]]
      BY <1>1, <2>1, <2>2, <3>2 DEF MergeCommits, Inv, TypeOK
    <3>3. QED
      BY <3>1, <3>2
  <2>3. QED
    BY <1>1, <2>1, <2>2, OnlyCommitsWrite
<1>2. Inv /\ Owned /\ [Next]_vars => [Forward]_vars
  BY <1>1
<1>3. QED
  BY <1>2, Invariance, Ownership, PTL DEF Spec, NeverGoesBack

=============================================================================
