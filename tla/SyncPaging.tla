------------------------------ MODULE SyncPaging ------------------------------
(***************************************************************************)
(* Paged delivery of one module's work in a sync round                     *)
(* (internal/sync/dispatcher.go, runtime_helpers.go, file_sync.go).        *)
(*                                                                         *)
(* The service announces the number of items in *SyncEnd, waits for the    *)
(* acknowledgment -1, then sends numbered pages, each followed by its      *)
(* items; it sends a page only while the pages before it are acknowledged  *)
(* up to a window.  The daemon tracks the pages and acknowledges the       *)
(* longest run of completed ones.  Items are handled by goroutines that    *)
(* outlive the dispatch, the connection and the round; the module here is  *)
(* "file", whose handlers live longest (a download).                       *)
(*                                                                         *)
(* A step is one critical section of SyncService.mu.  A frame is read and  *)
(* dispatched in one step; an acknowledgment is computed under the mutex   *)
(* and sent after it is released, so acks arrive in any order.             *)
(***************************************************************************)
EXTENDS Integers, Sequences, FiniteSets, FiniteSetsExt

CONSTANTS
  MaxRounds,   \* bound on the rounds
  PageTotals,  \* PageTotals[p + 1]: the number of items of page p
  Window       \* external: pages of tagged items the service sends past the
               \* acknowledged ones

ASSUME SyncPagingAssumption ==
  /\ MaxRounds \in Nat \ {0} /\ Window \in Nat \ {0}
  /\ PageTotals \in Seq(Nat) /\ Len(PageTotals) >= 1

Rounds == 1..MaxRounds
PageIndexes == 0..(Len(PageTotals) - 1)
LastPage == Len(PageTotals) - 1
ItemsOf(r, p) == {[round |-> r, page |-> p, item |-> k] : k \in 1..PageTotals[p + 1]}
ItemsOfRound(r) == UNION {ItemsOf(r, p) : p \in PageIndexes}
Items == UNION {ItemsOfRound(r) : r \in Rounds}

NoIndex == -1  \* a nil PageIndex

VARIABLES
  round,        \* the current round, which is the context of its requests
  fileSyncEnd,
  need,         \* the sum of the Need counters of fileSyncTasks
  Completed,    \* fileSyncTasks.Completed
  tracker,      \* syncPages["file"]; Context 0 stands for nil
  wire,         \* frames the service sent and the daemon has not read
  acks,         \* page acks computed and not yet received by the service
  work,         \* work[i]: how far item i got
  index,        \* index[i]: the page index the handler of i completes
  sessions,     \* items with an entry in fileDownloadSessions
  srv,          \* external: the service's side of the current round
  tagged,       \* external: the service writes the page index into each item
  clean         \* history: nothing of an earlier round was left, neither a frame
                \* nor a goroutine, when the current one began

taskVars == <<fileSyncEnd, need, Completed>>
history  == <<tagged, clean>>
vars == <<round, taskVars, tracker, wire, acks, work, index, sessions, srv, history>>

NoPages == [p \in {} |-> 0]
NewTracker(c) == [Context |-> c, AckWatermark |-> 0, Pages |-> NoPages]
\* The service after it got the request of a round.
Requested == [ended |-> FALSE, paging |-> FALSE, sent |-> 0, acked |-> -1]

Init ==
  /\ round = 1
  /\ fileSyncEnd = FALSE /\ need = 0 /\ Completed = 0
  /\ tracker = NewTracker(0)
  /\ wire = <<>> /\ acks = {}
  /\ work = [i \in Items |-> "unsent"]
  /\ index = [i \in Items |-> NoIndex]
  /\ sessions = {}
  /\ srv = Requested
  /\ tagged \in BOOLEAN /\ clean = TRUE

-----------------------------------------------------------------------------
(* The page tracker. *)

\* Mutant: the last page is acknowledged too.
AckableAlsoLast(pages, p) ==
  p \in DOMAIN pages /\ pages[p].CompletedCount >= pages[p].TotalCount

Ackable(pages, p) ==
  /\ p \in DOMAIN pages
  /\ ~pages[p].IsLast
  /\ pages[p].CompletedCount >= pages[p].TotalCount

\* The first page from w on that cannot be acknowledged.
NextWatermark(pages, w) ==
  CHOOSE n \in w..(Len(PageTotals) + 1) :
    ~Ackable(pages, n) /\ \A p \in w..(n - 1) : Ackable(pages, p)

\* Mutant: the acknowledged pages stay registered.
AdvanceKeepsPages(t) == [t EXCEPT !.AckWatermark = NextWatermark(t.Pages, @)]

\* advanceSyncPageAckLocked: the acknowledged run is forgotten.
AdvanceSyncPageAck(t) ==
  LET w == NextWatermark(t.Pages, t.AckWatermark) IN
  [t EXCEPT !.AckWatermark = w,
            !.Pages = [p \in DOMAIN @ \ t.AckWatermark..(w - 1) |-> @[p]]]

\* The tracker becomes AdvanceSyncPageAck(t), and what that acknowledges is sent.
TrackAndAck(t) ==
  LET u == AdvanceSyncPageAck(t) IN
  /\ tracker' = u
  /\ acks' = acks \cup {[context |-> t.Context, pageIndex |-> u.AckWatermark - 1] :
                         w \in t.AckWatermark..(u.AckWatermark - 1)}

\* completeSyncPageLocked
CompleteSyncPage(p) ==
  IF tracker.Context # 0 /\ p \in DOMAIN tracker.Pages
     /\ tracker.Pages[p].CompletedCount < tracker.Pages[p].TotalCount
    THEN TrackAndAck([tracker EXCEPT !.Pages[p].CompletedCount = @ + 1])
    ELSE UNCHANGED <<tracker, acks>>

\* resolveSyncPageIndex and withPageIndex: an index the item carries is kept;
\* otherwise the index 0 of the envelope, or the only page there is.
ResolveSyncPageIndex(i) ==
  IF tagged THEN i.page
  ELSE IF 0 \in DOMAIN tracker.Pages THEN 0
  ELSE IF Cardinality(DOMAIN tracker.Pages) = 1
         THEN CHOOSE p \in DOMAIN tracker.Pages : TRUE
         ELSE NoIndex

\* Mutant: the open downloads are not looked at.
IsSyncCompleteByCount == fileSyncEnd /\ Completed >= need

\* The part of isSyncComplete about this module.
IsSyncComplete == fileSyncEnd /\ Completed >= need /\ sessions = {}

-----------------------------------------------------------------------------
(* Rounds. *)

\* handleSync begins a round, at any time (SyncRound says when): the counters and
\* the tracker are reset, the goroutines of earlier rounds are not.  The
\* connection was lost since, or not.
HandleSync ==
  /\ round < MaxRounds
  /\ round' = round + 1
  /\ fileSyncEnd' = FALSE /\ need' = 0 /\ Completed' = 0
  /\ tracker' = NewTracker(0)
  /\ srv' = Requested
  /\ \/ UNCHANGED <<wire, acks, work>>
     \/ /\ wire' = <<>> /\ acks' = {}
        /\ work' = [i \in Items |-> IF work[i] = "sent" THEN "unsent" ELSE work[i]]
  /\ clean' = /\ wire' = <<>>
              /\ \A i \in Items : work'[i] \in {"unsent", "done", "lost"}
  /\ UNCHANGED <<index, sessions, tagged>>

\* cleanupActiveFileTransfersOnTimeout, when a round stalled.  Bound: the last
\* round does not stall.
CleanupActiveFileTransfers ==
  /\ sessions # {} /\ round < MaxRounds
  /\ sessions' = {}
  /\ UNCHANGED <<round, taskVars, tracker, wire, acks, work, index, srv, history>>

-----------------------------------------------------------------------------
(* External: the service, as the handlers and their tests expect it. *)

ServiceEndsScan ==
  /\ ~srv.ended
  /\ srv' = [srv EXCEPT !.ended = TRUE]
  /\ wire' = Append(wire, [action |-> "SyncEnd", context |-> round])
  /\ UNCHANGED <<round, taskVars, tracker, acks, work, index, sessions, history>>

\* A page and its items, in this order.  Without indexes the daemon can only
\* place the items of one page at a time.
ServiceSendsPage ==
  LET p == srv.sent IN
  /\ srv.paging /\ p \in PageIndexes /\ p <= srv.acked + (IF tagged THEN Window ELSE 1)
  /\ srv' = [srv EXCEPT !.sent = p + 1]
  /\ wire' = wire
       \o <<[action |-> "SyncPage", context |-> round, pageIndex |-> p]>>
       \o [k \in 1..PageTotals[p + 1] |->
             [action |-> "Item", item |-> [round |-> round, page |-> p, item |-> k]]]
  /\ work' = [i \in Items |-> IF i \in ItemsOf(round, p) THEN "sent" ELSE work[i]]
  /\ UNCHANGED <<round, taskVars, tracker, acks, index, sessions, history>>

\* An acknowledgment arrives: they are cumulative.
ServiceReceivesAck(a) ==
  /\ acks' = acks \ {a}
  /\ srv' = IF a.context # round THEN srv
            ELSE [srv EXCEPT !.paging = @ \/ a.pageIndex = -1,
                             !.acked = Max({@, a.pageIndex})]
  /\ UNCHANGED <<round, taskVars, tracker, wire, work, index, sessions, history>>

-----------------------------------------------------------------------------
(* The dispatcher. *)

Read(f) == wire # <<>> /\ Head(wire) = f /\ wire' = Tail(wire)

\* Mutant: a tracker that pages of an earlier round created is kept.
HandleSyncEndKeepsTracker ==
  /\ wire # <<>> /\ Head(wire).action = "SyncEnd" /\ Read(Head(wire))
  /\ LET c == Head(wire).context IN
     /\ need' = Cardinality(ItemsOfRound(c)) /\ fileSyncEnd' = TRUE
     /\ tracker' = IF tracker.Context = 0 THEN NewTracker(c) ELSE tracker
     /\ acks' = acks \cup {[context |-> c, pageIndex |-> -1]}
  /\ UNCHANGED <<round, Completed, work, index, sessions, srv, history>>

\* handleFileSyncEnd and startSyncPaging, which replaces the tracker.
HandleSyncEnd ==
  /\ wire # <<>> /\ Head(wire).action = "SyncEnd" /\ Read(Head(wire))
  /\ LET c == Head(wire).context
         total == Cardinality(ItemsOfRound(c)) IN
     /\ need' = total /\ fileSyncEnd' = TRUE
     /\ \/ total = 0 /\ UNCHANGED <<tracker, acks>>
        \/ /\ total # 0
           /\ tracker' = NewTracker(c)
           /\ acks' = acks \cup {[context |-> c, pageIndex |-> -1]}
  /\ UNCHANGED <<round, Completed, work, index, sessions, srv, history>>

\* handleSyncPage: the page is registered unless it is known.
HandleSyncPage ==
  /\ wire # <<>> /\ Head(wire).action = "SyncPage" /\ Read(Head(wire))
  /\ LET f == Head(wire)
         p == f.pageIndex
         t == [tracker EXCEPT !.Context = f.context]
         page == [TotalCount |-> PageTotals[p + 1], CompletedCount |-> 0,
                  IsLast |-> p = LastPage] IN
     TrackAndAck(IF p \in DOMAIN t.Pages THEN t
                 ELSE [t EXCEPT !.Pages = [q \in DOMAIN @ \cup {p} |->
                                             IF q = p THEN page ELSE @[q]]])
  /\ UNCHANGED <<round, taskVars, work, index, sessions, srv, history>>

\* A work item gets its page index and its goroutine.
DispatchItem ==
  /\ wire # <<>> /\ Head(wire).action = "Item" /\ Read(Head(wire))
  /\ LET i == Head(wire).item IN
     /\ work' = [work EXCEPT ![i] = "handling"]
     /\ index' = [index EXCEPT ![i] = ResolveSyncPageIndex(i)]
  /\ UNCHANGED <<round, taskVars, tracker, acks, sessions, srv, history>>

-----------------------------------------------------------------------------
(* The goroutine of an item. *)

Step(i, from, to) == work[i] = from /\ work' = [work EXCEPT ![i] = to]
IncrementCompleted == Completed' = Completed + 1 /\ UNCHANGED <<fileSyncEnd, need>>

\* incrementCompletedPage: most handlers end so, done or refused.
IncrementCompletedPage(i) ==
  /\ Step(i, "handling", "done")
  /\ IncrementCompleted
  /\ CompleteSyncPage(index[i])
  /\ UNCHANGED <<round, wire, index, sessions, srv, history>>

\* Mutant: the refused item is not counted.
RefuseUncounted(i) ==
  /\ Step(i, "handling", "ending")
  /\ UNCHANGED <<round, taskVars, tracker, wire, acks, index, sessions, srv, history>>

\* handleFileSyncUpdate refuses the path: incrementCompleted, then the page.
RefuseDownload(i) ==
  /\ Step(i, "handling", "ending")
  /\ IncrementCompleted
  /\ UNCHANGED <<round, tracker, wire, acks, index, sessions, srv, history>>

\* handleFileSyncUpdate opens a session (after it waited for a slot).
OpenSession(i) ==
  /\ Step(i, "handling", "opened")
  /\ sessions' = sessions \cup {i}
  /\ UNCHANGED <<round, taskVars, tracker, wire, acks, index, srv, history>>

\* Mutant: the request completes the page as well, the download then again.
RequestCompletesPage(i) ==
  /\ Step(i, "opened", "asked")
  /\ IncrementCompleted
  /\ CompleteSyncPage(index[i])
  /\ UNCHANGED <<round, wire, index, sessions, srv, history>>

\* It requests the chunks: the item counts as completed once they are asked for.
RequestChunks(i) ==
  /\ Step(i, "opened", "asked")
  /\ IncrementCompleted
  /\ UNCHANGED <<round, tracker, wire, acks, index, sessions, srv, history>>

\* The request is not sent: the item never counts.
RequestFails(i) ==
  /\ Step(i, "opened", "failed")
  /\ sessions' = sessions \ {i}
  /\ UNCHANGED <<round, taskVars, tracker, wire, acks, index, srv, history>>

\* mergeDownloadSession or abortDownloadSession removes the session.
CloseSession(i) ==
  /\ i \in sessions
  /\ Step(i, "asked", "ending")
  /\ sessions' = sessions \ {i}
  /\ UNCHANGED <<round, taskVars, tracker, wire, acks, index, srv, history>>

\* completeSyncPage, the last call of every path of a download.
CompletePageOfDownload(i) ==
  /\ \/ Step(i, "ending", "done")
     \/ Step(i, "failed", "lost")
  /\ CompleteSyncPage(index[i])
  /\ UNCHANGED <<round, taskVars, wire, index, sessions, srv, history>>

Handler(i) ==
  \/ IncrementCompletedPage(i) \/ RefuseDownload(i) \/ OpenSession(i)
  \/ RequestChunks(i) \/ RequestFails(i) \/ CompletePageOfDownload(i)

Service == \/ ServiceEndsScan \/ ServiceSendsPage
           \/ \E a \in acks : ServiceReceivesAck(a)
Dispatch == HandleSyncEnd \/ HandleSyncPage \/ DispatchItem

Next == \/ HandleSync \/ CleanupActiveFileTransfers
        \/ Service \/ Dispatch
        \/ \E i \in Items : Handler(i) \/ CloseSession(i)

Spec == Init /\ [][Next]_vars

\* The Go scheduler runs the read loop and every handler.  External: while a
\* round lasts the service keeps to the protocol, acks arrive and requested
\* chunks are served (or refused, which aborts the session).
Fairness == /\ WF_vars(Dispatch)
            /\ \A i \in Items : WF_vars(Handler(i)) /\ WF_vars(CloseSession(i))
            /\ WF_vars(ServiceEndsScan) /\ WF_vars(ServiceSendsPage)
            /\ \A c \in Rounds, p \in {-1} \cup PageIndexes :
                 LET a == [context |-> c, pageIndex |-> p] IN
                 WF_vars(a \in acks /\ ServiceReceivesAck(a))

FairSpec == Spec /\ Fairness

-----------------------------------------------------------------------------
(* Properties. *)

TypeOK ==
  /\ round \in Rounds
  /\ fileSyncEnd \in BOOLEAN /\ need \in Nat /\ Completed \in Nat
  /\ tracker.Context \in 0..MaxRounds /\ tracker.AckWatermark \in 0..LastPage
  /\ DOMAIN tracker.Pages \subseteq PageIndexes
  /\ \A p \in DOMAIN tracker.Pages :
       tracker.Pages[p] \in [TotalCount : {PageTotals[p + 1]},
                             CompletedCount : 0..PageTotals[p + 1],
                             IsLast : {p = LastPage}]
  /\ acks \subseteq [context : Rounds, pageIndex : {-1} \cup PageIndexes]
  /\ work \in [Items -> {"unsent", "sent", "handling", "opened", "asked", "ending",
                         "failed", "done", "lost"}]
  /\ index \in [Items -> {NoIndex} \cup PageIndexes]
  /\ sessions \subseteq Items /\ tagged \in BOOLEAN /\ clean \in BOOLEAN
  /\ srv \in [ended : BOOLEAN, paging : BOOLEAN, sent : 0..Len(PageTotals),
              acked : {-1} \cup PageIndexes]

Handled(i) == work[i] \in {"done", "lost"}

\* What the daemon has acknowledged of round c, received or not.
AckedPages(c) ==
  {p \in PageIndexes : \/ \E a \in acks : a.context = c /\ p <= a.pageIndex
                       \/ c = round /\ p <= srv.acked
                       \/ c = tracker.Context /\ p < tracker.AckWatermark}

\* An acknowledgment covers no page with an item that is still to come or being
\* handled: the service forgets what it covers (sync_test.go:1052, 1119).  So it is
\* however the handlers of a round interleave, unless something of an earlier round
\* was left when it began: that completes its page index in the tracker of the new
\* round (runtime_helpers.go:696-732).
AckedPagesDone ==
  clean => \A c \in Rounds : \A p \in AckedPages(c) : \A i \in ItemsOf(c, p) : Handled(i)

\* Each item of the round is counted for the page it came on, also when it carries
\* no index and its page is found by looking (dispatcher.go:109-134).
ItemsOnTheirPage ==
  clean => \A i \in ItemsOfRound(round) : work[i] \notin {"unsent", "sent"} => index[i] = i.page

\* The download of i was cancelled or its request was not sent.
GivenUp(i) == work[i] \in {"failed", "lost"} \/ (work[i] = "asked" /\ i \notin sessions)

\* The module counts as finished only when every item of the round has been
\* taken care of or cancelled, unless goroutines of an earlier round were left,
\* which count for the current one (startup.go:482-486).
CompleteMeansHandled ==
  clean /\ IsSyncComplete =>
    \A i \in ItemsOfRound(round) : work[i] \in {"ending", "done"} \/ GivenUp(i)

\* The pages keep coming whatever happens to single items and whatever earlier
\* rounds left behind, frames, tracker or goroutines: every page of the last
\* round is sent and every item of it handled (startup.go:142,
\* runtime_helpers.go:646-647, file_sync.go:666-686).
EveryItemHandled ==
  []<>(round = MaxRounds => \A i \in ItemsOfRound(round) : Handled(i))

\* A round of which no download was given up reaches completion
\* (file_sync.go:219-231), unless something of an earlier round was left.
RoundCompletes == []<>(IsSyncComplete \/ ~clean \/ \E i \in Items : GivenUp(i))
=============================================================================
