---------------------------- MODULE SyncPagingProofs ----------------------------
(***************************************************************************)
(* Proofs about SyncPaging for every number of rounds, of pages and of     *)
(* items on a page, and every window of the service.                       *)
(***************************************************************************)
EXTENDS SyncPaging, FiniteSetTheorems, SequenceTheorems, TLAPS, WellFoundedInduction

-----------------------------------------------------------------------------
(* What is on the wire and what a tracker looks like.                        *)

Frames == [action : {"SyncEnd"}, context : Rounds]
          \cup [action : {"SyncPage"}, context : Rounds, pageIndex : PageIndexes]
          \cup [action : {"Item"}, item : Items]

Is(f, a) == f.action = a
RoundOf(f) == IF Is(f, "Item") THEN f.item.round ELSE f.context

PageRecords == [TotalCount : Nat, CompletedCount : Nat, IsLast : BOOLEAN]
Pagings == UNION {[D -> PageRecords] : D \in SUBSET PageIndexes}

IsTracker(t) ==
  /\ t \in [Context : 0..MaxRounds, AckWatermark : 0..LastPage, Pages : Pagings]
  /\ \A p \in DOMAIN t.Pages : /\ t.Pages[p].TotalCount = PageTotals[p + 1]
                               /\ t.Pages[p].CompletedCount <= PageTotals[p + 1]
                               /\ t.Pages[p].IsLast = (p = LastPage)

Types == TypeOK /\ IsTracker(tracker) /\ wire \in Seq(Frames)

\* The constants are numbers of the sizes their names say.
LEMMA Constants ==
  /\ MaxRounds \in Nat /\ Rounds \subseteq Nat \ {0} /\ Rounds \subseteq 0..MaxRounds
  /\ LastPage \in Nat /\ LastPage \in PageIndexes /\ PageIndexes = 0..LastPage
  /\ Len(PageTotals) = LastPage + 1
  /\ \A p \in PageIndexes : p \in Nat /\ PageTotals[p + 1] \in Nat
BY SyncPagingAssumption DEF Rounds, LastPage, PageIndexes

\* An item belongs to one round and one page.
LEMMA ItemOf ==
  /\ \A i \in Items : /\ i.round \in Rounds /\ i.page \in PageIndexes
                      /\ i \in ItemsOf(i.round, i.page)
  /\ \A r \in Rounds, p \in PageIndexes :
       /\ ItemsOf(r, p) \subseteq Items
       /\ \A i : i \in ItemsOf(r, p) => i.round = r /\ i.page = p
  /\ \A r \in Rounds : ItemsOfRound(r) = {i \in Items : i.round = r}
<1>1. \A r, p : \A i : i \in ItemsOf(r, p) => i.round = r /\ i.page = p
  BY DEF ItemsOf
<1>2. \A i \in Items : \E r \in Rounds, p \in PageIndexes : i \in ItemsOf(r, p)
  BY DEF Items, ItemsOfRound
<1>3. \A r \in Rounds, p \in PageIndexes :
        ItemsOf(r, p) \subseteq Items /\ ItemsOf(r, p) \subseteq ItemsOfRound(r)
  BY DEF Items, ItemsOfRound
<1>4. \A r \in Rounds : ItemsOfRound(r) \subseteq {i \in Items : i.round = r}
  BY <1>1, <1>3 DEF ItemsOfRound
<1>5. QED
  BY <1>1, <1>2, <1>3, <1>4

\* There are finitely many items.
LEMMA Finite ==
  /\ \A r \in Rounds, p \in PageIndexes : IsFiniteSet(ItemsOf(r, p))
  /\ \A r \in Rounds : IsFiniteSet(ItemsOfRound(r))
  /\ IsFiniteSet(Items)
<1>1. ASSUME NEW r, NEW p \in PageIndexes
      PROVE  IsFiniteSet(ItemsOf(r, p))
  <2> DEFINE f == [k \in 1..PageTotals[p + 1] |-> [round |-> r, page |-> p, item |-> k]]
  <2>1. f \in Surjection(1..PageTotals[p + 1], ItemsOf(r, p))
    BY DEF Surjection, ItemsOf
  <2>2. IsFiniteSet(1..PageTotals[p + 1])
    BY Constants, FS_Interval
  <2> HIDE DEF f
  <2>3. QED
    BY <2>1, <2>2, FS_Surjection
<1>2. ASSUME NEW r \in Rounds
      PROVE  IsFiniteSet(ItemsOfRound(r))
  <2> DEFINE S == {ItemsOf(r, p) : p \in PageIndexes}
             f == [p \in PageIndexes |-> ItemsOf(r, p)]
  <2>1. f \in Surjection(PageIndexes, S)
    BY DEF Surjection
  <2>2. IsFiniteSet(PageIndexes)
    BY Constants, FS_Interval
  <2>3. \A T \in S : IsFiniteSet(T)
    BY <1>1
  <2> HIDE DEF f
  <2>4. IsFiniteSet(S)
    BY <2>1, <2>2, FS_Surjection
  <2>5. ItemsOfRound(r) = UNION S
    BY DEF ItemsOfRound
  <2> HIDE DEF S
  <2>6. QED
    BY <2>3, <2>4, <2>5, FS_UNION
<1>3. IsFiniteSet(Items)
  <2> DEFINE S == {ItemsOfRound(r) : r \in Rounds}
             f == [r \in Rounds |-> ItemsOfRound(r)]
  <2>1. f \in Surjection(Rounds, S)
    BY DEF Surjection
  <2>2. IsFiniteSet(Rounds)
    BY Constants, FS_Interval DEF Rounds
  <2>3. \A T \in S : IsFiniteSet(T)
    BY <1>2
  <2> HIDE DEF f
  <2>4. IsFiniteSet(S)
    BY <2>1, <2>2, FS_Surjection
  <2>5. Items = UNION S
    BY DEF Items
  <2> HIDE DEF S
  <2>6. QED
    BY <2>3, <2>4, <2>5, FS_UNION
<1>4. QED
  BY <1>1, <1>2, <1>3

\* A frame is one of three kinds, and each kind can be sent.
LEMMA FrameKinds ==
  /\ \A f \in Frames :
       \/ Is(f, "SyncEnd") /\ f.context \in Rounds
       \/ Is(f, "SyncPage") /\ f.context \in Rounds /\ f.pageIndex \in PageIndexes
       \/ Is(f, "Item") /\ f.item \in Items
  /\ \A f \in Frames : RoundOf(f) \in Rounds
  /\ \A r \in Rounds : [action |-> "SyncEnd", context |-> r] \in Frames
  /\ \A r \in Rounds, p \in PageIndexes :
       [action |-> "SyncPage", context |-> r, pageIndex |-> p] \in Frames
  /\ \A i \in Items : [action |-> "Item", item |-> i] \in Frames
<1>1. \A f \in Frames :
        \/ Is(f, "SyncEnd") /\ f.context \in Rounds
        \/ Is(f, "SyncPage") /\ f.context \in Rounds /\ f.pageIndex \in PageIndexes
        \/ Is(f, "Item") /\ f.item \in Items
  BY DEF Frames, Is
<1>2. \A f \in Frames : RoundOf(f) \in Rounds
  BY <1>1, ItemOf DEF RoundOf, Is
<1>3. QED
  BY <1>1, <1>2 DEF Frames

-----------------------------------------------------------------------------
(* Trackers.                                                                 *)

\* A new tracker is one.
LEMMA NewTrackerType ==
  ASSUME NEW c \in 0..MaxRounds
  PROVE  /\ IsTracker(NewTracker(c)) /\ NewTracker(c).Context = c
         /\ NewTracker(c).AckWatermark = 0 /\ DOMAIN NewTracker(c).Pages = {}
<1>1. NoPages \in Pagings /\ DOMAIN NoPages = {}
  <2>1. NoPages \in [{} -> PageRecords]
    BY DEF NoPages
  <2>2. QED
    BY <2>1 DEF Pagings
<1>2. QED
  BY <1>1, Constants DEF IsTracker, NewTracker

\* What a tracker registers are pages.
LEMMA TrackerPages ==
  ASSUME NEW t, IsTracker(t)
  PROVE  /\ t.Context \in 0..MaxRounds /\ t.AckWatermark \in 0..LastPage
         /\ t.Pages \in [DOMAIN t.Pages -> PageRecords] /\ DOMAIN t.Pages \subseteq PageIndexes
         /\ t = [Context |-> t.Context, AckWatermark |-> t.AckWatermark, Pages |-> t.Pages]
         /\ \A p \in DOMAIN t.Pages : t.Pages[p] \in PageRecords
BY DEF IsTracker, Pagings

\* The watermark is the first page that cannot be acknowledged, at most the last.
LEMMA NextWatermarkIsFirst ==
  ASSUME NEW pages, NEW w \in 0..LastPage, ~Ackable(pages, LastPage)
  PROVE  /\ NextWatermark(pages, w) \in w..LastPage
         /\ ~Ackable(pages, NextWatermark(pages, w))
         /\ \A p \in w..(NextWatermark(pages, w) - 1) : Ackable(pages, p)
<1> DEFINE R == {ss \in Nat \X Nat : ss[1] < ss[2]}
           S == {n \in w..LastPage : ~Ackable(pages, n)}
<1>1. LastPage \in Nat /\ w \in Nat /\ Len(PageTotals) = LastPage + 1
  BY Constants
<1>2. S \subseteq Nat /\ S # {}
  BY <1>1
<1>3. IsWellFoundedOn(R, Nat)
  BY NatLessThanWellFounded DEF OpToRel
<1>4. PICK m \in S : \A y \in S : ~(<<y, m>> \in R)
  <2> HIDE DEF R, S
  <2>1. QED
    BY <1>2, <1>3, WFMin
<1>5. ASSUME NEW p \in w..(m - 1)
      PROVE  Ackable(pages, p)
  <2>1. p \in Nat /\ m \in Nat /\ p < m /\ p \in w..LastPage
    BY <1>1, <1>4
  <2>2. <<p, m>> \in R
    BY <2>1
  <2>3. p \notin S
    BY <1>4, <2>2
  <2>4. QED
    BY <2>1, <2>3
<1>6. m \in w..LastPage /\ ~Ackable(pages, m)
  BY <1>4
<1> DEFINE Q(n) == ~Ackable(pages, n) /\ \A p \in w..(n - 1) : Ackable(pages, p)
<1>7. m \in w..(Len(PageTotals) + 1) /\ Q(m)
  BY <1>1, <1>5, <1>6
<1>8. NextWatermark(pages, w) = CHOOSE n \in w..(Len(PageTotals) + 1) : Q(n)
  BY DEF NextWatermark
<1>9. NextWatermark(pages, w) \in w..(Len(PageTotals) + 1) /\ Q(NextWatermark(pages, w))
  <2> HIDE DEF Q
  <2>1. QED
    BY <1>7, <1>8
<1>10. NextWatermark(pages, w) <= m
  BY <1>1, <1>6, <1>9
<1>11. QED
  BY <1>1, <1>6, <1>9, <1>10

\* Advancing a tracker forgets a run of completed pages and nothing else.
LEMMA Advance ==
  ASSUME NEW t, IsTracker(t)
  PROVE  LET u == AdvanceSyncPageAck(t) IN
         /\ IsTracker(u) /\ u.Context = t.Context
         /\ u.AckWatermark \in t.AckWatermark..LastPage
         /\ \A p \in t.AckWatermark..(u.AckWatermark - 1) : Ackable(t.Pages, p)
         /\ DOMAIN u.Pages = DOMAIN t.Pages \ t.AckWatermark..(u.AckWatermark - 1)
         /\ \A p \in DOMAIN u.Pages : u.Pages[p] = t.Pages[p]
<1> DEFINE u == AdvanceSyncPageAck(t)
           n == NextWatermark(t.Pages, t.AckWatermark)
           D == DOMAIN t.Pages \ t.AckWatermark..(n - 1)
           pages == [p \in D |-> t.Pages[p]]
<1>1. /\ t.Context \in 0..MaxRounds /\ t.AckWatermark \in 0..LastPage
      /\ DOMAIN t.Pages \subseteq PageIndexes
      /\ t = [Context |-> t.Context, AckWatermark |-> t.AckWatermark, Pages |-> t.Pages]
      /\ \A p \in DOMAIN t.Pages : t.Pages[p] \in PageRecords
  BY TrackerPages
<1>2. ~Ackable(t.Pages, LastPage)
  BY DEF IsTracker, Ackable
<1>3. /\ n \in t.AckWatermark..LastPage
      /\ \A p \in t.AckWatermark..(n - 1) : Ackable(t.Pages, p)
  BY <1>1, <1>2, NextWatermarkIsFirst
<1>4. u = [t EXCEPT !.AckWatermark = n,
                    !.Pages = [p \in DOMAIN @ \ t.AckWatermark..(n - 1) |-> @[p]]]
  BY DEF AdvanceSyncPageAck
<1>5. u = [Context |-> t.Context, AckWatermark |-> n, Pages |-> pages]
  <2> HIDE DEF n
  <2>1. QED
    BY <1>1, <1>4
<1>6. pages \in Pagings
  <2>1. pages \in [D -> PageRecords]
    BY <1>1
  <2>2. D \in SUBSET PageIndexes
    BY <1>1
  <2> HIDE DEF pages, D
  <2>3. QED
    BY <2>1, <2>2 DEF Pagings
<1>7. IsTracker(u)
  <2>1. n \in 0..LastPage
    BY <1>1, <1>3, Constants
  <2>2. \A p \in DOMAIN pages : p \in DOMAIN t.Pages /\ pages[p] = t.Pages[p]
    OBVIOUS
  <2> HIDE DEF n, pages, u
  <2>3. QED
    BY <1>1, <1>5, <1>6, <2>1, <2>2 DEF IsTracker
<1>8. QED
  BY <1>1, <1>3, <1>5, <1>7

\* What TrackAndAck does to the acknowledgments.
LEMMA Acknowledged ==
  ASSUME NEW t, IsTracker(t), TrackAndAck(t)
  PROVE  /\ tracker' = AdvanceSyncPageAck(t)
         /\ \A a \in acks' : \/ a \in acks
                             \/ /\ a = [context |-> t.Context,
                                        pageIndex |-> tracker'.AckWatermark - 1]
                                /\ tracker'.AckWatermark > t.AckWatermark
         /\ acks \subseteq acks'
<1>1. t.AckWatermark \in Int /\ tracker'.AckWatermark \in Int
  BY Advance, TrackerPages, Constants DEF TrackAndAck
<1>2. QED
  BY <1>1 DEF TrackAndAck

\* The tracker in which one more item of page p is counted.
Counted(p) == [tracker EXCEPT !.Pages[p].CompletedCount = @ + 1]

\* completeSyncPage counts an item of a registered page that lacks one, or does
\* nothing.
LEMMA CompletesPage ==
  ASSUME IsTracker(tracker), NEW p, CompleteSyncPage(p)
  PROVE  \/ UNCHANGED <<tracker, acks>>
         \/ /\ tracker.Context # 0 /\ p \in DOMAIN tracker.Pages
            /\ IsTracker(Counted(p)) /\ TrackAndAck(Counted(p))
            /\ Counted(p).Context = tracker.Context
            /\ Counted(p).AckWatermark = tracker.AckWatermark
            /\ DOMAIN Counted(p).Pages = DOMAIN tracker.Pages
            /\ Counted(p).Pages[p].CompletedCount = tracker.Pages[p].CompletedCount + 1
            /\ \A q \in DOMAIN tracker.Pages :
                 q # p => Counted(p).Pages[q] = tracker.Pages[q]
<1> DEFINE ps == tracker.Pages
           page == [ps[p] EXCEPT !.CompletedCount = @ + 1]
           qs == [ps EXCEPT ![p] = page]
<1>1. SUFFICES ASSUME tracker.Context # 0, p \in DOMAIN ps,
                      ps[p].CompletedCount < ps[p].TotalCount, TrackAndAck(Counted(p))
               PROVE  /\ IsTracker(Counted(p))
                      /\ Counted(p).Context = tracker.Context
                      /\ Counted(p).AckWatermark = tracker.AckWatermark
                      /\ DOMAIN Counted(p).Pages = DOMAIN ps
                      /\ Counted(p).Pages[p].CompletedCount = ps[p].CompletedCount + 1
                      /\ \A q \in DOMAIN ps : q # p => Counted(p).Pages[q] = ps[q]
  BY DEF CompleteSyncPage, Counted
<1>2. /\ ps \in [DOMAIN ps -> PageRecords] /\ DOMAIN ps \subseteq PageIndexes
      /\ tracker = [Context |-> tracker.Context, AckWatermark |-> tracker.AckWatermark,
                    Pages |-> ps]
      /\ \A q \in DOMAIN ps : ps[q] \in PageRecords
  BY TrackerPages
<1>3. /\ page \in PageRecords /\ page.CompletedCount = ps[p].CompletedCount + 1
      /\ page.TotalCount = ps[p].TotalCount /\ page.IsLast = ps[p].IsLast
      /\ page.CompletedCount <= page.TotalCount
  <2>1. PICK r \in PageRecords : r = ps[p]
    BY <1>1, <1>2
  <2>2. r.CompletedCount \in Nat /\ r.TotalCount \in Nat /\ r.CompletedCount < r.TotalCount
    BY <1>1, <2>1 DEF PageRecords
  <2>3. [r EXCEPT !.CompletedCount = @ + 1]
          = [TotalCount |-> r.TotalCount, CompletedCount |-> r.CompletedCount + 1,
             IsLast |-> r.IsLast]
    BY DEF PageRecords
  <2>4. page = [TotalCount |-> r.TotalCount, CompletedCount |-> r.CompletedCount + 1,
                IsLast |-> r.IsLast]
    BY <2>1, <2>3
  <2> HIDE DEF page, ps
  <2>5. r.IsLast \in BOOLEAN
    BY DEF PageRecords
  <2>6. QED
    BY <2>1, <2>2, <2>4, <2>5 DEF PageRecords
<1>4. Counted(p) = [Context |-> tracker.Context, AckWatermark |-> tracker.AckWatermark,
                    Pages |-> qs]
  <2>1. Counted(p) = [tracker EXCEPT !.Pages = qs]
    BY DEF Counted
  <2> HIDE DEF qs
  <2>2. QED
    BY <1>2, <2>1
<1>5. /\ DOMAIN qs = DOMAIN ps /\ qs[p] = page
      /\ \A q \in DOMAIN ps : q # p => qs[q] = ps[q]
  <2> HIDE DEF page, ps
  <2>1. QED
    BY <1>1, <1>2
<1>6. qs \in Pagings
  <2>1. qs \in [DOMAIN ps -> PageRecords]
    <3> HIDE DEF page, ps
    <3>1. QED
      BY <1>2, <1>3
  <2> HIDE DEF qs
  <2>2. QED
    BY <1>2, <2>1 DEF Pagings
<1>7. IsTracker(Counted(p))
  <2>1. \A q \in DOMAIN ps : /\ ps[q].TotalCount = PageTotals[q + 1]
                             /\ ps[q].CompletedCount <= PageTotals[q + 1]
                             /\ ps[q].IsLast = (q = LastPage)
    BY DEF IsTracker
  <2>2. tracker.Context \in 0..MaxRounds /\ tracker.AckWatermark \in 0..LastPage
    BY TrackerPages
  <2> HIDE DEF qs, page, ps
  <2>3. \A q \in DOMAIN qs : /\ qs[q].TotalCount = PageTotals[q + 1]
                             /\ qs[q].CompletedCount <= PageTotals[q + 1]
                             /\ qs[q].IsLast = (q = LastPage)
    BY <1>1, <1>3, <1>5, <2>1
  <2>4. QED
    BY <1>4, <1>6, <2>2, <2>3 DEF IsTracker
<1>8. QED
  <2> HIDE DEF qs, page, ps
  <2>1. QED
    BY <1>3, <1>4, <1>5, <1>7

\* The tracker in which page p of round c is registered.
Registered(c, p) ==
  LET t == [tracker EXCEPT !.Context = c]
      page == [TotalCount |-> PageTotals[p + 1], CompletedCount |-> 0, IsLast |-> p = LastPage] IN
  IF p \in DOMAIN t.Pages THEN t
  ELSE [t EXCEPT !.Pages = [q \in DOMAIN @ \cup {p} |-> IF q = p THEN page ELSE @[q]]]

\* A page is registered without a completed item, unless it is known.
LEMMA RegistersPage ==
  ASSUME IsTracker(tracker), NEW c \in Rounds, NEW p \in PageIndexes
  PROVE  /\ IsTracker(Registered(c, p)) /\ Registered(c, p).Context = c
         /\ Registered(c, p).AckWatermark = tracker.AckWatermark
         /\ DOMAIN Registered(c, p).Pages = DOMAIN tracker.Pages \cup {p}
         /\ \A q \in DOMAIN tracker.Pages : Registered(c, p).Pages[q] = tracker.Pages[q]
         /\ p \notin DOMAIN tracker.Pages => Registered(c, p).Pages[p].CompletedCount = 0
<1> DEFINE ps == tracker.Pages
           page == [TotalCount |-> PageTotals[p + 1], CompletedCount |-> 0,
                    IsLast |-> p = LastPage]
           qs == IF p \in DOMAIN ps THEN ps
                 ELSE [q \in DOMAIN ps \cup {p} |-> IF q = p THEN page ELSE ps[q]]
<1>1. /\ ps \in [DOMAIN ps -> PageRecords] /\ DOMAIN ps \subseteq PageIndexes
      /\ tracker = [Context |-> tracker.Context, AckWatermark |-> tracker.AckWatermark,
                    Pages |-> ps]
      /\ \A q \in DOMAIN ps : ps[q] \in PageRecords
      /\ tracker.AckWatermark \in 0..LastPage
  BY TrackerPages
<1>2. [tracker EXCEPT !.Context = c]
        = [Context |-> c, AckWatermark |-> tracker.AckWatermark, Pages |-> ps]
  <2> HIDE DEF ps
  <2>1. QED
    BY <1>1
<1>3. Registered(c, p) = [Context |-> c, AckWatermark |-> tracker.AckWatermark, Pages |-> qs]
  <2>1. CASE p \in DOMAIN ps
    BY <1>2, <2>1 DEF Registered
  <2>2. CASE p \notin DOMAIN ps
    <3> DEFINE t == [Context |-> c, AckWatermark |-> tracker.AckWatermark, Pages |-> ps]
    <3>1. Registered(c, p) =
            [t EXCEPT !.Pages = [q \in DOMAIN @ \cup {p} |-> IF q = p THEN page ELSE @[q]]]
      BY <1>2, <2>2 DEF Registered
    <3>2. QED
      BY <2>2, <3>1
  <2>3. QED
    BY <2>1, <2>2
<1>4. page \in PageRecords /\ PageTotals[p + 1] \in Nat
  BY Constants DEF PageRecords
<1>5. /\ DOMAIN qs = DOMAIN ps \cup {p}
      /\ \A q \in DOMAIN ps : qs[q] = ps[q]
      /\ p \notin DOMAIN ps => qs[p] = page
  OBVIOUS
<1>6. qs \in Pagings
  <2>1. qs \in [DOMAIN ps \cup {p} -> PageRecords]
    BY <1>1, <1>4
  <2> HIDE DEF qs
  <2>2. QED
    BY <1>1, <2>1 DEF Pagings
<1>7. IsTracker(Registered(c, p))
  <2>1. \A q \in DOMAIN ps : /\ ps[q].TotalCount = PageTotals[q + 1]
                             /\ ps[q].CompletedCount <= PageTotals[q + 1]
                             /\ ps[q].IsLast = (q = LastPage)
    BY DEF IsTracker
  <2>2. c \in 0..MaxRounds
    BY Constants
  <2>3. /\ page.TotalCount = PageTotals[p + 1] /\ page.CompletedCount <= PageTotals[p + 1]
        /\ page.IsLast = (p = LastPage)
    BY <1>4
  <2> HIDE DEF qs, page, ps
  <2>4. \A q \in DOMAIN qs : /\ qs[q].TotalCount = PageTotals[q + 1]
                             /\ qs[q].CompletedCount <= PageTotals[q + 1]
                             /\ qs[q].IsLast = (q = LastPage)
    BY <1>5, <2>1, <2>3
  <2>5. QED
    BY <1>1, <1>3, <1>6, <2>2, <2>4 DEF IsTracker
<1>8. page.CompletedCount = 0
  OBVIOUS
<1>9. QED
  <2> HIDE DEF qs, page
  <2>1. QED
    BY <1>3, <1>5, <1>7, <1>8

-----------------------------------------------------------------------------
(* The wire.                                                                 *)

\* The dispatcher reads the first frame.
LEMMA ReadsHead ==
  ASSUME wire \in Seq(Frames), wire # <<>>, wire' = Tail(wire)
  PROVE  /\ wire' \in Seq(Frames)
         /\ Len(wire) \in Nat /\ Len(wire') \in Nat
         /\ 1 \in 1..Len(wire) /\ Head(wire) = wire[1] /\ wire[1] \in Frames
         /\ Len(wire') = Len(wire) - 1
         /\ \A k \in 1..Len(wire') : wire'[k] = wire[k + 1] /\ k + 1 \in 1..Len(wire)
<1>1. /\ Tail(wire) \in Seq(Frames) /\ Len(Tail(wire)) = Len(wire) - 1
      /\ \A k \in 1..Len(Tail(wire)) : Tail(wire)[k] = wire[k + 1]
  BY HeadTailProperties
<1>2. Len(wire) \in Nat /\ Len(wire) # 0
  BY LenProperties
<1>3. Head(wire) = wire[1] /\ wire[1] \in Frames
  BY <1>2, HeadTailProperties
<1>4. QED
  BY <1>1, <1>2, <1>3

\* The service sends the end of its scan after what it sent before.
LEMMA SendsEnd ==
  ASSUME wire \in Seq(Frames), round \in Rounds, ServiceEndsScan
  PROVE  /\ wire' \in Seq(Frames) /\ Len(wire) \in Nat /\ Len(wire') = Len(wire) + 1
         /\ \A k \in 1..Len(wire) : wire'[k] = wire[k] /\ wire[k] \in Frames
         /\ wire'[Len(wire) + 1] = [action |-> "SyncEnd", context |-> round]
<1> DEFINE f == [action |-> "SyncEnd", context |-> round]
<1>1. wire' = Append(wire, f)
  BY DEF ServiceEndsScan
<1>2. f \in Frames
  BY FrameKinds
<1> HIDE DEF f
<1>3. /\ wire' \in Seq(Frames) /\ Len(wire') = Len(wire) + 1
      /\ \A k \in 1..Len(wire) : wire'[k] = wire[k]
      /\ wire'[Len(wire) + 1] = f
  BY <1>1, <1>2, AppendProperties
<1>4. Len(wire) \in Nat /\ \A k \in 1..Len(wire) : wire[k] \in Frames
  BY LenProperties, ElementOfSeq
<1>5. QED
  BY <1>3, <1>4 DEF f

\* What the service sends with a page: the page, and then its items in order.
PageFrame == [action |-> "SyncPage", context |-> round, pageIndex |-> srv.sent]
ItemFrame(k) == [action |-> "Item",
                 item |-> [round |-> round, page |-> srv.sent, item |-> k]]

\* A page and its items are sent after what was sent before.
LEMMA SendsPage ==
  ASSUME wire \in Seq(Frames), round \in Rounds, ServiceSendsPage
  PROVE  /\ srv.sent \in PageIndexes /\ PageTotals[srv.sent + 1] \in Nat
         /\ wire' \in Seq(Frames) /\ Len(wire) \in Nat
         /\ Len(wire') = Len(wire) + 1 + PageTotals[srv.sent + 1]
         /\ \A k \in 1..Len(wire) : wire'[k] = wire[k] /\ wire[k] \in Frames
         /\ wire'[Len(wire) + 1] = PageFrame
         /\ \A k \in 1..PageTotals[srv.sent + 1] :
              /\ wire'[Len(wire) + 1 + k] = ItemFrame(k)
              /\ ItemFrame(k).item \in ItemsOf(round, srv.sent)
<1> DEFINE p == srv.sent
           n == PageTotals[p + 1]
           is == [k \in 1..n |-> ItemFrame(k)]
<1>1. p \in PageIndexes /\ n \in Nat
  BY Constants DEF ServiceSendsPage
<1>2. wire' = wire \o <<PageFrame>> \o is
  BY DEF ServiceSendsPage, PageFrame, ItemFrame
<1>3. \A k \in 1..n : /\ ItemFrame(k).item \in ItemsOf(round, p)
                      /\ ItemFrame(k) \in Frames
  <2>1. ASSUME NEW k \in 1..n
        PROVE  ItemFrame(k).item \in ItemsOf(round, p) /\ ItemFrame(k) \in Frames
    <3>1. ItemFrame(k).item \in ItemsOf(round, p)
      BY DEF ItemFrame, ItemsOf
    <3>2. ItemFrame(k).item \in Items
      BY <1>1, <3>1, ItemOf
    <3>3. ItemFrame(k) = [action |-> "Item", item |-> ItemFrame(k).item]
      BY DEF ItemFrame
    <3>4. QED
      BY <3>1, <3>2, <3>3, FrameKinds
  <2>2. QED
    BY <2>1
<1>4. PageFrame \in Frames
  BY <1>1, FrameKinds DEF PageFrame
<1>5. is \in Seq(Frames) /\ Len(is) = n /\ \A k \in 1..n : is[k] = ItemFrame(k)
  <2> HIDE DEF n
  <2>1. is \in [1..n -> Frames]
    BY <1>3
  <2>2. QED
    BY <1>1, <2>1
<1>6. <<PageFrame>> \in Seq(Frames) /\ Len(<<PageFrame>>) = 1 /\ <<PageFrame>>[1] = PageFrame
  BY <1>4
<1> DEFINE w == wire \o <<PageFrame>>
<1>7. /\ w \in Seq(Frames) /\ Len(wire) \in Nat /\ Len(w) = Len(wire) + 1
      /\ \A k \in 1..Len(wire) : w[k] = wire[k]
      /\ w[Len(wire) + 1] = PageFrame
  <2>1. /\ w \in Seq(Frames) /\ Len(w) = Len(wire) + Len(<<PageFrame>>)
        /\ \A k \in 1..(Len(wire) + Len(<<PageFrame>>)) :
             w[k] = IF k <= Len(wire) THEN wire[k] ELSE <<PageFrame>>[k - Len(wire)]
    BY <1>6, ConcatProperties
  <2>2. Len(wire) \in Nat
    BY LenProperties
  <2> HIDE DEF w
  <2>3. \A k \in 1..Len(wire) : w[k] = wire[k]
    BY <1>6, <2>1, <2>2
  <2>4. w[Len(wire) + 1] = <<PageFrame>>[(Len(wire) + 1) - Len(wire)]
    BY <1>6, <2>1, <2>2
  <2>5. (Len(wire) + 1) - Len(wire) = 1
    BY <2>2
  <2>6. QED
    BY <1>6, <2>1, <2>2, <2>3, <2>4, <2>5
<1>8. /\ wire' \in Seq(Frames) /\ Len(wire') = Len(w) + Len(is)
      /\ \A k \in 1..(Len(w) + Len(is)) :
           wire'[k] = IF k <= Len(w) THEN w[k] ELSE is[k - Len(w)]
  <2>1. wire' = w \o is
    BY <1>2
  <2> HIDE DEF w, is
  <2>2. QED
    BY <1>5, <1>7, <2>1, ConcatProperties
<1>9. \A k \in 1..Len(wire) : wire[k] \in Frames
  BY ElementOfSeq
<1> HIDE DEF w, is, n
<1>10. \A k \in 1..Len(wire) : wire'[k] = wire[k]
  BY <1>1, <1>5, <1>7, <1>8
<1>11. wire'[Len(wire) + 1] = PageFrame
  BY <1>1, <1>5, <1>7, <1>8
<1>12. ASSUME NEW k \in 1..n
       PROVE  wire'[Len(wire) + 1 + k] = ItemFrame(k)
  <2>1. /\ Len(wire) + 1 + k \in 1..(Len(w) + Len(is))
        /\ ~(Len(wire) + 1 + k <= Len(w)) /\ (Len(wire) + 1 + k) - Len(w) = k
    BY <1>1, <1>5, <1>7
  <2>2. QED
    BY <1>5, <1>8, <2>1
<1>13. QED
  BY <1>1, <1>3, <1>5, <1>7, <1>8, <1>9, <1>10, <1>11, <1>12 DEF n

-----------------------------------------------------------------------------
(* Types.                                                                    *)

Stages == {"unsent", "sent", "handling", "opened", "asked", "ending", "failed", "done", "lost"}

\* What the tracker does keeps the types of what it touches.
LEMMA TrackTypes ==
  ASSUME TypeOK, NEW t, IsTracker(t), TrackAndAck(t), t.Context # 0 \/ DOMAIN t.Pages = {}
  PROVE  IsTracker(tracker') /\ acks' \subseteq [context : Rounds, pageIndex : {-1} \cup PageIndexes]
<1>1. /\ IsTracker(tracker') /\ tracker'.AckWatermark \in t.AckWatermark..LastPage
      /\ \A p \in t.AckWatermark..(tracker'.AckWatermark - 1) : Ackable(t.Pages, p)
  BY Advance, Acknowledged
<1>2. t.AckWatermark \in 0..LastPage /\ t.Context \in 0..MaxRounds
  BY TrackerPages
<1>3. ASSUME NEW a \in acks'
      PROVE  a \in [context : Rounds, pageIndex : {-1} \cup PageIndexes]
  <2>1. CASE a \in acks
    BY <2>1 DEF TypeOK
  <2>2. CASE /\ a = [context |-> t.Context, pageIndex |-> tracker'.AckWatermark - 1]
             /\ tracker'.AckWatermark > t.AckWatermark
    <3>1. t.AckWatermark \in t.AckWatermark..(tracker'.AckWatermark - 1)
      BY <1>1, <1>2, <2>2, Constants
    <3>2. t.AckWatermark \in DOMAIN t.Pages
      BY <1>1, <3>1 DEF Ackable
    <3>3. t.Context \in Rounds
      BY <1>2, <3>2, Constants DEF Rounds
    <3>4. tracker'.AckWatermark - 1 \in PageIndexes
      BY <1>1, <1>2, <2>2, Constants
    <3>5. QED
      BY <2>2, <3>3, <3>4
  <2>3. QED
    BY <1>3, <2>1, <2>2, Acknowledged
<1>4. QED
  BY <1>1, <1>3

\* Completing an item of a page keeps them too.
LEMMA CompletingTypes ==
  ASSUME TypeOK, IsTracker(tracker), NEW p, CompleteSyncPage(p)
  PROVE  IsTracker(tracker') /\ acks' \subseteq [context : Rounds, pageIndex : {-1} \cup PageIndexes]
<1>1. CASE UNCHANGED <<tracker, acks>>
  BY <1>1 DEF TypeOK, IsTracker
<1>2. CASE /\ tracker.Context # 0 /\ IsTracker(Counted(p)) /\ TrackAndAck(Counted(p))
           /\ Counted(p).Context = tracker.Context
  BY <1>2, TrackTypes
<1>3. QED
  BY <1>1, <1>2, CompletesPage

\* The part of TypeOK about the tracker says less than IsTracker.
LEMMA TypesFromTracker ==
  ASSUME NEW t, IsTracker(t)
  PROVE  /\ t.Context \in 0..MaxRounds /\ t.AckWatermark \in 0..LastPage
         /\ DOMAIN t.Pages \subseteq PageIndexes
         /\ \A p \in DOMAIN t.Pages :
              t.Pages[p] \in [TotalCount : {PageTotals[p + 1]},
                              CompletedCount : 0..PageTotals[p + 1],
                              IsLast : {p = LastPage}]
<1>1. /\ t.Context \in 0..MaxRounds /\ t.AckWatermark \in 0..LastPage
      /\ DOMAIN t.Pages \subseteq PageIndexes
      /\ \A p \in DOMAIN t.Pages : t.Pages[p] \in PageRecords
  BY TrackerPages
<1>2. ASSUME NEW p \in DOMAIN t.Pages
      PROVE  t.Pages[p] \in [TotalCount : {PageTotals[p + 1]},
                             CompletedCount : 0..PageTotals[p + 1], IsLast : {p = LastPage}]
  <2>1. PICK r \in PageRecords : r = t.Pages[p]
    BY <1>1
  <2>2. /\ r.TotalCount = PageTotals[p + 1] /\ r.CompletedCount <= PageTotals[p + 1]
        /\ r.IsLast = (p = LastPage)
    BY <2>1 DEF IsTracker
  <2>3. r.TotalCount \in Nat /\ r.CompletedCount \in Nat
    BY DEF PageRecords
  <2>4. r.CompletedCount \in 0..PageTotals[p + 1]
    BY <2>2, <2>3
  <2>5. r \in [TotalCount : {PageTotals[p + 1]}, CompletedCount : 0..PageTotals[p + 1],
               IsLast : {p = LastPage}]
    BY <2>2, <2>4 DEF PageRecords
  <2>6. QED
    BY <2>1, <2>5
<1>3. QED
  BY <1>1, <1>2

\* The greater of two numbers.
LEMMA MaxOfTwo ==
  ASSUME NEW x \in Int, NEW y \in Int
  PROVE  Max({x, y}) \in {x, y} /\ Max({x, y}) >= x /\ Max({x, y}) >= y
<1> DEFINE Q(m) == \A n \in {x, y} : m >= n
<1>1. \E m \in {x, y} : Q(m)
  OBVIOUS
<1>2. Max({x, y}) = CHOOSE m \in {x, y} : Q(m)
  BY DEF Max
<1>3. Max({x, y}) \in {x, y} /\ Q(Max({x, y}))
  <2> HIDE DEF Q
  <2>1. QED
    BY <1>1, <1>2
<1>4. QED
  BY <1>3

\* Everything but the tracker and the wire.
PlainTypes ==
  /\ round \in Rounds
  /\ fileSyncEnd \in BOOLEAN /\ need \in Nat /\ Completed \in Nat
  /\ acks \subseteq [context : Rounds, pageIndex : {-1} \cup PageIndexes]
  /\ work \in [Items -> Stages]
  /\ index \in [Items -> {NoIndex} \cup PageIndexes]
  /\ sessions \subseteq Items /\ tagged \in BOOLEAN /\ clean \in BOOLEAN
  /\ srv \in [ended : BOOLEAN, paging : BOOLEAN, sent : 0..Len(PageTotals),
              acked : {-1} \cup PageIndexes]

\* That is all there is to Types.
LEMMA PlainAndTracker ==
  /\ Types => PlainTypes /\ IsTracker(tracker) /\ wire \in Seq(Frames)
  /\ PlainTypes /\ IsTracker(tracker) /\ wire \in Seq(Frames) => Types
<1>1. Types => PlainTypes /\ IsTracker(tracker) /\ wire \in Seq(Frames)
  BY DEF Types, TypeOK, PlainTypes, Stages
<1>2. PlainTypes /\ IsTracker(tracker) => TypeOK
  <2> SUFFICES ASSUME PlainTypes, IsTracker(tracker)
               PROVE  TypeOK
    OBVIOUS
  <2>1. /\ tracker.Context \in 0..MaxRounds /\ tracker.AckWatermark \in 0..LastPage
        /\ DOMAIN tracker.Pages \subseteq PageIndexes
        /\ \A p \in DOMAIN tracker.Pages :
             tracker.Pages[p] \in [TotalCount : {PageTotals[p + 1]},
                                   CompletedCount : 0..PageTotals[p + 1],
                                   IsLast : {p = LastPage}]
    BY TypesFromTracker
  <2>2. QED
    BY <2>1 DEF PlainTypes, TypeOK, Stages
<1>3. QED
  BY <1>1, <1>2 DEF Types

\* So it is after a step.
LEMMA TypesNext ==
  PlainTypes' /\ IsTracker(tracker)' /\ (wire \in Seq(Frames))' => Types'
BY PlainAndTracker, PTL

\* The steps of rounds and of the service keep the types.
LEMMA ServiceTypes ==
  ASSUME Types, HandleSync \/ CleanupActiveFileTransfers \/ Service
  PROVE  Types'
<1> USE DEF PlainTypes
<1>1. PlainTypes /\ IsTracker(tracker) /\ wire \in Seq(Frames)
  BY PlainAndTracker
<1>2. SUFFICES PlainTypes' /\ IsTracker(tracker') /\ wire' \in Seq(Frames)
  BY TypesNext
<1>3. CASE HandleSync
  <2>1. tracker' = NewTracker(0) /\ 0 \in 0..MaxRounds
    BY <1>3, Constants DEF HandleSync
  <2>2. IsTracker(tracker')
    BY <2>1, NewTrackerType
  <2>3. round' \in Rounds
    BY <1>1, <1>3, Constants DEF HandleSync, Rounds
  <2>4. srv' \in [ended : BOOLEAN, paging : BOOLEAN, sent : 0..Len(PageTotals),
                  acked : {-1} \cup PageIndexes]
    BY <1>3, Constants DEF HandleSync, Requested
  <2>5. /\ wire' \in Seq(Frames)
        /\ acks' \subseteq [context : Rounds, pageIndex : {-1} \cup PageIndexes]
        /\ work' \in [Items -> Stages]
    <3>1. \/ UNCHANGED <<wire, acks, work>>
          \/ /\ wire' = <<>> /\ acks' = {}
             /\ work' = [i \in Items |-> IF work[i] = "sent" THEN "unsent" ELSE work[i]]
      BY <1>3 DEF HandleSync
    <3>2. \A i \in Items : work[i] \in Stages /\ "unsent" \in Stages
      BY <1>1 DEF Stages
    <3>3. <<>> \in Seq(Frames)
      OBVIOUS
    <3>4. CASE UNCHANGED <<wire, acks, work>>
      BY <1>1, <3>4
    <3>5. CASE /\ wire' = <<>> /\ acks' = {}
               /\ work' = [i \in Items |-> IF work[i] = "sent" THEN "unsent" ELSE work[i]]
      BY <3>2, <3>3, <3>5
    <3>6. QED
      BY <3>1, <3>4, <3>5
  <2>6. QED
    BY <1>1, <1>3, <2>2, <2>3, <2>4, <2>5 DEF HandleSync
<1>4. CASE CleanupActiveFileTransfers
  BY <1>1, <1>4 DEF CleanupActiveFileTransfers, IsTracker, taskVars, history
<1>5. CASE ServiceEndsScan
  <2>1. wire' \in Seq(Frames)
    BY <1>1, <1>5, SendsEnd
  <2>2. srv' \in [ended : BOOLEAN, paging : BOOLEAN, sent : 0..Len(PageTotals),
                  acked : {-1} \cup PageIndexes]
    BY <1>1, <1>5 DEF ServiceEndsScan
  <2>3. QED
    BY <1>1, <1>5, <2>1, <2>2 DEF ServiceEndsScan, IsTracker, taskVars, history
<1>6. CASE ServiceSendsPage
  <2>1. wire' \in Seq(Frames) /\ srv.sent \in PageIndexes
    BY <1>1, <1>6, SendsPage
  <2>2. srv' \in [ended : BOOLEAN, paging : BOOLEAN, sent : 0..Len(PageTotals),
                  acked : {-1} \cup PageIndexes]
    <3>1. srv.sent + 1 \in 0..Len(PageTotals)
      BY <2>1, Constants
    <3>2. QED
      BY <1>1, <1>6, <3>1 DEF ServiceSendsPage
  <2>3. work' \in [Items -> Stages]
    BY <1>1, <1>6 DEF ServiceSendsPage, Stages
  <2>4. QED
    BY <1>1, <1>6, <2>1, <2>2, <2>3 DEF ServiceSendsPage, IsTracker, taskVars, history
<1>7. ASSUME NEW a \in acks, ServiceReceivesAck(a)
      PROVE  PlainTypes' /\ IsTracker(tracker') /\ wire' \in Seq(Frames)
  <2>1. srv' \in [ended : BOOLEAN, paging : BOOLEAN, sent : 0..Len(PageTotals),
                  acked : {-1} \cup PageIndexes]
    <3>1. a.pageIndex \in {-1} \cup PageIndexes /\ srv.acked \in {-1} \cup PageIndexes
      BY <1>1
    <3>2. Max({srv.acked, a.pageIndex}) \in {-1} \cup PageIndexes
      <4>1. srv.acked \in Int /\ a.pageIndex \in Int
        BY <3>1, Constants
      <4>2. Max({srv.acked, a.pageIndex}) \in {srv.acked, a.pageIndex}
        BY <4>1, MaxOfTwo
      <4>3. QED
        BY <3>1, <4>2
    <3>3. QED
      BY <1>1, <1>7, <3>2 DEF ServiceReceivesAck
  <2>2. acks' \subseteq acks
    BY <1>7 DEF ServiceReceivesAck
  <2>3. QED
    BY <1>1, <1>7, <2>1, <2>2 DEF ServiceReceivesAck, IsTracker, taskVars, history
<1>8. QED
  BY <1>3, <1>4, <1>5, <1>6, <1>7 DEF Service

\* The dispatcher keeps the types.
LEMMA DispatchTypes ==
  ASSUME Types, Dispatch
  PROVE  Types'
<1> USE DEF PlainTypes
<1>1. TypeOK /\ PlainTypes /\ IsTracker(tracker) /\ wire \in Seq(Frames)
  BY PlainAndTracker DEF Types
<1>2. SUFFICES PlainTypes' /\ IsTracker(tracker') /\ wire' \in Seq(Frames)
  BY TypesNext
<1>3. wire # <<>> /\ wire' = Tail(wire)
  BY DEF Dispatch, HandleSyncEnd, HandleSyncPage, DispatchItem, Read
<1>4. wire' \in Seq(Frames) /\ Head(wire) \in Frames
  BY <1>1, <1>3, ReadsHead
<1> DEFINE f == Head(wire)
<1>5. CASE HandleSyncEnd
  <2>1. f.context \in Rounds
    BY <1>4, <1>5, FrameKinds DEF HandleSyncEnd, Is
  <2>2. Cardinality(ItemsOfRound(f.context)) \in Nat
    BY <2>1, Finite, FS_CardinalityType
  <2>3. IsTracker(NewTracker(f.context)) /\ IsTracker(tracker')
    <3>1. IsTracker(NewTracker(f.context))
      BY <2>1, NewTrackerType, Constants
    <3>2. tracker' = NewTracker(f.context) \/ tracker' = tracker
      BY <1>5 DEF HandleSyncEnd
    <3>3. QED
      BY <1>1, <3>1, <3>2
  <2>4. acks' \subseteq [context : Rounds, pageIndex : {-1} \cup PageIndexes]
    BY <1>1, <1>5, <2>1 DEF HandleSyncEnd
  <2>5. need' \in Nat /\ fileSyncEnd' \in BOOLEAN
    BY <1>5, <2>2 DEF HandleSyncEnd
  <2>6. QED
    BY <1>1, <1>4, <1>5, <2>3, <2>4, <2>5 DEF HandleSyncEnd, history
<1>6. CASE HandleSyncPage
  <2>1. f.context \in Rounds /\ f.pageIndex \in PageIndexes
    BY <1>4, <1>6, FrameKinds DEF HandleSyncPage, Is
  <2>2. TrackAndAck(Registered(f.context, f.pageIndex))
    BY <1>6 DEF HandleSyncPage, Registered
  <2>3. /\ IsTracker(Registered(f.context, f.pageIndex))
        /\ Registered(f.context, f.pageIndex).Context = f.context
    BY <1>1, <2>1, RegistersPage
  <2>4. /\ IsTracker(tracker')
        /\ acks' \subseteq [context : Rounds, pageIndex : {-1} \cup PageIndexes]
    BY <1>1, <2>1, <2>2, <2>3, Constants, TrackTypes
  <2>5. QED
    BY <1>1, <1>4, <1>6, <2>4 DEF HandleSyncPage, taskVars, history
<1>7. CASE DispatchItem
  <2>1. f.item \in Items
    BY <1>4, <1>7, FrameKinds DEF DispatchItem, Is
  <2>2. ResolveSyncPageIndex(f.item) \in {NoIndex} \cup PageIndexes
    BY <1>1, <2>1, ItemOf, TrackerPages DEF ResolveSyncPageIndex
  <2>3. /\ work' \in [Items -> Stages]
        /\ index' \in [Items -> {NoIndex} \cup PageIndexes]
    BY <1>1, <1>7, <2>2 DEF DispatchItem, Stages
  <2>4. QED
    BY <1>1, <1>4, <1>7, <2>3 DEF DispatchItem, IsTracker, taskVars, history
<1>8. QED
  BY <1>5, <1>6, <1>7 DEF Dispatch

\* The goroutines of the items keep the types.
LEMMA HandlerTypes ==
  ASSUME Types, NEW i \in Items, Handler(i) \/ CloseSession(i)
  PROVE  Types'
<1> USE DEF PlainTypes
<1>1. TypeOK /\ PlainTypes /\ IsTracker(tracker) /\ wire \in Seq(Frames)
  BY PlainAndTracker DEF Types
<1>2. SUFFICES PlainTypes' /\ IsTracker(tracker') /\ wire' \in Seq(Frames)
  BY TypesNext
<1>3. work' \in [Items -> Stages]
  BY <1>1 DEF Handler, IncrementCompletedPage, RefuseDownload, OpenSession, RequestChunks,
              RequestFails, CompletePageOfDownload, CloseSession, Step, Stages
<1>4. UNCHANGED <<round, wire, index, srv, history, fileSyncEnd, need>>
  BY DEF Handler, IncrementCompletedPage, RefuseDownload, OpenSession, RequestChunks,
         RequestFails, CompletePageOfDownload, CloseSession, IncrementCompleted, taskVars
<1>5. Completed' \in Nat /\ sessions' \subseteq Items
  BY <1>1 DEF Handler, IncrementCompletedPage, RefuseDownload, OpenSession, RequestChunks,
              RequestFails, CompletePageOfDownload, CloseSession, IncrementCompleted,
              taskVars
<1>6. UNCHANGED <<tracker, acks>> \/ CompleteSyncPage(index[i])
  BY DEF Handler, IncrementCompletedPage, RefuseDownload, OpenSession, RequestChunks,
         RequestFails, CompletePageOfDownload, CloseSession
<1>7. /\ IsTracker(tracker')
      /\ acks' \subseteq [context : Rounds, pageIndex : {-1} \cup PageIndexes]
  <2>1. CASE UNCHANGED <<tracker, acks>>
    BY <1>1, <2>1
  <2>2. CASE CompleteSyncPage(index[i])
    <3>1. PICK p : p = index[i]
      OBVIOUS
    <3>2. CompleteSyncPage(p)
      BY <2>2, <3>1
    <3>3. QED
      BY <1>1, <3>2, CompletingTypes
  <2>3. QED
    BY <1>6, <2>1, <2>2
<1>8. QED
  BY <1>1, <1>3, <1>4, <1>5, <1>7 DEF history

\* Every step keeps the types.
LEMMA StepTypes ==
  ASSUME Types, [Next]_vars
  PROVE  Types'
<1>1. CASE UNCHANGED vars
  BY <1>1 DEF Types, TypeOK, IsTracker, vars, taskVars, history
<1>2. QED
  BY <1>1, ServiceTypes, DispatchTypes, HandlerTypes DEF Next

\* The system starts within the types.
LEMMA InitTypes == Init => Types
<1> SUFFICES ASSUME Init
             PROVE  Types
  OBVIOUS
<1>1. IsTracker(tracker)
  BY NewTrackerType, Constants DEF Init
<1>2. PlainTypes
  <2>1. round \in Rounds
    BY SyncPagingAssumption DEF Init, Rounds
  <2>2. srv \in [ended : BOOLEAN, paging : BOOLEAN, sent : 0..Len(PageTotals),
                 acked : {-1} \cup PageIndexes]
    BY Constants DEF Init, Requested
  <2>3. work \in [Items -> Stages] /\ index \in [Items -> {NoIndex} \cup PageIndexes]
    BY DEF Init, Stages
  <2>4. QED
    BY <2>1, <2>2, <2>3 DEF Init, PlainTypes
<1>3. wire \in Seq(Frames)
  BY DEF Init
<1>4. QED
  BY <1>1, <1>2, <1>3, PlainAndTracker

-----------------------------------------------------------------------------
(* Frames arrive in the order of their rounds, the end of the scan first.    *)

Places == 1..Len(wire)

\* f is of no round before c; the end of a scan is of a later one.
After(c, f) == c <= RoundOf(f) /\ (Is(f, "SyncEnd") => c < RoundOf(f))

Precedes(f, g) ==
  /\ After(RoundOf(f), g)
  /\ Is(f, "SyncPage") /\ Is(g, "SyncPage") /\ RoundOf(f) = RoundOf(g)
       => f.pageIndex < g.pageIndex
  /\ Is(f, "Item") /\ Is(g, "Item") => f.item # g.item

InOrder == \A k, l \in Places : k < l => Precedes(wire[k], wire[l])

\* Nothing on the wire is older than the tracker or younger than the round.
Ahead == /\ tracker.Context <= round
         /\ \A l \in Places : RoundOf(wire[l]) <= round /\ After(tracker.Context, wire[l])

\* The end of the scan of its round is before a frame, or has been read: then the
\* tracker is of that round, unless another round began since.
Begun == \A l \in Places : ~Is(wire[l], "SyncEnd") =>
  \/ \E k \in 1..(l - 1) : Is(wire[k], "SyncEnd") /\ RoundOf(wire[k]) = RoundOf(wire[l])
  \/ tracker.Context \in {0, RoundOf(wire[l])} /\ RoundOf(wire[1]) = RoundOf(wire[l])

\* What is acknowledged of the round is acknowledged by its tracker.
AcksOfRound ==
  /\ srv.paging \/ srv.acked >= 0 \/ (\E a \in acks : a.context = round)
       => tracker.Context = round
  /\ \A a \in acks : a.context <= round

\* Before the scan ends nothing of the round is sent.
NotEnded == ~srv.ended => tracker.Context < round /\ \A l \in Places : RoundOf(wire[l]) < round

PagesSent == \A l \in Places :
  Is(wire[l], "SyncPage") /\ RoundOf(wire[l]) = round => wire[l].pageIndex < srv.sent

Order == InOrder /\ Ahead /\ Begun /\ AcksOfRound /\ NotEnded /\ PagesSent

\* Numbers that are compared.
LEMMA Numbers ==
  ASSUME Types
  PROVE  /\ round \in Nat \ {0} /\ tracker.Context \in Nat /\ tracker.AckWatermark \in Nat
         /\ srv.sent \in Nat /\ srv.acked \in Int /\ Len(wire) \in Nat
         /\ \A l \in Places : wire[l] \in Frames /\ RoundOf(wire[l]) \in Nat \ {0}
         /\ \A a \in acks : a.context \in Nat \ {0} /\ a.pageIndex \in Int
<1>1. wire \in Seq(Frames) /\ PlainTypes /\ IsTracker(tracker)
  BY PlainAndTracker
<1>2. \A l \in Places : wire[l] \in Frames
  BY <1>1, ElementOfSeq DEF Places
<1>3. \A l \in Places : RoundOf(wire[l]) \in Nat \ {0}
  BY <1>2, FrameKinds, Constants
<1>4. tracker.Context \in Nat /\ tracker.AckWatermark \in Nat /\ Len(wire) \in Nat
  BY <1>1, TrackerPages, LenProperties
<1>5. round \in Nat \ {0} /\ srv.sent \in Nat /\ srv.acked \in Int
  <2>1. round \in Rounds /\ srv.sent \in 0..Len(PageTotals) /\ srv.acked \in {-1} \cup PageIndexes
    BY <1>1 DEF PlainTypes
  <2>2. QED
    BY <2>1, Constants
<1>6. \A a \in acks : a.context \in Nat \ {0} /\ a.pageIndex \in Int
  <2>1. \A a \in acks : a.context \in Rounds /\ a.pageIndex \in {-1} \cup PageIndexes
    BY <1>1 DEF PlainTypes
  <2>2. Rounds \subseteq Nat \ {0} /\ {-1} \cup PageIndexes \subseteq Int
    BY Constants
  <2>3. QED
    BY <2>1, <2>2
<1>7. QED
  BY <1>2, <1>3, <1>4, <1>5, <1>6

\* Reading the first frame keeps the order, if the tracker becomes that of the end
\* of a scan and no frame changes it to another round than its own.
LEMMA ReadKeepsOrder ==
  ASSUME Types, Order, wire # <<>>, wire' = Tail(wire), UNCHANGED <<round, srv>>,
         tracker'.Context \in {tracker.Context, RoundOf(wire[1])},
         Is(wire[1], "SyncEnd") => tracker'.Context = RoundOf(wire[1])
  PROVE  InOrder' /\ Ahead' /\ Begun' /\ NotEnded' /\ PagesSent'
<1> USE DEF Order
<1> DEFINE n == Len(wire)
           h == RoundOf(wire[1])
<1>1. /\ n \in Nat /\ Len(wire') = n - 1 /\ 1 \in Places
      /\ \A k \in Places' : wire'[k] = wire[k + 1] /\ k + 1 \in Places /\ k \in Nat \ {0}
  <2>1. wire \in Seq(Frames)
    BY DEF Types
  <2>2. QED
    BY <2>1, ReadsHead DEF Places
<1>2. /\ round \in Nat /\ h \in Nat /\ tracker.Context \in Nat
      /\ \A l \in Places : RoundOf(wire[l]) \in Nat
  BY <1>1, Numbers
<1>3. \A k \in Places' : Precedes(wire[1], wire[k + 1])
  BY <1>1, <1>2 DEF InOrder, Places
<1>4. InOrder'
  <2>1. ASSUME NEW k \in Places', NEW l \in Places', k < l
        PROVE  Precedes(wire'[k], wire'[l])
    <3>1. k + 1 < l + 1 /\ k + 1 \in Places /\ l + 1 \in Places
      BY <1>1, <2>1
    <3>2. QED
      BY <1>1, <3>1 DEF InOrder
  <2>2. QED
    BY <2>1 DEF InOrder
<1>5. Ahead'
  <2>1. tracker'.Context <= round
    BY <1>1 DEF Ahead
  <2>2. ASSUME NEW l \in Places'
        PROVE  RoundOf(wire'[l]) <= round /\ After(tracker'.Context, wire'[l])
    <3>1. After(tracker.Context, wire[l + 1]) /\ After(h, wire[l + 1])
      BY <1>1, <1>3 DEF Ahead, Precedes
    <3>2. QED
      BY <1>1, <3>1 DEF Ahead
  <2>3. QED
    BY <2>1, <2>2 DEF Ahead
<1>6. Begun'
  <2>1. ASSUME NEW l \in Places', ~Is(wire'[l], "SyncEnd"), RoundOf(wire[l + 1]) = h
        PROVE  RoundOf(wire'[1]) = RoundOf(wire'[l])
    <3>1. 1 \in Places' /\ wire'[1] = wire[2] /\ wire'[l] = wire[l + 1] /\ l \in Nat \ {0}
          /\ 2 \in Places /\ l + 1 \in Places
      BY <1>1 DEF Places
    <3>2. h <= RoundOf(wire[2])
      BY <1>3, <3>1 DEF Precedes, After
    <3>3. l = 1 \/ RoundOf(wire[2]) <= RoundOf(wire[l + 1])
      BY <3>1 DEF InOrder, Precedes, After
    <3>4. PICK x \in Nat : x = RoundOf(wire[2])
      BY <1>2, <3>1
    <3>5. PICK y \in Nat : y = RoundOf(wire[l + 1])
      BY <1>2, <3>1
    <3>6. l = 1 \/ x = y
      <4>1. y <= x /\ (l = 1 \/ x <= y)
        BY <2>1, <3>2, <3>3, <3>4, <3>5
      <4>2. QED
        BY <4>1
    <3>7. CASE l = 1
      BY <3>7
    <3>8. CASE x = y
      BY <3>1, <3>4, <3>5, <3>8
    <3>9. QED
      BY <3>6, <3>7, <3>8
  <2>2. ASSUME NEW l \in Places', ~Is(wire'[l], "SyncEnd")
        PROVE  \/ \E k \in 1..(l - 1) :
                    Is(wire'[k], "SyncEnd") /\ RoundOf(wire'[k]) = RoundOf(wire'[l])
               \/ /\ tracker'.Context \in {0, RoundOf(wire'[l])}
                  /\ RoundOf(wire'[1]) = RoundOf(wire'[l])
    <3>1. wire'[l] = wire[l + 1] /\ l + 1 \in Places /\ l \in Nat \ {0} /\ l <= n - 1
      BY <1>1 DEF Places
    <3>2. CASE /\ tracker.Context \in {0, RoundOf(wire[l + 1])}
               /\ RoundOf(wire[1]) = RoundOf(wire[l + 1])
      BY <2>1, <2>2, <3>1, <3>2
    <3>3. ASSUME NEW k \in 1..l, Is(wire[k], "SyncEnd"),
                 RoundOf(wire[k]) = RoundOf(wire[l + 1])
          PROVE  \/ \E j \in 1..(l - 1) :
                      Is(wire'[j], "SyncEnd") /\ RoundOf(wire'[j]) = RoundOf(wire'[l])
                 \/ /\ tracker'.Context \in {0, RoundOf(wire'[l])}
                    /\ RoundOf(wire'[1]) = RoundOf(wire'[l])
      <4>1. CASE k = 1
        BY <2>1, <2>2, <3>1, <3>3, <4>1
      <4>2. CASE k # 1
        <5>1. k - 1 \in 1..(l - 1) /\ k - 1 \in Places' /\ (k - 1) + 1 = k
          BY <1>1, <3>1, <4>2 DEF Places
        <5>2. wire'[k - 1] = wire[k]
          BY <1>1, <5>1
        <5>3. QED
          BY <3>1, <3>3, <5>1, <5>2
      <4>3. QED
        BY <4>1, <4>2
    <3>4. (l + 1) - 1 = l
      BY <3>1
    <3>5. QED
      BY <2>2, <3>1, <3>2, <3>3, <3>4 DEF Begun
  <2>3. QED
    BY <2>2 DEF Begun
<1>7. NotEnded'
  BY <1>1 DEF NotEnded
<1>8. PagesSent'
  BY <1>1 DEF PagesSent
<1>9. QED
  BY <1>4, <1>5, <1>6, <1>7, <1>8

\* If there are any items at all, each round has some.
LEMMA RoundsHaveItems ==
  ASSUME Items # {}, NEW c \in Rounds
  PROVE  ItemsOfRound(c) # {}
<1>1. PICK i \in Items : TRUE
  OBVIOUS
<1>2. i.page \in PageIndexes /\ i \in ItemsOf(i.round, i.page)
  BY ItemOf
<1>3. PICK k \in 1..PageTotals[i.page + 1] : TRUE
  BY <1>2 DEF ItemsOf
<1>4. [round |-> c, page |-> i.page, item |-> k] \in ItemsOf(c, i.page)
  BY <1>3 DEF ItemsOf
<1>5. QED
  BY <1>2, <1>4 DEF ItemsOfRound

\* A frame that is not the end of a scan is of the round of the tracker, if that
\* is of any.
LEMMA HeadOfTracker ==
  ASSUME Types, Begun, wire # <<>>, ~Is(wire[1], "SyncEnd")
  PROVE  tracker.Context \in {0, RoundOf(wire[1])}
<1>1. wire \in Seq(Frames) /\ Len(wire) \in Nat
  BY Numbers DEF Types
<1>2. 1 \in Places
  <2>1. Len(wire) # 0
    BY <1>1
  <2>2. QED
    BY <1>1, <2>1 DEF Places
<1>3. QED
  BY <1>2 DEF Begun

\* The dispatcher keeps the order.
LEMMA DispatchOrder ==
  ASSUME Types, Order, Items # {}, Dispatch
  PROVE  Order'
<1> USE DEF Order
<1> DEFINE h == RoundOf(wire[1])
<1>1. wire # <<>> /\ wire' = Tail(wire) /\ UNCHANGED <<round, srv>>
  BY DEF Dispatch, HandleSyncEnd, HandleSyncPage, DispatchItem, Read
<1>2. /\ wire \in Seq(Frames) /\ IsTracker(tracker) /\ PlainTypes
      /\ 1 \in Places /\ Head(wire) = wire[1] /\ wire[1] \in Frames
  BY <1>1, PlainAndTracker, ReadsHead DEF Places
<1>3. /\ round \in Nat \ {0} /\ h \in Nat \ {0} /\ tracker.Context \in Nat
      /\ h <= round /\ After(tracker.Context, wire[1])
  BY <1>2, Numbers DEF Ahead
<1>4. CASE HandleSyncEnd
  <2>1. Is(wire[1], "SyncEnd") /\ h = Head(wire).context /\ h \in Rounds
    BY <1>2, <1>4, FrameKinds DEF HandleSyncEnd, Is, RoundOf
  <2>2. Cardinality(ItemsOfRound(h)) # 0
    <3>1. ItemsOfRound(h) # {}
      BY <2>1, RoundsHaveItems
    <3>2. QED
      BY <2>1, <3>1, Finite, FS_EmptySet
  <2>3. /\ tracker' = NewTracker(h)
        /\ acks' = acks \cup {[context |-> h, pageIndex |-> -1]}
    BY <1>4, <2>1, <2>2 DEF HandleSyncEnd
  <2>4. tracker'.Context = h
    BY <2>3 DEF NewTracker
  <2>5. InOrder' /\ Ahead' /\ Begun' /\ NotEnded' /\ PagesSent'
    BY <1>1, <2>1, <2>4, ReadKeepsOrder
  <2>6. AcksOfRound'
    <3>1. tracker.Context # round
      BY <1>3, <2>1 DEF After
    <3>2. \A a \in acks' : a \in acks \/ a.context = h
      BY <2>3
    <3>3. QED
      BY <1>1, <1>3, <2>4, <3>1, <3>2 DEF AcksOfRound
  <2>7. QED
    BY <2>5, <2>6
<1>5. CASE HandleSyncPage
  <2>1. /\ Is(wire[1], "SyncPage") /\ ~Is(wire[1], "SyncEnd") /\ h = Head(wire).context
        /\ h \in Rounds /\ Head(wire).pageIndex \in PageIndexes
    BY <1>2, <1>5, FrameKinds DEF HandleSyncPage, Is, RoundOf
  <2> DEFINE t == Registered(h, Head(wire).pageIndex)
  <2>2. TrackAndAck(t)
    BY <1>5, <2>1 DEF HandleSyncPage, Registered
  <2>3. IsTracker(t) /\ t.Context = h
    BY <1>2, <2>1, RegistersPage
  <2> HIDE DEF t
  <2>4. /\ tracker'.Context = h
        /\ \A a \in acks' : a \in acks \/ a.context = h
    <3>1. tracker'.Context = h
      BY <2>2, <2>3, Acknowledged, Advance
    <3>2. \A a \in acks' : a \in acks \/ a = [context |-> t.Context,
                                             pageIndex |-> tracker'.AckWatermark - 1]
      BY <2>2, <2>3, Acknowledged
    <3>3. QED
      BY <2>3, <3>1, <3>2
  <2>5. InOrder' /\ Ahead' /\ Begun' /\ NotEnded' /\ PagesSent'
    BY <1>1, <2>1, <2>4, ReadKeepsOrder
  <2>6. AcksOfRound'
    <3>1. tracker.Context \in {0, h}
      BY <1>1, <2>1, HeadOfTracker
    <3>2. QED
      BY <1>1, <1>3, <2>4, <3>1 DEF AcksOfRound
  <2>7. QED
    BY <2>5, <2>6
<1>6. CASE DispatchItem
  <2>1. Is(wire[1], "Item") /\ ~Is(wire[1], "SyncEnd") /\ UNCHANGED <<tracker, acks>>
    BY <1>2, <1>6 DEF DispatchItem, Is
  <2>2. InOrder' /\ Ahead' /\ Begun' /\ NotEnded' /\ PagesSent'
    BY <1>1, <2>1, ReadKeepsOrder
  <2>3. AcksOfRound'
    BY <1>1, <2>1 DEF AcksOfRound
  <2>4. QED
    BY <2>2, <2>3
<1>7. QED
  BY <1>4, <1>5, <1>6 DEF Dispatch

\* A new round keeps the order: the frames of earlier ones stay, or are all lost.
LEMMA RoundOrder ==
  ASSUME Types, Order, HandleSync
  PROVE  Order'
<1> USE DEF Order
<1>1. /\ round' = round + 1 /\ tracker'.Context = 0
      /\ srv'.ended = FALSE /\ srv'.paging = FALSE /\ srv'.acked = -1 /\ srv'.sent = 0
  BY DEF HandleSync, NewTracker, Requested
<1>2. /\ round \in Nat \ {0} /\ tracker.Context \in Nat
      /\ \A l \in Places : RoundOf(wire[l]) \in Nat \ {0} /\ RoundOf(wire[l]) <= round
      /\ \A a \in acks : a.context \in Nat \ {0} /\ a.context <= round
  BY Numbers DEF Ahead, AcksOfRound
<1>3. UNCHANGED <<wire, acks>> \/ (wire' = <<>> /\ acks' = {})
  BY DEF HandleSync
<1>4. CASE wire' = <<>> /\ acks' = {}
  <2>1. Places' = {}
    BY <1>4 DEF Places
  <2>2. QED
    BY <1>1, <1>2, <1>4, <2>1 DEF InOrder, Ahead, Begun, AcksOfRound, NotEnded, PagesSent
<1>5. CASE UNCHANGED <<wire, acks>>
  <2>1. InOrder'
    BY <1>5 DEF InOrder, Places
  <2>2. Ahead'
    BY <1>1, <1>2, <1>5 DEF Ahead, Places, After
  <2>3. Begun'
    BY <1>1, <1>5 DEF Begun, Places
  <2>4. AcksOfRound'
    BY <1>1, <1>2, <1>5 DEF AcksOfRound
  <2>5. NotEnded'
    BY <1>1, <1>2, <1>5 DEF NotEnded, Places
  <2>6. PagesSent'
    BY <1>1, <1>2, <1>5 DEF PagesSent, Places
  <2>7. QED
    BY <2>1, <2>2, <2>3, <2>4, <2>5, <2>6
<1>6. QED
  BY <1>3, <1>4, <1>5

\* The end of the scan of the round is behind everything of earlier rounds.
LEMMA EndOrder ==
  ASSUME Types, Order, ServiceEndsScan
  PROVE  Order'
<1> USE DEF Order
<1> DEFINE n == Len(wire)
           f == [action |-> "SyncEnd", context |-> round]
<1>1. /\ n \in Nat /\ Len(wire') = n + 1 /\ wire'[n + 1] = f
      /\ \A k \in Places : wire'[k] = wire[k]
  <2>1. wire \in Seq(Frames) /\ round \in Rounds
    BY PlainAndTracker DEF PlainTypes
  <2>2. QED
    BY <2>1, SendsEnd DEF Places
<1>2. /\ ~srv.ended /\ srv'.ended = TRUE /\ UNCHANGED <<round, tracker, acks>>
      /\ srv'.paging = srv.paging /\ srv'.acked = srv.acked /\ srv'.sent = srv.sent
  <2>1. srv \in [ended : BOOLEAN, paging : BOOLEAN, sent : 0..Len(PageTotals),
                 acked : {-1} \cup PageIndexes]
    BY PlainAndTracker DEF PlainTypes
  <2>2. QED
    BY <2>1 DEF ServiceEndsScan
<1>3. /\ round \in Nat \ {0} /\ tracker.Context \in Nat
      /\ \A l \in Places : RoundOf(wire[l]) \in Nat \ {0}
  BY Numbers
<1>4. tracker.Context < round /\ \A l \in Places : RoundOf(wire[l]) < round
  BY <1>2 DEF NotEnded
<1>5. Is(f, "SyncEnd") /\ ~Is(f, "SyncPage") /\ ~Is(f, "Item") /\ RoundOf(f) = round
  BY DEF Is, RoundOf
<1> HIDE DEF f
<1>6. \A k \in Places' : (k \in Places /\ wire'[k] = wire[k]) \/ k = n + 1
  BY <1>1 DEF Places
<1>7. InOrder'
  <2>1. ASSUME NEW k \in Places', NEW l \in Places', k < l
        PROVE  Precedes(wire'[k], wire'[l])
    <3>1. k \in Places /\ wire'[k] = wire[k]
      BY <1>1, <2>1 DEF Places
    <3>2. CASE l \in Places /\ wire'[l] = wire[l]
      BY <2>1, <3>1, <3>2 DEF InOrder
    <3>3. CASE l = n + 1
      BY <1>1, <1>3, <1>4, <1>5, <3>1, <3>3 DEF Precedes, After
    <3>4. QED
      BY <1>6, <3>2, <3>3
  <2>2. QED
    BY <2>1 DEF InOrder
<1>8. Ahead'
  BY <1>1, <1>2, <1>3, <1>4, <1>5, <1>6 DEF Ahead, After
<1>9. Begun'
  <2>1. ASSUME NEW l \in Places', ~Is(wire'[l], "SyncEnd")
        PROVE  \/ \E k \in 1..(l - 1) :
                    Is(wire'[k], "SyncEnd") /\ RoundOf(wire'[k]) = RoundOf(wire'[l])
               \/ /\ tracker'.Context \in {0, RoundOf(wire'[l])}
                  /\ RoundOf(wire'[1]) = RoundOf(wire'[l])
    <3>1. l \in Places /\ wire'[l] = wire[l]
      BY <1>1, <1>5, <1>6, <2>1
    <3>2. 1 \in Places /\ \A k \in 1..(l - 1) : k \in Places
      BY <1>1, <3>1 DEF Places
    <3>3. wire'[1] = wire[1] /\ \A k \in 1..(l - 1) : wire'[k] = wire[k]
      BY <1>1, <3>2
    <3>4. QED
      BY <1>2, <2>1, <3>1, <3>3 DEF Begun
  <2>2. QED
    BY <2>1 DEF Begun
<1>10. AcksOfRound'
  BY <1>2 DEF AcksOfRound
<1>11. NotEnded'
  BY <1>2 DEF NotEnded
<1>12. PagesSent'
  BY <1>1, <1>2, <1>5, <1>6 DEF PagesSent
<1>13. QED
  BY <1>7, <1>8, <1>9, <1>10, <1>11, <1>12

\* An acknowledgment of the round starts its pages or goes on with them.
LEMMA AckOrder ==
  ASSUME Types, Order, NEW a \in acks, ServiceReceivesAck(a)
  PROVE  Order'
<1> USE DEF Order
<1>1. UNCHANGED <<round, tracker, wire>> /\ acks' \subseteq acks
  BY DEF ServiceReceivesAck
<1>2. srv \in [ended : BOOLEAN, paging : BOOLEAN, sent : 0..Len(PageTotals),
               acked : {-1} \cup PageIndexes]
  BY PlainAndTracker DEF PlainTypes
<1>3. srv'.ended = srv.ended /\ srv'.sent = srv.sent
  BY <1>2 DEF ServiceReceivesAck
<1>4. a.context # round => srv' = srv
  BY DEF ServiceReceivesAck
<1>5. AcksOfRound'
  BY <1>1, <1>4 DEF AcksOfRound
<1>6. InOrder' /\ Ahead' /\ Begun' /\ NotEnded' /\ PagesSent'
  BY <1>1, <1>3 DEF InOrder, Ahead, Begun, NotEnded, PagesSent, Places
<1>7. QED
  BY <1>5, <1>6

\* The goroutines leave the wire alone, and acknowledge in the name of the tracker.
LEMMA HandlerOrder ==
  ASSUME Types, Order, NEW i \in Items, Handler(i) \/ CloseSession(i)
  PROVE  Order'
<1> USE DEF Order
<1>1. UNCHANGED <<round, wire, srv>>
  BY DEF Handler, IncrementCompletedPage, RefuseDownload, OpenSession, RequestChunks,
         RequestFails, CompletePageOfDownload, CloseSession
<1>2. UNCHANGED <<tracker, acks>> \/ CompleteSyncPage(index[i])
  BY DEF Handler, IncrementCompletedPage, RefuseDownload, OpenSession, RequestChunks,
         RequestFails, CompletePageOfDownload, CloseSession
<1>3. IsTracker(tracker)
  BY PlainAndTracker
<1>4. /\ tracker'.Context = tracker.Context
      /\ \A a \in acks' : a \in acks \/ a.context = tracker.Context
  <2>1. PICK p : p = index[i]
    OBVIOUS
  <2>2. CASE UNCHANGED <<tracker, acks>>
    BY <2>2
  <2>3. CASE /\ IsTracker(Counted(p)) /\ TrackAndAck(Counted(p))
             /\ Counted(p).Context = tracker.Context
    BY <2>3, Acknowledged, Advance
  <2>4. CASE CompleteSyncPage(p)
    BY <1>3, <2>2, <2>3, <2>4, CompletesPage
  <2>5. QED
    BY <1>2, <2>1, <2>2, <2>4
<1>5. InOrder' /\ Ahead' /\ Begun' /\ NotEnded' /\ PagesSent'
  BY <1>1, <1>4 DEF InOrder, Ahead, Begun, NotEnded, PagesSent, Places
<1>6. AcksOfRound'
  BY <1>1, <1>4 DEF AcksOfRound, Ahead
<1>7. QED
  BY <1>5, <1>6

-----------------------------------------------------------------------------
(* Items are sent once, with their page, and what is acknowledged was sent.  *)

\* The items of page p of round c have been sent.
Came(w, c, p) == \A i \in Items : i.round = c /\ i.page = p => w[i] # "unsent"

\* What the service has not sent is not on its way.
Unsent == \A i \in Items :
  i.round > round \/ (i.round = round /\ i.page >= srv.sent) => work[i] = "unsent"

\* An item on the wire has not been dispatched.
ItemsSent == \A l \in Places : Is(wire[l], "Item") => work[wire[l].item] = "sent"

PagesCame == \A l \in Places :
  Is(wire[l], "SyncPage") => Came(work, RoundOf(wire[l]), wire[l].pageIndex)

\* The pages that are registered or acknowledged have been sent.
TrackerCame(w, t) ==
  /\ \A p \in DOMAIN t.Pages : Came(w, t.Context, p)
  /\ \A p \in PageIndexes : p < t.AckWatermark => Came(w, t.Context, p)

AcksCame(w, as) == \A a \in as, p \in PageIndexes : p <= a.pageIndex => Came(w, a.context, p)

ServiceCame == \A p \in PageIndexes : p <= srv.acked => Came(work, round, p)

NoTracker == tracker.Context = 0 => DOMAIN tracker.Pages = {} /\ tracker.AckWatermark = 0

Arrived == /\ Unsent /\ ItemsSent /\ PagesCame /\ TrackerCame(work, tracker)
           /\ AcksCame(work, acks) /\ ServiceCame /\ NoTracker

\* When a page is sent everything on the wire is of its round, and the page and its
\* items come behind.
LEMMA PageBehind ==
  ASSUME Types, Order, ServiceSendsPage
  PROVE  /\ srv.sent \in PageIndexes /\ tracker.Context = round /\ srv.ended /\ srv'.ended
         /\ srv'.sent = srv.sent + 1 /\ srv'.paging = srv.paging /\ srv'.acked = srv.acked
         /\ Len(wire) \in Nat /\ Places \subseteq Places' /\ Len(wire) + 1 \in Places'
         /\ \A k \in Places : /\ wire'[k] = wire[k] /\ k < Len(wire) + 1 /\ k \in Nat \ {0}
                              /\ RoundOf(wire[k]) = round /\ ~Is(wire[k], "SyncEnd")
         /\ wire'[Len(wire) + 1] = PageFrame
         /\ \A k \in Places' \ Places : k # Len(wire) + 1 =>
              /\ k > Len(wire) + 1
              /\ \E j \in 1..PageTotals[srv.sent + 1] :
                   /\ k = Len(wire) + 1 + j /\ wire'[k] = ItemFrame(j)
                   /\ ItemFrame(j).item \in ItemsOf(round, srv.sent)
<1> DEFINE n == Len(wire)
           m == PageTotals[srv.sent + 1]
<1>1. wire \in Seq(Frames) /\ round \in Rounds /\ PlainTypes
  BY PlainAndTracker DEF PlainTypes
<1>2. /\ srv.sent \in PageIndexes /\ m \in Nat /\ n \in Nat /\ Len(wire') = n + 1 + m
      /\ \A k \in Places : wire'[k] = wire[k]
      /\ wire'[n + 1] = PageFrame
      /\ \A j \in 1..m : /\ wire'[n + 1 + j] = ItemFrame(j)
                         /\ ItemFrame(j).item \in ItemsOf(round, srv.sent)
  BY <1>1, SendsPage DEF Places
<1> HIDE DEF m
<1>3. /\ srv.paging /\ srv'.sent = srv.sent + 1
      /\ srv'.paging = srv.paging /\ srv'.acked = srv.acked /\ srv'.ended = srv.ended
  BY <1>1 DEF ServiceSendsPage, PlainTypes
<1>4. tracker.Context = round
  BY <1>3 DEF Order, AcksOfRound
<1>5. /\ round \in Nat \ {0}
      /\ \A l \in Places : RoundOf(wire[l]) \in Nat \ {0}
  BY Numbers
<1>6. srv.ended
  BY <1>4, <1>5 DEF Order, NotEnded
<1>7. \A k \in Places : RoundOf(wire[k]) = round /\ ~Is(wire[k], "SyncEnd")
  BY <1>4, <1>5 DEF Order, Ahead, After
<1>8. ASSUME NEW k \in Places' \ Places, k # n + 1
      PROVE  /\ k > n + 1
             /\ \E j \in 1..m : /\ k = n + 1 + j /\ wire'[k] = ItemFrame(j)
                                /\ ItemFrame(j).item \in ItemsOf(round, srv.sent)
  <2>1. k - (n + 1) \in 1..m /\ k = n + 1 + (k - (n + 1)) /\ k > n + 1
    BY <1>2, <1>8 DEF Places
  <2>2. QED
    BY <1>2, <2>1
<1>9. /\ Places \subseteq Places' /\ n + 1 \in Places'
      /\ \A k \in Places : k < n + 1 /\ k \in Nat \ {0}
  BY <1>2 DEF Places
<1>10. QED
  BY <1>2, <1>3, <1>4, <1>6, <1>7, <1>8, <1>9 DEF m

\* A page keeps the order.
LEMMA PageOrder ==
  ASSUME Types, Order, Unsent, ItemsSent, ServiceSendsPage
  PROVE  Order'
<1> DEFINE n == Len(wire)
           p == srv.sent
<1>1. /\ p \in PageIndexes /\ tracker.Context = round /\ srv'.ended
      /\ srv'.sent = p + 1 /\ srv'.paging = srv.paging /\ srv'.acked = srv.acked
      /\ \A k \in Places : wire'[k] = wire[k] /\ k < n + 1
                           /\ RoundOf(wire[k]) = round /\ ~Is(wire[k], "SyncEnd")
      /\ wire'[n + 1] = PageFrame /\ n \in Nat
      /\ \A k \in Places' \ Places : k # n + 1 =>
           k > n + 1 /\ \E j \in 1..PageTotals[p + 1] :
                          /\ k = n + 1 + j /\ wire'[k] = ItemFrame(j)
                          /\ ItemFrame(j).item \in ItemsOf(round, p)
  BY PageBehind
<1>2. UNCHANGED <<round, tracker, acks>>
  BY DEF ServiceSendsPage
<1>3. /\ Is(PageFrame, "SyncPage") /\ ~Is(PageFrame, "SyncEnd") /\ ~Is(PageFrame, "Item")
      /\ RoundOf(PageFrame) = round /\ PageFrame.pageIndex = p
      /\ \A j : /\ Is(ItemFrame(j), "Item") /\ ~Is(ItemFrame(j), "SyncEnd")
                /\ ~Is(ItemFrame(j), "SyncPage") /\ RoundOf(ItemFrame(j)) = round
                /\ ItemFrame(j).item = [round |-> round, page |-> p, item |-> j]
  BY DEF PageFrame, ItemFrame, Is, RoundOf
<1>4. \A k \in Places' : RoundOf(wire'[k]) = round /\ ~Is(wire'[k], "SyncEnd")
  BY <1>1, <1>3
<1>5. round \in Nat \ {0} /\ p \in Nat
  BY Numbers
<1>6. \A k \in Places' : Is(wire'[k], "SyncPage") =>
        k = n + 1 \/ (k \in Places /\ Is(wire[k], "SyncPage") /\ wire[k].pageIndex < p)
  BY <1>1, <1>3 DEF Order, PagesSent
<1>7. InOrder'
  <2>1. ASSUME NEW k \in Places', NEW l \in Places', k < l
        PROVE  Precedes(wire'[k], wire'[l])
    <3>1. k \in Int /\ l \in Int
      BY DEF Places
    <3>2. ASSUME Is(wire'[k], "SyncPage"), Is(wire'[l], "SyncPage")
          PROVE  wire'[k].pageIndex < wire'[l].pageIndex
      <4>1. CASE k = n + 1
        BY <1>1, <1>6, <2>1, <3>1, <3>2, <4>1
      <4>2. CASE k \in Places /\ wire[k].pageIndex < p /\ l = n + 1
        BY <1>1, <1>3, <4>2
      <4>3. CASE k \in Places /\ l \in Places
        BY <1>1, <2>1, <3>2, <4>3 DEF Order, InOrder, Precedes
      <4>4. QED
        BY <1>6, <3>2, <4>1, <4>2, <4>3
    <3>3. ASSUME Is(wire'[k], "Item"), Is(wire'[l], "Item")
          PROVE  wire'[k].item # wire'[l].item
      <4>1. CASE k \in Places /\ l \in Places
        BY <1>1, <2>1, <3>3, <4>1 DEF Order, InOrder, Precedes
      <4>2. ASSUME k \in Places, l \notin Places
            PROVE  wire'[k].item # wire'[l].item
        <5>1. work[wire'[k].item] = "sent"
          BY <1>1, <3>3, <4>2 DEF ItemsSent
        <5>2. PICK j \in 1..PageTotals[p + 1] : /\ wire'[l] = ItemFrame(j)
                                                /\ ItemFrame(j).item \in ItemsOf(round, p)
          BY <1>1, <1>3, <3>3, <4>2
        <5>3. PICK i : i = ItemFrame(j).item
          OBVIOUS
        <5>4. i \in Items /\ i.round = round /\ i.page = p
          <6>1. round \in Rounds
            BY PlainAndTracker DEF PlainTypes
          <6>2. QED
            BY <1>1, <5>2, <5>3, <6>1, ItemOf
        <5>5. work[i] = "unsent"
          BY <1>5, <5>4 DEF Unsent
        <5>6. QED
          BY <5>1, <5>2, <5>3, <5>5
      <4>3. ASSUME k \notin Places, l \notin Places
            PROVE  wire'[k].item # wire'[l].item
        <5>1. PICK i \in 1..PageTotals[p + 1] : k = n + 1 + i /\ wire'[k] = ItemFrame(i)
          BY <1>1, <1>3, <3>3, <4>3
        <5>2. PICK j \in 1..PageTotals[p + 1] : l = n + 1 + j /\ wire'[l] = ItemFrame(j)
          BY <1>1, <1>3, <3>3, <4>3
        <5>3. i # j
          BY <2>1, <3>1, <5>1, <5>2
        <5>4. ItemFrame(i).item # ItemFrame(j).item
          BY <5>3 DEF ItemFrame
        <5>5. QED
          BY <5>1, <5>2, <5>4
      <4>4. k \in Places \/ l \notin Places
        BY <1>1, <2>1, <3>1 DEF Places
      <4>5. QED
        BY <4>1, <4>2, <4>3, <4>4
    <3>4. QED
      BY <1>4, <1>5, <3>2, <3>3 DEF Precedes, After
  <2>2. QED
    BY <2>1 DEF InOrder
<1>8. Ahead'
  BY <1>1, <1>2, <1>4, <1>5 DEF Ahead, After
<1>9. Begun'
  <2>1. \A l \in Places' : 1 \in Places'
    BY DEF Places
  <2>2. QED
    BY <1>1, <1>2, <1>4, <2>1 DEF Begun
<1>10. AcksOfRound'
  BY <1>1, <1>2 DEF Order, AcksOfRound
<1>11. NotEnded'
  BY <1>1 DEF NotEnded
<1>12. PagesSent'
  <2>1. ASSUME NEW k \in Places', Is(wire'[k], "SyncPage")
        PROVE  wire'[k].pageIndex < srv'.sent
    <3>1. CASE k = n + 1
      BY <1>1, <1>3, <1>5, <3>1
    <3>2. CASE k \in Places /\ Is(wire[k], "SyncPage")
      <4>1. wire[k].pageIndex \in Nat /\ wire[k].pageIndex < p
        <5>1. wire[k].pageIndex \in PageIndexes
          BY <3>2, Numbers, FrameKinds DEF Is
        <5>2. QED
          BY <1>1, <3>2, <5>1, Constants DEF Order, PagesSent
      <4>2. QED
        BY <1>1, <1>5, <3>2, <4>1
    <3>3. QED
      BY <1>6, <2>1, <3>1, <3>2
  <2>2. QED
    BY <2>1 DEF PagesSent
<1>13. QED
  BY <1>7, <1>8, <1>9, <1>10, <1>11, <1>12 DEF Order

\* What came stays so while nothing that was sent is lost.
LEMMA CameStays ==
  ASSUME NEW v, NEW w, \A i \in Items : w[i] = "unsent" => v[i] = "unsent"
  PROVE  /\ \A c, p : Came(v, c, p) => Came(w, c, p)
         /\ \A t : TrackerCame(v, t) => TrackerCame(w, t)
         /\ \A as : AcksCame(v, as) => AcksCame(w, as)
<1>1. \A c, p : Came(v, c, p) => Came(w, c, p)
  BY DEF Came
<1>2. QED
  BY <1>1 DEF TrackerCame, AcksCame

\* Advancing a tracker acknowledges only pages that came.
LEMMA TrackCame ==
  ASSUME NEW t, IsTracker(t), TrackAndAck(t), t.Context # 0,
         NEW w, TrackerCame(w, t), AcksCame(w, acks)
  PROVE  /\ TrackerCame(w, tracker') /\ AcksCame(w, acks')
         /\ tracker'.Context = t.Context
<1>1. /\ IsTracker(tracker') /\ tracker'.AckWatermark \in t.AckWatermark..LastPage
      /\ tracker'.Context = t.Context
      /\ \A p \in t.AckWatermark..(tracker'.AckWatermark - 1) : Ackable(t.Pages, p)
      /\ DOMAIN tracker'.Pages \subseteq DOMAIN t.Pages
  BY Advance, Acknowledged
<1>2. t.AckWatermark \in Nat /\ tracker'.AckWatermark \in Nat
  BY <1>1, TrackerPages, Constants
<1>3. \A p \in PageIndexes : p < tracker'.AckWatermark => Came(w, t.Context, p)
  <2>1. ASSUME NEW p \in PageIndexes, p < tracker'.AckWatermark
        PROVE  Came(w, t.Context, p)
    <3>1. CASE p < t.AckWatermark
      BY <3>1 DEF TrackerCame
    <3>2. CASE ~(p < t.AckWatermark)
      <4>1. p \in t.AckWatermark..(tracker'.AckWatermark - 1)
        BY <1>2, <2>1, <3>2, Constants
      <4>2. p \in DOMAIN t.Pages
        BY <1>1, <4>1 DEF Ackable
      <4>3. QED
        BY <4>2 DEF TrackerCame
    <3>3. QED
      BY <3>1, <3>2
  <2>2. QED
    BY <2>1
<1>4. TrackerCame(w, tracker')
  BY <1>1, <1>3 DEF TrackerCame
<1>5. ASSUME NEW a \in acks', NEW p \in PageIndexes, p <= a.pageIndex
      PROVE  Came(w, a.context, p)
  <2>1. CASE a \in acks
    BY <1>5, <2>1 DEF AcksCame
  <2>2. CASE a = [context |-> t.Context, pageIndex |-> tracker'.AckWatermark - 1]
    <3>1. p < tracker'.AckWatermark /\ a.context = t.Context
      BY <1>2, <1>5, <2>2, Constants
    <3>2. QED
      BY <1>3, <3>1
  <2>3. QED
    BY <2>1, <2>2, Acknowledged
<1>6. QED
  BY <1>1, <1>4, <1>5 DEF AcksCame

\* What a goroutine does to its item.
LEMMA HandlerStep ==
  ASSUME Types, NEW i \in Items, Handler(i) \/ CloseSession(i)
  PROVE  /\ work[i] \notin {"unsent", "sent"} /\ work'[i] \notin {"unsent", "sent"}
         /\ \A j \in Items : j # i => work'[j] = work[j]
         /\ UNCHANGED <<round, wire, index, srv, fileSyncEnd, need, tagged, clean>>
         /\ UNCHANGED <<tracker, acks>> \/ CompleteSyncPage(index[i])
<1>1. work \in [Items -> Stages]
  BY PlainAndTracker DEF PlainTypes
<1>2. \E from, to \in {"handling", "opened", "asked", "ending", "failed", "done", "lost"} :
        Step(i, from, to)
  BY DEF Handler, IncrementCompletedPage, RefuseDownload, OpenSession, RequestChunks,
         RequestFails, CompletePageOfDownload, CloseSession
<1>3. /\ work[i] \notin {"unsent", "sent"} /\ work'[i] \notin {"unsent", "sent"}
      /\ \A j \in Items : j # i => work'[j] = work[j]
  BY <1>1, <1>2 DEF Step
<1>4. UNCHANGED <<round, wire, index, srv, fileSyncEnd, need, tagged, clean>>
  BY DEF Handler, IncrementCompletedPage, RefuseDownload, OpenSession, RequestChunks,
         RequestFails, CompletePageOfDownload, CloseSession, IncrementCompleted, taskVars,
         history
<1>5. UNCHANGED <<tracker, acks>> \/ CompleteSyncPage(index[i])
  BY DEF Handler, IncrementCompletedPage, RefuseDownload, OpenSession, RequestChunks,
         RequestFails, CompletePageOfDownload, CloseSession
<1>6. QED
  BY <1>3, <1>4, <1>5

\* The goroutines complete pages that came.
LEMMA HandlerArrived ==
  ASSUME Types, Arrived, NEW i \in Items, Handler(i) \/ CloseSession(i)
  PROVE  Arrived'
<1> USE DEF Arrived
<1>1. /\ work[i] \notin {"unsent", "sent"} /\ work'[i] \notin {"unsent", "sent"}
      /\ \A j \in Items : j # i => work'[j] = work[j]
      /\ UNCHANGED <<round, wire, srv>>
      /\ UNCHANGED <<tracker, acks>> \/ CompleteSyncPage(index[i])
  BY HandlerStep
<1>2. \A j \in Items : work'[j] = "unsent" => work[j] = "unsent"
  BY <1>1
<1>3. \A c, p : Came(work, c, p) => Came(work', c, p)
  BY <1>2, CameStays
<1>4. TrackerCame(work', tracker) /\ AcksCame(work', acks)
  BY <1>2, CameStays
<1>5. Unsent' /\ ServiceCame'
  BY <1>1, <1>3 DEF Unsent, ServiceCame
<1>6. ItemsSent' /\ PagesCame'
  <2>1. \A l \in Places : Is(wire[l], "Item") => wire[l].item \in Items
    BY Numbers, FrameKinds DEF Is
  <2>2. QED
    BY <1>1, <1>3, <2>1 DEF ItemsSent, PagesCame, Places
<1>7. CASE UNCHANGED <<tracker, acks>>
  BY <1>4, <1>5, <1>6, <1>7 DEF NoTracker
<1>8. CASE CompleteSyncPage(index[i])
  <2>1. PICK p : p = index[i]
    OBVIOUS
  <2>2. CASE /\ tracker.Context # 0 /\ p \in DOMAIN tracker.Pages
             /\ IsTracker(Counted(p)) /\ TrackAndAck(Counted(p))
             /\ Counted(p).Context = tracker.Context
             /\ Counted(p).AckWatermark = tracker.AckWatermark
             /\ DOMAIN Counted(p).Pages = DOMAIN tracker.Pages
    <3>1. PICK t : t = Counted(p)
      OBVIOUS
    <3>2. TrackerCame(work', t)
      BY <1>4, <2>2, <3>1 DEF TrackerCame
    <3>3. /\ TrackerCame(work', tracker') /\ AcksCame(work', acks')
          /\ tracker'.Context = tracker.Context
      BY <1>4, <2>2, <3>1, <3>2, TrackCame
    <3>4. QED
      BY <1>5, <1>6, <2>2, <3>3 DEF NoTracker
  <2>3. IsTracker(tracker) /\ CompleteSyncPage(p)
    BY <1>8, <2>1, PlainAndTracker
  <2>4. QED
    BY <1>7, <2>2, <2>3, CompletesPage
<1>9. QED
  BY <1>1, <1>7, <1>8

\* What a frame that is read does to the items.
LEMMA DispatchStep ==
  ASSUME Types, Order, Arrived, Dispatch
  PROVE  /\ wire # <<>> /\ wire' = Tail(wire) /\ UNCHANGED <<round, srv, tagged, clean>>
         /\ 1 \in Places /\ Head(wire) = wire[1]
         /\ \A k \in Places' : wire'[k] = wire[k + 1] /\ k + 1 \in Places /\ 1 < k + 1
         /\ \/ HandleSyncEnd \/ HandleSyncPage
            \/ DispatchItem /\ Is(wire[1], "Item") /\ wire[1].item \in Items
               /\ work[wire[1].item] = "sent" /\ work'[wire[1].item] = "handling"
         /\ \A j \in Items : work'[j] # work[j] => Is(wire[1], "Item") /\ j = wire[1].item
         /\ \A j \in Items : work'[j] = "unsent" => work[j] = "unsent"
<1>1. wire # <<>> /\ wire' = Tail(wire) /\ UNCHANGED <<round, srv, tagged, clean>>
  BY DEF Dispatch, HandleSyncEnd, HandleSyncPage, DispatchItem, Read, history
<1>2. /\ wire \in Seq(Frames) /\ work \in [Items -> Stages]
      /\ 1 \in Places /\ Head(wire) = wire[1] /\ wire[1] \in Frames
      /\ \A k \in Places' : wire'[k] = wire[k + 1] /\ k + 1 \in Places /\ 1 < k + 1
  BY <1>1, PlainAndTracker, ReadsHead DEF Places, PlainTypes
<1>3. CASE HandleSyncEnd \/ HandleSyncPage
  <2>1. work' = work
    BY <1>3 DEF HandleSyncEnd, HandleSyncPage
  <2>2. QED
    BY <1>1, <1>2, <1>3, <2>1
<1>4. CASE DispatchItem
  <2>1. Is(wire[1], "Item") /\ work' = [work EXCEPT ![wire[1].item] = "handling"]
    BY <1>2, <1>4 DEF DispatchItem, Is
  <2>2. wire[1].item \in Items
    BY <1>2, <2>1, FrameKinds DEF Is
  <2>3. work[wire[1].item] = "sent"
    BY <1>2, <2>1 DEF Arrived, ItemsSent
  <2>4. QED
    BY <1>1, <1>2, <1>4, <2>1, <2>2, <2>3
<1>5. QED
  BY <1>3, <1>4 DEF Dispatch

\* The dispatcher registers pages that came.
LEMMA DispatchArrived ==
  ASSUME Types, Order, Arrived, Items # {}, Dispatch
  PROVE  Arrived'
<1> USE DEF Arrived
<1> DEFINE h == RoundOf(wire[1])
<1>1. /\ wire # <<>> /\ UNCHANGED <<round, srv>> /\ 1 \in Places /\ Head(wire) = wire[1]
      /\ \A k \in Places' : wire'[k] = wire[k + 1] /\ k + 1 \in Places /\ 1 < k + 1
      /\ \A j \in Items : work'[j] # work[j] => Is(wire[1], "Item") /\ j = wire[1].item
      /\ \A j \in Items : work'[j] = "unsent" => work[j] = "unsent"
      /\ HandleSyncEnd \/ HandleSyncPage \/ DispatchItem
  BY DispatchStep
<1>2. \A c, p : Came(work, c, p) => Came(work', c, p)
  BY <1>1, CameStays
<1>3. TrackerCame(work', tracker) /\ AcksCame(work', acks)
  BY <1>1, CameStays
<1>4. /\ IsTracker(tracker) /\ wire[1] \in Frames
      /\ \A l \in Places : wire[l] \in Frames
  BY <1>1, PlainAndTracker, Numbers
<1>5. ServiceCame' /\ PagesCame'
  BY <1>1, <1>2 DEF ServiceCame, PagesCame
<1>6. Unsent'
  <2>1. \A j \in Items : work[j] = "unsent" => work'[j] = "unsent"
    BY <1>1 DEF ItemsSent
  <2>2. QED
    BY <1>1, <2>1 DEF Unsent
<1>7. ItemsSent'
  <2>1. ASSUME NEW k \in Places', Is(wire'[k], "Item")
        PROVE  work'[wire'[k].item] = "sent"
    <3>1. Is(wire[k + 1], "Item") /\ work[wire[k + 1].item] = "sent" /\ wire[k + 1].item \in Items
      BY <1>1, <1>4, <2>1, FrameKinds DEF ItemsSent, Is
    <3>2. Is(wire[1], "Item") => wire[1].item # wire[k + 1].item
      BY <1>1, <3>1 DEF Order, InOrder, Precedes
    <3>3. QED
      BY <1>1, <3>1, <3>2
  <2>2. QED
    BY <2>1 DEF ItemsSent
<1>8. TrackerCame(work', tracker') /\ AcksCame(work', acks') /\ NoTracker'
  <2>1. CASE HandleSyncEnd
    <3>1. /\ DOMAIN tracker'.Pages = {} /\ tracker'.AckWatermark = 0
          /\ acks' = acks \cup {[context |-> h, pageIndex |-> -1]}
      <4>1. Is(wire[1], "SyncEnd") /\ h = Head(wire).context /\ h \in Rounds
        BY <1>1, <1>4, <2>1, FrameKinds DEF HandleSyncEnd, Is, RoundOf
      <4>2. Cardinality(ItemsOfRound(h)) # 0
        <5>1. ItemsOfRound(h) # {}
          BY <4>1, RoundsHaveItems
        <5>2. QED
          BY <4>1, <5>1, Finite, FS_EmptySet
      <4>3. /\ tracker' = NewTracker(h)
            /\ acks' = acks \cup {[context |-> h, pageIndex |-> -1]}
        BY <2>1, <4>1, <4>2 DEF HandleSyncEnd
      <4>4. h \in 0..MaxRounds
        BY <4>1, Constants
      <4>5. QED
        BY <4>3, <4>4, NewTrackerType
    <3>2. \A p \in PageIndexes : ~(p < 0) /\ ~(p <= -1)
      BY Constants
    <3>3. AcksCame(work', acks')
      BY <1>3, <3>1, <3>2 DEF AcksCame
    <3>4. QED
      BY <3>1, <3>2, <3>3 DEF TrackerCame, NoTracker
  <2>2. CASE HandleSyncPage
    <3>1. PICK c \in Rounds, p \in PageIndexes : /\ c = wire[1].context /\ p = wire[1].pageIndex
                                                 /\ Is(wire[1], "SyncPage")
      BY <1>1, <1>4, <2>2, FrameKinds DEF HandleSyncPage, Is
    <3>2. TrackAndAck(Registered(c, p))
      BY <1>1, <2>2, <3>1 DEF HandleSyncPage, Registered
    <3>3. c = h /\ ~Is(wire[1], "SyncEnd")
      BY <3>1 DEF RoundOf, Is
    <3>4. tracker.Context \in {0, c}
      BY <1>1, <3>3, HeadOfTracker DEF Order
    <3>5. PICK t : t = Registered(c, p)
      OBVIOUS
    <3>6. /\ IsTracker(t) /\ t.Context = c /\ t.AckWatermark = tracker.AckWatermark
          /\ DOMAIN t.Pages = DOMAIN tracker.Pages \cup {p}
      BY <1>4, <3>5, RegistersPage
    <3>7. Came(work', c, p)
      BY <1>1, <1>2, <3>1, <3>3 DEF PagesCame
    <3>8. c # 0 /\ \A q \in PageIndexes : ~(q < 0)
      BY Constants
    <3>9. TrackerCame(work', t)
      <4>1. CASE tracker.Context = c
        BY <1>3, <3>6, <3>7, <4>1 DEF TrackerCame
      <4>2. CASE tracker.Context = 0
        BY <3>6, <3>7, <3>8, <4>2 DEF TrackerCame, NoTracker
      <4>3. QED
        BY <3>4, <4>1, <4>2
    <3>10. /\ TrackerCame(work', tracker') /\ AcksCame(work', acks')
           /\ tracker'.Context = t.Context
      BY <1>3, <3>2, <3>5, <3>6, <3>8, <3>9, TrackCame
    <3>11. QED
      BY <3>6, <3>8, <3>10 DEF NoTracker
  <2>3. CASE DispatchItem
    BY <1>3, <2>3 DEF DispatchItem, NoTracker
  <2>4. QED
    BY <1>1, <2>1, <2>2, <2>3
<1>9. QED
  BY <1>5, <1>6, <1>7, <1>8

\* A new round has sent nothing; what it loses was not acknowledged in its name.
LEMMA RoundArrived ==
  ASSUME Types, Arrived, Order, HandleSync
  PROVE  Arrived'
<1> USE DEF Arrived
<1>1. /\ round' = round + 1 /\ srv'.acked = -1 /\ srv'.sent = 0
      /\ tracker'.Context = 0 /\ DOMAIN tracker'.Pages = {} /\ tracker'.AckWatermark = 0
  <2>1. 0 \in 0..MaxRounds
    BY Constants
  <2>2. QED
    BY <2>1, NewTrackerType DEF HandleSync, Requested
<1>2. round \in Nat /\ work \in [Items -> Stages] /\ \A p \in PageIndexes : ~(p < 0) /\ ~(p <= -1)
  BY Numbers, PlainAndTracker, Constants DEF PlainTypes
<1>3. TrackerCame(work', tracker') /\ NoTracker' /\ ServiceCame'
  BY <1>1, <1>2 DEF TrackerCame, NoTracker, ServiceCame
<1>4. Unsent'
  <2>1. ASSUME NEW i \in Items,
               i.round > round' \/ (i.round = round' /\ i.page >= srv'.sent)
        PROVE  work'[i] = "unsent"
    <3>1. i.round \in Nat
      BY ItemOf, Constants
    <3>2. work[i] = "unsent"
      BY <1>1, <1>2, <2>1, <3>1 DEF Unsent
    <3>3. QED
      BY <3>2 DEF HandleSync
  <2>2. QED
    BY <2>1 DEF Unsent
<1>5. CASE UNCHANGED <<wire, acks, work>>
  BY <1>3, <1>4, <1>5 DEF ItemsSent, PagesCame, AcksCame, Places
<1>6. CASE wire' = <<>> /\ acks' = {}
  <2>1. Places' = {}
    BY <1>6 DEF Places
  <2>2. QED
    BY <1>3, <1>4, <1>6, <2>1 DEF ItemsSent, PagesCame, AcksCame
<1>7. QED
  BY <1>5, <1>6 DEF HandleSync

\* The service sends what it had not sent, and believes what was acknowledged.
LEMMA ServiceArrived ==
  ASSUME Types, Arrived, Order, Service
  PROVE  Arrived'
<1> USE DEF Arrived
<1>1. CASE ServiceEndsScan
  <2>1. wire \in Seq(Frames) /\ round \in Rounds /\ PlainTypes
    BY PlainAndTracker DEF PlainTypes
  <2>2. /\ Len(wire) \in Nat /\ Len(wire') = Len(wire) + 1
        /\ \A k \in Places : wire'[k] = wire[k]
        /\ wire'[Len(wire) + 1] = [action |-> "SyncEnd", context |-> round]
    BY <1>1, <2>1, SendsEnd DEF Places
  <2>3. \A k \in Places' : (k \in Places /\ wire'[k] = wire[k]) \/ Is(wire'[k], "SyncEnd")
    BY <2>2 DEF Places, Is
  <2>4. ItemsSent' /\ PagesCame'
    BY <1>1, <2>3 DEF ServiceEndsScan, ItemsSent, PagesCame, Is
  <2>5. srv'.acked = srv.acked /\ srv'.sent = srv.sent
    BY <1>1, <2>1 DEF ServiceEndsScan, PlainTypes
  <2>6. UNCHANGED <<round, tracker, acks, work>>
    BY <1>1 DEF ServiceEndsScan
  <2>7. QED
    BY <2>4, <2>5, <2>6 DEF Unsent, ServiceCame, NoTracker
<1>2. CASE ServiceSendsPage
  <2> DEFINE n == Len(wire)
             p == srv.sent
  <2>1. /\ p \in PageIndexes
        /\ srv'.sent = p + 1 /\ srv'.acked = srv.acked
        /\ \A k \in Places : wire'[k] = wire[k]
        /\ wire'[n + 1] = PageFrame
        /\ \A k \in Places' \ Places : k # n + 1 =>
             \E j \in 1..PageTotals[p + 1] :
               wire'[k] = ItemFrame(j) /\ ItemFrame(j).item \in ItemsOf(round, p)
    BY <1>2, PageBehind
  <2>2. UNCHANGED <<round, tracker, acks>>
    BY <1>2 DEF ServiceSendsPage
  <2>3. \A i \in Items : work'[i] = IF i.round = round /\ i.page = p THEN "sent" ELSE work[i]
    <3>1. \A i \in Items : i \in ItemsOf(round, p) <=> i.round = round /\ i.page = p
      <4>1. round \in Rounds
        BY PlainAndTracker DEF PlainTypes
      <4>2. QED
        BY <2>1, <4>1, ItemOf
    <3>2. QED
      BY <1>2, <3>1 DEF ServiceSendsPage
  <2>4. round \in Nat /\ p \in Nat /\ \A i \in Items : i.round \in Nat /\ i.page \in Nat
    BY Numbers, ItemOf, Constants
  <2>5. \A i \in Items : work'[i] = "unsent" => work[i] = "unsent"
    BY <2>3
  <2>6. \A c, q : Came(work, c, q) => Came(work', c, q)
    BY <2>5, CameStays
  <2>7. TrackerCame(work', tracker) /\ AcksCame(work', acks)
    BY <2>5, CameStays
  <2>8. Unsent'
    BY <2>1, <2>2, <2>3, <2>4 DEF Unsent
  <2>9. /\ Is(PageFrame, "SyncPage") /\ ~Is(PageFrame, "Item")
        /\ RoundOf(PageFrame) = round /\ PageFrame.pageIndex = p
        /\ \A j : Is(ItemFrame(j), "Item") /\ ~Is(ItemFrame(j), "SyncPage")
    BY DEF PageFrame, ItemFrame, Is, RoundOf
  <2>10. ItemsSent'
    <3>1. ASSUME NEW k \in Places', Is(wire'[k], "Item")
          PROVE  work'[wire'[k].item] = "sent"
      <4>1. CASE k \in Places
        <5>1. wire[k].item \in Items /\ work[wire[k].item] = "sent"
          BY <2>1, <3>1, <4>1, Numbers, FrameKinds DEF ItemsSent, Is
        <5>2. QED
          BY <2>1, <2>3, <4>1, <5>1
      <4>2. CASE k \notin Places
        <5>1. wire'[k].item \in ItemsOf(round, p)
          BY <2>1, <2>9, <3>1, <4>2
        <5>2. PICK i : i = wire'[k].item
          OBVIOUS
        <5>3. i \in Items /\ i.round = round /\ i.page = p
          <6>1. round \in Rounds
            BY PlainAndTracker DEF PlainTypes
          <6>2. QED
            BY <2>1, <5>1, <5>2, <6>1, ItemOf
        <5>4. QED
          BY <2>3, <5>2, <5>3
      <4>3. QED
        BY <4>1, <4>2
    <3>2. QED
      BY <3>1 DEF ItemsSent
  <2>11. PagesCame'
    <3>1. ASSUME NEW k \in Places', Is(wire'[k], "SyncPage")
          PROVE  Came(work', RoundOf(wire'[k]), wire'[k].pageIndex)
      <4>1. CASE k \in Places
        BY <2>1, <2>6, <3>1, <4>1 DEF PagesCame
      <4>2. CASE k \notin Places
        <5>1. RoundOf(wire'[k]) = round /\ wire'[k].pageIndex = p
          BY <2>1, <2>9, <3>1, <4>2
        <5>2. Came(work', round, p)
          BY <2>3 DEF Came
        <5>3. QED
          BY <5>1, <5>2
      <4>3. QED
        BY <4>1, <4>2
    <3>2. QED
      BY <3>1 DEF PagesCame
  <2>12. ServiceCame'
    BY <2>1, <2>2, <2>6 DEF ServiceCame
  <2>13. QED
    BY <2>2, <2>7, <2>8, <2>10, <2>11, <2>12 DEF NoTracker
<1>3. ASSUME NEW a \in acks, ServiceReceivesAck(a)
      PROVE  Arrived'
  <2>1. UNCHANGED <<round, tracker, wire, work>> /\ acks' \subseteq acks
    BY <1>3 DEF ServiceReceivesAck
  <2>2. srv \in [ended : BOOLEAN, paging : BOOLEAN, sent : 0..Len(PageTotals),
                 acked : {-1} \cup PageIndexes]
    BY PlainAndTracker DEF PlainTypes
  <2>3. /\ srv'.sent = srv.sent
        /\ srv'.acked = srv.acked \/ (a.context = round /\ srv'.acked = Max({srv.acked, a.pageIndex}))
    BY <1>3, <2>2 DEF ServiceReceivesAck
  <2>4. srv'.acked = srv.acked \/ (a.context = round /\ srv'.acked = a.pageIndex)
    <3>1. srv.acked \in Int /\ a.pageIndex \in Int
      BY Numbers
    <3>2. Max({srv.acked, a.pageIndex}) \in {srv.acked, a.pageIndex}
      BY <3>1, MaxOfTwo
    <3>3. QED
      BY <2>3, <3>2
  <2>5. ServiceCame'
    BY <2>1, <2>4 DEF ServiceCame, AcksCame
  <2>6. QED
    BY <2>1, <2>3, <2>5 DEF Unsent, ItemsSent, PagesCame, AcksCame, NoTracker, Places
<1>4. QED
  BY <1>1, <1>2, <1>3 DEF Service

-----------------------------------------------------------------------------
(* A round before which nothing was left.                                    *)

AllHandled(w, c, p) == \A i \in Items : i.round = c /\ i.page = p => w[i] \in {"done", "lost"}

\* Frames, tracker and goroutines are of the round.
OneRound ==
  /\ \A l \in Places : RoundOf(wire[l]) = round
  /\ tracker.Context \in {0, round}
  /\ \A i \in Items : i.round # round => work[i] \in {"unsent", "done", "lost"}

OnPage == \A i \in ItemsOfRound(round) : work[i] \notin {"unsent", "sent"} => index[i] = i.page

HandledOn(w, r, p) == {i \in ItemsOf(r, p) : w[i] \in {"done", "lost"}}

\* No more items of a page are counted than were handled.
PagesCounted(w, t) ==
  \A p \in DOMAIN t.Pages : t.Pages[p].CompletedCount <= Cardinality(HandledOn(w, round, p))

CountedItems(w, r) == {i \in ItemsOfRound(r) : w[i] \in {"asked", "ending", "done"}}

ItemsCounted ==
  /\ Completed <= Cardinality(CountedItems(work, round))
  /\ fileSyncEnd => need = Cardinality(ItemsOfRound(round))

OnePageAtATime == ~tagged => srv.sent <= srv.acked + 2

\* Below the watermark everything is handled, and nothing above is acknowledged.
Below(w, t) == \A p \in PageIndexes : p < t.AckWatermark => AllHandled(w, round, p)

Promised(t, as) == /\ srv.acked < t.AckWatermark
                   /\ \A a \in as : a.context = round => a.pageIndex < t.AckWatermark

AcksDone(w, as) ==
  \A a \in as, p \in PageIndexes : p <= a.pageIndex => AllHandled(w, a.context, p)

\* Registered pages are not acknowledged, and were sent.
PagesAhead(t) == /\ t.AckWatermark <= srv.sent
                 /\ \A p \in DOMAIN t.Pages : t.AckWatermark <= p /\ p < srv.sent

\* A page arrives once, above the watermark, and before its items.
FramesFit(v, t) ==
  /\ \A l \in 1..Len(v) : Is(v[l], "SyncPage") =>
       t.AckWatermark <= v[l].pageIndex /\ v[l].pageIndex \notin DOMAIN t.Pages
  /\ \A l \in 1..Len(v) : Is(v[l], "Item") =>
       \/ v[l].item.page \in DOMAIN t.Pages
       \/ \E k \in 1..(l - 1) : Is(v[k], "SyncPage") /\ v[k].pageIndex = v[l].item.page

TrackerFits(w, t, v) ==
  PagesCounted(w, t) /\ Below(w, t) /\ PagesAhead(t) /\ FramesFit(v, t)

Tidy == /\ OneRound /\ OnPage /\ ItemsCounted /\ OnePageAtATime
        /\ TrackerFits(work, tracker, wire)
        /\ Promised(tracker, acks) /\ AcksDone(work, acks)

\* A page has as many items as its total says.
LEMMA ItemsOfPage ==
  ASSUME NEW r \in Rounds, NEW p \in PageIndexes
  PROVE  Cardinality(ItemsOf(r, p)) = PageTotals[p + 1]
<1> DEFINE m == PageTotals[p + 1]
           f == [k \in 1..m |-> [round |-> r, page |-> p, item |-> k]]
<1>1. m \in Nat
  BY Constants
<1>2. f \in Bijection(1..m, ItemsOf(r, p))
  <2>1. f \in Surjection(1..m, ItemsOf(r, p))
    BY DEF Surjection, ItemsOf
  <2>2. \A k, l \in 1..m : f[k] = f[l] => k = l
    OBVIOUS
  <2> HIDE DEF f, m
  <2>3. f \in Injection(1..m, ItemsOf(r, p))
    BY <2>1, <2>2 DEF Injection, IsInjective, Surjection
  <2>4. QED
    BY <2>1, <2>3 DEF Bijection
<1>3. IsFiniteSet(1..m) /\ Cardinality(1..m) = m
  <2> HIDE DEF m
  <2>1. IsFiniteSet(1..m) /\ Cardinality(1..m) = IF 1 > m THEN 0 ELSE m - 1 + 1
    BY <1>1, FS_Interval
  <2>2. QED
    BY <1>1, <2>1
<1> HIDE DEF f, m
<1>4. Cardinality(1..m) = Cardinality(ItemsOf(r, p))
  BY <1>2, <1>3, FS_Bijection DEF ExistsBijection
<1>5. QED
  BY <1>3, <1>4 DEF m

\* The handled items of a page are counted.
LEMMA HandledCount ==
  ASSUME NEW w, NEW r \in Rounds, NEW p \in PageIndexes
  PROVE  /\ IsFiniteSet(HandledOn(w, r, p)) /\ Cardinality(HandledOn(w, r, p)) \in Nat
         /\ Cardinality(HandledOn(w, r, p)) >= PageTotals[p + 1] => AllHandled(w, r, p)
<1>1. HandledOn(w, r, p) \subseteq ItemsOf(r, p) /\ IsFiniteSet(ItemsOf(r, p))
  BY Finite DEF HandledOn
<1>2. /\ IsFiniteSet(HandledOn(w, r, p)) /\ Cardinality(HandledOn(w, r, p)) \in Nat
      /\ Cardinality(ItemsOf(r, p)) \in Nat
      /\ Cardinality(HandledOn(w, r, p)) <= Cardinality(ItemsOf(r, p))
      /\ Cardinality(HandledOn(w, r, p)) = Cardinality(ItemsOf(r, p))
           => HandledOn(w, r, p) = ItemsOf(r, p)
  BY <1>1, FS_Subset, FS_CardinalityType
<1>3. ASSUME Cardinality(HandledOn(w, r, p)) >= PageTotals[p + 1]
      PROVE  AllHandled(w, r, p)
  <2>1. Cardinality(HandledOn(w, r, p)) >= Cardinality(ItemsOf(r, p))
    BY <1>3, ItemsOfPage
  <2>2. HandledOn(w, r, p) = ItemsOf(r, p)
    BY <1>2, <2>1
  <2>3. \A i \in Items : i.round = r /\ i.page = p => i \in ItemsOf(r, p)
    BY ItemOf
  <2>4. QED
    BY <2>2, <2>3 DEF AllHandled, HandledOn
<1>4. QED
  BY <1>2, <1>3

\* Handled items stay handled, and one more is one more.
LEMMA HandledGrows ==
  ASSUME NEW v, NEW w, NEW r \in Rounds, NEW p \in PageIndexes,
         \A i \in Items : v[i] \in {"done", "lost"} => w[i] \in {"done", "lost"}
  PROVE  /\ Cardinality(HandledOn(v, r, p)) <= Cardinality(HandledOn(w, r, p))
         /\ \A i \in ItemsOf(r, p) : v[i] \notin {"done", "lost"} /\ w[i] \in {"done", "lost"}
              => Cardinality(HandledOn(v, r, p)) + 1 <= Cardinality(HandledOn(w, r, p))
<1>1. ItemsOf(r, p) \subseteq Items
  BY ItemOf
<1>2. HandledOn(v, r, p) \subseteq HandledOn(w, r, p)
  BY <1>1 DEF HandledOn
<1>3. /\ IsFiniteSet(HandledOn(w, r, p)) /\ Cardinality(HandledOn(w, r, p)) \in Nat
      /\ IsFiniteSet(HandledOn(v, r, p)) /\ Cardinality(HandledOn(v, r, p)) \in Nat
  BY HandledCount
<1>4. Cardinality(HandledOn(v, r, p)) <= Cardinality(HandledOn(w, r, p))
  BY <1>2, <1>3, FS_Subset
<1>5. ASSUME NEW i \in ItemsOf(r, p), v[i] \notin {"done", "lost"}, w[i] \in {"done", "lost"}
      PROVE  Cardinality(HandledOn(v, r, p)) + 1 <= Cardinality(HandledOn(w, r, p))
  <2>1. i \notin HandledOn(v, r, p) /\ i \in HandledOn(w, r, p)
    BY <1>5 DEF HandledOn
  <2>2. Cardinality(HandledOn(v, r, p)) # Cardinality(HandledOn(w, r, p))
    BY <1>2, <1>3, <2>1, FS_Subset
  <2>3. QED
    BY <1>3, <1>4, <2>2
<1>6. QED
  BY <1>4, <1>5

\* Advancing a tracker that fits the frames v keeps it so: what it acknowledges is
\* handled, and no frame is of a page it forgets.
LEMMA TrackFits ==
  ASSUME Types, NEW t, IsTracker(t), TrackAndAck(t), t.Context = round,
         NEW w, NEW v \in Seq(Frames),
         \A l \in 1..Len(v) : Is(v[l], "Item") =>
           v[l].item.round = round /\ w[v[l].item] \notin {"done", "lost"},
         TrackerFits(w, t, v), Promised(t, acks), AcksDone(w, acks)
  PROVE  /\ TrackerFits(w, tracker', v) /\ tracker'.Context = round
         /\ Promised(tracker', acks') /\ AcksDone(w, acks')
<1> USE DEF TrackerFits
<1> DEFINE u == tracker'
<1>1. /\ IsTracker(u) /\ u.Context = t.Context
      /\ u.AckWatermark \in t.AckWatermark..LastPage
      /\ \A p \in t.AckWatermark..(u.AckWatermark - 1) : Ackable(t.Pages, p)
      /\ DOMAIN u.Pages = DOMAIN t.Pages \ t.AckWatermark..(u.AckWatermark - 1)
      /\ \A p \in DOMAIN u.Pages : u.Pages[p] = t.Pages[p]
      /\ \A a \in acks' : \/ a \in acks
                          \/ a = [context |-> t.Context, pageIndex |-> u.AckWatermark - 1]
  BY Advance, Acknowledged
<1>2. /\ t.AckWatermark \in Nat /\ u.AckWatermark \in Nat /\ srv.sent \in Nat /\ srv.acked \in Int
      /\ round \in Nat /\ round \in Rounds /\ DOMAIN t.Pages \subseteq PageIndexes
      /\ \A p \in PageIndexes : p \in Nat
      /\ \A a \in acks : a.context \in Nat /\ a.pageIndex \in Int
  BY <1>1, TrackerPages, Constants, Numbers, PlainAndTracker DEF PlainTypes
<1> HIDE DEF u
<1>3. t.AckWatermark <= u.AckWatermark
  BY <1>1, <1>2
<1>4. ASSUME NEW p \in PageIndexes, t.AckWatermark <= p, p < u.AckWatermark
      PROVE  p \in DOMAIN t.Pages /\ AllHandled(w, round, p)
  <2>1. p \in t.AckWatermark..(u.AckWatermark - 1)
    BY <1>2, <1>4
  <2>2. Ackable(t.Pages, p)
    BY <1>1, <2>1
  <2>3. p \in DOMAIN t.Pages /\ t.Pages[p].CompletedCount >= t.Pages[p].TotalCount
    BY <2>2 DEF Ackable
  <2>4. PICK n \in Nat : n = t.Pages[p].CompletedCount
    BY <2>3, TrackerPages DEF PageRecords
  <2>5. n >= PageTotals[p + 1] /\ PageTotals[p + 1] \in Nat
    BY <2>3, <2>4, Constants DEF IsTracker
  <2>6. n <= Cardinality(HandledOn(w, round, p)) /\ Cardinality(HandledOn(w, round, p)) \in Nat
    BY <1>2, <2>3, <2>4, HandledCount DEF PagesCounted
  <2>7. Cardinality(HandledOn(w, round, p)) >= PageTotals[p + 1]
    BY <2>5, <2>6
  <2>8. QED
    BY <1>2, <2>3, <2>7, HandledCount
<1>5. \A p \in DOMAIN u.Pages :
        p \in DOMAIN t.Pages /\ p \in PageIndexes /\ p >= u.AckWatermark
  <2>1. ASSUME NEW p \in DOMAIN u.Pages
        PROVE  p \in DOMAIN t.Pages /\ p \in PageIndexes /\ p >= u.AckWatermark
    <3>1. p \in DOMAIN t.Pages /\ p \notin t.AckWatermark..(u.AckWatermark - 1)
      BY <1>1
    <3>2. p \in Nat /\ p \in PageIndexes /\ t.AckWatermark <= p
      BY <1>2, <3>1 DEF PagesAhead
    <3>3. QED
      BY <1>2, <3>1, <3>2
  <2>2. QED
    BY <2>1
<1>6. PagesCounted(w, u)
  BY <1>1, <1>5 DEF PagesCounted
<1>7. Below(w, u)
  <2>1. ASSUME NEW p \in PageIndexes, p < u.AckWatermark
        PROVE  AllHandled(w, round, p)
    <3>1. CASE p < t.AckWatermark
      BY <3>1 DEF Below
    <3>2. CASE t.AckWatermark <= p
      BY <1>4, <2>1, <3>2
    <3>3. QED
      BY <1>2, <3>1, <3>2
  <2>2. QED
    BY <2>1 DEF Below
<1>8. PagesAhead(u)
  <2>1. u.AckWatermark <= srv.sent
    <3>1. CASE u.AckWatermark = t.AckWatermark
      BY <3>1 DEF PagesAhead
    <3>2. CASE u.AckWatermark # t.AckWatermark
      <4>1. PICK p \in Nat : p = u.AckWatermark - 1
        BY <1>2, <1>3, <3>2
      <4>2. p \in t.AckWatermark..(u.AckWatermark - 1)
        BY <1>2, <1>3, <3>2, <4>1
      <4>3. p \in DOMAIN t.Pages
        BY <1>1, <4>2 DEF Ackable
      <4>4. p < srv.sent
        BY <4>3 DEF PagesAhead
      <4>5. QED
        BY <1>2, <4>1, <4>4
    <3>3. QED
      BY <3>1, <3>2
  <2>2. QED
    BY <1>5, <2>1 DEF PagesAhead
<1>9. FramesFit(v, u)
  <2>1. ASSUME NEW l \in 1..Len(v), Is(v[l], "SyncPage")
        PROVE  u.AckWatermark <= v[l].pageIndex /\ v[l].pageIndex \notin DOMAIN u.Pages
    <3>1. PICK q \in PageIndexes : q = v[l].pageIndex
      BY <2>1, ElementOfSeq, FrameKinds DEF Is
    <3>2. t.AckWatermark <= q /\ q \notin DOMAIN t.Pages
      BY <2>1, <3>1 DEF FramesFit
    <3>3. ~(q < u.AckWatermark)
      BY <1>4, <3>2
    <3>4. QED
      BY <1>2, <1>5, <3>1, <3>2, <3>3
  <2>2. ASSUME NEW l \in 1..Len(v), Is(v[l], "Item")
        PROVE  \/ v[l].item.page \in DOMAIN u.Pages
               \/ \E k \in 1..(l - 1) : Is(v[k], "SyncPage") /\ v[k].pageIndex = v[l].item.page
    <3>1. PICK i \in Items : i = v[l].item
      BY <2>2, ElementOfSeq, FrameKinds DEF Is
    <3>2. i.page \in PageIndexes /\ i.round = round /\ w[i] \notin {"done", "lost"}
      BY <2>2, <3>1, ItemOf
    <3>3. ~AllHandled(w, round, i.page)
      BY <3>2 DEF AllHandled
    <3>4. i.page \in DOMAIN t.Pages => i.page \in DOMAIN u.Pages
      <4>1. i.page \notin t.AckWatermark..(u.AckWatermark - 1)
        BY <1>2, <1>4, <3>2, <3>3
      <4>2. QED
        BY <1>1, <4>1
    <3>5. QED
      BY <2>2, <3>1, <3>4 DEF FramesFit
  <2>3. QED
    BY <2>1, <2>2 DEF FramesFit
<1>10. Promised(u, acks')
  <2>1. srv.acked < u.AckWatermark
    BY <1>2, <1>3 DEF Promised
  <2>2. ASSUME NEW a \in acks', a.context = round
        PROVE  a.pageIndex < u.AckWatermark
    <3>1. CASE a \in acks
      BY <1>2, <1>3, <2>2, <3>1 DEF Promised
    <3>2. CASE a = [context |-> t.Context, pageIndex |-> u.AckWatermark - 1]
      BY <1>2, <3>2
    <3>3. QED
      BY <1>1, <3>1, <3>2
  <2>3. QED
    BY <2>1, <2>2 DEF Promised
<1>11. AcksDone(w, acks')
  <2>1. ASSUME NEW a \in acks', NEW p \in PageIndexes, p <= a.pageIndex
        PROVE  AllHandled(w, a.context, p)
    <3>1. CASE a \in acks
      BY <2>1, <3>1 DEF AcksDone
    <3>2. CASE a = [context |-> t.Context, pageIndex |-> u.AckWatermark - 1]
      <4>1. a.context = round /\ p < u.AckWatermark
        BY <1>2, <2>1, <3>2
      <4>2. QED
        BY <1>7, <4>1 DEF Below
    <3>3. QED
      BY <1>1, <3>1, <3>2
  <2>2. QED
    BY <2>1 DEF AcksDone
<1>12. QED
  BY <1>1, <1>6, <1>7, <1>8, <1>9, <1>10, <1>11 DEF u

\* What is handled stays handled, so what was promised still is.
LEMMA DoneStays ==
  ASSUME NEW v, NEW w, round \in Rounds, NEW t, IsTracker(t),
         \A i \in Items : v[i] \in {"done", "lost"} => w[i] \in {"done", "lost"}
  PROVE  /\ PagesCounted(v, t) => PagesCounted(w, t)
         /\ Below(v, t) => Below(w, t)
         /\ AcksDone(v, acks) => AcksDone(w, acks)
<1>1. \A c, p : AllHandled(v, c, p) => AllHandled(w, c, p)
  BY DEF AllHandled
<1>2. Below(v, t) => Below(w, t)
  BY <1>1 DEF Below
<1>3. AcksDone(v, acks) => AcksDone(w, acks)
  BY <1>1 DEF AcksDone
<1>4. ASSUME PagesCounted(v, t), NEW p \in DOMAIN t.Pages
      PROVE  t.Pages[p].CompletedCount <= Cardinality(HandledOn(w, round, p))
  <2>1. p \in PageIndexes /\ t.Pages[p] \in PageRecords
    BY TrackerPages
  <2>2. PICK n \in Nat : n = t.Pages[p].CompletedCount
    BY <2>1 DEF PageRecords
  <2>3. n <= Cardinality(HandledOn(v, round, p))
    BY <1>4, <2>2 DEF PagesCounted
  <2>4. /\ Cardinality(HandledOn(v, round, p)) \in Nat /\ Cardinality(HandledOn(w, round, p)) \in Nat
        /\ Cardinality(HandledOn(v, round, p)) <= Cardinality(HandledOn(w, round, p))
    BY <2>1, HandledCount, HandledGrows
  <2>5. n <= Cardinality(HandledOn(w, round, p))
    BY <2>3, <2>4
  <2>6. QED
    BY <2>2, <2>5
<1>5. QED
  BY <1>2, <1>3, <1>4 DEF PagesCounted

\* Counted items stay counted, and one more is one more.
LEMMA CountedGrows ==
  ASSUME NEW v, NEW w, NEW r \in Rounds,
         \A i \in Items : v[i] \in {"asked", "ending", "done"} => w[i] \in {"asked", "ending", "done"}
  PROVE  /\ Cardinality(CountedItems(v, r)) \in Nat /\ Cardinality(CountedItems(w, r)) \in Nat
         /\ Cardinality(CountedItems(v, r)) <= Cardinality(CountedItems(w, r))
         /\ \A i \in CountedItems(w, r) : i \notin CountedItems(v, r)
              => Cardinality(CountedItems(v, r)) + 1 <= Cardinality(CountedItems(w, r))
<1>1. ItemsOfRound(r) \subseteq Items /\ IsFiniteSet(ItemsOfRound(r))
  BY ItemOf, Finite
<1>2. /\ CountedItems(v, r) \subseteq CountedItems(w, r)
      /\ CountedItems(v, r) \subseteq ItemsOfRound(r) /\ CountedItems(w, r) \subseteq ItemsOfRound(r)
  BY <1>1 DEF CountedItems
<1>3. /\ IsFiniteSet(CountedItems(v, r)) /\ Cardinality(CountedItems(v, r)) \in Nat
      /\ IsFiniteSet(CountedItems(w, r)) /\ Cardinality(CountedItems(w, r)) \in Nat
  BY <1>1, <1>2, FS_Subset, FS_CardinalityType
<1>4. Cardinality(CountedItems(v, r)) <= Cardinality(CountedItems(w, r))
  BY <1>2, <1>3, FS_Subset
<1>5. ASSUME NEW i \in CountedItems(w, r), i \notin CountedItems(v, r)
      PROVE  Cardinality(CountedItems(v, r)) + 1 <= Cardinality(CountedItems(w, r))
  <2>1. Cardinality(CountedItems(v, r)) # Cardinality(CountedItems(w, r))
    BY <1>2, <1>3, <1>5, FS_Subset
  <2>2. QED
    BY <1>3, <1>4, <2>1
<1>6. QED
  BY <1>3, <1>4, <1>5

\* What a goroutine counts.
LEMMA HandlerCounts ==
  ASSUME Types, NEW i \in Items, Handler(i) \/ CloseSession(i)
  PROVE  /\ work[i] \notin {"done", "lost", "unsent", "sent"}
         /\ \/ Completed' = Completed
            \/ /\ Completed' = Completed + 1
               /\ work[i] \notin {"asked", "ending", "done"}
               /\ work'[i] \in {"asked", "ending", "done"}
         /\ work[i] \in {"asked", "ending", "done"} => work'[i] \in {"asked", "ending", "done"}
         /\ \/ UNCHANGED <<tracker, acks>>
            \/ CompleteSyncPage(index[i]) /\ work'[i] \in {"done", "lost"}
<1>1. work \in [Items -> Stages]
  BY PlainAndTracker DEF PlainTypes
<1>2. QED
  BY <1>1 DEF Handler, IncrementCompletedPage, RefuseDownload, OpenSession, RequestChunks,
              RequestFails, CompletePageOfDownload, CloseSession, IncrementCompleted, taskVars,
              Step

\* An item that ends is of the round and completes its own page.
LEMMA HandlerTidy ==
  ASSUME Types, Order, Arrived, Tidy, NEW i \in Items, Handler(i) \/ CloseSession(i)
  PROVE  Tidy'
<1> USE DEF Tidy, TrackerFits
<1>1. /\ \A j \in Items : j # i => work'[j] = work[j]
      /\ UNCHANGED <<round, wire, index, srv, fileSyncEnd, need, tagged, clean>>
      /\ work'[i] \notin {"unsent", "sent"}
  BY HandlerStep
<1>2. /\ work[i] \notin {"done", "lost", "unsent", "sent"}
      /\ \/ Completed' = Completed
         \/ /\ Completed' = Completed + 1
            /\ work[i] \notin {"asked", "ending", "done"}
            /\ work'[i] \in {"asked", "ending", "done"}
      /\ work[i] \in {"asked", "ending", "done"} => work'[i] \in {"asked", "ending", "done"}
      /\ \/ UNCHANGED <<tracker, acks>>
         \/ CompleteSyncPage(index[i]) /\ work'[i] \in {"done", "lost"}
  BY HandlerCounts
<1>3. round \in Rounds /\ IsTracker(tracker) /\ wire \in Seq(Frames) /\ Completed \in Nat
  BY PlainAndTracker DEF PlainTypes
<1>4. i.round = round
  BY <1>2 DEF OneRound
<1>5. i \in ItemsOfRound(round) /\ i.page \in PageIndexes /\ i \in ItemsOf(round, i.page)
  BY <1>3, <1>4, ItemOf
<1>6. index[i] = i.page
  BY <1>2, <1>5 DEF OnPage
<1>7. \A j \in Items : work[j] \in {"done", "lost"} => work'[j] \in {"done", "lost"}
  BY <1>1, <1>2
<1>8. /\ PagesCounted(work', tracker) /\ Below(work', tracker)
      /\ AcksDone(work', acks)
  BY <1>3, <1>7, DoneStays
<1>9. OnPage'
  <2>1. ItemsOfRound(round) \subseteq Items
    BY <1>3, ItemOf
  <2>2. QED
    BY <1>1, <1>6, <2>1 DEF OnPage
<1>10. ItemsCounted'
  <2>1. \A j \in Items :
          work[j] \in {"asked", "ending", "done"} => work'[j] \in {"asked", "ending", "done"}
    BY <1>1, <1>2
  <2>2. /\ Cardinality(CountedItems(work, round)) \in Nat
        /\ Cardinality(CountedItems(work', round)) \in Nat
        /\ Cardinality(CountedItems(work, round)) <= Cardinality(CountedItems(work', round))
        /\ \A j \in CountedItems(work', round) : j \notin CountedItems(work, round)
             => Cardinality(CountedItems(work, round)) + 1 <= Cardinality(CountedItems(work', round))
    BY <1>3, <2>1, CountedGrows
  <2>3. Completed' = Completed + 1
          => Cardinality(CountedItems(work, round)) + 1 <= Cardinality(CountedItems(work', round))
    <3>1. ASSUME work[i] \notin {"asked", "ending", "done"}, work'[i] \in {"asked", "ending", "done"}
          PROVE  i \in CountedItems(work', round) /\ i \notin CountedItems(work, round)
      BY <1>5, <3>1 DEF CountedItems
    <3>2. QED
      BY <1>2, <1>3, <2>2, <3>1
  <2>4. Completed <= Cardinality(CountedItems(work, round))
    BY DEF ItemsCounted
  <2>5. Completed' <= Cardinality(CountedItems(work', round))
    BY <1>2, <1>3, <2>2, <2>3, <2>4
  <2>6. QED
    BY <1>1, <2>5 DEF ItemsCounted
<1>11. OnePageAtATime'
  BY <1>1 DEF OnePageAtATime
<1>12. \A j \in Items : j.round # round => work'[j] \in {"unsent", "done", "lost"}
  BY <1>1, <1>4 DEF OneRound
<1>13. CASE UNCHANGED <<tracker, acks>>
  <2>1. OneRound'
    BY <1>1, <1>12, <1>13 DEF OneRound, Places
  <2>2. /\ PagesCounted(work, tracker)' /\ Below(work, tracker)'
        /\ AcksDone(work, acks)'
    BY <1>1, <1>8, <1>13 DEF PagesCounted, Below, AcksDone, AllHandled
  <2>3. PagesAhead(tracker)' /\ FramesFit(wire, tracker)' /\ Promised(tracker, acks)'
    BY <1>1, <1>13 DEF PagesAhead, FramesFit, Promised
  <2>4. QED
    BY <1>9, <1>10, <1>11, <2>1, <2>2, <2>3
<1>14. CASE CompleteSyncPage(index[i]) /\ work'[i] \in {"done", "lost"}
  <2>1. PICK p \in PageIndexes : p = i.page
    BY <1>5
  <2>2. CompleteSyncPage(p)
    BY <1>6, <1>14, <2>1
  <2>3. PICK t : t = Counted(p)
    OBVIOUS
  <2>4. ASSUME tracker.Context # 0, p \in DOMAIN tracker.Pages,
               IsTracker(t), TrackAndAck(t), t.Context = tracker.Context,
               t.AckWatermark = tracker.AckWatermark,
               DOMAIN t.Pages = DOMAIN tracker.Pages,
               t.Pages[p].CompletedCount = tracker.Pages[p].CompletedCount + 1,
               \A q \in DOMAIN tracker.Pages : q # p => t.Pages[q] = tracker.Pages[q]
        PROVE  Tidy'
    <3>1. t.Context = round
      BY <2>4 DEF OneRound
    <3>2. PICK n \in Nat : n = tracker.Pages[p].CompletedCount
      BY <1>3, <2>4, TrackerPages DEF PageRecords
    <3>3. n + 1 <= Cardinality(HandledOn(work', round, p))
      <4>1. i \in ItemsOf(round, p)
        BY <1>5, <2>1
      <4>2. /\ Cardinality(HandledOn(work, round, p)) \in Nat
            /\ Cardinality(HandledOn(work', round, p)) \in Nat
        BY <1>3, HandledCount
      <4>3. Cardinality(HandledOn(work, round, p)) + 1 <= Cardinality(HandledOn(work', round, p))
        BY <1>2, <1>3, <1>7, <1>14, <4>1, HandledGrows
      <4>4. n <= Cardinality(HandledOn(work, round, p))
        BY <2>4, <3>2 DEF PagesCounted
      <4>5. QED
        BY <4>2, <4>3, <4>4
    <3>4. PagesCounted(work', t)
      BY <1>8, <2>4, <3>2, <3>3 DEF PagesCounted
    <3>5. Below(work', t) /\ PagesAhead(t) /\ FramesFit(wire, t) /\ Promised(t, acks)
      BY <1>8, <2>4 DEF Below, PagesAhead, FramesFit, Promised
    <3>6. \A l \in 1..Len(wire) : Is(wire[l], "Item") =>
            wire[l].item.round = round /\ work'[wire[l].item] \notin {"done", "lost"}
      <4>1. ASSUME NEW l \in Places, Is(wire[l], "Item")
            PROVE  wire[l].item.round = round /\ work'[wire[l].item] \notin {"done", "lost"}
        <5>1. wire[l].item \in Items /\ work[wire[l].item] = "sent"
          BY <4>1, Numbers, FrameKinds DEF Arrived, ItemsSent, Is
        <5>2. wire[l].item.round = round
          BY <4>1 DEF OneRound, RoundOf
        <5>3. QED
          BY <1>1, <1>2, <5>1, <5>2
      <4>2. QED
        BY <4>1 DEF Places
    <3>7. PICK w : w = work'
      OBVIOUS
    <3>8. /\ PagesCounted(w, t) /\ Below(w, t) /\ AcksDone(w, acks)
          /\ \A l \in 1..Len(wire) : Is(wire[l], "Item") =>
               wire[l].item.round = round /\ w[wire[l].item] \notin {"done", "lost"}
      BY <1>8, <3>4, <3>5, <3>6, <3>7
    <3>9. PICK v \in Seq(Frames) : v = wire
      BY <1>3
    <3>10. /\ \A l \in 1..Len(v) : Is(v[l], "Item") =>
                v[l].item.round = round /\ w[v[l].item] \notin {"done", "lost"}
           /\ FramesFit(v, t)
      BY <3>5, <3>8, <3>9
    <3>11. /\ TrackerFits(w, tracker', v) /\ tracker'.Context = round
           /\ Promised(tracker', acks') /\ AcksDone(w, acks')
      BY <2>4, <3>1, <3>5, <3>8, <3>10, TrackFits
    <3>12. TrackerFits(work, tracker, wire)' /\ Promised(tracker, acks)' /\ AcksDone(work, acks)'
      BY <1>1, <3>7, <3>9, <3>11
         DEF PagesCounted, Below, PagesAhead, FramesFit, Promised, AcksDone, AllHandled, Is
    <3>13. OneRound'
      BY <1>1, <1>12, <3>11 DEF OneRound, Places
    <3>14. QED
      BY <1>9, <1>10, <1>11, <3>12, <3>13
  <2>5. QED
    BY <1>3, <1>13, <2>2, <2>3, <2>4, CompletesPage
<1>15. QED
  BY <1>2, <1>13, <1>14

\* The frames behind the first one fit what it made of the tracker.
LEMMA TailFits ==
  ASSUME wire \in Seq(Frames), wire # <<>>, wire' = Tail(wire), NEW t, NEW u, FramesFit(wire, t),
         \A l \in Places : l # 1 /\ Is(wire[l], "SyncPage") =>
           u.AckWatermark <= wire[l].pageIndex /\ wire[l].pageIndex \notin DOMAIN u.Pages,
         DOMAIN t.Pages \subseteq DOMAIN u.Pages,
         Is(wire[1], "SyncPage") => wire[1].pageIndex \in DOMAIN u.Pages
  PROVE  FramesFit(wire', u)
<1>1. /\ Len(wire) \in Nat /\ Len(wire') = Len(wire) - 1
      /\ \A l \in 1..Len(wire') : wire'[l] = wire[l + 1] /\ l + 1 \in 1..Len(wire)
  BY ReadsHead
<1>2. \A l \in 1..Len(wire') : l + 1 \in Places /\ l + 1 # 1
  BY <1>1 DEF Places
<1>3. \A l \in 1..Len(wire') : Is(wire'[l], "SyncPage") =>
        u.AckWatermark <= wire'[l].pageIndex /\ wire'[l].pageIndex \notin DOMAIN u.Pages
  BY <1>1, <1>2
<1>4. ASSUME NEW l \in 1..Len(wire'), Is(wire'[l], "Item"), wire'[l].item.page \notin DOMAIN u.Pages
      PROVE  \E k \in 1..(l - 1) : Is(wire'[k], "SyncPage") /\ wire'[k].pageIndex = wire'[l].item.page
  <2>1. PICK k \in 1..((l + 1) - 1) : Is(wire[k], "SyncPage") /\ wire[k].pageIndex = wire[l + 1].item.page
    BY <1>1, <1>4 DEF FramesFit
  <2>2. k # 1
    BY <1>1, <1>4, <2>1
  <2>3. k - 1 \in 1..(l - 1) /\ k - 1 \in 1..Len(wire') /\ (k - 1) + 1 = k
    BY <1>1, <2>1, <2>2
  <2>4. wire'[k - 1] = wire[k]
    BY <1>1, <2>3
  <2>5. QED
    BY <1>1, <2>1, <2>3, <2>4
<1>5. QED
  BY <1>3, <1>4 DEF FramesFit

\* The page of an item is found: it is the only one there can be.
LEMMA FindsPage ==
  ASSUME Types, Tidy, NEW i \in Items, i.page \in DOMAIN tracker.Pages
  PROVE  ResolveSyncPageIndex(i) = i.page
<1>1. CASE tagged
  BY <1>1 DEF ResolveSyncPageIndex
<1>2. CASE ~tagged
  <2>1. /\ tracker.AckWatermark \in Nat /\ srv.sent \in Nat /\ srv.acked \in Int
        /\ DOMAIN tracker.Pages \subseteq Nat
    BY Numbers, PlainAndTracker, TrackerPages, Constants
  <2>2. srv.sent <= tracker.AckWatermark + 1
    <3>1. srv.sent <= srv.acked + 2 /\ srv.acked < tracker.AckWatermark
      BY <1>2 DEF Tidy, OnePageAtATime, Promised
    <3>2. QED
      BY <2>1, <3>1
  <2>3. \A p \in DOMAIN tracker.Pages : p = tracker.AckWatermark
    <3>1. ASSUME NEW p \in DOMAIN tracker.Pages
          PROVE  p = tracker.AckWatermark
      <4>1. tracker.AckWatermark <= p /\ p < srv.sent
        BY DEF Tidy, TrackerFits, PagesAhead
      <4>2. QED
        BY <2>1, <2>2, <4>1
    <3>2. QED
      BY <3>1
  <2>4. DOMAIN tracker.Pages = {i.page}
    BY <2>3
  <2>5. Cardinality(DOMAIN tracker.Pages) = 1
    BY <2>4, FS_Singleton
  <2>6. (CHOOSE p \in DOMAIN tracker.Pages : TRUE) = i.page
    BY <2>4
  <2>7. 0 \in DOMAIN tracker.Pages => i.page = 0
    BY <2>4
  <2>8. QED
    BY <1>2, <2>5, <2>6, <2>7 DEF ResolveSyncPageIndex
<1>3. QED
  BY <1>1, <1>2

\* The end of the scan comes to a new tracker, before which nothing was acknowledged.
LEMMA EndTidy ==
  ASSUME Types, Order, Arrived, Tidy, Items # {}, HandleSyncEnd
  PROVE  Tidy'
<1> USE DEF Tidy, TrackerFits
<1>1. Dispatch
  BY DEF Dispatch
<1>2. /\ wire # <<>> /\ wire' = Tail(wire) /\ UNCHANGED <<round, srv, tagged, clean>>
      /\ 1 \in Places /\ Head(wire) = wire[1]
      /\ \A k \in Places' : wire'[k] = wire[k + 1] /\ k + 1 \in Places
  BY <1>1, DispatchStep
<1>3. UNCHANGED <<Completed, work, index, sessions>>
  BY DEF HandleSyncEnd
<1>4. Is(wire[1], "SyncEnd") /\ ~Is(wire[1], "SyncPage") /\ ~Is(wire[1], "Item")
  BY <1>2 DEF HandleSyncEnd, Is
<1>5. /\ round \in Rounds /\ round \in Nat \ {0} /\ wire \in Seq(Frames) /\ tracker.Context \in Nat
      /\ \A p \in PageIndexes : p \in Nat
  BY PlainAndTracker, Numbers, Constants DEF PlainTypes
<1>6. wire[1].context = round /\ RoundOf(wire[1]) = round
  BY <1>2, <1>4 DEF OneRound, RoundOf
<1>7. tracker.Context = 0
  BY <1>2, <1>4, <1>5, <1>6 DEF OneRound, Order, Ahead, After
<1>8. DOMAIN tracker.Pages = {} /\ tracker.AckWatermark = 0
  BY <1>7 DEF Arrived, NoTracker
<1>9. ~(srv.acked >= 0) /\ \A a \in acks : a.context # round
  BY <1>5, <1>7 DEF Order, AcksOfRound
<1>10. /\ tracker' = NewTracker(round) /\ need' = Cardinality(ItemsOfRound(round))
       /\ acks' = acks \cup {[context |-> round, pageIndex |-> -1]}
  <2>1. Cardinality(ItemsOfRound(round)) # 0
    <3>1. ItemsOfRound(round) # {}
      BY <1>5, RoundsHaveItems
    <3>2. QED
      BY <1>5, <3>1, Finite, FS_EmptySet
  <2>2. QED
    BY <1>2, <1>6, <2>1 DEF HandleSyncEnd
<1>11. /\ tracker'.Context = round /\ tracker'.AckWatermark = 0 /\ DOMAIN tracker'.Pages = {}
  <2>1. round \in 0..MaxRounds
    BY <1>5, Constants
  <2>2. QED
    BY <1>10, <2>1, NewTrackerType
<1>12. OneRound' /\ OnPage' /\ ItemsCounted' /\ OnePageAtATime'
  BY ZenonT(40), <1>2, <1>3, <1>10, <1>11 DEF OneRound, OnPage, ItemsCounted, OnePageAtATime
<1>13. FramesFit(wire', tracker')
  <2>1. PICK u : u = tracker'
    OBVIOUS
  <2>2. \A l \in Places : l # 1 /\ Is(wire[l], "SyncPage") =>
          u.AckWatermark <= wire[l].pageIndex /\ wire[l].pageIndex \notin DOMAIN u.Pages
    BY <1>8, <1>11, <2>1 DEF FramesFit, Places
  <2>3. FramesFit(wire', u)
    BY <1>2, <1>4, <1>5, <1>8, <1>11, <2>1, <2>2, TailFits
  <2>4. QED
    BY <2>1, <2>3
<1>14. /\ PagesCounted(work, tracker)' /\ Below(work, tracker)' /\ PagesAhead(tracker)'
       /\ FramesFit(wire, tracker)'
  <2>1. srv.sent >= 0
    BY Numbers
  <2>2. PagesCounted(work, tracker)' /\ Below(work, tracker)'
    BY <1>5, <1>11 DEF PagesCounted, Below
  <2>3. PagesAhead(tracker)'
    BY <1>2, <1>11, <2>1 DEF PagesAhead
  <2>4. FramesFit(wire, tracker)'
    BY <1>13 DEF FramesFit, Is
  <2>5. QED
    BY <2>2, <2>3, <2>4
<1>15. Promised(tracker, acks)'
  <2>1. srv.acked \in Int
    BY Numbers
  <2>2. QED
    BY <1>2, <1>9, <1>10, <1>11, <2>1 DEF Promised
<1>16. AcksDone(work, acks)'
  <2>1. \A p \in PageIndexes : ~(p <= -1)
    BY <1>5
  <2>2. QED
    BY <1>3, <1>10, <2>1 DEF AcksDone, AllHandled
<1>17. QED
  BY <1>12, <1>14, <1>15, <1>16

\* A page is registered before its items come and after what is acknowledged.
LEMMA PageTidy ==
  ASSUME Types, Order, Arrived, Tidy, Items # {}, HandleSyncPage
  PROVE  Tidy'
<1> USE DEF Tidy, TrackerFits
<1>1. Dispatch
  BY DEF Dispatch
<1>2. /\ wire # <<>> /\ wire' = Tail(wire) /\ UNCHANGED <<round, srv, tagged, clean>>
      /\ 1 \in Places /\ Head(wire) = wire[1]
      /\ \A k \in Places' : wire'[k] = wire[k + 1] /\ k + 1 \in Places
  BY <1>1, DispatchStep
<1>3. UNCHANGED <<fileSyncEnd, need, Completed, work, index, sessions>>
  BY DEF HandleSyncPage, taskVars
<1>4. /\ round \in Rounds /\ wire \in Seq(Frames) /\ IsTracker(tracker)
      /\ \A p \in PageIndexes : p \in Nat
      /\ \A l \in Places : wire[l] \in Frames
  BY PlainAndTracker, Numbers, Constants DEF PlainTypes
<1>5. Is(wire[1], "SyncPage")
  BY <1>2 DEF HandleSyncPage, Is
<1>6. PICK p \in PageIndexes : p = wire[1].pageIndex
  BY <1>2, <1>4, <1>5, FrameKinds DEF Is
<1>7. wire[1].context = round /\ RoundOf(wire[1]) = round
  BY <1>2, <1>5 DEF OneRound, RoundOf, Is
<1>8. PICK t : t = Registered(round, p)
  OBVIOUS
<1>9. TrackAndAck(t)
  <2>1. TrackAndAck(Registered(round, p))
    BY <1>2, <1>6, <1>7 DEF HandleSyncPage, Registered
  <2>2. QED
    BY <1>8, <2>1
<1>10. p \notin DOMAIN tracker.Pages /\ tracker.AckWatermark <= p
  BY <1>2, <1>5, <1>6 DEF FramesFit, Places
<1>11. /\ IsTracker(t) /\ t.Context = round
       /\ t.AckWatermark = tracker.AckWatermark
       /\ DOMAIN t.Pages = DOMAIN tracker.Pages \cup {p}
       /\ \A q \in DOMAIN tracker.Pages : t.Pages[q] = tracker.Pages[q]
       /\ t.Pages[p].CompletedCount = 0
  BY <1>4, <1>8, <1>10, RegistersPage
<1>12. PagesCounted(work, t)
  <2>1. Cardinality(HandledOn(work, round, p)) >= 0
    BY <1>4, HandledCount
  <2>2. QED
    BY <1>11, <2>1 DEF PagesCounted
<1>13. Below(work, t) /\ Promised(t, acks)
  BY <1>11 DEF Below, Promised
<1>14. PagesAhead(t)
  <2>1. p < srv.sent
    BY <1>2, <1>5, <1>6, <1>7 DEF Order, PagesSent
  <2>2. QED
    BY <1>10, <1>11, <2>1 DEF PagesAhead
<1>15. PICK v \in Seq(Frames) : v = wire'
  BY <1>2, <1>4, ReadsHead
<1>16. FramesFit(wire', t)
  <2>1. ASSUME NEW l \in Places, l # 1, Is(wire[l], "SyncPage")
        PROVE  t.AckWatermark <= wire[l].pageIndex /\ wire[l].pageIndex \notin DOMAIN t.Pages
    <3>1. tracker.AckWatermark <= wire[l].pageIndex /\ wire[l].pageIndex \notin DOMAIN tracker.Pages
      BY <2>1 DEF FramesFit, Places
    <3>2. RoundOf(wire[l]) = round /\ 1 < l
      BY <2>1 DEF OneRound, Places
    <3>3. p < wire[l].pageIndex
      BY <1>2, <1>5, <1>6, <1>7, <2>1, <3>2 DEF Order, InOrder, Precedes
    <3>4. p # wire[l].pageIndex
      BY <1>4, <3>3
    <3>5. QED
      BY <1>11, <3>1, <3>4
  <2>2. QED
    BY <1>2, <1>4, <1>6, <1>11, <2>1, TailFits
<1>17. \A l \in 1..Len(v) : Is(v[l], "Item") =>
         v[l].item.round = round /\ work[v[l].item] \notin {"done", "lost"}
  <2>1. ASSUME NEW l \in Places', Is(wire'[l], "Item")
        PROVE  wire'[l].item.round = round /\ work[wire'[l].item] \notin {"done", "lost"}
    <3>1. l + 1 \in Places /\ wire'[l] = wire[l + 1] /\ Is(wire[l + 1], "Item")
      BY <1>2, <2>1
    <3>2. work[wire[l + 1].item] = "sent"
      BY <3>1 DEF Arrived, ItemsSent
    <3>3. wire[l + 1].item.round = round
      BY <3>1 DEF OneRound, RoundOf
    <3>4. QED
      BY <3>1, <3>2, <3>3
  <2>2. QED
    BY <1>15, <2>1 DEF Places
<1>18. FramesFit(v, t)
  BY <1>15, <1>16
<1>19. PICK w : w = work
  OBVIOUS
<1>20. /\ TrackerFits(w, t, v) /\ AcksDone(w, acks)
       /\ \A l \in 1..Len(v) : Is(v[l], "Item") =>
            v[l].item.round = round /\ w[v[l].item] \notin {"done", "lost"}
  BY <1>12, <1>13, <1>14, <1>17, <1>18, <1>19
<1>21. /\ TrackerFits(w, tracker', v) /\ tracker'.Context = round
       /\ Promised(tracker', acks') /\ AcksDone(w, acks')
  BY <1>9, <1>11, <1>13, <1>20, TrackFits
<1>22. TrackerFits(work, tracker, wire)' /\ Promised(tracker, acks)' /\ AcksDone(work, acks)'
  BY <1>2, <1>3, <1>15, <1>19, <1>21
     DEF PagesCounted, Below, PagesAhead, FramesFit, Promised, AcksDone, AllHandled, Is
<1>23. OneRound' /\ OnPage' /\ ItemsCounted' /\ OnePageAtATime'
  BY <1>2, <1>3, <1>21 DEF OneRound, OnPage, ItemsCounted, OnePageAtATime
<1>24. QED
  BY <1>22, <1>23

\* An item is dispatched with its own page.
LEMMA ItemTidy ==
  ASSUME Types, Order, Arrived, Tidy, DispatchItem
  PROVE  Tidy'
<1> USE DEF Tidy, TrackerFits
<1>1. Dispatch
  BY DEF Dispatch
<1>2. /\ wire # <<>> /\ wire' = Tail(wire) /\ UNCHANGED <<round, srv, tagged, clean>>
      /\ 1 \in Places /\ Head(wire) = wire[1]
      /\ \A k \in Places' : wire'[k] = wire[k + 1] /\ k + 1 \in Places
      /\ \A j \in Items : work'[j] # work[j] => Is(wire[1], "Item") /\ j = wire[1].item
  BY <1>1, DispatchStep
<1>3. UNCHANGED <<fileSyncEnd, need, Completed, tracker, acks, sessions>>
  BY DEF DispatchItem, taskVars
<1>4. /\ round \in Rounds /\ wire \in Seq(Frames) /\ IsTracker(tracker)
      /\ index \in [Items -> {NoIndex} \cup PageIndexes] /\ work \in [Items -> Stages]
      /\ wire[1] \in Frames /\ Completed \in Nat
  BY <1>2, PlainAndTracker, Numbers DEF PlainTypes
<1>5. Is(wire[1], "Item") /\ ~Is(wire[1], "SyncPage")
  BY <1>2 DEF DispatchItem, Is
<1>6. PICK i \in Items : i = wire[1].item
  BY <1>4, <1>5, FrameKinds DEF Is
<1>7. i.round = round
  BY <1>2, <1>5, <1>6 DEF OneRound, RoundOf
<1>8. work[i] = "sent"
  BY <1>2, <1>5, <1>6 DEF Arrived, ItemsSent
<1>9. /\ work' = [work EXCEPT ![i] = "handling"]
      /\ index' = [index EXCEPT ![i] = ResolveSyncPageIndex(i)]
  BY <1>2, <1>6 DEF DispatchItem
<1>10. ResolveSyncPageIndex(i) = i.page
  <2>1. i.page \in DOMAIN tracker.Pages
    <3>1. 1 \in 1..Len(wire) /\ 1..(1 - 1) = {}
      BY <1>2 DEF Places
    <3>2. QED
      BY <1>5, <1>6, <3>1 DEF FramesFit
  <2>2. QED
    BY <2>1, FindsPage
<1>11. \A j \in Items : work[j] \in {"done", "lost"} => work'[j] \in {"done", "lost"}
  BY <1>2, <1>6, <1>8
<1>12. OneRound'
  BY <1>2, <1>3, <1>6, <1>7 DEF OneRound
<1>13. OnPage'
  <2>1. \A j \in Items : j # i => index'[j] = index[j] /\ work'[j] = work[j]
    BY <1>4, <1>9
  <2>2. index'[i] = i.page
    BY <1>4, <1>9, <1>10
  <2>3. ItemsOfRound(round) \subseteq Items
    BY <1>4, ItemOf
  <2>4. QED
    BY <1>2, <2>1, <2>2, <2>3 DEF OnPage
<1>14. ItemsCounted'
  <2>1. \A j \in Items :
          work[j] \in {"asked", "ending", "done"} => work'[j] \in {"asked", "ending", "done"}
    BY <1>2, <1>6, <1>8
  <2>2. /\ Cardinality(CountedItems(work, round)) \in Nat
        /\ Cardinality(CountedItems(work', round)) \in Nat
        /\ Cardinality(CountedItems(work, round)) <= Cardinality(CountedItems(work', round))
    BY <1>4, <2>1, CountedGrows
  <2>3. Completed <= Cardinality(CountedItems(work', round))
    BY <1>4, <2>2 DEF ItemsCounted
  <2>4. QED
    BY <1>2, <1>3, <2>3 DEF ItemsCounted
<1>15. OnePageAtATime' /\ PagesAhead(tracker)' /\ Promised(tracker, acks)'
  BY <1>2, <1>3 DEF OnePageAtATime, PagesAhead, Promised
<1>16. /\ PagesCounted(work', tracker) /\ Below(work', tracker)
       /\ AcksDone(work', acks)
  BY <1>4, <1>11, DoneStays
<1>17. PagesCounted(work, tracker)' /\ Below(work, tracker)' /\ AcksDone(work, acks)'
  BY <1>2, <1>3, <1>16 DEF PagesCounted, Below, AcksDone, AllHandled
<1>18. FramesFit(wire', tracker)
  <2>1. \A l \in Places : l # 1 /\ Is(wire[l], "SyncPage") =>
          /\ tracker.AckWatermark <= wire[l].pageIndex
          /\ wire[l].pageIndex \notin DOMAIN tracker.Pages
    BY DEF FramesFit, Places
  <2>2. QED
    BY <1>2, <1>4, <1>5, <2>1, TailFits
<1>19. FramesFit(wire, tracker)'
  BY <1>3, <1>18 DEF FramesFit, Is
<1>20. QED
  BY <1>12, <1>13, <1>14, <1>15, <1>17, <1>19

\* A round that begins when nothing is left begins tidy: what was acknowledged before
\* came, and what came was handled.
LEMMA RoundTidy ==
  ASSUME Types, Order, Arrived, HandleSync, clean'
  PROVE  Tidy'
<1> USE DEF Tidy, TrackerFits
<1>1. /\ round' = round + 1 /\ fileSyncEnd' = FALSE /\ Completed' = 0
      /\ srv'.acked = -1 /\ srv'.sent = 0 /\ wire' = <<>>
      /\ tracker'.Context = 0 /\ DOMAIN tracker'.Pages = {} /\ tracker'.AckWatermark = 0
  <2>1. 0 \in 0..MaxRounds
    BY Constants
  <2>2. QED
    BY <2>1, NewTrackerType DEF HandleSync, Requested
<1>2. \A i \in Items : work'[i] \in {"unsent", "done", "lost"}
  BY DEF HandleSync
<1>3. /\ round \in Nat /\ round' \in Rounds /\ work \in [Items -> Stages]
      /\ \A p \in PageIndexes : ~(p < 0) /\ ~(p <= -1)
      /\ \A a \in acks : a.context \in Nat
  BY SMTT(30), Numbers, PlainAndTracker, Constants DEF PlainTypes, HandleSync, Rounds
<1>4. Arrived'
  BY RoundArrived
<1>5. Places' = {}
  BY <1>1 DEF Places
<1>6. OneRound'
  BY <1>1, <1>2, <1>5 DEF OneRound
<1>7. OnPage'
  <2>1. ItemsOfRound(round') = {i \in Items : i.round = round'}
    BY <1>3, ItemOf
  <2>2. srv'.sent = 0 /\ \A i \in Items : i.page >= 0
    <3>1. \A p \in PageIndexes : p >= 0
      BY Constants
    <3>2. \A i \in Items : i.page \in PageIndexes
      BY ItemOf
    <3>3. QED
      BY <1>1, <3>1, <3>2
  <2>3. \A i \in ItemsOfRound(round') : work'[i] = "unsent"
    BY <1>4, <2>1, <2>2 DEF Arrived, Unsent
  <2>4. QED
    BY <2>3 DEF OnPage
<1>8. ItemsCounted'
  <2>1. IsFiniteSet(CountedItems(work', round'))
    <3>1. IsFiniteSet(ItemsOfRound(round'))
      BY <1>3, Finite
    <3>2. CountedItems(work', round') \subseteq ItemsOfRound(round')
      BY DEF CountedItems
    <3>3. QED
      BY <3>1, <3>2, FS_Subset
  <2>2. Cardinality(CountedItems(work', round')) >= 0
    BY <2>1, FS_CardinalityType
  <2>3. QED
    BY <1>1, <2>2 DEF ItemsCounted
<1>9. OnePageAtATime'
  BY <1>1 DEF OnePageAtATime
<1>10. TrackerFits(work, tracker, wire)'
  BY <1>1, <1>3 DEF PagesCounted, Below, PagesAhead, FramesFit
<1>11. acks' \subseteq acks
  BY DEF HandleSync
<1>12. Promised(tracker, acks)'
  BY <1>1, <1>3, <1>11 DEF Promised, Order, AcksOfRound
<1>13. AcksDone(work, acks)'
  <2>1. AcksCame(work, acks)'
    BY <1>4 DEF Arrived
  <2>2. QED
    BY <1>2, <2>1 DEF AcksCame, AcksDone, Came, AllHandled
<1>14. QED
  BY <1>6, <1>7, <1>8, <1>9, <1>10, <1>12, <1>13

\* The service adds to the wire what comes next, and believes what is promised.
LEMMA ServiceTidy ==
  ASSUME Types, Order, Arrived, Tidy, Service
  PROVE  Tidy'
<1> USE DEF Tidy, TrackerFits
<1>1. /\ round \in Rounds /\ round \in Nat /\ wire \in Seq(Frames) /\ IsTracker(tracker)
      /\ srv.sent \in Nat /\ srv.acked \in Int /\ tracker.AckWatermark \in Nat
      /\ Len(wire) \in Nat /\ Completed \in Nat
  BY PlainAndTracker, Numbers DEF PlainTypes
<1>2. CASE ServiceEndsScan
  <2> DEFINE n == Len(wire)
  <2>1. /\ Len(wire') = n + 1
        /\ \A k \in Places : wire'[k] = wire[k]
        /\ wire'[n + 1] = [action |-> "SyncEnd", context |-> round]
    BY <1>1, <1>2, SendsEnd DEF Places
  <2>2. /\ RoundOf(wire'[n + 1]) = round
        /\ ~Is(wire'[n + 1], "SyncPage") /\ ~Is(wire'[n + 1], "Item")
    BY <2>1 DEF RoundOf, Is
  <2>3. \A k \in Places' : (k \in Places /\ wire'[k] = wire[k]) \/ k = n + 1
    BY <1>1, <2>1 DEF Places
  <2>4. srv'.acked = srv.acked /\ srv'.sent = srv.sent
    BY <1>2, PlainAndTracker DEF ServiceEndsScan, PlainTypes
  <2>5. UNCHANGED <<round, fileSyncEnd, need, Completed, tracker, acks, work, index, tagged>>
    BY <1>2 DEF ServiceEndsScan, taskVars, history
  <2>6. OneRound'
    BY <2>2, <2>3, <2>5 DEF OneRound
  <2>7. FramesFit(wire', tracker)
    <3>1. ASSUME NEW l \in Places, NEW k \in 1..(l - 1)
          PROVE  k \in Places
      BY <1>1, <3>1 DEF Places
    <3>2. QED
      BY <2>2, <2>3, <3>1 DEF FramesFit, Places
  <2>8. FramesFit(wire, tracker)'
    BY <2>5, <2>7 DEF FramesFit, Is
  <2>9. OnPage' /\ ItemsCounted' /\ OnePageAtATime'
    BY <2>4, <2>5 DEF OnPage, ItemsCounted, OnePageAtATime
  <2>10. /\ PagesCounted(work, tracker)' /\ Below(work, tracker)' /\ PagesAhead(tracker)'
         /\ Promised(tracker, acks)' /\ AcksDone(work, acks)'
    BY <2>4, <2>5 DEF PagesCounted, Below, PagesAhead, Promised, AcksDone, AllHandled
  <2>11. QED
    BY <2>6, <2>8, <2>9, <2>10
<1>3. CASE ServiceSendsPage
  <2> DEFINE n == Len(wire)
             p == srv.sent
  <2>1. /\ p \in PageIndexes /\ srv'.sent = p + 1 /\ srv'.acked = srv.acked
        /\ Places \subseteq Places' /\ n + 1 \in Places'
        /\ \A k \in Places : wire'[k] = wire[k]
        /\ wire'[n + 1] = PageFrame
        /\ \A k \in Places' \ Places : k # n + 1 =>
             k > n + 1 /\ \E j \in 1..PageTotals[p + 1] :
                            wire'[k] = ItemFrame(j) /\ ItemFrame(j).item \in ItemsOf(round, p)
    BY <1>3, PageBehind
  <2>2. UNCHANGED <<round, fileSyncEnd, need, Completed, tracker, acks, index, tagged>>
    BY <1>3 DEF ServiceSendsPage, taskVars, history
  <2>3. \A i \in Items : /\ i.round = round /\ i.page = p => work[i] = "unsent" /\ work'[i] = "sent"
                         /\ ~(i.round = round /\ i.page = p) => work'[i] = work[i]
    <3>1. \A i \in Items : i \in ItemsOf(round, p) <=> i.round = round /\ i.page = p
      BY <1>1, <2>1, ItemOf
    <3>2. \A i \in Items : i.round = round /\ i.page = p => work[i] = "unsent"
      BY <1>1 DEF Arrived, Unsent
    <3>3. QED
      BY <1>3, <3>1, <3>2 DEF ServiceSendsPage
  <2>4. /\ Is(PageFrame, "SyncPage") /\ ~Is(PageFrame, "Item")
        /\ RoundOf(PageFrame) = round /\ PageFrame.pageIndex = p
        /\ \A j : /\ Is(ItemFrame(j), "Item") /\ ~Is(ItemFrame(j), "SyncPage")
                  /\ RoundOf(ItemFrame(j)) = round /\ ItemFrame(j).item.page = p
    BY DEF PageFrame, ItemFrame, Is, RoundOf
  <2>5. OneRound'
    <3>1. \A l \in Places' : RoundOf(wire'[l]) = round
      BY <2>1, <2>4 DEF OneRound
    <3>2. QED
      BY <2>2, <2>3, <3>1 DEF OneRound
  <2>6. OnPage'
    <3>1. ItemsOfRound(round) \subseteq Items
      BY <1>1, ItemOf
    <3>2. QED
      BY <2>2, <2>3, <3>1 DEF OnPage
  <2>7. ItemsCounted'
    <3>1. \A j \in Items :
            work[j] \in {"asked", "ending", "done"} => work'[j] \in {"asked", "ending", "done"}
      BY <2>3
    <3>2. /\ Cardinality(CountedItems(work, round)) \in Nat
          /\ Cardinality(CountedItems(work', round)) \in Nat
          /\ Cardinality(CountedItems(work, round)) <= Cardinality(CountedItems(work', round))
      BY <1>1, <3>1, CountedGrows
    <3>3. Completed <= Cardinality(CountedItems(work', round))
      BY <1>1, <3>2 DEF ItemsCounted
    <3>4. QED
      BY <2>2, <3>3 DEF ItemsCounted
  <2>8. OnePageAtATime'
    <3>1. ~tagged => p <= srv.acked + 1
      BY <1>3 DEF ServiceSendsPage
    <3>2. QED
      BY <1>1, <2>1, <2>2, <3>1 DEF OnePageAtATime
  <2>9. \A j \in Items : work[j] \in {"done", "lost"} => work'[j] \in {"done", "lost"}
    BY <2>3
  <2>10. /\ PagesCounted(work', tracker) /\ Below(work', tracker)
         /\ AcksDone(work', acks)
    BY <1>1, <2>9, DoneStays
  <2>11. PagesCounted(work, tracker)' /\ Below(work, tracker)' /\ AcksDone(work, acks)'
    BY <2>2, <2>10 DEF PagesCounted, Below, AcksDone, AllHandled
  <2>12. DOMAIN tracker.Pages \subseteq Nat
    BY <1>1, TrackerPages, Constants
  <2>13. PagesAhead(tracker)' /\ Promised(tracker, acks)'
    BY <1>1, <2>1, <2>2, <2>12 DEF PagesAhead, Promised
  <2>14. FramesFit(wire', tracker)
    <3>1. ASSUME NEW l \in Places', Is(wire'[l], "SyncPage")
          PROVE  /\ tracker.AckWatermark <= wire'[l].pageIndex
                 /\ wire'[l].pageIndex \notin DOMAIN tracker.Pages
      <4>1. CASE l \in Places
        BY <2>1, <3>1, <4>1 DEF FramesFit, Places
      <4>2. CASE l \notin Places
        <5>1. wire'[l].pageIndex = p
          BY <2>1, <2>4, <3>1, <4>2
        <5>2. QED
          BY <1>1, <2>12, <5>1 DEF PagesAhead
      <4>3. QED
        BY <4>1, <4>2
    <3>2. ASSUME NEW l \in Places', Is(wire'[l], "Item")
          PROVE  \/ wire'[l].item.page \in DOMAIN tracker.Pages
                 \/ \E k \in 1..(l - 1) :
                      Is(wire'[k], "SyncPage") /\ wire'[k].pageIndex = wire'[l].item.page
      <4>1. CASE l \in Places
        <5>1. \A k \in 1..(l - 1) : k \in Places
          BY <1>1, <4>1 DEF Places
        <5>2. QED
          BY <2>1, <3>2, <4>1, <5>1 DEF FramesFit, Places
      <4>2. CASE l \notin Places
        <5>1. l > n + 1 /\ wire'[l].item.page = p
          BY <2>1, <2>4, <3>2, <4>2
        <5>2. n + 1 \in 1..(l - 1)
          BY <1>1, <5>1 DEF Places
        <5>3. Is(wire'[n + 1], "SyncPage") /\ wire'[n + 1].pageIndex = p
          BY <2>1, <2>4
        <5>4. QED
          BY <5>1, <5>2, <5>3
      <4>3. QED
        BY <4>1, <4>2
    <3>3. QED
      BY <3>1, <3>2 DEF FramesFit, Places
  <2>15. FramesFit(wire, tracker)'
    BY <2>2, <2>14 DEF FramesFit, Is
  <2>16. QED
    BY <2>5, <2>6, <2>7, <2>8, <2>11, <2>13, <2>15
<1>4. ASSUME NEW a \in acks, ServiceReceivesAck(a)
      PROVE  Tidy'
  <2>1. /\ UNCHANGED <<round, fileSyncEnd, need, Completed, tracker, wire, work, index, tagged>>
        /\ acks' \subseteq acks
    BY <1>4 DEF ServiceReceivesAck, taskVars, history
  <2>2. /\ srv'.sent = srv.sent
        /\ \/ srv'.acked = srv.acked
           \/ a.context = round /\ srv'.acked = Max({srv.acked, a.pageIndex})
    BY <1>4, PlainAndTracker DEF ServiceReceivesAck, PlainTypes
  <2>3. a.pageIndex \in Int
    BY Numbers
  <2>4. srv'.acked \in Int /\ srv'.acked >= srv.acked /\ srv'.acked < tracker.AckWatermark
    <3>1. CASE srv'.acked = srv.acked
      BY <1>1, <3>1 DEF Promised
    <3>2. CASE a.context = round /\ srv'.acked = Max({srv.acked, a.pageIndex})
      <4>1. /\ Max({srv.acked, a.pageIndex}) \in {srv.acked, a.pageIndex}
            /\ Max({srv.acked, a.pageIndex}) >= srv.acked
        BY <1>1, <2>3, MaxOfTwo
      <4>2. srv.acked < tracker.AckWatermark /\ a.pageIndex < tracker.AckWatermark
        BY <3>2 DEF Promised
      <4>3. QED
        BY <1>1, <2>3, <3>2, <4>1, <4>2
    <3>3. QED
      BY <2>2, <3>1, <3>2
  <2>5. OneRound' /\ OnPage' /\ ItemsCounted'
    BY <2>1 DEF OneRound, OnPage, ItemsCounted, Places
  <2>6. OnePageAtATime'
    BY <1>1, <2>1, <2>2, <2>4 DEF OnePageAtATime
  <2>7. /\ PagesCounted(work, tracker)' /\ Below(work, tracker)' /\ PagesAhead(tracker)'
        /\ FramesFit(wire, tracker)' /\ AcksDone(work, acks)'
    BY <2>1, <2>2 DEF PagesCounted, Below, PagesAhead, FramesFit, AcksDone, AllHandled
  <2>8. Promised(tracker, acks)'
    BY <2>1, <2>4 DEF Promised
  <2>9. QED
    BY <2>5, <2>6, <2>7, <2>8
<1>5. QED
  BY <1>2, <1>3, <1>4 DEF Service

-----------------------------------------------------------------------------
(* The inductive invariant, and what follows from it.                        *)

\* Without any items the rest says nothing: no page is acknowledged for an item.
IInv == Types /\ (Items # {} => Order /\ Arrived /\ (clean => Tidy))

\* Every step keeps it.
LEMMA StepInvariance ==
  ASSUME IInv, [Next]_vars
  PROVE  IInv'
<1>1. Types /\ Types'
  BY StepTypes DEF IInv
<1>2. SUFFICES ASSUME Items # {}
               PROVE  Order' /\ Arrived' /\ (clean' => Tidy')
  BY <1>1 DEF IInv
<1>3. Order /\ Arrived /\ (clean => Tidy)
  BY <1>2 DEF IInv
<1>4. CASE HandleSync
  BY <1>1, <1>3, <1>4, RoundOrder, RoundArrived, RoundTidy
<1>5. CASE CleanupActiveFileTransfers \/ UNCHANGED vars
  <2>1. UNCHANGED <<round, fileSyncEnd, need, Completed, tracker, wire, acks, work, index, srv,
                    tagged, clean>>
    BY <1>5 DEF CleanupActiveFileTransfers, vars, taskVars, history
  <2>2. Order'
    BY <1>3, <2>1 DEF Order, InOrder, Ahead, Begun, AcksOfRound, NotEnded, PagesSent, Places
  <2>3. Arrived'
    BY <1>3, <2>1 DEF Arrived, Unsent, ItemsSent, PagesCame, TrackerCame, AcksCame, ServiceCame,
                      NoTracker, Places, Came
  <2>4. clean => Tidy'
    BY <1>3, <2>1 DEF Tidy, OneRound, OnPage, ItemsCounted, OnePageAtATime, TrackerFits,
                      PagesCounted, Below, PagesAhead, FramesFit, Promised, AcksDone, AllHandled,
                      Places
  <2>5. QED
    BY <2>1, <2>2, <2>3, <2>4
<1>6. CASE Service
  <2>1. Order'
    BY <1>1, <1>3, <1>6, EndOrder, PageOrder, AckOrder DEF Service, Arrived
  <2>2. Arrived' /\ (clean => Tidy')
    BY <1>1, <1>3, <1>6, ServiceArrived, ServiceTidy
  <2>3. clean' = clean
    BY <1>6 DEF Service, ServiceEndsScan, ServiceSendsPage, ServiceReceivesAck, history
  <2>4. QED
    BY <2>1, <2>2, <2>3
<1>7. CASE Dispatch
  <2>1. Order' /\ Arrived'
    BY <1>1, <1>2, <1>3, <1>7, DispatchOrder, DispatchArrived
  <2>2. clean => Tidy'
    BY <1>1, <1>2, <1>3, <1>7, EndTidy, PageTidy, ItemTidy DEF Dispatch
  <2>3. clean' = clean
    BY <1>7 DEF Dispatch, HandleSyncEnd, HandleSyncPage, DispatchItem, history
  <2>4. QED
    BY <2>1, <2>2, <2>3
<1>8. ASSUME NEW i \in Items, Handler(i) \/ CloseSession(i)
      PROVE  Order' /\ Arrived' /\ (clean' => Tidy')
  <2>1. Order' /\ Arrived' /\ (clean => Tidy')
    BY <1>1, <1>3, <1>8, HandlerOrder, HandlerArrived, HandlerTidy
  <2>2. clean' = clean
    BY <1>1, <1>8, HandlerStep
  <2>3. QED
    BY <2>1, <2>2
<1>9. QED
  BY <1>4, <1>5, <1>6, <1>7, <1>8 DEF Next

\* At first nothing is sent, read, tracked or acknowledged.
LEMMA InitInvariant == Init => IInv
<1> SUFFICES ASSUME Init
             PROVE  IInv
  OBVIOUS
<1>1. Types
  BY InitTypes
<1>2. /\ round = 1 /\ wire = <<>> /\ acks = {} /\ fileSyncEnd = FALSE /\ Completed = 0
      /\ tracker.Context = 0 /\ DOMAIN tracker.Pages = {} /\ tracker.AckWatermark = 0
      /\ srv.acked = -1 /\ srv.sent = 0 /\ srv.paging = FALSE
      /\ \A i \in Items : work[i] = "unsent"
  <2>1. 0 \in 0..MaxRounds
    BY Constants
  <2>2. QED
    BY <2>1, NewTrackerType DEF Init, Requested
<1>3. Places = {} /\ \A p \in PageIndexes : ~(p < 0) /\ ~(p <= -1)
  BY <1>2, Constants DEF Places
<1>4. Order
  BY <1>2, <1>3 DEF Order, InOrder, Ahead, Begun, AcksOfRound, NotEnded, PagesSent
<1>5. Arrived
  BY <1>2, <1>3 DEF Arrived, Unsent, ItemsSent, PagesCame, TrackerCame, AcksCame, ServiceCame,
                    NoTracker
<1>6. Tidy
  <2>1. round \in Rounds
    BY <1>1, PlainAndTracker DEF PlainTypes
  <2>2. ItemsCounted
    <3>1. IsFiniteSet(CountedItems(work, round))
      <4>1. IsFiniteSet(ItemsOfRound(round))
        BY <2>1, Finite
      <4>2. CountedItems(work, round) \subseteq ItemsOfRound(round)
        BY DEF CountedItems
      <4>3. QED
        BY <4>1, <4>2, FS_Subset
    <3>2. Cardinality(CountedItems(work, round)) >= 0
      BY <3>1, FS_CardinalityType
    <3>3. QED
      BY <1>2, <3>2 DEF ItemsCounted
  <2>3. OnPage
    BY <1>2, <2>1, ItemOf DEF OnPage
  <2>4. OneRound /\ OnePageAtATime
    BY <1>2, <1>3 DEF OneRound, OnePageAtATime
  <2>5. TrackerFits(work, tracker, wire) /\ Promised(tracker, acks) /\ AcksDone(work, acks)
    BY <1>2, <1>3 DEF TrackerFits, PagesCounted, Below, PagesAhead, FramesFit, Promised, AcksDone
  <2>6. QED
    BY <2>2, <2>3, <2>4, <2>5 DEF Tidy
<1>7. QED
  BY <1>1, <1>4, <1>5, <1>6 DEF IInv

\* What is acknowledged is handled.
LEMMA InvariantAcked == IInv => AckedPagesDone
<1> SUFFICES ASSUME IInv, clean, NEW c \in Rounds, NEW p \in AckedPages(c), NEW i \in ItemsOf(c, p)
             PROVE  Handled(i)
  BY DEF AckedPagesDone
<1>1. p \in PageIndexes
  BY DEF AckedPages
<1>2. i \in Items /\ i.round = c /\ i.page = p
  BY <1>1, ItemOf
<1>3. Types /\ Order /\ Tidy
  BY <1>2 DEF IInv
<1>4. /\ p \in Nat /\ srv.acked \in Int /\ tracker.AckWatermark \in Nat
      /\ \A a \in acks : a.pageIndex \in Int
  BY <1>1, <1>3, Numbers, Constants
<1>5. AllHandled(work, c, p)
  <2>1. CASE \E a \in acks : a.context = c /\ p <= a.pageIndex
    BY <1>1, <1>3, <2>1 DEF Tidy, AcksDone
  <2>2. CASE c = tracker.Context /\ p < tracker.AckWatermark
    <3>1. c = round
      BY <1>3, <2>2, Constants DEF Tidy, OneRound
    <3>2. QED
      BY <1>1, <1>3, <2>2, <3>1 DEF Tidy, TrackerFits, Below
  <2>3. CASE c = round /\ p <= srv.acked
    <3>1. p < tracker.AckWatermark
      BY <1>3, <1>4, <2>3 DEF Tidy, Promised
    <3>2. QED
      BY <1>1, <1>3, <2>3, <3>1 DEF Tidy, TrackerFits, Below
  <2>4. QED
    BY <2>1, <2>2, <2>3 DEF AckedPages
<1>6. QED
  BY <1>2, <1>5 DEF AllHandled, Handled

\* Items are counted for their page.
LEMMA InvariantPages == IInv => ItemsOnTheirPage
<1> SUFFICES ASSUME IInv, clean, NEW i \in ItemsOfRound(round), work[i] \notin {"unsent", "sent"}
             PROVE  index[i] = i.page
  BY DEF ItemsOnTheirPage
<1>1. i \in Items
  BY PlainAndTracker, ItemOf DEF IInv, PlainTypes
<1>2. QED
  BY <1>1 DEF IInv, Tidy, OnPage

\* When as many are counted as are needed, each is.
LEMMA InvariantComplete == IInv => CompleteMeansHandled
<1> SUFFICES ASSUME IInv, clean, IsSyncComplete, NEW i \in ItemsOfRound(round)
             PROVE  work[i] \in {"ending", "done"} \/ GivenUp(i)
  BY DEF CompleteMeansHandled
<1>1. round \in Rounds /\ Completed \in Nat /\ need \in Nat
  BY PlainAndTracker DEF IInv, PlainTypes
<1>2. i \in Items
  BY <1>1, ItemOf
<1>3. /\ Completed <= Cardinality(CountedItems(work, round))
      /\ need = Cardinality(ItemsOfRound(round)) /\ Completed >= need /\ sessions = {}
  BY <1>2 DEF IInv, Tidy, ItemsCounted, IsSyncComplete
<1>4. CountedItems(work, round) \subseteq ItemsOfRound(round) /\ IsFiniteSet(ItemsOfRound(round))
  BY <1>1, Finite DEF CountedItems
<1>5. /\ Cardinality(CountedItems(work, round)) \in Nat
      /\ Cardinality(CountedItems(work, round)) <= Cardinality(ItemsOfRound(round))
      /\ Cardinality(ItemsOfRound(round)) = Cardinality(CountedItems(work, round))
           => ItemsOfRound(round) = CountedItems(work, round)
  BY <1>4, FS_Subset, FS_CardinalityType
<1>6. ItemsOfRound(round) = CountedItems(work, round)
  BY <1>1, <1>3, <1>5
<1>7. work[i] \in {"asked", "ending", "done"}
  BY <1>6 DEF CountedItems
<1>8. QED
  BY <1>3, <1>7 DEF GivenUp

\* The invariant holds of every behaviour: it says which frames can be on their way,
\* in which order, and how far the counts of the tracker and of the round may go
\* (internal/sync/runtime_helpers.go:600-732).
THEOREM Invariance == Spec => []IInv
<1>1. Init => IInv
  BY InitInvariant
<1>2. IInv /\ [Next]_vars => IInv'
  BY StepInvariance
<1>3. QED
  BY <1>1, <1>2, PTL DEF Spec

\* Every variable keeps to its type: a watermark never passes the last page, and no
\* page counts more items than it has (runtime_helpers.go:688-732).
THEOREM TypeCorrectness == Spec => []TypeOK
<1>1. IInv => TypeOK
  BY DEF IInv, Types
<1>2. QED
  BY <1>1, Invariance, PTL

\* No acknowledgment covers a page with an item that is to come or being handled, in a
\* round before which nothing was left (runtime_helpers.go:696-732).
THEOREM AckedPagesAreDone == Spec => []AckedPagesDone
<1>1. QED
  BY Invariance, InvariantAcked, PTL

\* Each item is counted for the page it came on, with an index or without
\* (dispatcher.go:109-134).
THEOREM ItemsFindTheirPage == Spec => []ItemsOnTheirPage
<1>1. QED
  BY Invariance, InvariantPages, PTL

\* The module is complete only when every item is taken care of or given up
\* (startup.go:482-486).
THEOREM CompleteIsHandled == Spec => []CompleteMeansHandled
<1>1. QED
  BY Invariance, InvariantComplete, PTL

=============================================================================
