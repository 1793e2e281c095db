---------------------------- MODULE WatcherProofs ----------------------------
(***************************************************************************)
(* Proofs about Watcher for every vault, every number of changes, of       *)
(* overflows and of callbacks that run at the same time.                   *)
(***************************************************************************)
EXTENDS Watcher, FiniteSetTheorems, TLAPS

Ops    == {"WRITE", "CREATE", "REMOVE", "RENAME"}
Places == Paths \cup {Root}
Evs    == [op : Ops \cup {"OVERFLOW"}, path : Places]
Timed  == [kind : {"modify", "delete", "rename", "none"}, from : Places, path : Places,
           current : BOOLEAN, at : {"armed", "fired", "over", "check", "recheck", "report"}]
Waiting == {"armed", "fired"}

\* The timers, and what is counted of them.
Records == [timers : SUBSET Timed, pr : Timed, ended : Nat, wg : Int]
Keyed(S) == \A t, u \in S : SameKey(t, u) => t = u
Good(q) == /\ q \in Records /\ IsFiniteSet(q.timers) /\ Keyed(q.timers)
           /\ \A t \in q.timers : t.at \in Waiting /\ t.kind # "none"
Held(t) == IF t.at \in Waiting THEN 1 ELSE 0
Owed(q) == q.ended + Cardinality(q.timers) + Held(q.pr)
Balance(q) == q.wg - Owed(q)

-----------------------------------------------------------------------------
(* What the operations on timers do: each keeps the timers well formed, and *)
(* the wait group counts what it did.                                       *)

\* A timer that is made, and none.
LEMMA TimerFacts ==
  /\ \A k \in {"modify", "delete", "rename"}, a, b \in Places :
       /\ Timer(k, a, b) \in Timed /\ Timer(k, a, b).kind = k /\ Timer(k, a, b).from = a
       /\ Timer(k, a, b).path = b /\ Timer(k, a, b).current /\ Timer(k, a, b).at = "armed"
  /\ NoTimer \in Timed /\ NoTimer.at = "over" /\ NoTimer.kind = "none" /\ NoTimer.path = Root
BY ZenonT(40) DEF Timer, NoTimer, Timed, Places

\* The parts of the record, and its changes.
LEMMA RecordFacts ==
  ASSUME NEW q \in Records
  PROVE  /\ q.timers \subseteq Timed /\ q.pr \in Timed /\ q.ended \in Nat /\ q.wg \in Int
         /\ \A S \in SUBSET Timed : /\ [q EXCEPT !.timers = S] \in Records
                                    /\ [q EXCEPT !.timers = S].timers = S
                                    /\ [q EXCEPT !.timers = S].pr = q.pr
                                    /\ [q EXCEPT !.timers = S].ended = q.ended
                                    /\ [q EXCEPT !.timers = S].wg = q.wg
         /\ \A t \in Timed : /\ [q EXCEPT !.pr = t] \in Records
                             /\ [q EXCEPT !.pr = t].timers = q.timers
                             /\ [q EXCEPT !.pr = t].pr = t
                             /\ [q EXCEPT !.pr = t].ended = q.ended
                             /\ [q EXCEPT !.pr = t].wg = q.wg
BY DEF Records

\* Stop only counts.
LEMMA StopFacts ==
  ASSUME NEW q \in Records, NEW t \in Timed
  PROVE  /\ Stop(q, t) \in Records
         /\ Stop(q, t).timers = q.timers /\ Stop(q, t).pr = q.pr
         /\ Stop(q, t).wg - Stop(q, t).ended = q.wg - q.ended - Held(t)
<1>1. CASE t.at = "armed"
  <2>1. Stop(q, t) = [q EXCEPT !.wg = @ - 1]
    BY <1>1 DEF Stop
  <2>2. QED
    BY <1>1, <2>1 DEF Records, Held, Waiting
<1>2. CASE t.at = "fired"
  <2>1. Stop(q, t) = [q EXCEPT !.ended = @ + 1]
    BY <1>2 DEF Stop
  <2>2. QED
    BY <1>2, <2>1 DEF Records, Held, Waiting
<1>3. CASE t.at \notin Waiting
  <2>1. Stop(q, t) = q
    BY <1>3 DEF Stop, Waiting
  <2>2. QED
    BY <1>3, <2>1 DEF Records, Held
<1>4. QED
  BY <1>1, <1>2, <1>3 DEF Waiting

\* The timers of a key: none, or one.
LEMMA CancelFacts ==
  ASSUME NEW q, Good(q), NEW u
  PROVE  /\ Good(CancelTimer(q, u)) /\ CancelTimer(q, u).pr = q.pr
         /\ CancelTimer(q, u).timers = {t \in q.timers : ~SameKey(t, u)}
         /\ Balance(CancelTimer(q, u)) = Balance(q)
<1> DEFINE old == {t \in q.timers : SameKey(t, u)}
<1>0. q \in Records /\ q.timers \subseteq Timed /\ IsFiniteSet(q.timers)
      /\ q.wg \in Int /\ q.ended \in Nat
  BY RecordFacts DEF Good
<1>1. q.timers \ old = {t \in q.timers : ~SameKey(t, u)}
  OBVIOUS
<1>2. CASE old = {}
  <2>1. CancelTimer(q, u) = q
    BY <1>2 DEF CancelTimer
  <2>2. QED
    BY <1>1, <1>2, <2>1
<1>3. CASE old # {}
  <2> DEFINE t == CHOOSE x \in old : TRUE
             p == [q EXCEPT !.timers = @ \ old]
  <2>1. t \in old /\ t \in q.timers /\ t \in Timed /\ t.at \in Waiting
    BY <1>0, <1>3 DEF Good
  <2>2. CancelTimer(q, u) = Stop(p, t)
    BY <1>3 DEF CancelTimer
  <2>3. old = {t}
    <3>1. \A x, y \in old : SameKey(x, y)
      BY DEF SameKey
    <3>2. QED
      BY <2>1, <3>1 DEF Good, Keyed
  <2> HIDE DEF t
  <2>4. q.timers \ old \in SUBSET Timed
    BY <1>0
  <2> HIDE DEF old
  <2>5. p \in Records /\ p.timers = q.timers \ old /\ p.pr = q.pr
        /\ p.ended = q.ended /\ p.wg = q.wg
    BY <1>0, <2>4, RecordFacts
  <2> HIDE DEF p
  <2>6. /\ IsFiniteSet(p.timers) /\ Cardinality(p.timers) = Cardinality(q.timers) - 1
        /\ Cardinality(q.timers) \in Nat
    BY <1>0, <2>1, <2>3, <2>5, FS_RemoveElement, FS_CardinalityType
  <2>7. /\ Stop(p, t) \in Records /\ Stop(p, t).timers = p.timers /\ Stop(p, t).pr = p.pr
        /\ Stop(p, t).wg - Stop(p, t).ended = p.wg - p.ended - 1
        /\ Stop(p, t).wg \in Int /\ Stop(p, t).ended \in Nat
    <3>1. Held(t) = 1
      BY <2>1 DEF Held
    <3>2. /\ Stop(p, t) \in Records /\ Stop(p, t).timers = p.timers /\ Stop(p, t).pr = p.pr
          /\ Stop(p, t).wg - Stop(p, t).ended = p.wg - p.ended - Held(t)
      BY <2>1, <2>5, StopFacts
    <3>3. QED
      BY <3>1, <3>2, RecordFacts
  <2>8. Balance(Stop(p, t)) = Balance(q)
    <3>1. Held(q.pr) \in Nat
      BY DEF Held
    <3> HIDE DEF Held
    <3>2. QED
      BY <1>0, <2>5, <2>6, <2>7, <3>1 DEF Balance, Owed
  <2>9. Good(Stop(p, t))
    BY <2>5, <2>6, <2>7 DEF Good, Keyed
  <2>10. QED
    BY <1>1, <2>2, <2>5, <2>7, <2>8, <2>9 DEF old
<1>4. QED
  BY <1>2, <1>3

\* A timer is armed in the place of those of its key, unless the watcher is closed.
LEMMA ScheduleFacts ==
  ASSUME NEW q, Good(q), NEW u \in Timed, u.at = "armed", u.kind # "none"
  PROVE  /\ Good(Schedule(q, u)) /\ Schedule(q, u).pr = q.pr
         /\ Schedule(q, u).timers = (IF Closed THEN q.timers
                                     ELSE {t \in q.timers : ~SameKey(t, u)} \cup {u})
         /\ Balance(Schedule(q, u)) = Balance(q)
<1>1. CASE Closed
  BY <1>1 DEF Schedule
<1>2. CASE ~Closed
  <2> DEFINE p == CancelTimer(q, u)
             r == [p EXCEPT !.timers = @ \cup {u}, !.wg = @ + 1]
  <2>1. /\ Good(p) /\ p.pr = q.pr /\ p.timers = {t \in q.timers : ~SameKey(t, u)}
        /\ Balance(p) = Balance(q)
    BY CancelFacts
  <2>2. Schedule(q, u) = r
    BY <1>2 DEF Schedule
  <2> HIDE DEF p
  <2>3. /\ p \in Records /\ p.wg \in Int /\ p.timers \subseteq Timed /\ IsFiniteSet(p.timers)
        /\ p.ended \in Nat
    BY <2>1, RecordFacts DEF Good
  <2>4. r \in Records /\ r.timers = p.timers \cup {u} /\ r.pr = p.pr /\ r.ended = p.ended
        /\ r.wg = p.wg + 1
    <3> DEFINE S == p.timers \cup {u}
               n == p.wg + 1
    <3>1. S \in SUBSET Timed /\ n \in Int
      BY <2>3
    <3> HIDE DEF S, n
    <3>2. r = [p EXCEPT !.timers = S, !.wg = n]
      BY <2>3 DEF Records, S, n, r
    <3>3. r \in Records /\ r.timers = S /\ r.pr = p.pr /\ r.ended = p.ended /\ r.wg = n
      BY <2>3, <3>1, <3>2 DEF Records
    <3>4. QED
      BY <3>3 DEF S, n
  <2> HIDE DEF r
  <2>5. u \notin p.timers
    BY <2>1 DEF SameKey
  <2>6. /\ IsFiniteSet(r.timers) /\ Cardinality(r.timers) = Cardinality(p.timers) + 1
        /\ Cardinality(p.timers) \in Nat
    BY <2>3, <2>4, <2>5, FS_AddElement, FS_CardinalityType
  <2>7. Keyed(r.timers)
    BY <2>1, <2>4 DEF Good, Keyed, SameKey
  <2>8. Good(r)
    BY <2>1, <2>4, <2>6, <2>7 DEF Good, Waiting
  <2>9. Balance(r) = Balance(p)
    <3>1. Held(p.pr) \in Nat
      BY DEF Held
    <3> HIDE DEF Held
    <3>2. QED
      BY <2>3, <2>4, <2>6, <3>1 DEF Balance, Owed
  <2>10. QED
    BY <1>2, <2>1, <2>2, <2>4, <2>8, <2>9
<1>3. QED
  BY <1>1, <1>2

\* The held-back RENAME is given up.
LEMMA CancelHeldFacts ==
  ASSUME NEW q, Good(q)
  PROVE  /\ Good(CancelPendingRename(q)) /\ CancelPendingRename(q).pr = NoTimer
         /\ CancelPendingRename(q).timers = q.timers
         /\ Balance(CancelPendingRename(q)) = Balance(q)
<1> DEFINE p == [q EXCEPT !.pr = NoTimer]
<1>1. /\ q \in Records /\ q.pr \in Timed /\ q.wg \in Int /\ q.ended \in Nat
      /\ Cardinality(q.timers) \in Nat
  BY RecordFacts, FS_CardinalityType DEF Good
<1>2. p \in Records /\ p.timers = q.timers /\ p.pr = NoTimer /\ p.ended = q.ended /\ p.wg = q.wg
  BY <1>1, RecordFacts, TimerFacts
<1> HIDE DEF p
<1>3. /\ Stop(p, q.pr) \in Records /\ Stop(p, q.pr).timers = p.timers
      /\ Stop(p, q.pr).pr = p.pr
      /\ Stop(p, q.pr).wg - Stop(p, q.pr).ended = p.wg - p.ended - Held(q.pr)
  BY <1>1, <1>2, StopFacts
<1>4. CancelPendingRename(q) = Stop(p, q.pr)
  BY DEF CancelPendingRename, p
<1>5. Held(NoTimer) = 0 /\ Held(q.pr) \in Nat
  BY TimerFacts DEF Held, Waiting
<1>6. Stop(p, q.pr).wg \in Int /\ Stop(p, q.pr).ended \in Nat
  BY <1>3, RecordFacts
<1> HIDE DEF Held
<1>7. Balance(Stop(p, q.pr)) = Balance(q)
  BY <1>1, <1>2, <1>3, <1>5, <1>6 DEF Balance, Owed
<1>8. Good(Stop(p, q.pr))
  BY <1>2, <1>3 DEF Good
<1>9. QED
  BY <1>2, <1>3, <1>4, <1>7, <1>8

\* Outdating a timer changes nothing else of it.
LEMMA OutdateFacts ==
  ASSUME NEW t \in Timed, NEW ps
  PROVE  /\ Outdate(t, ps) \in Timed /\ Outdate(t, ps).kind = t.kind
         /\ Outdate(t, ps).from = t.from /\ Outdate(t, ps).path = t.path
         /\ Outdate(t, ps).at = t.at
BY DEF Outdate, Timed

\* Only deletions of the paths in ps are outdated.
LEMMA OutdateSame ==
  ASSUME NEW t, NEW ps, ~(t.kind = "delete" /\ t.path \in ps)
  PROVE  Outdate(t, ps) = t
BY DEF Outdate

\* Deletions of the paths in ps are no longer current.
LEMMA NextGenFacts ==
  ASSUME NEW q, Good(q), NEW ps
  PROVE  /\ Good(NextGen(q, ps)) /\ NextGen(q, ps).pr = Outdate(q.pr, ps)
         /\ NextGen(q, ps).timers = {Outdate(t, ps) : t \in q.timers}
         /\ Balance(NextGen(q, ps)) = Balance(q)
<1> DEFINE S == {Outdate(t, ps) : t \in q.timers}
           o == Outdate(q.pr, ps)
           r == [q EXCEPT !.timers = {Outdate(t, ps) : t \in @}, !.pr = Outdate(@, ps)]
<1>1. /\ q \in Records /\ q.timers \subseteq Timed /\ IsFiniteSet(q.timers) /\ q.pr \in Timed
      /\ q.wg \in Int /\ q.ended \in Nat
  BY RecordFacts DEF Good
<1>2. \A t \in q.timers : /\ Outdate(t, ps) \in Timed /\ Outdate(t, ps).at = t.at
                          /\ Outdate(t, ps).kind = t.kind
  BY <1>1, OutdateFacts
<1>3. S \in SUBSET Timed
  BY <1>2
<1>4. o \in Timed /\ o.at = q.pr.at
  BY <1>1, OutdateFacts
<1>5. r \in Records /\ r.timers = S /\ r.pr = o /\ r.ended = q.ended /\ r.wg = q.wg
  <2> HIDE DEF S, o
  <2>1. r = [q EXCEPT !.timers = S, !.pr = o]
    BY <1>1 DEF S, o, Records
  <2> HIDE DEF r
  <2>2. QED
    BY <1>1, <1>3, <1>4, <2>1 DEF Records
<1>6. \A t, u \in q.timers : SameKey(Outdate(t, ps), Outdate(u, ps)) => t = u
  <2> SUFFICES ASSUME NEW t \in q.timers, NEW u \in q.timers,
                      SameKey(Outdate(t, ps), Outdate(u, ps))
               PROVE  t = u
    OBVIOUS
  <2>1. /\ Outdate(t, ps).kind = t.kind /\ Outdate(t, ps).from = t.from
        /\ Outdate(t, ps).path = t.path
        /\ Outdate(u, ps).kind = u.kind /\ Outdate(u, ps).from = u.from
        /\ Outdate(u, ps).path = u.path
    BY <1>1, OutdateFacts
  <2>2. SameKey(t, u)
    BY <2>1 DEF SameKey
  <2>3. QED
    BY <2>2 DEF Good, Keyed
<1>7. Keyed(S)
  BY <1>6 DEF Keyed
<1>8. IsFiniteSet(S) /\ Cardinality(S) = Cardinality(q.timers)
  <2> DEFINE f == [t \in q.timers |-> Outdate(t, ps)]
  <2>1. f \in Surjection(q.timers, S)
    BY DEF Surjection
  <2>2. f \in Injection(q.timers, S)
    <3>1. \A t, u \in q.timers : f[t] = f[u] => t = u
      BY <1>6 DEF SameKey
    <3>2. QED
      BY <3>1 DEF Injection, IsInjective
  <2> HIDE DEF f, S
  <2>3. QED
    BY <1>1, <2>1, <2>2, FS_Surjection
<1>9. \A t \in S : t.at \in Waiting /\ t.kind # "none"
  BY <1>2 DEF Good
<1>10. NextGen(q, ps) = r
  BY DEF NextGen
<1> HIDE DEF r, S, o
<1>11. Good(r)
  BY <1>5, <1>7, <1>8, <1>9 DEF Good
<1>12. Balance(r) = Balance(q)
  <2>1. Held(o) = Held(q.pr)
    BY <1>4 DEF Held
  <2>2. QED
    BY <1>5, <1>8, <2>1 DEF Balance, Owed
<1>13. QED
  BY <1>5, <1>10, <1>11, <1>12 DEF S, o

-----------------------------------------------------------------------------
(* The types, and what the handlers of the loop do to the timers.           *)

VaultTypes ==
  /\ disk \subseteq Paths /\ kernel \subseteq Dirs \cup {Root}
  /\ watchedDirs \subseteq Dirs \cup {Root}
  /\ events \in Seq(Evs) /\ overflows \in Nat
  /\ dirty \subseteq Paths \ Staging /\ missed \subseteq dirty
CallTypes ==
  /\ calls \in [Running -> Timed]
  /\ \A i \in Running : \/ calls[i] = NoTimer
                        \/ calls[i].at = "report" /\ calls[i].kind # "none"
                        \/ calls[i].at \in {"check", "recheck"} /\ calls[i].kind = "delete"
HeldTypes ==
  \/ pendingRename = NoTimer
  \/ /\ pendingRename.kind = "delete" /\ pendingRename.from = Root
     /\ pendingRename.at \in Waiting \cup {"over"}
ProcessTypes ==
  /\ Good(Now) /\ CallTypes /\ HeldTypes
  /\ loop \in {"run", "done"} /\ close \in {"open", "closing", "closed"}
Types == VaultTypes /\ ProcessTypes

\* While the watcher is open, a RENAME that is held back is about the latest event of its
\* path, and so no other timer of that path is.
HeldBack == ~Closed =>
  /\ \A t \in timers : t.kind # "rename" => t.from = Root
  /\ pendingRename # NoTimer =>
       /\ pendingRename.current /\ pendingRename.at \in Waiting
       /\ \A t \in timers : t.path = pendingRename.path =>
            t.kind # "modify" /\ (t.kind = "delete" => ~t.current)

\* The callbacks that run, and the loop, are what the wait group counts beside the timers.
Active    == {i \in Running : calls[i].at # "over"}
LoopCount == IF loop = "run" THEN 1 ELSE 0
Counted   == Balance(Now) = LoopCount + Cardinality(Active)

\* The timers as one value, before and after a step.
LEMMA NowFacts ==
  /\ Now.timers = timers /\ Now.pr = pendingRename /\ Now.ended = ended /\ Now.wg = wg
  /\ Now'.timers = timers' /\ Now'.pr = pendingRename' /\ Now'.ended = ended' /\ Now'.wg = wg'
BY DEF Now

\* After a step whose timers are those of q, Now is q.
LEMMA BecomeFacts ==
  ASSUME NEW q \in Records, timers' = q.timers, pendingRename' = q.pr, ended' = q.ended,
         wg' = q.wg
  PROVE  Now' = q
BY DEF Now, Records

\* u stands for t.
Like(t, u) == SameKey(t, u) /\ (t.kind = "delete" /\ t.current => u.current)

\* What the handler of an event of the paths in ps does to the timers, where new are those it
\* arms: no other timer is lost, none becomes current, and no modify of ps stays but new.
Handled(ps, new) ==
  /\ Good(Now)' /\ Balance(Now)' = Balance(Now)
  /\ ~Closed =>
       /\ \A t \in timers : (t.kind # "rename" /\ t.path \in ps) \/ \E u \in timers' : Like(t, u)
       /\ new \subseteq timers'
       /\ \A u \in timers' :
            u \in new \/ \E t \in timers : SameKey(t, u) /\ (u.current => t.current)

\* A handler cancels timers of the paths in ps, outdates the deletions of ps, and arms u.
LEMMA Rearm ==
  ASSUME Good(Now), NEW c, Good(c), c.timers \subseteq timers, NEW ps,
         \A t \in timers : t \in c.timers \/ (t.kind # "rename" /\ t.path \in ps),
         NEW u \in Timed, u.at = "armed", u.current, u.kind # "none",
         u.kind = "rename" \/ u.path \in ps,
         Balance(c) = Balance(Now), Become(Schedule(NextGen(c, ps), u))
  PROVE  Handled(ps, {u}) /\ pendingRename' = Outdate(c.pr, ps)
<1> DEFINE n == NextGen(c, ps)
           r == Schedule(n, u)
<1>1. /\ Good(n) /\ n.timers = {Outdate(t, ps) : t \in c.timers} /\ n.pr = Outdate(c.pr, ps)
      /\ Balance(n) = Balance(Now)
  BY NextGenFacts
<1> HIDE DEF n
<1>2. /\ Good(r) /\ r.pr = n.pr /\ Balance(r) = Balance(Now)
      /\ ~Closed => r.timers = {t \in n.timers : ~SameKey(t, u)} \cup {u}
  BY <1>1, ScheduleFacts
<1>3. timers' = r.timers /\ pendingRename' = r.pr /\ Now' = r
  <2>1. timers' = r.timers /\ pendingRename' = r.pr /\ ended' = r.ended /\ wg' = r.wg
    BY DEF Become, n
  <2>2. r \in Records
    BY <1>2 DEF Good
  <2> HIDE DEF r
  <2>3. QED
    BY <2>1, <2>2, BecomeFacts
<1> HIDE DEF r
<1>4. timers \subseteq Timed
  BY NowFacts DEF Good, Records
<1>5. ASSUME ~Closed, NEW t \in timers, t.kind = "rename" \/ t.path \notin ps
      PROVE  \E x \in timers' : Like(t, x)
  <2>1. t \in Timed /\ t \in c.timers
    BY <1>4, <1>5
  <2>2. Outdate(t, ps) = t
    BY <1>5, OutdateSame
  <2>3. t \in n.timers
    BY <1>1, <2>1, <2>2
  <2>4. CASE ~SameKey(t, u)
    BY <1>2, <1>3, <1>5, <2>3, <2>4 DEF Like, SameKey
  <2>5. CASE SameKey(t, u) /\ t.kind = "rename"
    BY <1>2, <1>3, <1>5, <2>5 DEF Like
  <2>6. CASE SameKey(t, u) /\ t.kind # "rename"
    BY <1>5, <2>6 DEF SameKey
  <2>7. QED
    BY <2>4, <2>5, <2>6
<1>6. ASSUME ~Closed, NEW x \in timers', x # u
      PROVE  \E t \in timers : SameKey(t, x) /\ (x.current => t.current)
  <2>1. PICK t \in c.timers : x = Outdate(t, ps)
    BY <1>1, <1>2, <1>3, <1>6
  <2>2. t \in timers /\ t \in Timed
    BY <1>4, <2>1
  <2>3. SameKey(t, x)
    BY <2>1, <2>2, OutdateFacts DEF SameKey
  <2>4. x.current => t.current
    <3>1. CASE t.kind = "delete" /\ t.path \in ps
      <4>1. x = [t EXCEPT !.current = FALSE]
        BY <2>1, <3>1 DEF Outdate
      <4>2. QED
        BY <2>2, <4>1 DEF Timed
    <3>2. CASE ~(t.kind = "delete" /\ t.path \in ps)
      BY <2>1, <3>2, OutdateSame
    <3>3. QED
      BY <3>1, <3>2
  <2>5. QED
    BY <2>2, <2>3, <2>4
<1>7. ~Closed => u \in timers'
  BY <1>2, <1>3
<1>8. Handled(ps, {u})
  BY <1>2, <1>3, <1>5, <1>6, <1>7 DEF Handled
<1>9. QED
  BY <1>1, <1>2, <1>3, <1>8

\* The first event of the queue.
LEMMA FirstEvent ==
  ASSUME Types, NEW op, Event(op), op \in Ops \cup {"OVERFLOW"}
  PROVE  /\ events # <<>> /\ Head(events) \in Evs /\ Head(events) = events[1]
         /\ Head(events).op = op /\ Head(events).path \in Places /\ events' = Tail(events)
         /\ Head(events).path \notin Staging /\ loop = "run"
<1>1. events \in Seq(Evs) /\ events # <<>> /\ Head(events).op = op /\ events' = Tail(events)
      /\ Head(events).path \notin Staging /\ loop = "run"
  BY DEF Types, VaultTypes, Event, NextEvent
<1>2. Head(events) \in Evs /\ Head(events) = events[1]
  BY <1>1
<1>3. QED
  BY <1>1, <1>2 DEF Evs

\* A deletion and a write of p: timers of the other kind are cancelled, and a RENAME of p that
\* is held back.
LEMMA RearmOne ==
  ASSUME Types, NEW p \in Places, NEW k \in {"modify", "delete"}, NEW j \in {"modify", "delete"},
         Become(Schedule(NextGen(IF pendingRename.path = p
                                   THEN CancelPendingRename(CancelTimer(Now, Timer(k, Root, p)))
                                   ELSE CancelTimer(Now, Timer(k, Root, p)), {p}),
                         Timer(j, Root, p)))
  PROVE  /\ Handled({p}, {Timer(j, Root, p)})
         /\ pendingRename' = (IF pendingRename.path = p THEN NoTimer ELSE pendingRename)
<1> DEFINE a == Timer(k, Root, p)
           u == Timer(j, Root, p)
           q1 == CancelTimer(Now, a)
           c == IF pendingRename.path = p THEN CancelPendingRename(q1) ELSE q1
<1>0. Good(Now) /\ Now.timers = timers /\ Now.pr = pendingRename /\ Root \in Places
      /\ pendingRename \in Timed
  BY NowFacts DEF Types, ProcessTypes, Places, Good, Records
<1>1. /\ a.kind = k /\ a.path = p /\ u \in Timed /\ u.kind = j /\ u.path = p /\ u.current
      /\ u.at = "armed"
  BY <1>0, TimerFacts
<1>2. Become(Schedule(NextGen(c, {p}), u))
  OBVIOUS
<1> HIDE DEF a, u
<1>3. /\ Good(q1) /\ q1.pr = pendingRename /\ q1.timers = {t \in timers : ~SameKey(t, a)}
      /\ Balance(q1) = Balance(Now)
  BY <1>0, CancelFacts
<1> HIDE DEF q1
<1>4. /\ Good(c) /\ c.timers = {t \in timers : ~SameKey(t, a)} /\ Balance(c) = Balance(Now)
      /\ c.pr = (IF pendingRename.path = p THEN NoTimer ELSE pendingRename)
  BY <1>3, CancelHeldFacts
<1> HIDE DEF c
<1>5. \A t \in timers : t \in c.timers \/ (t.kind # "rename" /\ t.path \in {p})
  BY <1>1, <1>4 DEF SameKey
<1>6. Handled({p}, {u}) /\ pendingRename' = Outdate(c.pr, {p})
  BY <1>0, <1>1, <1>2, <1>4, <1>5, Rearm
<1>7. Outdate(c.pr, {p}) = c.pr
  BY <1>4, TimerFacts, OutdateSame
<1>8. QED
  BY <1>4, <1>6, <1>7 DEF u

\* A deletion of p, and a write.
LEMMA RearmFacts ==
  ASSUME Types, NEW p, p = Head(events).path
  PROVE  /\ HandleRemove \/ HandleWrite =>
              /\ NextGenOfCalls({p})
              /\ pendingRename' = (IF pendingRename.path = p THEN NoTimer ELSE pendingRename)
         /\ HandleRemove => Handled({p}, {Timer("delete", Root, p)})
         /\ HandleWrite => Handled({p}, {Timer("modify", Root, p)})
<1>1. ASSUME HandleRemove
      PROVE  /\ NextGenOfCalls({p}) /\ Handled({p}, {Timer("delete", Root, p)})
             /\ pendingRename' = (IF pendingRename.path = p THEN NoTimer ELSE pendingRename)
  <2>1. p \in Places
    BY <1>1, FirstEvent DEF HandleRemove, Ops
  <2>2. /\ NextGenOfCalls({p})
        /\ Become(Schedule(NextGen(IF pendingRename.path = p
             THEN CancelPendingRename(CancelTimer(Now, Timer("modify", Root, p)))
             ELSE CancelTimer(Now, Timer("modify", Root, p)), {p}), Timer("delete", Root, p)))
    BY <1>1 DEF HandleRemove
  <2>3. QED
    BY <2>1, <2>2, RearmOne
<1>2. ASSUME HandleWrite
      PROVE  /\ NextGenOfCalls({p}) /\ Handled({p}, {Timer("modify", Root, p)})
             /\ pendingRename' = (IF pendingRename.path = p THEN NoTimer ELSE pendingRename)
  <2>1. p \in Places
    BY <1>2, FirstEvent DEF HandleWrite, Ops
  <2>2. /\ NextGenOfCalls({p})
        /\ Become(Schedule(NextGen(IF pendingRename.path = p
             THEN CancelPendingRename(CancelTimer(Now, Timer("delete", Root, p)))
             ELSE CancelTimer(Now, Timer("delete", Root, p)), {p}), Timer("modify", Root, p)))
    BY <1>2 DEF HandleWrite
  <2>3. QED
    BY <2>1, <2>2, RearmOne
<1>3. QED
  BY <1>1, <1>2

\* A CREATE of p, alone or with the RENAME that was held back.
LEMMA CreateFacts ==
  ASSUME Types, HandleCreate, NEW p, p = Head(events).path
  PROVE  LET old == pendingRename.path IN
         /\ pendingRename' = NoTimer
         /\ \/ /\ pendingRename # NoTimer /\ old # p
               /\ Handled({old, p}, {Timer("rename", old, p)}) /\ NextGenOfCalls({old, p})
            \/ /\ pendingRename = NoTimer \/ old = p
               /\ Handled({p}, {Timer("modify", Root, p)}) /\ NextGenOfCalls({p})
<1> DEFINE old  == pendingRename.path
           pair == pendingRename # NoTimer /\ old # p
           a == Timer("delete", Root, p)
           b == Timer("modify", Root, old)
           u == Timer("rename", old, p)
           v == Timer("modify", Root, p)
           q0 == CancelTimer(Now, a)
           q == CancelPendingRename(q0)
           both == CancelTimer(q, b)
<1>0. /\ Good(Now) /\ Now.timers = timers /\ Now.pr = pendingRename /\ Root \in Places
      /\ pendingRename \in Timed /\ p \in Places /\ old \in Places
  <2>1. p \in Places
    BY FirstEvent DEF HandleCreate, Ops
  <2>2. pendingRename \in Timed
    BY NowFacts DEF Types, ProcessTypes, Good, Records
  <2>3. QED
    BY <2>1, <2>2, NowFacts DEF Types, ProcessTypes, Places, Timed
<1>1. /\ a.kind = "delete" /\ a.path = p /\ b.kind = "modify" /\ b.path = old
      /\ u \in Timed /\ u.kind = "rename" /\ u.path = p /\ u.current /\ u.at = "armed"
      /\ v \in Timed /\ v.kind = "modify" /\ v.path = p /\ v.current /\ v.at = "armed"
  BY <1>0, TimerFacts
<1>2. IF pair THEN /\ Become(Schedule(NextGen(both, {old, p}), u))
                   /\ NextGenOfCalls({old, p})
      ELSE Become(Schedule(NextGen(q, {p}), v)) /\ NextGenOfCalls({p})
  BY DEF HandleCreate
<1> HIDE DEF a, b, u, v
<1>3. /\ Good(q0) /\ q0.timers = {t \in timers : ~SameKey(t, a)} /\ Balance(q0) = Balance(Now)
  BY <1>0, CancelFacts
<1> HIDE DEF q0
<1>4. /\ Good(q) /\ q.timers = {t \in timers : ~SameKey(t, a)} /\ Balance(q) = Balance(Now)
      /\ q.pr = NoTimer
  BY <1>3, CancelHeldFacts
<1> HIDE DEF q
<1>5. /\ Good(both) /\ both.timers = {t \in q.timers : ~SameKey(t, b)}
      /\ Balance(both) = Balance(Now) /\ both.pr = NoTimer
  BY <1>4, CancelFacts
<1> HIDE DEF both
<1>6. \A ps : Outdate(NoTimer, ps) = NoTimer
  BY TimerFacts, OutdateSame
<1>7. CASE pair
  <2>1. both.timers \subseteq timers
        /\ \A t \in timers : t \in both.timers \/ (t.kind # "rename" /\ t.path \in {old, p})
    BY <1>1, <1>4, <1>5 DEF SameKey
  <2>2. Become(Schedule(NextGen(both, {old, p}), u)) /\ NextGenOfCalls({old, p})
    BY <1>2, <1>7
  <2>3. Handled({old, p}, {u}) /\ pendingRename' = Outdate(both.pr, {old, p})
    BY <1>0, <1>1, <1>5, <2>1, <2>2, Rearm
  <2>4. QED
    BY <1>5, <1>6, <1>7, <2>2, <2>3 DEF u
<1>8. CASE ~pair
  <2>1. q.timers \subseteq timers
        /\ \A t \in timers : t \in q.timers \/ (t.kind # "rename" /\ t.path \in {p})
    BY <1>1, <1>4 DEF SameKey
  <2>2. Become(Schedule(NextGen(q, {p}), v)) /\ NextGenOfCalls({p})
    BY <1>2, <1>8
  <2>3. Handled({p}, {v}) /\ pendingRename' = Outdate(q.pr, {p})
    BY <1>0, <1>1, <1>4, <2>1, <2>2, Rearm
  <2>4. QED
    BY <1>4, <1>6, <1>8, <2>2, <2>3 DEF v
<1>9. QED
  BY <1>7, <1>8

\* A RENAME of p: the one that was held back becomes a deletion, and that of p is held back.
LEMMA RenameAwayFacts ==
  ASSUME Types, HeldBack, HandleRenameAway, NEW p, p = Head(events).path
  PROVE  /\ pendingRename' = Timer("delete", Root, p) /\ NextGenOfCalls({p})
         /\ Handled({p}, IF pendingRename = NoTimer THEN {}
                         ELSE {Outdate([pendingRename EXCEPT !.at = "armed"], {p})})
         /\ ~Closed => \A u \in timers' :
              u.path = p => u.kind # "modify" /\ (u.kind = "delete" => ~u.current)
<1> DEFINE h  == pendingRename
           g  == [h EXCEPT !.at = "armed"]
           d  == Timer("delete", Root, p)
           m  == Timer("modify", Root, p)
           q0 == CancelPendingRename(Now)
           q1 == IF h = NoTimer THEN Now ELSE Schedule(q0, g)
           c  == CancelTimer(q1, m)
           n  == NextGen(c, {p})
           r  == [n EXCEPT !.pr = d, !.wg = @ + 1]
           new == IF h = NoTimer THEN {} ELSE {Outdate(g, {p})}
<1>0. /\ Good(Now) /\ Now.timers = timers /\ Now.pr = h /\ h \in Timed
      /\ timers \subseteq Timed /\ p \in Places /\ Root \in Places
  <2>1. p \in Places
    BY FirstEvent DEF HandleRenameAway, Ops
  <2>2. QED
    BY <2>1, NowFacts DEF Types, ProcessTypes, Good, Records, Places
<1>1. Become(r) /\ NextGenOfCalls({p})
  BY DEF HandleRenameAway
<1>2. /\ d \in Timed /\ d.at = "armed" /\ d.kind = "delete"
      /\ m.kind = "modify" /\ m.from = Root /\ m.path = p
  BY <1>0, TimerFacts
<1>3. h # NoTimer => /\ g \in Timed /\ g.kind = "delete" /\ g.from = Root /\ g.path = h.path
                     /\ g.current = h.current /\ g.at = "armed"
  BY <1>0 DEF Types, ProcessTypes, HeldTypes, Timed
<1> HIDE DEF d, m, g
<1>4. Good(q0) /\ q0.pr = NoTimer /\ q0.timers = timers /\ Balance(q0) = Balance(Now)
  BY <1>0, CancelHeldFacts
<1> HIDE DEF q0
<1>5. /\ Good(q1) /\ q1.pr = NoTimer /\ Balance(q1) = Balance(Now)
      /\ q1.timers = (IF h = NoTimer \/ Closed THEN timers
                      ELSE {t \in timers : ~SameKey(t, g)} \cup {g})
  BY <1>0, <1>3, <1>4, ScheduleFacts
<1> HIDE DEF q1
<1>6. /\ Good(c) /\ c.pr = NoTimer /\ Balance(c) = Balance(Now)
      /\ c.timers = {t \in q1.timers : ~SameKey(t, m)}
  BY <1>5, CancelFacts
<1> HIDE DEF c
<1>7. /\ Good(n) /\ n.pr = NoTimer /\ Balance(n) = Balance(Now)
      /\ n.timers = {Outdate(t, {p}) : t \in c.timers}
  <2>1. Outdate(NoTimer, {p}) = NoTimer
    BY TimerFacts, OutdateSame
  <2>2. /\ Good(n) /\ n.pr = Outdate(c.pr, {p}) /\ Balance(n) = Balance(c)
        /\ n.timers = {Outdate(t, {p}) : t \in c.timers}
    BY <1>6, NextGenFacts
  <2>3. QED
    BY <1>6, <2>1, <2>2
<1> HIDE DEF n
<1>8. /\ r \in Records /\ r.timers = n.timers /\ r.pr = d /\ r.ended = n.ended
      /\ r.wg = n.wg + 1 /\ n.wg \in Int /\ n.ended \in Nat /\ Cardinality(n.timers) \in Nat
  <2>1. /\ n \in Records /\ n.timers \subseteq Timed /\ n.ended \in Nat /\ n.wg \in Int
        /\ Cardinality(n.timers) \in Nat
    BY <1>7, RecordFacts, FS_CardinalityType DEF Good
  <2> DEFINE k == n.wg + 1
  <2>2. k \in Int
    BY <2>1
  <2> HIDE DEF k
  <2>3. r = [n EXCEPT !.pr = d, !.wg = k]
    BY <2>1 DEF Records, k
  <2>4. r \in Records /\ r.timers = n.timers /\ r.pr = d /\ r.ended = n.ended /\ r.wg = k
    BY <1>2, <2>1, <2>2, <2>3 DEF Records
  <2>5. QED
    BY <2>1, <2>4 DEF k
<1> HIDE DEF r
<1>9. Good(r) /\ Balance(r) = Balance(Now)
  <2>1. Held(NoTimer) = 0 /\ Held(d) = 1
    BY <1>2, TimerFacts DEF Held, Waiting
  <2> HIDE DEF Held
  <2>2. Balance(r) = Balance(n)
    BY <1>7, <1>8, <2>1 DEF Balance, Owed
  <2>3. QED
    BY <1>7, <1>8, <2>2 DEF Good
<1>10. timers' = n.timers /\ pendingRename' = d /\ Now' = r
  BY <1>1, <1>8, BecomeFacts DEF Become
<1>11. q1.timers \subseteq Timed /\ c.timers \subseteq q1.timers
  BY <1>5, <1>6 DEF Good, Records
<1>12. ASSUME ~Closed, NEW t \in timers, t.kind = "rename" \/ t.path # p
       PROVE  \E u \in timers' : Like(t, u)
  <2>1. PICK x \in q1.timers : Like(t, x)
    <3>1. CASE h # NoTimer /\ SameKey(t, g)
      <4>1. g \in q1.timers /\ g.current
        BY <1>3, <1>5, <1>12, <3>1 DEF HeldBack
      <4>2. QED
        BY <3>1, <4>1 DEF Like
    <3>2. CASE h = NoTimer \/ ~SameKey(t, g)
      <4>1. t \in q1.timers
        BY <1>5, <1>12, <3>2
      <4>2. QED
        BY <4>1 DEF Like, SameKey
    <3>3. QED
      BY <3>1, <3>2
  <2>2. (x.kind = "rename" \/ x.path # p) /\ ~SameKey(x, m)
    BY <1>2, <1>12, <2>1 DEF Like, SameKey
  <2>3. x \in c.timers /\ Outdate(x, {p}) = x
    BY <1>6, <2>1, <2>2, OutdateSame
  <2>4. QED
    BY <1>7, <1>10, <2>1, <2>3
<1>13. ASSUME ~Closed, h # NoTimer
       PROVE  Outdate(g, {p}) \in timers'
  <2>1. g \in c.timers
    BY <1>2, <1>3, <1>5, <1>6, <1>13 DEF SameKey
  <2>2. QED
    BY <1>7, <1>10, <2>1
<1>14. ASSUME ~Closed, NEW u \in timers'
       PROVE  u \in new \/ \E t \in timers : SameKey(t, u) /\ (u.current => t.current)
  <2>1. PICK t \in c.timers : u = Outdate(t, {p})
    BY <1>7, <1>10, <1>14
  <2>2. t \in timers \/ (h # NoTimer /\ t = g)
    BY <1>5, <1>11, <1>14, <2>1
  <2>3. t \in Timed
    BY <1>11, <2>1
  <2>4. SameKey(t, u)
    BY <2>1, <2>3, OutdateFacts DEF SameKey
  <2>5. u.current => t.current
    <3>1. CASE t.kind = "delete" /\ t.path \in {p}
      <4>1. u = [t EXCEPT !.current = FALSE]
        BY <2>1, <3>1 DEF Outdate
      <4>2. QED
        BY <2>3, <4>1 DEF Timed
    <3>2. CASE ~(t.kind = "delete" /\ t.path \in {p})
      BY <2>1, <3>2, OutdateSame
    <3>3. QED
      BY <3>1, <3>2
  <2>6. QED
    BY <2>1, <2>2, <2>4, <2>5
<1>15. ASSUME ~Closed, NEW u \in timers', u.path = p
       PROVE  u.kind # "modify" /\ (u.kind = "delete" => ~u.current)
  <2>1. PICK t \in c.timers : u = Outdate(t, {p})
    BY <1>7, <1>10, <1>15
  <2>2. t \in Timed /\ ~SameKey(t, m) /\ (t.kind = "modify" => t \in timers)
    BY <1>3, <1>5, <1>6, <1>11, <2>1
  <2>3. u.kind = t.kind /\ u.path = t.path /\ u.from = t.from
    BY <2>1, <2>2, OutdateFacts
  <2>4. u.kind # "modify"
    BY <1>2, <1>15, <2>2, <2>3 DEF SameKey, HeldBack
  <2>5. CASE u.kind = "delete"
    <3>1. u = [t EXCEPT !.current = FALSE]
      BY <1>15, <2>1, <2>3, <2>5 DEF Outdate
    <3>2. ~u.current
      BY <2>2, <3>1 DEF Timed
    <3>3. QED
      BY <2>4, <3>2
  <2>6. QED
    BY <2>4, <2>5
<1>16. Handled({p}, new)
  BY <1>9, <1>10, <1>12, <1>13, <1>14 DEF Handled
<1>17. QED
  BY <1>1, <1>10, <1>15, <1>16 DEF d, g

-----------------------------------------------------------------------------
(* The wait group: it counts the loop, every timer that has not run, every *)
(* goroutine that is about to leave and every callback that runs.          *)

\* Nothing is left to run when Close has returned.
ClosedIdle == close = "closed" => wg = 0
Process    == ProcessTypes /\ Counted /\ HeldBack /\ ClosedIdle

\* What the wait group is the sum of.
LEMMA WgFacts ==
  ASSUME ProcessTypes, Counted
  PROVE  /\ wg = LoopCount + Cardinality(Active) + ended + Cardinality(timers) + Held(pendingRename)
         /\ Cardinality(Active) \in Nat /\ IsFiniteSet(Active) /\ ended \in Nat
         /\ Cardinality(timers) \in Nat /\ IsFiniteSet(timers) /\ LoopCount \in {0, 1}
         /\ Held(pendingRename) \in {0, 1} /\ wg \in Nat
         /\ timers \subseteq Timed /\ pendingRename \in Timed
         /\ \A t \in timers : t.at \in Waiting /\ t.kind # "none"
<1>1. MaxCallbacks \in Nat /\ IsFiniteSet(Running)
  BY WatcherAssumption, FS_Interval DEF Running
<1>2. IsFiniteSet(Active) /\ Cardinality(Active) \in Nat
  BY <1>1, FS_Subset, FS_CardinalityType DEF Active
<1>3. /\ Good(Now) /\ Now.timers = timers /\ Now.pr = pendingRename /\ Now.ended = ended
      /\ Now.wg = wg
  BY NowFacts DEF ProcessTypes
<1>4. /\ IsFiniteSet(timers) /\ Cardinality(timers) \in Nat /\ ended \in Nat /\ wg \in Int
      /\ timers \subseteq Timed /\ pendingRename \in Timed
      /\ \A t \in timers : t.at \in Waiting /\ t.kind # "none"
  BY <1>3, FS_CardinalityType DEF Good, Records
<1>5. LoopCount \in {0, 1} /\ Held(pendingRename) \in {0, 1}
  BY DEF LoopCount, Held
<1>6. wg - (ended + Cardinality(timers) + Held(pendingRename)) = LoopCount + Cardinality(Active)
  BY <1>3 DEF Counted, Balance, Owed
<1> HIDE DEF Active, LoopCount, Held
<1>7. QED
  BY <1>2, <1>4, <1>5, <1>6

\* A handler of an event keeps all of it.
LEMMA HandlerKeeps ==
  ASSUME Process, NEW ps, NEW new, Handled(ps, new), NextGenOfCalls(ps), loop = "run",
         UNCHANGED <<loop, close>>, HeldTypes'
  PROVE  ProcessTypes' /\ Counted' /\ ClosedIdle'
<1>1. \A i \in Running : /\ calls[i] \in Timed /\ calls'[i] = Outdate(calls[i], ps)
                         /\ calls'[i] \in Timed /\ calls'[i].at = calls[i].at
                         /\ calls'[i].kind = calls[i].kind
                         /\ calls[i] = NoTimer => calls'[i] = NoTimer
  <2> SUFFICES ASSUME NEW i \in Running
               PROVE  /\ calls[i] \in Timed /\ calls'[i] = Outdate(calls[i], ps)
                      /\ calls'[i] \in Timed /\ calls'[i].at = calls[i].at
                      /\ calls'[i].kind = calls[i].kind
                      /\ calls[i] = NoTimer => calls'[i] = NoTimer
    OBVIOUS
  <2>1. calls[i] \in Timed /\ calls'[i] = Outdate(calls[i], ps)
    BY DEF Process, ProcessTypes, CallTypes, NextGenOfCalls
  <2>2. calls[i] = NoTimer => calls'[i] = NoTimer
    BY <2>1, TimerFacts, OutdateSame
  <2>3. QED
    BY <2>1, <2>2, OutdateFacts
<1>2. CallTypes'
  BY <1>1 DEF Process, ProcessTypes, CallTypes, NextGenOfCalls
<1>3. Active' = Active
  BY <1>1 DEF Active
<1>4. Good(Now)' /\ Balance(Now)' = Balance(Now)
  BY DEF Handled
<1>5. ProcessTypes'
  BY <1>2, <1>4 DEF Process, ProcessTypes
<1>6. Counted'
  BY <1>3, <1>4 DEF Process, Counted, LoopCount
<1>7. wg # 0
  <2>1. LoopCount = 1
    BY DEF LoopCount
  <2> HIDE DEF LoopCount
  <2>2. QED
    BY <2>1, WgFacts DEF Process
<1>8. QED
  BY <1>5, <1>6, <1>7 DEF Process, ClosedIdle

\* A callback begins.
LEMMA CallBegins ==
  ASSUME ProcessTypes, NEW i \in Running, NEW t \in Timed, NEW at, Call(i, t, at),
         (at = "report" /\ t.kind # "none") \/ (at = "check" /\ t.kind = "delete")
  PROVE  /\ CallTypes' /\ calls[i] = NoTimer
         /\ calls'[i] = [t EXCEPT !.at = at] /\ \A j \in Running \ {i} : calls'[j] = calls[j]
         /\ IsFiniteSet(Active) => Cardinality(Active') = Cardinality(Active) + 1
<1>1. /\ calls[i] = NoTimer /\ calls \in [Running -> Timed]
      /\ calls' = [calls EXCEPT ![i] = [t EXCEPT !.at = at]]
  BY DEF Call, ProcessTypes, CallTypes
<1> DEFINE u == [t EXCEPT !.at = at]
<1>2. u \in Timed /\ u.at = at /\ u.kind = t.kind
  BY DEF Timed
<1> HIDE DEF u
<1>3. calls'[i] = u /\ \A j \in Running \ {i} : calls'[j] = calls[j]
  BY <1>1 DEF u
<1>4. CallTypes'
  BY <1>1, <1>2, <1>3 DEF ProcessTypes, CallTypes, u
<1>5. Active' = Active \cup {i} /\ i \notin Active
  BY <1>1, <1>2, <1>3, TimerFacts DEF Active
<1>6. QED
  BY <1>1, <1>3, <1>4, <1>5, FS_AddElement DEF u

\* A callback goes on, or returns.
LEMMA CallGoes ==
  ASSUME ProcessTypes, NEW i \in Running, calls[i].at # "over"
  PROVE  /\ calls[i] \in Timed
         /\ (GoOn(i, "report") \/ (GoOn(i, "recheck") /\ calls[i].kind = "delete")) =>
              /\ CallTypes' /\ Active' = Active
              /\ calls'[i].at # "over" /\ SameKey(calls'[i], calls[i])
              /\ calls'[i].current = calls[i].current
              /\ \A j \in Running \ {i} : calls'[j] = calls[j]
         /\ Return(i) =>
              /\ CallTypes' /\ \A j \in Running \ {i} : calls'[j] = calls[j]
              /\ IsFiniteSet(Active) => Cardinality(Active') = Cardinality(Active) - 1
<1>1. calls \in [Running -> Timed] /\ calls[i] \in Timed
  BY DEF ProcessTypes, CallTypes
<1>2. ASSUME NEW at \in {"report", "recheck"}, GoOn(i, at),
             at = "report" \/ calls[i].kind = "delete"
      PROVE  /\ CallTypes' /\ Active' = Active
             /\ calls'[i].at # "over" /\ SameKey(calls'[i], calls[i])
             /\ calls'[i].current = calls[i].current
             /\ \A j \in Running \ {i} : calls'[j] = calls[j]
  <2> DEFINE u == [calls[i] EXCEPT !.at = at]
  <2>1. /\ u \in Timed /\ u.at = at /\ u.kind = calls[i].kind /\ u.from = calls[i].from
        /\ u.path = calls[i].path /\ u.current = calls[i].current
    BY <1>1 DEF Timed
  <2> HIDE DEF u
  <2>2. calls' = [calls EXCEPT ![i] = u]
    BY <1>2 DEF GoOn, u
  <2>3. calls'[i] = u /\ \A j \in Running \ {i} : calls'[j] = calls[j]
    BY <1>1, <2>2
  <2>4. CallTypes'
    <3>1. calls[i].kind # "none"
      BY TimerFacts DEF ProcessTypes, CallTypes
    <3>2. QED
      BY <1>1, <1>2, <2>1, <2>2, <2>3, <3>1 DEF ProcessTypes, CallTypes
  <2>5. Active' = Active
    BY <2>1, <2>3 DEF Active
  <2>6. QED
    BY <2>1, <2>3, <2>4, <2>5 DEF SameKey
<1>3. ASSUME Return(i)
      PROVE  /\ CallTypes' /\ \A j \in Running \ {i} : calls'[j] = calls[j]
             /\ IsFiniteSet(Active) => Cardinality(Active') = Cardinality(Active) - 1
  <2>1. calls' = [calls EXCEPT ![i] = NoTimer]
    BY <1>3 DEF Return
  <2>2. calls'[i] = NoTimer /\ \A j \in Running \ {i} : calls'[j] = calls[j]
    BY <1>1, <2>1
  <2>3. CallTypes'
    BY <1>1, <2>1, <2>2, TimerFacts DEF ProcessTypes, CallTypes
  <2>4. Active' = Active \ {i} /\ i \in Active
    BY <2>2, TimerFacts DEF Active
  <2>5. QED
    BY <2>2, <2>3, <2>4, FS_RemoveElement
<1>4. QED
  BY <1>1, <1>2, <1>3

\* The timers and callbacks of a step that leaves them alone.
LEMMA ProcessSame ==
  ASSUME Process, UNCHANGED <<pending, calls, loop, close>>
  PROVE  Process'
<1>1. Now' = Now /\ Active' = Active /\ LoopCount' = LoopCount
  BY DEF Now, pending, Active, LoopCount
<1>2. Good(Now)' /\ Balance(Now)' = Balance(Now)
  BY <1>1 DEF Process, ProcessTypes
<1>3. UNCHANGED <<timers, pendingRename, ended, wg, calls, loop, close>>
  BY DEF pending
<1>4. ProcessTypes'
  BY <1>2, <1>3 DEF Process, ProcessTypes, CallTypes, HeldTypes
<1>5. Counted'
  BY <1>1, <1>2 DEF Process, Counted
<1>6. HeldBack' /\ ClosedIdle'
  BY <1>3 DEF Process, HeldBack, ClosedIdle, Closed
<1>7. QED
  BY <1>4, <1>5, <1>6 DEF Process

\* After a deletion or a write of p, a RENAME of another path may still be held back.
LEMMA HeldBackKept ==
  ASSUME HeldBack, NEW p, NEW u, Handled({p}, {u}), u.kind # "rename", u.from = Root,
         u.path = p, UNCHANGED close,
         pendingRename' = (IF pendingRename.path = p THEN NoTimer ELSE pendingRename)
  PROVE  HeldBack'
<1> SUFFICES ASSUME ~Closed
             PROVE  HeldBack'
  BY DEF HeldBack, Closed
<1>1. \A x \in timers' : x = u \/ \E t \in timers : SameKey(t, x) /\ (x.current => t.current)
  BY DEF Handled
<1>2. \A x \in timers' : x.kind # "rename" => x.from = Root
  BY <1>1 DEF HeldBack, SameKey
<1>3. CASE pendingRename.path = p
  BY <1>2, <1>3 DEF HeldBack
<1>4. CASE pendingRename.path # p
  <2>1. ASSUME pendingRename # NoTimer, NEW x \in timers', x.path = pendingRename.path
        PROVE  x.kind # "modify" /\ (x.kind = "delete" => ~x.current)
    <3>1. PICK t \in timers : SameKey(t, x) /\ (x.current => t.current)
      BY <1>1, <1>4, <2>1
    <3>2. t.kind # "modify" /\ (t.kind = "delete" => ~t.current)
      BY <2>1, <3>1 DEF HeldBack, SameKey
    <3>3. QED
      BY <3>1, <3>2 DEF SameKey
  <2>2. QED
    BY <1>2, <1>4, <2>1 DEF HeldBack
<1>5. QED
  BY <1>3, <1>4

\* Only a rename comes from another path.
LEMMA FromKept ==
  ASSUME HeldBack, ~Closed, NEW ps, NEW new, Handled(ps, new),
         \A x \in new : x.kind # "rename" => x.from = Root
  PROVE  \A x \in timers' : x.kind # "rename" => x.from = Root
<1> SUFFICES ASSUME NEW x \in timers', x.kind # "rename"
             PROVE  x.from = Root
  OBVIOUS
<1>1. x \in new \/ \E t \in timers : SameKey(t, x)
  BY DEF Handled
<1>2. ASSUME NEW t \in timers, SameKey(t, x)
      PROVE  x.from = Root
  BY <1>2 DEF HeldBack, SameKey
<1>3. QED
  BY <1>1, <1>2

\* A handler of the loop.
LEMMA ProcessOfLoop ==
  ASSUME VaultTypes, Process, Loop
  PROVE  Process'
<1>0. Types /\ HeldBack
  BY DEF Types, Process
<1>1. CASE HandleStaging \/ HandleOverflow
  BY <1>1, ProcessSame DEF HandleStaging, HandleOverflow, EventFrame, pending
<1>2. CASE HandleRemove \/ HandleWrite
  <2> DEFINE p == Head(events).path
  <2>1. PICK j \in {"modify", "delete"} : /\ Handled({p}, {Timer(j, Root, p)})
                                         /\ NextGenOfCalls({p})
    BY <1>0, <1>2, RearmFacts
  <2> DEFINE u == Timer(j, Root, p)
  <2>2. p \in Places /\ loop = "run" /\ Root \in Places
    BY <1>0, <1>2, FirstEvent DEF HandleRemove, HandleWrite, Ops, Places
  <2>3. /\ Handled({p}, {u}) /\ NextGenOfCalls({p})
        /\ pendingRename' = (IF pendingRename.path = p THEN NoTimer ELSE pendingRename)
    BY <1>0, <1>2, <2>1, RearmFacts
  <2>4. u.kind # "rename" /\ u.from = Root /\ u.path = p
    BY <2>2, TimerFacts
  <2> HIDE DEF u, p
  <2>5. UNCHANGED <<loop, close>>
    BY <1>2 DEF HandleRemove, HandleWrite, EventFrame
  <2>6. HeldTypes'
    BY <2>3 DEF Process, ProcessTypes, HeldTypes
  <2>7. HeldBack'
    BY <1>0, <2>3, <2>4, <2>5, HeldBackKept
  <2>8. QED
    BY <2>2, <2>3, <2>5, <2>6, <2>7, HandlerKeeps DEF Process
<1>3. CASE HandleRenameAway
  <2> DEFINE p == Head(events).path
             new == IF pendingRename = NoTimer THEN {}
                    ELSE {Outdate([pendingRename EXCEPT !.at = "armed"], {p})}
  <2>1. p \in Places /\ loop = "run" /\ UNCHANGED <<loop, close>> /\ Root \in Places
    BY <1>0, <1>3, FirstEvent DEF HandleRenameAway, EventFrame, Ops, Places
  <2>2. /\ pendingRename' = Timer("delete", Root, p) /\ NextGenOfCalls({p})
        /\ Handled({p}, new)
        /\ ~Closed => \A u \in timers' :
             u.path = p => u.kind # "modify" /\ (u.kind = "delete" => ~u.current)
    BY <1>0, <1>3, RenameAwayFacts
  <2>3. /\ pendingRename'.kind = "delete" /\ pendingRename'.from = Root
        /\ pendingRename'.path = p /\ pendingRename'.current /\ pendingRename'.at = "armed"
    BY <2>1, <2>2, TimerFacts
  <2>4. \A x \in new : x.kind # "rename" => x.from = Root
    <3>1. ASSUME pendingRename # NoTimer
          PROVE  Outdate([pendingRename EXCEPT !.at = "armed"], {p}).from = Root
      <4>1. pendingRename \in Timed /\ pendingRename.from = Root
        BY <3>1, WgFacts DEF Process, ProcessTypes, HeldTypes
      <4> DEFINE g == [pendingRename EXCEPT !.at = "armed"]
      <4>2. g \in Timed /\ g.from = Root
        BY <4>1 DEF Timed
      <4> HIDE DEF g
      <4>3. Outdate(g, {p}).from = Root
        BY <4>2, OutdateFacts
      <4>4. QED
        BY <4>3 DEF g
    <3>2. QED
      BY <3>1
  <2> HIDE DEF p, new
  <2>5. HeldTypes'
    BY <2>3 DEF HeldTypes, Waiting
  <2>6. HeldBack'
    <3> SUFFICES ASSUME ~Closed
                 PROVE  HeldBack'
      BY <2>1 DEF HeldBack, Closed
    <3>1. \A x \in timers' : x.kind # "rename" => x.from = Root
      BY <1>0, <2>2, <2>4, FromKept
    <3>2. QED
      BY <2>2, <2>3, <3>1 DEF HeldBack, Waiting
  <2>7. QED
    BY <2>1, <2>2, <2>5, <2>6, HandlerKeeps DEF Process
<1>4. CASE HandleCreate
  <2> DEFINE p == Head(events).path
  <2>1. p \in Places /\ loop = "run" /\ UNCHANGED <<loop, close>> /\ Root \in Places
    BY <1>0, <1>4, FirstEvent DEF HandleCreate, EventFrame, Ops, Places
  <2>2. PICK ps, u : /\ Handled(ps, {u}) /\ NextGenOfCalls(ps) /\ pendingRename' = NoTimer
                     /\ u.kind # "rename" => u.from = Root
    <3>1. Timer("modify", Root, p).from = Root
      BY <2>1, TimerFacts
    <3>2. pendingRename.path \in Places
      BY WgFacts DEF Process, Timed
    <3>3. Timer("rename", pendingRename.path, p).kind = "rename"
      BY <2>1, <3>2, TimerFacts
    <3>4. QED
      BY <1>0, <1>4, <3>1, <3>3, CreateFacts
  <2> HIDE DEF p
  <2>3. HeldTypes'
    BY <2>2 DEF HeldTypes
  <2>4. HeldBack'
    <3> SUFFICES ASSUME ~Closed
                 PROVE  HeldBack'
      BY <2>1 DEF HeldBack, Closed
    <3>1. \A x \in timers' : x.kind # "rename" => x.from = Root
      BY <1>0, <2>2, FromKept
    <3>2. QED
      BY <2>2, <3>1 DEF HeldBack
  <2>5. QED
    BY <2>1, <2>2, <2>3, <2>4, HandlerKeeps DEF Process
<1>5. QED
  BY <1>1, <1>2, <1>3, <1>4 DEF Loop

\* Now after a step, from the values of its parts.
LEMMA GoodAfter ==
  ASSUME timers' \subseteq Timed, pendingRename' \in Timed, ended' \in Nat, wg' \in Int,
         IsFiniteSet(timers'), Keyed(timers'),
         \A t \in timers' : t.at \in Waiting /\ t.kind # "none"
  PROVE  /\ Good(Now)'
         /\ Balance(Now)' = wg' - (ended' + Cardinality(timers') + Held(pendingRename'))
<1>1. Now' \in Records
  BY DEF Now, Records
<1>2. QED
  BY <1>1, NowFacts DEF Good, Balance, Owed

\* A timer fires.
LEMMA ProcessOfFire ==
  ASSUME Process, NEW t \in timers, Fire(t)
  PROVE  Process'
<1> DEFINE u == [t EXCEPT !.at = "fired"]
<1>1. /\ timers' = (timers \ {t}) \cup {u} /\ t.at = "armed"
      /\ UNCHANGED <<pendingRename, ended, wg, calls, loop, close>>
  BY DEF Fire, TimerFrame
<1>2. /\ u \in Timed /\ u.at = "fired" /\ SameKey(t, u) /\ t \in Timed /\ t.kind # "none"
      /\ u.current = t.current /\ u.kind # "none" /\ u # t
  BY <1>1, WgFacts DEF Process, Timed, SameKey
<1> HIDE DEF u
<1>3. Keyed(timers)
  BY NowFacts DEF Process, ProcessTypes, Good
<1>4. u \notin timers
  BY <1>2, <1>3 DEF Keyed
<1>5. /\ IsFiniteSet(timers') /\ Cardinality(timers') = Cardinality(timers)
  <2> DEFINE S == timers \ {t}
  <2>1. IsFiniteSet(S) /\ Cardinality(S) = Cardinality(timers) - 1 /\ Cardinality(timers) \in Nat
    BY WgFacts, FS_RemoveElement DEF Process
  <2>2. u \notin S /\ timers' = S \cup {u}
    BY <1>1, <1>4
  <2> HIDE DEF S
  <2>3. IsFiniteSet(timers') /\ Cardinality(timers') = Cardinality(S) + 1
    BY <2>1, <2>2, FS_AddElement
  <2>4. QED
    BY <2>1, <2>3
<1>6. \A x \in timers' : \E y \in timers : /\ SameKey(y, x) /\ x.current = y.current
                                           /\ (x = u => y = t) /\ (x # u => y = x)
  BY <1>1, <1>2 DEF SameKey
<1>7. Keyed(timers')
  <2>1. ASSUME NEW x \in timers', NEW y \in timers', SameKey(x, y)
        PROVE  x = y
    <3>1. CASE x # u /\ y # u
      BY <1>1, <1>3, <2>1, <3>1 DEF Keyed
    <3>2. CASE x = u /\ y # u
      <4>1. SameKey(t, y) /\ y \in timers /\ y # t
        BY <1>1, <1>2, <2>1, <3>2 DEF SameKey
      <4>2. QED
        BY <1>3, <4>1 DEF Keyed
    <3>3. CASE x # u /\ y = u
      <4>1. SameKey(t, x) /\ x \in timers /\ x # t
        BY <1>1, <1>2, <2>1, <3>3 DEF SameKey
      <4>2. QED
        BY <1>3, <4>1 DEF Keyed
    <3>4. QED
      BY <3>1, <3>2, <3>3
  <2>2. QED
    BY <2>1 DEF Keyed
<1>8. Good(Now)' /\ Balance(Now)' = Balance(Now)
  <2>1. /\ timers' \subseteq Timed /\ pendingRename' \in Timed /\ ended' \in Nat /\ wg' \in Int
        /\ \A x \in timers' : x.at \in Waiting /\ x.kind # "none"
    BY <1>1, <1>2, WgFacts DEF Process, Waiting
  <2>2. /\ Good(Now)'
        /\ Balance(Now)' = wg' - (ended' + Cardinality(timers') + Held(pendingRename'))
    BY <1>5, <1>7, <2>1, GoodAfter
  <2>3. Balance(Now) = wg - (ended + Cardinality(timers) + Held(pendingRename))
    BY NowFacts DEF Balance, Owed
  <2>4. QED
    BY <1>1, <1>5, <2>2, <2>3
<1>9. ProcessTypes' /\ Counted' /\ ClosedIdle'
  BY <1>1, <1>8 DEF Process, ProcessTypes, CallTypes, HeldTypes, Counted, Active, LoopCount,
                    ClosedIdle
<1>10. HeldBack'
  <2> SUFFICES ASSUME ~Closed
               PROVE  HeldBack'
    BY <1>1 DEF HeldBack, Closed
  <2>1. \A x \in timers' : x.kind # "rename" => x.from = Root
    BY <1>6 DEF Process, HeldBack, SameKey
  <2>2. ASSUME pendingRename # NoTimer, NEW x \in timers', x.path = pendingRename.path
        PROVE  x.kind # "modify" /\ (x.kind = "delete" => ~x.current)
    <3>1. PICK y \in timers : SameKey(y, x) /\ x.current = y.current
      BY <1>6
    <3>2. y.kind # "modify" /\ (y.kind = "delete" => ~y.current)
      BY <2>2, <3>1 DEF Process, HeldBack, SameKey
    <3>3. QED
      BY <3>1, <3>2 DEF SameKey
  <2>3. QED
    BY <1>1, <2>1, <2>2 DEF Process, HeldBack
<1>11. QED
  BY <1>9, <1>10 DEF Process

\* A timer leaves the map and its callback begins.
LEMMA ProcessOfEnter ==
  ASSUME Process, NEW t \in timers, NEW i \in Running, Enter(t, i)
  PROVE  Process'
<1> DEFINE at == IF t.kind = "delete" THEN "check" ELSE "report"
<1>1. /\ timers' = timers \ {t} /\ Call(i, t, at)
      /\ UNCHANGED <<pendingRename, ended, wg, loop, close>>
  BY DEF Enter, TimerFrame
<1>2. t \in Timed /\ t.kind # "none"
  BY WgFacts DEF Process
<1>3. CallTypes' /\ Cardinality(Active') = Cardinality(Active) + 1
  BY <1>1, <1>2, CallBegins, WgFacts DEF Process
<1> HIDE DEF at
<1>4. /\ IsFiniteSet(timers') /\ Cardinality(timers') = Cardinality(timers) - 1
  BY <1>1, WgFacts, FS_RemoveElement DEF Process
<1>5. Keyed(timers')
  BY <1>1, NowFacts DEF Process, ProcessTypes, Good, Keyed
<1>6. /\ Good(Now)'
      /\ Balance(Now)' = wg' - (ended' + Cardinality(timers') + Held(pendingRename'))
  BY <1>1, <1>4, <1>5, WgFacts, GoodAfter DEF Process
<1>7. wg = LoopCount + Cardinality(Active) + ended + Cardinality(timers) + Held(pendingRename)
      /\ Cardinality(Active) \in Nat /\ Cardinality(timers) \in Nat /\ ended \in Nat
      /\ LoopCount \in {0, 1} /\ Held(pendingRename) \in {0, 1}
  BY WgFacts DEF Process
<1>8. LoopCount' = LoopCount
  BY <1>1 DEF LoopCount
<1>9. Counted'
  <2> HIDE DEF LoopCount, Held
  <2>1. Balance(Now)' = LoopCount' + Cardinality(Active')
    BY <1>1, <1>3, <1>4, <1>6, <1>7, <1>8
  <2>2. QED
    BY <2>1 DEF Counted
<1>10. ProcessTypes' /\ ClosedIdle' /\ HeldBack'
  BY <1>1, <1>3, <1>6 DEF Process, ProcessTypes, HeldTypes, ClosedIdle, HeldBack, Closed
<1>11. QED
  BY <1>9, <1>10 DEF Process

\* The timer of a held-back RENAME fires.
LEMMA ProcessOfFireHeld ==
  ASSUME Process, FirePendingRename
  PROVE  Process'
<1>1. /\ pendingRename' = [pendingRename EXCEPT !.at = "fired"] /\ pendingRename.at = "armed"
      /\ UNCHANGED <<timers, ended, wg, calls, loop, close>> /\ pendingRename \in Timed
  BY WgFacts DEF FirePendingRename, TimerFrame, Process
<1>2. /\ pendingRename' \in Timed /\ pendingRename'.at = "fired"
      /\ pendingRename'.kind = pendingRename.kind /\ pendingRename'.from = pendingRename.from
      /\ pendingRename'.path = pendingRename.path
      /\ pendingRename'.current = pendingRename.current
  BY <1>1 DEF Timed
<1>3. pendingRename # NoTimer /\ Held(pendingRename') = Held(pendingRename)
  BY <1>1, <1>2, TimerFacts DEF Held, Waiting
<1>4. Good(Now)' /\ Balance(Now)' = Balance(Now)
  <2>1. Keyed(timers')
    BY <1>1, NowFacts DEF Process, ProcessTypes, Good, Keyed
  <2>2. /\ Good(Now)'
        /\ Balance(Now)' = wg' - (ended' + Cardinality(timers') + Held(pendingRename'))
    BY <1>1, <1>2, <2>1, WgFacts, GoodAfter DEF Process
  <2>3. Balance(Now) = wg - (ended + Cardinality(timers) + Held(pendingRename))
    BY NowFacts DEF Balance, Owed
  <2>4. QED
    BY <1>1, <1>3, <2>2, <2>3
<1>5. HeldTypes'
  BY <1>2, <1>3 DEF Process, ProcessTypes, HeldTypes, Waiting
<1>6. HeldBack'
  BY <1>1, <1>2, <1>3 DEF Process, HeldBack, Waiting, Closed
<1>7. QED
  BY <1>1, <1>4, <1>5, <1>6
  DEF Process, ProcessTypes, CallTypes, Counted, Active, LoopCount, ClosedIdle

\* The held-back RENAME becomes the callback of a deletion, or is given up.
LEMMA ProcessOfEnterHeld ==
  ASSUME Process, NEW i \in Running, EnterPendingRename(i)
  PROVE  Process'
<1>1. /\ UNCHANGED <<timers, ended, loop, close>> /\ pendingRename \in Timed
      /\ pendingRename.at = "fired" /\ pendingRename # NoTimer
  BY WgFacts, TimerFacts DEF EnterPendingRename, TimerFrame, Process
<1>2. Held(pendingRename) = 1 /\ Held(NoTimer) = 0 /\ LoopCount' = LoopCount
      /\ Keyed(timers')
  BY <1>1, TimerFacts, NowFacts
  DEF Held, Waiting, LoopCount, Process, ProcessTypes, Good, Keyed
<1>3. /\ wg = LoopCount + Cardinality(Active) + ended + Cardinality(timers) + 1
      /\ Cardinality(Active) \in Nat /\ Cardinality(timers) \in Nat /\ ended \in Nat
      /\ LoopCount \in {0, 1} /\ IsFiniteSet(Active)
  BY <1>2, WgFacts DEF Process
<1>4. CASE Closed \/ ~pendingRename.current
  <2>1. /\ pendingRename' = [pendingRename EXCEPT !.at = "over"] /\ wg' = wg - 1
        /\ calls' = calls
    BY <1>4 DEF EnterPendingRename
  <2>2. /\ pendingRename' \in Timed /\ pendingRename'.at = "over"
        /\ pendingRename'.kind = pendingRename.kind /\ pendingRename'.from = pendingRename.from
    BY <1>1, <2>1 DEF Timed
  <2>3. Closed
    BY <1>1, <1>4 DEF Process, HeldBack
  <2>4. Held(pendingRename') = 0 /\ wg' \in Int /\ Active' = Active
    BY <1>3, <2>1, <2>2 DEF Held, Waiting, Active, LoopCount
  <2>5. /\ Good(Now)'
        /\ Balance(Now)' = wg' - (ended' + Cardinality(timers') + Held(pendingRename'))
    BY <1>1, <1>2, <2>2, <2>4, WgFacts, GoodAfter DEF Process
  <2>6. Counted'
    <3> HIDE DEF LoopCount, Held, Active
    <3>1. Balance(Now)' = LoopCount' + Cardinality(Active')
      BY <1>1, <1>2, <1>3, <2>1, <2>4, <2>5
    <3>2. QED
      BY <3>1 DEF Counted
  <2>7. ProcessTypes'
    BY <1>1, <2>1, <2>2, <2>5 DEF Process, ProcessTypes, CallTypes, HeldTypes
  <2>8. HeldBack' /\ ClosedIdle'
    <3>1. wg # 0
      BY <1>3
    <3>2. QED
      BY <1>1, <2>3, <3>1 DEF Process, HeldBack, ClosedIdle, Closed
  <2>9. QED
    BY <2>6, <2>7, <2>8 DEF Process
<1>5. CASE ~(Closed \/ ~pendingRename.current)
  <2>1. pendingRename' = NoTimer /\ wg' = wg /\ Call(i, pendingRename, "check")
    BY <1>5 DEF EnterPendingRename
  <2>2. pendingRename.kind = "delete"
    BY <1>1 DEF Process, ProcessTypes, HeldTypes
  <2>3. CallTypes' /\ Cardinality(Active') = Cardinality(Active) + 1
    BY <1>1, <1>3, <2>1, <2>2, CallBegins DEF Process
  <2>4. /\ Good(Now)'
        /\ Balance(Now)' = wg' - (ended' + Cardinality(timers') + Held(pendingRename'))
    BY <1>1, <1>2, <2>1, TimerFacts, WgFacts, GoodAfter DEF Process
  <2>5. Counted'
    <3> HIDE DEF LoopCount, Held, Active
    <3>1. Balance(Now)' = LoopCount' + Cardinality(Active')
      BY <1>1, <1>2, <1>3, <2>1, <2>3, <2>4
    <3>2. QED
      BY <3>1 DEF Counted
  <2>6. ProcessTypes' /\ HeldBack' /\ ClosedIdle'
    BY <1>1, <2>1, <2>3, <2>4
    DEF Process, ProcessTypes, HeldTypes, HeldBack, ClosedIdle, Closed
  <2>7. QED
    BY <2>5, <2>6 DEF Process
<1>6. QED
  BY <1>4, <1>5

\* A goroutine without a timer leaves, and the loop ends.
LEMMA ProcessOfLeave ==
  ASSUME Process, Leave \/ LoopEnds
  PROVE  Process'
<1>1. /\ UNCHANGED <<timers, pendingRename, calls, close>> /\ wg' = wg - 1
      /\ Keyed(timers') /\ Active' = Active /\ Held(pendingRename') = Held(pendingRename)
  BY NowFacts
  DEF Leave, LoopEnds, TimerFrame, Process, ProcessTypes, Good, Keyed, Active, Held
<1>2. /\ wg = LoopCount + Cardinality(Active) + ended + Cardinality(timers) + Held(pendingRename)
      /\ Cardinality(Active) \in Nat /\ Cardinality(timers) \in Nat /\ ended \in Nat
      /\ LoopCount \in Nat /\ Held(pendingRename) \in Nat
  <2>1. \A n \in {0, 1} : n \in Nat
    OBVIOUS
  <2>2. QED
    BY <2>1, WgFacts DEF Process
<1>3. /\ ended' \in Nat /\ loop' \in {"run", "done"}
      /\ \/ LoopCount' = LoopCount /\ ended' = ended - 1 /\ ended # 0
         \/ LoopCount' = 0 /\ LoopCount = 1 /\ ended' = ended
  <2>1. CASE Leave
    BY <1>2, <2>1 DEF Leave, TimerFrame, LoopCount, Process, ProcessTypes
  <2>2. CASE LoopEnds
    BY <1>2, <2>2 DEF LoopEnds, LoopCount
  <2>3. QED
    BY <2>1, <2>2
<1>4. /\ Good(Now)'
      /\ Balance(Now)' = wg' - (ended' + Cardinality(timers') + Held(pendingRename'))
  <2>1. wg' \in Int
    BY <1>1, <1>2 DEF LoopCount, Held
  <2>2. QED
    BY <1>1, <1>3, <2>1, WgFacts, GoodAfter DEF Process
<1>5. Counted'
  <2> HIDE DEF LoopCount, Held, Active
  <2>2. Balance(Now)' = LoopCount' + Cardinality(Active')
    <3>1. CASE LoopCount' = LoopCount /\ ended' = ended - 1
      BY <1>1, <1>2, <1>4, <3>1
    <3>2. CASE LoopCount' = 0 /\ LoopCount = 1 /\ ended' = ended
      BY <1>1, <1>2, <1>4, <3>2
    <3>3. QED
      BY <1>3, <3>1, <3>2
  <2>3. QED
    BY <2>2 DEF Counted
<1>6. ProcessTypes' /\ HeldBack'
  BY <1>1, <1>3, <1>4 DEF Process, ProcessTypes, CallTypes, HeldTypes, HeldBack, Closed
<1>7. ClosedIdle'
  <2>1. wg # 0
    <3> HIDE DEF LoopCount, Held, Active
    <3>1. LoopCount # 0 \/ ended # 0
      BY <1>3
    <3>2. QED
      BY <1>2, <3>1
  <2>2. QED
    BY <1>1, <2>1 DEF Process, ClosedIdle
<1>8. QED
  BY <1>5, <1>6, <1>7 DEF Process

\* A callback goes on or returns.
LEMMA ProcessOfCall ==
  ASSUME Process, NEW i \in Running, CheckDelete(i) \/ RecheckDelete(i) \/ Report(i)
  PROVE  Process'
<1>1. /\ UNCHANGED <<timers, pendingRename, ended, loop, close>>
      /\ calls[i].at \in {"check", "recheck", "report"}
      /\ \/ Return(i)
         \/ calls[i].at = "check" /\ GoOn(i, "recheck")
         \/ calls[i].at = "recheck" /\ GoOn(i, "report")
  BY DEF CheckDelete, RecheckDelete, Report, CallFrame, TimerFrame
<1>2. calls[i].at # "over" /\ (calls[i].at = "check" => calls[i].kind = "delete")
  BY <1>1, TimerFacts DEF Process, ProcessTypes, CallTypes
<1>3. /\ wg = LoopCount + Cardinality(Active) + ended + Cardinality(timers) + Held(pendingRename)
      /\ Cardinality(Active) \in Nat /\ Cardinality(timers) \in Nat /\ ended \in Nat
      /\ LoopCount \in Nat /\ Held(pendingRename) \in Nat /\ IsFiniteSet(Active)
      /\ wg \in Nat
  <2>1. \A n \in {0, 1} : n \in Nat
    OBVIOUS
  <2>2. QED
    BY <2>1, WgFacts DEF Process
<1>4. /\ CallTypes' /\ wg' \in Int
      /\ wg' - Cardinality(Active') = wg - Cardinality(Active) /\ Cardinality(Active') \in Int
  <2>1. CASE Return(i)
    <3>1. CallTypes' /\ Cardinality(Active') = Cardinality(Active) - 1 /\ wg' = wg - 1
      BY <1>2, <1>3, <2>1, CallGoes DEF Process, Return
    <3>2. QED
      BY <1>3, <3>1
  <2>2. CASE ~Return(i)
    <3>1. CallTypes' /\ Active' = Active /\ wg' = wg
      BY <1>1, <1>2, <2>2, CallGoes DEF Process, GoOn
    <3>2. QED
      BY <1>3, <3>1
  <2>3. QED
    BY <2>1, <2>2
<1>5. Keyed(timers') /\ LoopCount' = LoopCount /\ Held(pendingRename') = Held(pendingRename)
  BY <1>1, NowFacts DEF Process, ProcessTypes, Good, Keyed, LoopCount, Held
<1>6. /\ Good(Now)'
      /\ Balance(Now)' = wg' - (ended' + Cardinality(timers') + Held(pendingRename'))
  BY <1>1, <1>4, <1>5, WgFacts, GoodAfter DEF Process
<1>7. Counted'
  <2> HIDE DEF LoopCount, Held, Active
  <2>1. Balance(Now)' = LoopCount' + Cardinality(Active')
    BY <1>1, <1>3, <1>4, <1>5, <1>6
  <2>2. QED
    BY <2>1 DEF Counted
<1>8. ClosedIdle'
  <2>1. i \in Active
    BY <1>2 DEF Active
  <2>2. Cardinality(Active) # 0
    BY <1>3, <2>1, FS_EmptySet
  <2> HIDE DEF LoopCount, Held, Active
  <2>3. wg # 0
    BY <1>3, <2>2
  <2>4. QED
    BY <1>1, <2>3 DEF Process, ClosedIdle
<1>9. ProcessTypes' /\ HeldBack'
  BY <1>1, <1>4, <1>6 DEF Process, ProcessTypes, HeldTypes, HeldBack, Closed
<1>10. QED
  BY <1>7, <1>8, <1>9 DEF Process

\* Close stops every timer, and the goroutines that have started take their leave.
LEMMA ProcessOfClose ==
  ASSUME Process, Close
  PROVE  Process'
<1> DEFINE h == pendingRename
           all == timers \cup {h}
           armed == {t \in all : t.at = "armed"}
           fired == {t \in all : t.at = "fired"}
           a == Cardinality(armed)
           f == Cardinality(fired)
           w == wg - a
           e == ended + f
           r == [Now EXCEPT !.timers = {}, !.pr = NoTimer, !.wg = @ - a, !.ended = @ + f]
<1>1. /\ close = "open" /\ close' = "closing" /\ UNCHANGED <<loop, calls>> /\ Become(r)
  BY NowFacts DEF Close, StopAll
<1>2. /\ IsFiniteSet(timers) /\ IsFiniteSet(armed) /\ IsFiniteSet(fired)
      /\ timers \subseteq Timed /\ h \in Timed /\ wg \in Nat /\ ended \in Nat
      /\ \A t \in timers : t.at \in Waiting
  <2>1. IsFiniteSet(all)
    BY WgFacts, FS_AddElement DEF Process
  <2>2. QED
    BY <2>1, WgFacts, FS_Subset DEF Process
<1>3. a + f = Cardinality(timers) + Held(h) /\ a \in Nat /\ f \in Nat
  <2>1. armed \cap fired = {}
    OBVIOUS
  <2>2. Cardinality(armed \cup fired) = a + f /\ a \in Nat /\ f \in Nat
    <3>1. Cardinality(armed \cup fired) = a + f - Cardinality(armed \cap fired)
          /\ a \in Nat /\ f \in Nat
      BY <1>2, FS_Union, FS_CardinalityType
    <3>2. QED
      BY <2>1, <3>1, FS_EmptySet
  <2>3. CASE h.at \in Waiting
    <3>1. h \notin timers
      <4>1. h # NoTimer /\ ~Closed
        BY <1>1, <2>3, TimerFacts DEF Waiting, Closed
      <4>2. h.current /\ h.kind = "delete"
        BY <4>1 DEF Process, HeldBack, ProcessTypes, HeldTypes
      <4>3. QED
        BY <4>1, <4>2 DEF Process, HeldBack
    <3>2. armed \cup fired = timers \cup {h}
      BY <1>2, <2>3 DEF Waiting
    <3>3. Cardinality(timers \cup {h}) = Cardinality(timers) + 1
      BY <1>2, <3>1, FS_AddElement
    <3>4. Held(h) = 1
      BY <2>3 DEF Held
    <3>5. QED
      BY <2>2, <3>2, <3>3, <3>4
  <2>4. CASE h.at \notin Waiting
    <3>1. armed \cup fired = timers
      BY <1>2, <2>4 DEF Waiting
    <3>2. Held(h) = 0 /\ Cardinality(timers) \in Nat
      BY <1>2, <2>4, FS_CardinalityType DEF Held
    <3> HIDE DEF a, f, armed, fired
    <3>3. QED
      BY <2>2, <3>1, <3>2
  <2>5. QED
    BY <2>3, <2>4
<1> HIDE DEF a, f
<1>4. /\ timers' = {} /\ pendingRename' = NoTimer /\ ended' = e /\ wg' = w
      /\ e \in Nat /\ w \in Int
  <2>1. e \in Nat /\ w \in Int
    BY <1>2, <1>3
  <2>2. Now \in Records /\ Now.ended = ended /\ Now.wg = wg
    BY NowFacts DEF Process, ProcessTypes, Good
  <2>3. Now.ended + f = e /\ Now.wg - a = w
    BY <2>2
  <2> HIDE DEF e, w
  <2>4. r = [Now EXCEPT !.timers = {}, !.pr = NoTimer, !.wg = w, !.ended = e]
    BY <2>2, <2>3
  <2> HIDE DEF r
  <2>5. r.timers = {} /\ r.pr = NoTimer /\ r.ended = e /\ r.wg = w
    BY <2>2, <2>4 DEF Records
  <2>6. QED
    BY <1>1, <2>1, <2>5 DEF Become
<1>5. /\ Good(Now)' /\ Balance(Now)' = w - (e + Cardinality({}) + Held(NoTimer))
  <2> HIDE DEF e, w
  <2>1. Keyed({}) /\ IsFiniteSet({})
    BY FS_EmptySet DEF Keyed
  <2>2. QED
    BY <1>4, <2>1, TimerFacts, GoodAfter
<1>6. Active' = Active /\ LoopCount' = LoopCount
  BY <1>1 DEF Active, LoopCount
<1>7. Counted'
  <2>1. Held(NoTimer) = 0 /\ Cardinality({}) = 0
    BY TimerFacts, FS_EmptySet DEF Held, Waiting
  <2>2. /\ wg = LoopCount + Cardinality(Active) + ended + Cardinality(timers) + Held(h)
        /\ Cardinality(Active) \in Nat /\ Cardinality(timers) \in Nat
        /\ LoopCount \in Nat /\ Held(h) \in Nat
    <3>1. \A n \in {0, 1} : n \in Nat
      OBVIOUS
    <3>2. QED
      BY <3>1, WgFacts DEF Process
  <2> HIDE DEF LoopCount, Held, Active
  <2>3. w - (e + 0 + 0) = LoopCount + Cardinality(Active)
    BY <1>2, <1>3, <2>2
  <2> HIDE DEF w, e
  <2>4. QED
    BY <1>5, <1>6, <2>1, <2>3 DEF Counted
<1>8. ProcessTypes' /\ HeldBack' /\ ClosedIdle'
  BY <1>1, <1>4, <1>5
  DEF Process, ProcessTypes, CallTypes, HeldTypes, HeldBack, Closed, ClosedIdle
<1>9. QED
  BY <1>7, <1>8 DEF Process

\* Every step keeps what is said of the timers and the wait group.
LEMMA ProcessKept ==
  ASSUME VaultTypes, Process, [Next]_vars
  PROVE  Process'
<1>1. CASE VaultChanges
  <2>1. UNCHANGED <<pending, calls, loop, close>>
    BY <1>1
    DEF VaultChanges, Write, Delete, MoveOut, Move, MakeDir, RemoveDir, Changed
  <2>2. QED
    BY <2>1, ProcessSame
<1>2. CASE Loop
  BY <1>2, ProcessOfLoop
<1>3. CASE Close
  BY <1>3, ProcessOfClose
<1>4. CASE \E t \in timers : Fire(t)
  BY <1>4, ProcessOfFire
<1>5. CASE FirePendingRename
  BY <1>5, ProcessOfFireHeld
<1>6. CASE Leave \/ LoopEnds
  BY <1>6, ProcessOfLeave
<1>7. CASE CloseReturns
  <2>1. /\ UNCHANGED <<pending, calls, loop>> /\ close = "closing" /\ close' = "closed"
        /\ wg = 0
    BY <1>7 DEF CloseReturns
  <2>2. Now' = Now /\ Active' = Active /\ LoopCount' = LoopCount
    BY <2>1 DEF Now, pending, Active, LoopCount
  <2>3. Good(Now)' /\ Balance(Now)' = Balance(Now)
    BY <2>2 DEF Process, ProcessTypes
  <2>4. UNCHANGED <<timers, pendingRename, ended, wg, calls, loop>>
    BY <2>1 DEF pending
  <2>5. ProcessTypes' /\ Counted'
    BY <2>1, <2>2, <2>3, <2>4 DEF Process, ProcessTypes, CallTypes, HeldTypes, Counted
  <2>6. HeldBack' /\ ClosedIdle'
    BY <2>1, <2>4 DEF HeldBack, ClosedIdle, Closed
  <2>7. QED
    BY <2>5, <2>6 DEF Process
<1>8. ASSUME NEW i \in Running, Callback(i)
      PROVE  Process'
  <2>1. CASE EnterPendingRename(i)
    BY <2>1, ProcessOfEnterHeld
  <2>2. CASE \E t \in timers : Enter(t, i)
    BY <2>2, ProcessOfEnter
  <2>3. CASE CheckDelete(i) \/ RecheckDelete(i) \/ Report(i)
    BY <2>3, ProcessOfCall
  <2>4. QED
    BY <1>8, <2>1, <2>2, <2>3 DEF Callback
<1>9. CASE UNCHANGED vars
  BY <1>9, ProcessSame DEF vars
<1>10. QED
  BY <1>1, <1>2, <1>3, <1>4, <1>5, <1>6, <1>7, <1>8, <1>9 DEF Next, Goroutines

-----------------------------------------------------------------------------
(* The vault and the queue of events.                                       *)

\* Only the last event may be an overflow; directories are made and removed.
QueueOrder == \A n \in 1 .. Len(events) :
  \/ events[n] = Overflow /\ n = Len(events) /\ overflows > 0
  \/ /\ events[n].op \in Ops /\ events[n].path \in Paths
     /\ events[n].path \in Dirs => events[n].op \in {"CREATE", "REMOVE"}
Queue == VaultTypes /\ QueueOrder /\ Root \in kernel

Says(e) == e.op \in {"WRITE", "CREATE"}

\* What a change of the vault is: that of the paths in ps, of which seen is heard.
ChangeOf(ps, seen) ==
  /\ Changed(ps, disk', seen)
  /\ ps \subseteq Paths /\ disk' \subseteq Paths /\ kernel' \subseteq kernel /\ Root \in kernel'
  /\ \A p \in Paths \ ps : p \in disk' <=> p \in disk
  /\ seen \in Seq(Evs)
  /\ \A n \in 1 .. Len(seen) :
       /\ seen[n].op \in Ops /\ seen[n].path \in ps /\ (seen[n].path \in disk' <=> Says(seen[n]))
       /\ seen[n].path \in Dirs => seen[n].op \in {"CREATE", "REMOVE"}
  /\ \A p \in ps : Parent(p) \in kernel => \E n \in 1 .. Len(seen) : seen[n].path = p
  /\ \/ ps \subseteq Files /\ kernel' = kernel
     \/ \E d \in Dirs :
          /\ ps = {d}
          /\ \/ d \notin disk /\ d \in disk' /\ seen = <<Ev("CREATE", d)>> /\ kernel' = kernel
             \/ /\ d \in disk /\ d \notin disk' /\ seen = <<Ev("REMOVE", d)>>
                /\ kernel' = kernel \ {d}

\* What is heard of one path.
LEMMA HeardFacts ==
  ASSUME NEW op \in Ops, NEW p \in Paths
  PROVE  /\ Heard(op, p) \in Seq(Evs) /\ Ev(op, p) \in Evs
         /\ Ev(op, p).op = op /\ Ev(op, p).path = p
         /\ \A n \in 1 .. Len(Heard(op, p)) : n = 1 /\ Heard(op, p)[n] = Ev(op, p)
         /\ Parent(p) \in kernel => /\ Heard(op, p) = <<Ev(op, p)>> /\ Len(Heard(op, p)) = 1
                                    /\ Heard(op, p)[1] = Ev(op, p)
<1>1. Ev(op, p) \in Evs /\ Ev(op, p).op = op /\ Ev(op, p).path = p
  BY DEF Ev, Evs, Places
<1> DEFINE e == Ev(op, p)
<1> HIDE DEF e
<1>2. CASE Parent(p) \in kernel
  <2>1. Heard(op, p) = <<e>>
    BY <1>2 DEF Heard, e
  <2>2. QED
    BY <1>1, <2>1 DEF e
<1>3. CASE Parent(p) \notin kernel
  <2>1. Heard(op, p) = <<>>
    BY <1>3 DEF Heard
  <2>2. QED
    BY <1>1, <1>3, <2>1
<1>4. QED
  BY <1>2, <1>3

\* The change of one file.
LEMMA FileChange ==
  ASSUME Queue, NEW f \in Files, NEW op \in Ops, NEW D, D \subseteq Paths,
         \A p \in Paths \ {f} : p \in D <=> p \in disk,
         f \in D <=> op \in {"WRITE", "CREATE"},
         Changed({f}, D, Heard(op, f)), kernel' = kernel
  PROVE  ChangeOf({f}, Heard(op, f))
<1>1. f \in Paths /\ f \notin Dirs /\ disk' = D
  BY WatcherAssumption DEF Paths, Changed
<1>2. /\ Heard(op, f) \in Seq(Evs) /\ Ev(op, f).op = op /\ Ev(op, f).path = f
      /\ \A n \in 1 .. Len(Heard(op, f)) : n = 1 /\ Heard(op, f)[n] = Ev(op, f)
      /\ Parent(f) \in kernel => Len(Heard(op, f)) = 1 /\ Heard(op, f)[1] = Ev(op, f)
  BY <1>1, HeardFacts
<1> DEFINE s == Heard(op, f)
           e == Ev(op, f)
<1>3. Changed({f}, D, s)
  OBVIOUS
<1> HIDE DEF s, e
<1>4. /\ \A n \in 1 .. Len(s) : s[n] = e
      /\ Parent(f) \in kernel => 1 \in 1 .. Len(s) /\ s[1] = e
      /\ e.op = op /\ e.path = f /\ s \in Seq(Evs)
  BY <1>2 DEF s, e
<1>5. ChangeOf({f}, s)
  BY <1>1, <1>3, <1>4 DEF ChangeOf, Says, Queue
<1>6. QED
  BY <1>5 DEF s

\* The move of a file.
LEMMA MoveChange ==
  ASSUME Queue, NEW f \in Files, NEW g \in Files, Move(f, g)
  PROVE  ChangeOf({f, g}, Heard("RENAME", f) \o Heard("CREATE", g))
<1>1. /\ f \in Paths /\ g \in Paths /\ f \notin Dirs /\ g \notin Dirs /\ f # g /\ f \in disk
      /\ disk' = (disk \ {f}) \cup {g} /\ disk \subseteq Paths
  BY WatcherAssumption DEF Paths, Changed, Move, Queue, VaultTypes
<1> DEFINE s == Heard("RENAME", f)
           t == Heard("CREATE", g)
           e == Ev("RENAME", f)
           c == Ev("CREATE", g)
<1>2. Changed({f, g}, disk', s \o t) /\ kernel' = kernel
  BY <1>1 DEF Move
<1>3. /\ s \in Seq(Evs) /\ e.op = "RENAME" /\ e.path = f
      /\ \A n \in 1 .. Len(s) : n = 1 /\ s[n] = e
      /\ Parent(f) \in kernel => Len(s) = 1
      /\ t \in Seq(Evs) /\ c.op = "CREATE" /\ c.path = g
      /\ \A n \in 1 .. Len(t) : n = 1 /\ t[n] = c
      /\ Parent(g) \in kernel => Len(t) = 1
  BY <1>1, HeardFacts DEF Ops
<1> HIDE DEF s, t, e, c
<1>4. /\ s \o t \in Seq(Evs) /\ Len(s \o t) = Len(s) + Len(t)
      /\ \A n \in 1 .. Len(s) : (s \o t)[n] = s[n]
      /\ \A n \in 1 .. Len(t) : (s \o t)[Len(s) + n] = t[n]
      /\ \A n \in 1 .. Len(s \o t) : n \in 1 .. Len(s) \/ n - Len(s) \in 1 .. Len(t)
      /\ Len(s) \in Nat /\ Len(t) \in Nat
  BY <1>3
<1> DEFINE q == s \o t
<1> HIDE DEF q
<1>5. \A n \in 1 .. Len(q) : q[n] \in {e, c}
  <2> SUFFICES ASSUME NEW n \in 1 .. Len(q)
               PROVE  q[n] \in {e, c}
    OBVIOUS
  <2>1. CASE n \in 1 .. Len(s)
    BY <1>3, <1>4, <2>1 DEF q
  <2>2. CASE n - Len(s) \in 1 .. Len(t)
    <3>1. q[Len(s) + (n - Len(s))] = t[n - Len(s)] /\ Len(s) + (n - Len(s)) = n
      BY <1>4, <2>2 DEF q
    <3>2. QED
      BY <1>3, <2>2, <3>1
  <2>3. QED
    BY <1>4, <2>1, <2>2 DEF q
<1>6. /\ Len(s) \in Nat /\ Len(t) \in Nat /\ Len(q) = Len(s) + Len(t)
      /\ Parent(f) \in kernel => Len(s) = 1
      /\ Parent(g) \in kernel => Len(t) = 1
  BY <1>3, <1>4 DEF q
<1>7. /\ Parent(f) \in kernel => \E n \in 1 .. Len(q) : q[n].path = f
      /\ Parent(g) \in kernel => \E n \in 1 .. Len(q) : q[n].path = g
  <2>1. ASSUME Parent(f) \in kernel PROVE \E n \in 1 .. Len(q) : q[n].path = f
    <3>1. 1 \in 1 .. Len(s) /\ 1 \in 1 .. Len(q)
      BY <1>6, <2>1
    <3>2. q[1].path = f
      BY <1>3, <1>4, <3>1 DEF q
    <3>3. QED
      BY <3>1, <3>2
  <2>2. ASSUME Parent(g) \in kernel PROVE \E n \in 1 .. Len(q) : q[n].path = g
    <3>1. 1 \in 1 .. Len(t) /\ Len(s) + 1 \in 1 .. Len(q)
      <4>1. Len(t) = 1 /\ Len(q) = Len(s) + 1 /\ Len(s) \in Nat
        BY <1>6, <2>2
      <4>2. \A n \in Nat : n + 1 \in 1 .. n + 1
        OBVIOUS
      <4>3. QED
        BY <4>1, <4>2
    <3>2. q[Len(s) + 1].path = g
      BY <1>3, <1>4, <3>1 DEF q
    <3>3. QED
      BY <3>1, <3>2
  <2>3. QED
    BY <2>1, <2>2
<1>8. Changed({f, g}, disk', q) /\ q \in Seq(Evs)
  BY <1>2, <1>4 DEF q
<1>9. ChangeOf({f, g}, q)
  <2>1. \A n \in 1 .. Len(q) :
          /\ q[n].op \in Ops /\ q[n].path \in {f, g} /\ (q[n].path \in disk' <=> Says(q[n]))
          /\ q[n].path \in Dirs => q[n].op \in {"CREATE", "REMOVE"}
    <3>1. /\ e.op \in Ops /\ e.path \in {f, g} /\ ~Says(e) /\ e.path \notin disk'
          /\ c.op \in Ops /\ c.path \in {f, g} /\ Says(c) /\ c.path \in disk'
          /\ e.path \notin Dirs /\ c.path \notin Dirs
      BY <1>1, <1>3 DEF Says, Ops
    <3>2. QED
      BY <1>5, <3>1
  <2>2. QED
    BY <1>1, <1>2, <1>7, <1>8, <2>1 DEF ChangeOf, Queue
<1>10. QED
  BY <1>9 DEF q, s, t

\* A directory is made, or removed.
LEMMA DirChange ==
  ASSUME Queue, NEW d \in Dirs, MakeDir(d) \/ RemoveDir(d)
  PROVE  \E seen : ChangeOf({d}, seen)
<1>1. d \in Paths /\ d \notin Files /\ d # Root /\ disk \subseteq Paths /\ Parent(d) = Root
      /\ Root \in kernel
  BY WatcherAssumption DEF Paths, Queue, VaultTypes, Parent
<1>2. PICK op \in {"CREATE", "REMOVE"} :
        /\ Changed({d}, disk', Heard(op, d))
        /\ \/ /\ d \notin disk /\ op = "CREATE" /\ disk' = disk \cup {d} /\ kernel' = kernel
           \/ /\ d \in disk /\ op = "REMOVE" /\ disk' = disk \ {d} /\ kernel' = kernel \ {d}
  BY DEF MakeDir, RemoveDir, Changed
<1> DEFINE e == Ev(op, d)
           s == <<e>>
<1>3. Heard(op, d) = s /\ e.op = op /\ e.path = d /\ e \in Evs
  BY <1>1, <1>2, HeardFacts DEF Ops
<1>4. s = <<Ev(op, d)>>
  OBVIOUS
<1> HIDE DEF e
<1>5. s \in Seq(Evs) /\ Len(s) = 1 /\ s[1] = e
  BY <1>3
<1> HIDE DEF s
<1>6. ChangeOf({d}, s)
  <2>1. Changed({d}, disk', s)
    BY <1>2, <1>3
  <2>2. \A n \in 1 .. Len(s) :
          /\ s[n].op \in Ops /\ s[n].path \in {d} /\ (s[n].path \in disk' <=> Says(s[n]))
          /\ s[n].path \in Dirs => s[n].op \in {"CREATE", "REMOVE"}
    BY <1>2, <1>3, <1>5 DEF Says, Ops
  <2>3. \E n \in 1 .. Len(s) : s[n].path = d
    BY <1>3, <1>5
  <2>4. /\ disk' \subseteq Paths /\ kernel' \subseteq kernel /\ Root \in kernel'
        /\ \A p \in Paths \ {d} : p \in disk' <=> p \in disk
    BY <1>1, <1>2
  <2>5. \/ d \notin disk /\ d \in disk' /\ s = <<Ev("CREATE", d)>> /\ kernel' = kernel
        \/ /\ d \in disk /\ d \notin disk' /\ s = <<Ev("REMOVE", d)>>
           /\ kernel' = kernel \ {d}
    BY <1>2, <1>4
  <2>6. QED
    BY <1>1, <1>5, <2>1, <2>2, <2>3, <2>4, <2>5 DEF ChangeOf
<1>7. QED
  BY <1>6

\* Each change of the vault has this form.
LEMMA ChangeShape ==
  ASSUME Queue, VaultChanges
  PROVE  \E ps, seen : ChangeOf(ps, seen)
<1>0. disk \subseteq Paths /\ Files \subseteq Paths
  BY DEF Queue, VaultTypes, Paths
<1>1. ASSUME NEW f \in Files, Write(f)
      PROVE  \E ps, seen : ChangeOf(ps, seen)
  <2> DEFINE op == IF f \in disk THEN "WRITE" ELSE "CREATE"
  <2>1. Changed({f}, disk \cup {f}, Heard(op, f)) /\ kernel' = kernel
    BY <1>1 DEF Write
  <2>2. op \in Ops /\ op \in {"WRITE", "CREATE"}
    BY DEF Ops
  <2> HIDE DEF op
  <2>3. ChangeOf({f}, Heard(op, f))
    <3> DEFINE D == disk \cup {f}
    <3>1. D \subseteq Paths /\ f \in D /\ \A p \in Paths \ {f} : p \in D <=> p \in disk
      BY <1>0
    <3>2. Changed({f}, D, Heard(op, f))
      BY <2>1
    <3> HIDE DEF D
    <3>3. QED
      BY <2>1, <2>2, <3>1, <3>2, FileChange
  <2>4. QED
    BY <2>3
<1>2. ASSUME NEW f \in Files, Delete(f) \/ MoveOut(f)
      PROVE  \E ps, seen : ChangeOf(ps, seen)
  <2>1. PICK op \in {"REMOVE", "RENAME"} :
          Changed({f}, disk \ {f}, Heard(op, f)) /\ kernel' = kernel
    BY <1>2 DEF Delete, MoveOut
  <2>2. op \in Ops /\ op \notin {"WRITE", "CREATE"}
    BY DEF Ops
  <2>3. ChangeOf({f}, Heard(op, f))
    <3> DEFINE D == disk \ {f}
    <3>1. D \subseteq Paths /\ f \notin D /\ \A p \in Paths \ {f} : p \in D <=> p \in disk
      BY <1>0
    <3>2. Changed({f}, D, Heard(op, f))
      BY <2>1
    <3> HIDE DEF D
    <3>3. QED
      BY <2>1, <2>2, <3>1, <3>2, FileChange
  <2>4. QED
    BY <2>3
<1>3. ASSUME NEW f \in Files, NEW g \in Files, Move(f, g)
      PROVE  \E ps, seen : ChangeOf(ps, seen)
  BY <1>3, MoveChange
<1>4. ASSUME NEW d \in Dirs, MakeDir(d) \/ RemoveDir(d)
      PROVE  \E ps, seen : ChangeOf(ps, seen)
  BY <1>4, DirChange
<1>5. QED
  BY <1>1, <1>2, <1>3, <1>4 DEF VaultChanges

\* Two queues in a row.
LEMMA Joined ==
  ASSUME NEW S, NEW q \in Seq(S), NEW r \in Seq(S)
  PROVE  /\ q \o r \in Seq(S) /\ Len(q \o r) = Len(q) + Len(r)
         /\ \A n \in 1 .. Len(q) : n \in 1 .. Len(q \o r) /\ (q \o r)[n] = q[n]
         /\ \A n \in 1 .. Len(r) : /\ Len(q) + n \in 1 .. Len(q \o r)
                                   /\ (q \o r)[Len(q) + n] = r[n]
         /\ \A n \in 1 .. Len(q \o r) :
              n \in 1 .. Len(q) \/ (n - Len(q) \in 1 .. Len(r) /\ (q \o r)[n] = r[n - Len(q)])
<1>1. Len(q) \in Nat /\ Len(r) \in Nat /\ q \o r \in Seq(S) /\ Len(q \o r) = Len(q) + Len(r)
  OBVIOUS
<1>2. \A n \in 1 .. Len(q) : (q \o r)[n] = q[n]
  OBVIOUS
<1>3. \A n \in 1 .. Len(r) : (q \o r)[Len(q) + n] = r[n]
  OBVIOUS
<1> DEFINE l == Len(q)
           m == Len(r)
           k == Len(q \o r)
<1>4. l \in Nat /\ m \in Nat /\ k = l + m
  BY <1>1
<1> HIDE DEF l, m, k
<1>5. /\ \A n \in 1 .. l : n \in 1 .. k
      /\ \A n \in 1 .. m : l + n \in 1 .. k
      /\ \A n \in 1 .. k : n \in 1 .. l \/ (n - l \in 1 .. m /\ l + (n - l) = n)
  BY <1>4
<1>6. \A n \in 1 .. Len(q \o r) :
        n \in 1 .. Len(q) \/ (n - Len(q) \in 1 .. Len(r) /\ (q \o r)[n] = r[n - Len(q)])
  <2> SUFFICES ASSUME NEW n \in 1 .. Len(q \o r), n \notin 1 .. Len(q)
               PROVE  n - Len(q) \in 1 .. Len(r) /\ (q \o r)[n] = r[n - Len(q)]
    OBVIOUS
  <2>1. n - l \in 1 .. m /\ l + (n - l) = n
    BY <1>5 DEF l, m, k
  <2>2. (q \o r)[l + (n - l)] = r[n - l]
    BY <1>3, <2>1 DEF l, m
  <2>3. QED
    BY <2>1, <2>2 DEF l, m
<1>7. QED
  BY <1>1, <1>2, <1>3, <1>5, <1>6 DEF l, m, k

\* The queue after a change: what is heard follows, or an overflow is the last event.
LEMMA RaiseFacts ==
  ASSUME Queue, NEW seen \in Seq(Evs), Raise(seen),
         \A n \in 1 .. Len(seen) :
           /\ seen[n].op \in Ops /\ seen[n].path \in Paths
           /\ seen[n].path \in Dirs => seen[n].op \in {"CREATE", "REMOVE"}
  PROVE  /\ events' \in Seq(Evs) /\ overflows' \in Nat /\ QueueOrder'
         /\ \/ events' = events \o seen /\ overflows' = overflows /\ ~Overflowing
            \/ Overflowing' /\ overflows' # 0
<1>1. events \in Seq(Evs) /\ overflows \in Nat /\ QueueOrder
  BY DEF Queue, VaultTypes
<1>2. Overflow \in Evs
  BY DEF Overflow, Ev, Evs, Places
<1>3. ASSUME ~Overflowing
      PROVE  \A n \in 1 .. Len(events) :
               /\ events[n].op \in Ops /\ events[n].path \in Paths
               /\ events[n].path \in Dirs => events[n].op \in {"CREATE", "REMOVE"}
  BY <1>1, <1>3 DEF QueueOrder, Overflowing
<1>4. ASSUME ~Overflowing, NEW r \in Seq(Evs),
             \A n \in 1 .. Len(r) :
               /\ r[n].op \in Ops /\ r[n].path \in Paths
               /\ r[n].path \in Dirs => r[n].op \in {"CREATE", "REMOVE"}
      PROVE  /\ events \o r \in Seq(Evs)
             /\ \A n \in 1 .. Len(events \o r) :
                  /\ (events \o r)[n].op \in Ops /\ (events \o r)[n].path \in Paths
                  /\ (events \o r)[n].path \in Dirs =>
                       (events \o r)[n].op \in {"CREATE", "REMOVE"}
  <2> DEFINE q == events \o r
  <2>1. /\ q \in Seq(Evs) /\ \A n \in 1 .. Len(events) : q[n] = events[n]
        /\ \A n \in 1 .. Len(q) :
             n \in 1 .. Len(events) \/ (n - Len(events) \in 1 .. Len(r)
                                        /\ q[n] = r[n - Len(events)])
    BY <1>1, Joined
  <2> HIDE DEF q
  <2>2. \A n \in 1 .. Len(q) :
          /\ q[n].op \in Ops /\ q[n].path \in Paths
          /\ q[n].path \in Dirs => q[n].op \in {"CREATE", "REMOVE"}
    BY <1>3, <1>4, <2>1
  <2>3. QED
    BY <2>1, <2>2 DEF q
<1>5. CASE ~Overflowing /\ events' = events \o seen /\ UNCHANGED overflows
  <2>1. events' \in Seq(Evs) /\ QueueOrder'
    BY <1>4, <1>5 DEF QueueOrder
  <2>2. QED
    BY <1>1, <1>5, <2>1
<1>6. CASE /\ ~Overflowing /\ overflows' = overflows + 1
           /\ \E n \in 0 .. (Len(seen) - 1) :
                events' = Append(events \o SubSeq(seen, 1, n), Overflow)
  <2>1. PICK n \in 0 .. (Len(seen) - 1) :
          events' = Append(events \o SubSeq(seen, 1, n), Overflow)
    BY <1>6
  <2> DEFINE r == SubSeq(seen, 1, n)
             q == events \o r
  <2>2. r \in Seq(Evs) /\ \A i \in 1 .. Len(r) : i \in 1 .. Len(seen) /\ r[i] = seen[i]
    <3>1. Len(seen) \in Nat /\ n \in Nat /\ n <= Len(seen)
      BY <2>1
    <3>2. Len(r) = n /\ \A i \in 1 .. n : r[i] = seen[i] /\ i \in 1 .. Len(seen)
      BY <3>1
    <3>3. r \in Seq(Evs)
      <4>1. r = [i \in 1 .. n |-> seen[i]]
        BY <3>1
      <4>2. \A i \in 1 .. n : seen[i] \in Evs
        BY <3>2
      <4>3. QED
        BY <3>1, <4>1, <4>2
    <3>4. QED
      BY <3>2, <3>3
  <2> HIDE DEF r
  <2>3. /\ q \in Seq(Evs)
        /\ \A i \in 1 .. Len(q) :
             /\ q[i].op \in Ops /\ q[i].path \in Paths
             /\ q[i].path \in Dirs => q[i].op \in {"CREATE", "REMOVE"}
    BY <1>4, <1>6, <2>2
  <2>4. events' = Append(q, Overflow)
    BY <2>1 DEF r
  <2> HIDE DEF q
  <2>5. /\ events' \in Seq(Evs) /\ Len(events') = Len(q) + 1 /\ events'[Len(q) + 1] = Overflow
        /\ \A i \in 1 .. Len(q) : events'[i] = q[i]
    BY <1>2, <2>3, <2>4
  <2>6. overflows' \in Nat /\ overflows' > 0
    BY <1>1, <1>6
  <2>7. Len(q) \in Nat /\ \A i \in 1 .. Len(events') : i \in 1 .. Len(q) \/ i = Len(events')
    BY <2>3, <2>5
  <2>8. QueueOrder'
    BY <2>3, <2>5, <2>6, <2>7 DEF QueueOrder
  <2>9. Overflowing'
    BY <2>3, <2>5 DEF Overflowing
  <2>10. QED
    BY <2>5, <2>6, <2>8, <2>9
<1>7. CASE Overflowing /\ UNCHANGED <<events, overflows>>
  <2>1. overflows # 0
    <3>1. Len(events) \in 1 .. Len(events)
      BY <1>1, <1>7 DEF Overflowing
    <3>2. Overflow.op = "OVERFLOW"
      BY DEF Overflow, Ev
    <3>3. QED
      BY <1>1, <1>7, <3>1, <3>2 DEF QueueOrder, Overflowing, Ops
  <2>2. QED
    BY <1>1, <1>7, <2>1 DEF QueueOrder, Overflowing
<1>8. QED
  BY <1>5, <1>6, <1>7 DEF Raise

\* A queue without its first element.
LEMMA Rest ==
  ASSUME NEW S, NEW q \in Seq(S), q # <<>>
  PROVE  /\ Tail(q) \in Seq(S) /\ Len(Tail(q)) = Len(q) - 1 /\ Len(q) \in Nat
         /\ \A n \in 1 .. Len(Tail(q)) : /\ n + 1 \in 1 .. Len(q) /\ Tail(q)[n] = q[n + 1]
                                         /\ n + 1 = Len(q) => n = Len(Tail(q))
         /\ \A n \in 1 .. Len(q) :
              n = 1 \/ (n - 1 \in 1 .. Len(Tail(q)) /\ Tail(q)[n - 1] = q[n])
<1>1. Tail(q) \in Seq(S) /\ Len(Tail(q)) = Len(q) - 1 /\ Len(q) \in Nat /\ Len(q) # 0
  OBVIOUS
<1>2. \A n \in 1 .. Len(Tail(q)) : Tail(q)[n] = q[n + 1]
  OBVIOUS
<1> DEFINE l == Len(q)
           k == Len(Tail(q))
<1>3. l \in Nat /\ l # 0 /\ k = l - 1
  BY <1>1
<1> HIDE DEF l, k
<1>4. /\ \A n \in 1 .. k : n + 1 \in 1 .. l /\ (n + 1 = l => n = k)
      /\ \A n \in 1 .. l : n = 1 \/ (n - 1 \in 1 .. k /\ (n - 1) + 1 = n)
  BY <1>3
<1>5. QED
  BY <1>1, <1>2, <1>4 DEF l, k

\* What the loop does to the queue and the watches.
LEMMA LoopFacts ==
  ASSUME Queue, Loop
  PROVE  /\ events # <<>> /\ events' = Tail(events) /\ 1 \in 1 .. Len(events)
         /\ Head(events) = events[1] /\ loop = "run"
         /\ UNCHANGED <<disk, overflows, changes, loop, close>>
         /\ HandleStaging => events[1].path \in Staging
         /\ HandleRemove => events[1].op = "REMOVE" /\ events[1].path \in Paths \ Staging
         /\ HandleWrite => events[1].op = "WRITE" /\ events[1].path \in Files \ Staging
         /\ HandleRenameAway => events[1].op = "RENAME" /\ events[1].path \in Files \ Staging
         /\ HandleCreate => events[1].op = "CREATE" /\ events[1].path \in Paths \ Staging
         /\ HandleOverflow => events[1] = Overflow /\ Len(events) = 1
<1>1. /\ events # <<>> /\ events' = Tail(events)
      /\ UNCHANGED <<disk, overflows, changes, loop, close>> /\ loop = "run"
  BY DEF Loop, HandleStaging, HandleRemove, HandleWrite, HandleRenameAway, HandleCreate,
         HandleOverflow, Event, NextEvent, EventFrame
<1>2. events \in Seq(Evs) /\ Head(events) = events[1] /\ 1 \in 1 .. Len(events)
  BY <1>1 DEF Queue, VaultTypes
<1>3. \/ events[1] = Overflow /\ 1 = Len(events)
      \/ /\ events[1].op \in Ops /\ events[1].path \in Paths
         /\ events[1].path \in Dirs => events[1].op \in {"CREATE", "REMOVE"}
  BY <1>2 DEF Queue, QueueOrder
<1>4. Overflow.op = "OVERFLOW"
  BY DEF Overflow, Ev
<1>5. HandleStaging => events[1].path \in Staging
  BY <1>2 DEF HandleStaging
<1>6. /\ HandleRemove => events[1].op = "REMOVE" /\ events[1].path \in Paths \ Staging
      /\ HandleCreate => events[1].op = "CREATE" /\ events[1].path \in Paths \ Staging
  BY <1>2, <1>3, <1>4 DEF HandleRemove, HandleCreate, Event, NextEvent
<1>7. /\ HandleWrite => events[1].op = "WRITE" /\ events[1].path \in Files \ Staging
      /\ HandleRenameAway => events[1].op = "RENAME" /\ events[1].path \in Files \ Staging
  BY <1>2, <1>3, <1>4 DEF HandleWrite, HandleRenameAway, Event, NextEvent, Paths
<1>8. HandleOverflow => events[1] = Overflow /\ Len(events) = 1
  <2>1. HandleOverflow => events[1].op = "OVERFLOW"
    BY <1>2 DEF HandleOverflow, NextEvent
  <2>2. QED
    BY <1>3, <2>1 DEF Ops
<1>9. QED
  BY <1>1, <1>2, <1>5, <1>6, <1>7, <1>8

\* The queue, the vault and the watches are kept in order.
LEMMA QueueKept ==
  ASSUME Queue, [Next]_vars
  PROVE  Queue'
<1>0. /\ disk \subseteq Paths /\ kernel \subseteq Dirs \cup {Root}
      /\ watchedDirs \subseteq Dirs \cup {Root} /\ events \in Seq(Evs) /\ overflows \in Nat
      /\ dirty \subseteq Paths \ Staging /\ missed \subseteq dirty /\ QueueOrder
      /\ Root \in kernel /\ Root \notin Paths
  BY WatcherAssumption DEF Queue, VaultTypes
<1>1. CASE VaultChanges
  <2>1. PICK ps, seen : ChangeOf(ps, seen)
    BY <1>1, ChangeShape
  <2>2. /\ seen \in Seq(Evs) /\ Raise(seen) /\ UNCHANGED watchedDirs
        /\ dirty' = dirty \cup (ps \ Staging) /\ ps \subseteq Paths
        /\ missed' = {p \in missed \cup (ps \ Staging) : p \in ps => Parent(p) \notin kernel}
        /\ disk' \subseteq Paths /\ kernel' \subseteq kernel /\ Root \in kernel'
        /\ \A n \in 1 .. Len(seen) :
             /\ seen[n].op \in Ops /\ seen[n].path \in Paths
             /\ seen[n].path \in Dirs => seen[n].op \in {"CREATE", "REMOVE"}
    BY <2>1 DEF ChangeOf, Changed
  <2>3. events' \in Seq(Evs) /\ overflows' \in Nat /\ QueueOrder'
    BY <2>2, RaiseFacts
  <2>4. QED
    BY <1>0, <2>2, <2>3 DEF Queue, VaultTypes
<1>2. CASE Loop
  <2>1. /\ events # <<>> /\ events' = Tail(events) /\ UNCHANGED <<disk, overflows>>
    BY <1>2, LoopFacts
  <2>2. /\ events' \in Seq(Evs)
        /\ \A n \in 1 .. Len(events') : /\ n + 1 \in 1 .. Len(events) /\ events'[n] = events[n + 1]
                                        /\ n + 1 = Len(events) => n = Len(events')
    BY <1>0, <2>1, Rest
  <2>3. QueueOrder'
    <3> SUFFICES ASSUME NEW n \in 1 .. Len(events')
                 PROVE  \/ events'[n] = Overflow /\ n = Len(events') /\ overflows' > 0
                        \/ /\ events'[n].op \in Ops /\ events'[n].path \in Paths
                           /\ events'[n].path \in Dirs =>
                                events'[n].op \in {"CREATE", "REMOVE"}
      BY DEF QueueOrder
    <3>1. /\ n + 1 \in 1 .. Len(events) /\ events'[n] = events[n + 1]
          /\ n + 1 = Len(events) => n = Len(events')
      BY <2>2
    <3>2. CASE events[n + 1] = Overflow /\ n + 1 = Len(events) /\ overflows > 0
      BY <2>1, <3>1, <3>2
    <3>3. CASE ~(events[n + 1] = Overflow /\ n + 1 = Len(events) /\ overflows > 0)
      BY <1>0, <3>1, <3>3 DEF QueueOrder
    <3>4. QED
      BY <3>2, <3>3
  <2>4. /\ kernel' \subseteq Dirs \cup {Root} /\ watchedDirs' \subseteq Dirs \cup {Root}
        /\ Root \in kernel'
    <3>1. ASSUME NEW ds \in SUBSET Dirs, AddRecursive(ds)
          PROVE  /\ kernel' \subseteq Dirs \cup {Root} /\ watchedDirs' \subseteq Dirs \cup {Root}
                 /\ Root \in kernel'
      BY <1>0, <3>1 DEF AddRecursive
    <3>2. ASSUME NEW p \in Paths, RemoveKnownDir(p)
          PROVE  /\ kernel' \subseteq Dirs \cup {Root} /\ watchedDirs' \subseteq Dirs \cup {Root}
                 /\ Root \in kernel'
      BY <1>0, <3>2 DEF RemoveKnownDir
    <3>3. CASE HandleStaging \/ HandleWrite
      BY <1>0, <3>3 DEF HandleStaging, HandleWrite
    <3>4. CASE HandleRemove \/ HandleRenameAway
      <4>1. Head(events).path \in Paths
        BY <1>2, <3>4, LoopFacts DEF Paths
      <4>2. RemoveKnownDir(Head(events).path)
        BY <3>4 DEF HandleRemove, HandleRenameAway
      <4>3. QED
        BY <3>2, <4>1, <4>2
    <3>5. CASE HandleCreate
      <4>1. AddRecursive({Head(events).path} \cap Dirs)
        BY <3>5 DEF HandleCreate
      <4>2. QED
        BY <3>1, <4>1
    <3>6. CASE HandleOverflow
      BY <3>1, <3>6 DEF HandleOverflow
    <3>7. QED
      BY <1>2, <3>3, <3>4, <3>5, <3>6 DEF Loop
  <2>5. dirty' \subseteq Paths \ Staging /\ missed' \subseteq dirty'
    <3>1. UNCHANGED history \/ (dirty' = {} /\ missed' = {})
      BY <1>2 DEF Loop, HandleStaging, HandleRemove, HandleWrite, HandleRenameAway,
                  HandleCreate, HandleOverflow
    <3>2. QED
      BY <1>0, <3>1 DEF history
  <2>6. QED
    BY <1>0, <2>1, <2>2, <2>3, <2>4, <2>5 DEF Queue, VaultTypes
<1>3. ASSUME UNCHANGED <<vault, watchedDirs>>,
             \/ UNCHANGED history
             \/ \E T : dirty' = dirty \ T /\ missed' = missed \ T
      PROVE  Queue'
  <2>1. UNCHANGED <<disk, kernel, events, overflows, watchedDirs>>
    BY <1>3 DEF vault
  <2>2. dirty' \subseteq Paths \ Staging /\ missed' \subseteq dirty'
    BY <1>0, <1>3 DEF history
  <2>3. QED
    BY <1>0, <2>1, <2>2 DEF Queue, VaultTypes, QueueOrder
<1>4. CASE Close \/ LoopEnds \/ CloseReturns \/ Leave \/ FirePendingRename
           \/ \E t \in timers : Fire(t)
  BY <1>3, <1>4 DEF Close, LoopEnds, CloseReturns, Leave, FirePendingRename, Fire, TimerFrame
<1>5. ASSUME NEW i \in Running, Callback(i)
      PROVE  Queue'
  <2>1. CASE EnterPendingRename(i) \/ \E t \in timers : Enter(t, i)
    BY <1>3, <2>1 DEF EnterPendingRename, Enter, TimerFrame
  <2>2. CASE CheckDelete(i) \/ RecheckDelete(i)
    BY <1>3, <2>2 DEF CheckDelete, RecheckDelete, CallFrame, TimerFrame
  <2>3. CASE Report(i)
    BY <1>3, <2>3 DEF Report, CallFrame, TimerFrame
  <2>4. QED
    BY <1>5, <2>1, <2>2, <2>3 DEF Callback
<1>6. CASE UNCHANGED vars
  BY <1>3, <1>6 DEF vars, vault
<1>7. QED
  BY <1>1, <1>2, <1>4, <1>5, <1>6 DEF Next, Goroutines

-----------------------------------------------------------------------------
(* No change is forgotten.                                                  *)

\* What an event says of its path that is not so.
Disagrees(e) == e.path \in dirty \ missed /\ ~(e.path \in disk <=> Says(e))

\* The last event of a path says what the path is.
LastAgrees == \A n \in 1 .. Len(events) : Disagrees(events[n]) =>
  \E k \in 1 .. Len(events) : k > n /\ (events[k] = Overflow \/ events[k].path = events[n].path)

\* The overflow is none of a path.
LEMMA OverflowFacts ==
  Overflow.path = Root /\ Overflow.op = "OVERFLOW" /\ Root \notin Paths /\ Overflow.op \notin Ops
BY WatcherAssumption DEF Overflow, Ev, Ops

\* A path that is dirty after a change and was heard of, if it was, or else that was so before.
LEMMA DirtyAfter ==
  ASSUME Queue, NEW ps, NEW seen, ChangeOf(ps, seen), NEW p \in dirty' \ missed'
  PROVE  /\ p \in ps => \E n \in 1 .. Len(seen) : seen[n].path = p
         /\ p \notin ps => p \in dirty \ missed /\ (p \in disk' <=> p \in disk)
<1>1. /\ dirty' = dirty \cup (ps \ Staging) /\ dirty \subseteq Paths \ Staging
      /\ missed' = {x \in missed \cup (ps \ Staging) : x \in ps => Parent(x) \notin kernel}
      /\ ps \subseteq Paths
  BY DEF ChangeOf, Changed, Queue, VaultTypes
<1>2. CASE p \in ps
  BY <1>1, <1>2 DEF ChangeOf
<1>3. CASE p \notin ps
  BY <1>1, <1>3 DEF ChangeOf
<1>4. QED
  BY <1>2, <1>3

\* A change of the vault.
LEMMA LastAgreesOfChange ==
  ASSUME Queue, LastAgrees, NEW ps, NEW seen, ChangeOf(ps, seen)
  PROVE  LastAgrees'
<1>1. /\ seen \in Seq(Evs) /\ Raise(seen) /\ events \in Seq(Evs)
      /\ \A n \in 1 .. Len(seen) :
           /\ seen[n].op \in Ops /\ seen[n].path \in Paths /\ seen[n].path \in ps
           /\ seen[n].path \in disk' <=> Says(seen[n])
           /\ seen[n].path \in Dirs => seen[n].op \in {"CREATE", "REMOVE"}
  BY DEF ChangeOf, Changed, Queue, VaultTypes
<1>2. Queue'
  <2>1. dirty' \subseteq Paths \ Staging /\ missed' \subseteq dirty'
    BY DEF ChangeOf, Changed, Queue, VaultTypes
  <2>2. events' \in Seq(Evs) /\ overflows' \in Nat /\ QueueOrder'
    BY <1>1, RaiseFacts
  <2>3. QED
    BY <2>1, <2>2 DEF ChangeOf, Changed, Queue, VaultTypes
<1> SUFFICES ASSUME NEW n \in 1 .. Len(events'), Disagrees(events[n])'
             PROVE  \E k \in 1 .. Len(events') :
                      k > n /\ (events'[k] = Overflow \/ events'[k].path = events'[n].path)
  BY DEF LastAgrees
<1>3. events'[n].path \in dirty' \ missed' /\ ~(events'[n].path \in disk' <=> Says(events'[n]))
  BY DEF Disagrees, Says
<1>4. \/ events' = events \o seen
      \/ Overflowing'
  BY <1>1, RaiseFacts
<1>5. CASE Overflowing'
  <2>1. events' \in Seq(Evs) /\ events' # <<>> /\ events'[Len(events')] = Overflow
    BY <1>2, <1>5 DEF Overflowing, Queue, VaultTypes
  <2>2. Len(events') \in 1 .. Len(events') /\ (Len(events') > n \/ Len(events') = n)
    BY <2>1
  <2>3. Len(events') # n
    BY <1>2, <1>3, <2>1, OverflowFacts DEF Queue, VaultTypes
  <2>4. QED
    BY <2>1, <2>2, <2>3
<1>6. CASE events' = events \o seen
  <2>1. /\ \A i \in 1 .. Len(events) : i \in 1 .. Len(events') /\ events'[i] = events[i]
        /\ \A i \in 1 .. Len(seen) : /\ Len(events) + i \in 1 .. Len(events')
                                     /\ events'[Len(events) + i] = seen[i]
        /\ n \in 1 .. Len(events) \/ (n - Len(events) \in 1 .. Len(seen)
                                      /\ events'[n] = seen[n - Len(events)])
    BY <1>1, <1>6, Joined
  <2>2. n \in 1 .. Len(events) /\ events'[n] = events[n]
    BY <1>1, <1>3, <2>1
  <2>3. CASE events'[n].path \in ps
    <3>1. PICK i \in 1 .. Len(seen) : seen[i].path = events'[n].path
      BY <1>3, <2>3, DirtyAfter
    <3>2. Len(events) + i > n
      BY <1>1, <2>2
    <3>3. QED
      BY <2>1, <3>1, <3>2
  <2>4. CASE events'[n].path \notin ps
    <3>1. Disagrees(events[n])
      BY <1>3, <2>2, <2>4, DirtyAfter DEF Disagrees, Says
    <3>2. PICK k \in 1 .. Len(events) :
            k > n /\ (events[k] = Overflow \/ events[k].path = events[n].path)
      BY <2>2, <3>1 DEF LastAgrees
    <3>3. QED
      BY <2>1, <2>2, <3>2
  <2>5. QED
    BY <2>3, <2>4
<1>7. QED
  BY <1>4, <1>5, <1>6

\* Every step keeps it so.
LEMMA LastAgreesKept ==
  ASSUME Queue, LastAgrees, [Next]_vars
  PROVE  LastAgrees'
<1>1. CASE VaultChanges
  BY <1>1, ChangeShape, LastAgreesOfChange
<1>2. CASE Loop
  <2>1. /\ events # <<>> /\ events' = Tail(events) /\ UNCHANGED <<disk, overflows>>
        /\ events \in Seq(Evs)
    BY <1>2, LoopFacts DEF Queue, VaultTypes
  <2>2. \A n \in 1 .. Len(events') : n + 1 \in 1 .. Len(events) /\ events'[n] = events[n + 1]
    BY <2>1, Rest
  <2>3. \A n \in 1 .. Len(events) : n = 1 \/ (n - 1 \in 1 .. Len(events')
                                              /\ events'[n - 1] = events[n])
    BY <2>1, Rest
  <2>4. UNCHANGED history \/ dirty' = {}
    BY <1>2 DEF Loop, HandleStaging, HandleRemove, HandleWrite, HandleRenameAway, HandleCreate,
                HandleOverflow
  <2> SUFFICES ASSUME NEW n \in 1 .. Len(events'), Disagrees(events[n])'
               PROVE  \E k \in 1 .. Len(events') :
                        k > n /\ (events'[k] = Overflow \/ events'[k].path = events'[n].path)
    BY DEF LastAgrees
  <2>5. Disagrees(events[n + 1]) /\ n + 1 \in 1 .. Len(events) /\ events'[n] = events[n + 1]
    BY <2>1, <2>2, <2>4 DEF Disagrees, Says, history
  <2>6. PICK k \in 1 .. Len(events) :
          k > n + 1 /\ (events[k] = Overflow \/ events[k].path = events[n + 1].path)
    BY <2>5 DEF LastAgrees
  <2>7. k - 1 \in 1 .. Len(events') /\ events'[k - 1] = events[k] /\ k - 1 > n
    BY <2>3, <2>6
  <2>8. QED
    BY <2>5, <2>6, <2>7
<1>3. ASSUME UNCHANGED <<vault>>,
             \/ UNCHANGED history
             \/ \E T : dirty' = dirty \ T /\ missed' = missed \ T
      PROVE  LastAgrees'
  <2>1. UNCHANGED <<disk, events>>
    BY <1>3 DEF vault
  <2>2. ASSUME NEW n \in 1 .. Len(events), Disagrees(events[n])'
        PROVE  Disagrees(events[n])
    BY <1>3, <2>1, <2>2 DEF Disagrees, Says, history
  <2>3. QED
    BY <2>1, <2>2 DEF LastAgrees
<1>4. CASE Close \/ LoopEnds \/ CloseReturns \/ Leave \/ FirePendingRename
           \/ \E t \in timers : Fire(t)
  BY <1>3, <1>4 DEF Close, LoopEnds, CloseReturns, Leave, FirePendingRename, Fire, TimerFrame
<1>5. ASSUME NEW i \in Running, Callback(i)
      PROVE  LastAgrees'
  <2>1. CASE EnterPendingRename(i) \/ \E t \in timers : Enter(t, i)
    BY <1>3, <2>1 DEF EnterPendingRename, Enter, TimerFrame
  <2>2. CASE CheckDelete(i) \/ RecheckDelete(i)
    BY <1>3, <2>2 DEF CheckDelete, RecheckDelete, CallFrame, TimerFrame
  <2>3. CASE Report(i)
    BY <1>3, <2>3 DEF Report, CallFrame, TimerFrame
  <2>4. QED
    BY <1>5, <2>1, <2>2, <2>3 DEF Callback
<1>6. CASE UNCHANGED vars
  BY <1>3, <1>6 DEF vars, vault
<1>7. QED
  BY <1>1, <1>2, <1>4, <1>5, <1>6 DEF Next, Goroutines

\* What tells the service of x: a timer, a callback, or a RENAME that is held back.
Kinds     == {"modify", "delete", "rename"}
Teller(t) == t \in timers \/ t = pendingRename \/ \E i \in Running : t = calls[i]
Telling(t, x, there) ==
  \/ t.kind = "modify" /\ x = t.path /\ there
  \/ t.kind = "delete" /\ x = t.path /\ ~there /\ t.current
  \/ t.kind = "rename" /\ ((x = t.path /\ there) \/ (x = t.from /\ ~there))
Queued(x) == \E n \in 1 .. Len(events) : events[n] = Overflow \/ events[n].path = x
Tells(x)  == \E t : Teller(t) /\ t.at # "over" /\ t.kind \in Kinds /\ Telling(t, x, x \in disk)

\* Telling is what Told is about.
LEMMA TellsIs ==
  ASSUME NEW t, t.kind \in Kinds, NEW x
  PROVE  /\ TellsOf(t, x) <=> Telling(t, x, x \in disk)
         /\ TellsOf(t, x)' <=> Telling(t, x, x \in disk')
<1>1. CASE t.kind = "modify"
  BY <1>1 DEF TellsOf, Told, Telling
<1>2. CASE t.kind = "delete"
  BY <1>2 DEF TellsOf, Told, Telling
<1>3. CASE t.kind = "rename"
  BY <1>3 DEF TellsOf, Told, Telling
<1>4. QED
  BY <1>1, <1>2, <1>3 DEF Kinds

\* Every teller is of one of three kinds.
LEMMA TellerKinds ==
  ASSUME Process, NEW t, Teller(t), t.at # "over"
  PROVE  t.kind \in Kinds /\ t \in Timed
<1>1. CASE t \in timers
  BY <1>1, WgFacts DEF Process, Timed, Kinds
<1>2. CASE t = pendingRename
  BY <1>2, TimerFacts, WgFacts DEF Process, ProcessTypes, HeldTypes, Kinds
<1>3. ASSUME NEW i \in Running, t = calls[i]
      PROVE  t.kind \in Kinds /\ t \in Timed
  BY <1>3, TimerFacts DEF Process, ProcessTypes, CallTypes, Timed, Kinds
<1>4. QED
  BY <1>1, <1>2, <1>3 DEF Teller

\* What is outstanding, before and after a step.
LEMMA OutstandingIs ==
  ASSUME Process, NEW x
  PROVE  /\ Outstanding(x) => Queued(x) \/ Tells(x)
         /\ Queued(x)' \/ Tells(x)' => Outstanding(x)'
<1>1. ASSUME Outstanding(x), ~Queued(x)
      PROVE  Tells(x)
  <2>1. PICK t \in timers \cup {calls[i] : i \in Running} \cup {pendingRename} :
          t.at # "over" /\ TellsOf(t, x)
    BY <1>1 DEF Outstanding, Queued
  <2>2. Teller(t)
    BY <2>1 DEF Teller
  <2>3. t.kind \in Kinds
    BY <2>1, <2>2, TellerKinds
  <2>4. QED
    BY <2>1, <2>2, <2>3, TellsIs DEF Tells
<1>2. Queued(x)' => Outstanding(x)'
  BY DEF Queued, Outstanding
<1>3. ASSUME Tells(x)'
      PROVE  Outstanding(x)'
  <2>1. PICK t : /\ Teller(t)' /\ t.at # "over" /\ t.kind \in Kinds
                 /\ Telling(t, x, x \in disk')
    BY <1>3 DEF Tells, Telling
  <2>2. TellsOf(t, x)'
    BY <2>1, TellsIs
  <2>3. t \in timers' \cup {calls'[i] : i \in Running} \cup {pendingRename'}
    BY <2>1 DEF Teller
  <2>4. QED
    BY <2>1, <2>2, <2>3 DEF Outstanding
<1>4. QED
  BY <1>1, <1>2, <1>3

\* A teller whose place is taken by one like it goes on telling.
LEMMA Survives ==
  ASSUME NEW t, t.kind \in Kinds, NEW u, Teller(u)', u.at # "over", Like(t, u),
         NEW x, x \in disk' <=> x \in disk, Telling(t, x, x \in disk)
  PROVE  Tells(x)'
<1>1. u.kind \in Kinds /\ Telling(u, x, x \in disk')
  BY DEF Like, SameKey, Telling
<1>2. QED
  BY <1>1 DEF Tells, Telling

\* A change of the vault.
LEMMA ForgottenByChange ==
  ASSUME Queue, Process, NothingForgotten, VaultChanges
  PROVE  NothingForgotten'
<1>1. PICK ps, seen : ChangeOf(ps, seen)
  BY ChangeShape
<1>2. /\ seen \in Seq(Evs) /\ Raise(seen) /\ events \in Seq(Evs) /\ close = "open"
      /\ UNCHANGED <<timers, pendingRename, calls>>
      /\ \A n \in 1 .. Len(seen) :
           /\ seen[n].op \in Ops /\ seen[n].path \in Paths /\ seen[n].path \in ps
           /\ seen[n].path \in Dirs => seen[n].op \in {"CREATE", "REMOVE"}
  BY <1>1 DEF ChangeOf, Changed, Queue, VaultTypes, pending
<1>3. /\ events' \in Seq(Evs)
      /\ events' = events \o seen \/ Overflowing'
  BY <1>2, RaiseFacts
<1> SUFFICES ASSUME NEW x \in dirty' \ missed'
             PROVE  Outstanding(x)'
  BY DEF NothingForgotten
<1>4. CASE Overflowing'
  <2>1. Len(events') \in 1 .. Len(events') /\ events'[Len(events')] = Overflow
    BY <1>3, <1>4 DEF Overflowing
  <2>2. Queued(x)'
    BY <2>1 DEF Queued
  <2>3. QED
    BY <2>2, OutstandingIs
<1>5. CASE events' = events \o seen
  <2>1. /\ \A i \in 1 .. Len(events) : i \in 1 .. Len(events') /\ events'[i] = events[i]
        /\ \A i \in 1 .. Len(seen) : /\ Len(events) + i \in 1 .. Len(events')
                                     /\ events'[Len(events) + i] = seen[i]
    BY <1>2, <1>5, Joined
  <2>2. CASE x \in ps
    <3>1. PICK n \in 1 .. Len(seen) : seen[n].path = x
      BY <1>1, <2>2, DirtyAfter
    <3>2. Queued(x)'
      BY <2>1, <3>1 DEF Queued
    <3>3. QED
      BY <3>2, OutstandingIs
  <2>3. CASE x \notin ps
    <3>1. x \in dirty \ missed /\ (x \in disk' <=> x \in disk)
      BY <1>1, <2>3, DirtyAfter
    <3>2. Queued(x) \/ Tells(x)
      BY <1>2, <3>1, OutstandingIs DEF NothingForgotten, Closed
    <3>3. CASE Queued(x)
      <4>1. Queued(x)'
        BY <2>1, <3>3 DEF Queued
      <4>2. QED
        BY <4>1, OutstandingIs
    <3>4. CASE Tells(x)
      <4>1. PICK t : /\ Teller(t) /\ t.at # "over" /\ t.kind \in Kinds
                     /\ Telling(t, x, x \in disk)
        BY <3>4 DEF Tells
      <4>2. Teller(t)' /\ Like(t, t)
        BY <1>2, <4>1 DEF Teller, Like, SameKey
      <4>3. QED
        BY <3>1, <4>1, <4>2, Survives, OutstandingIs
    <3>5. QED
      BY <3>2, <3>3, <3>4
  <2>4. QED
    BY <2>2, <2>3
<1>6. QED
  BY <1>3, <1>4, <1>5

\* A handler leaves the tellers of other paths what they are.
LEMMA HandlerSpares ==
  ASSUME Process, ~Closed, NEW ps, NEW new, Handled(ps, new), NextGenOfCalls(ps),
         UNCHANGED disk, NEW t, t.at # "over", t.kind \in Kinds, NEW x,
         Telling(t, x, x \in disk),
         \/ t \in timers /\ (t.kind = "rename" \/ t.path \notin ps)
         \/ /\ \E i \in Running : t = calls[i]
            /\ t.kind # "delete" \/ t.path \notin ps
  PROVE  Tells(x)'
<1>1. CASE t \in timers /\ (t.kind = "rename" \/ t.path \notin ps)
  <2>1. PICK u \in timers' : Like(t, u)
    BY <1>1 DEF Handled
  <2>2. u.at \in Waiting
    BY <2>1, NowFacts DEF Handled, Good
  <2>3. QED
    BY <2>1, <2>2, Survives DEF Teller, Waiting
<1>2. ASSUME NEW i \in Running, t = calls[i], t.kind # "delete" \/ t.path \notin ps
      PROVE  Tells(x)'
  <2>1. calls'[i] = t
    BY <1>2, OutdateSame DEF NextGenOfCalls
  <2>2. Teller(t)' /\ Like(t, t)
    BY <2>1 DEF Teller, Like, SameKey
  <2>3. QED
    BY <2>2, Survives
<1>3. QED
  BY <1>1, <1>2

\* A timer that a handler has armed tells.
LEMMA HandlerTells ==
  ASSUME ~Closed, NEW ps, NEW new, Handled(ps, new), NEW u \in new, u.kind \in Kinds,
         NEW x, UNCHANGED disk, Telling(u, x, x \in disk)
  PROVE  Tells(x)'
<1>1. u \in timers' /\ u.at \in Waiting
  BY NowFacts DEF Handled, Good
<1>2. QED
  BY <1>1 DEF Tells, Teller, Telling, Waiting

\* The handler of an event of p, for a path that another timer or callback tells of.
LEMMA ForgottenElsewhere ==
  ASSUME Types, Process, ~Closed,
         HandleRemove \/ HandleWrite \/ HandleRenameAway \/ HandleCreate,
         NEW p, p = Head(events).path, NEW x, x # p, Tells(x), UNCHANGED disk
  PROVE  Tells(x)'
<1>0. HeldBack /\ p \in Places /\ Root \in Places /\ pendingRename \in Timed
  <2>1. p \in Places
    BY FirstEvent DEF HandleRemove, HandleWrite, HandleRenameAway, HandleCreate, Ops
  <2>2. QED
    BY <2>1, WgFacts DEF Process, Places
<1>1. PICK t : /\ Teller(t) /\ t.at # "over" /\ t.kind \in Kinds
               /\ Telling(t, x, x \in disk)
  BY DEF Tells
<1> DEFINE h == pendingRename
<1>2. t.kind # "rename" => t.path = x
  BY <1>1 DEF Telling
<1>3. t = h => /\ h # NoTimer /\ h.kind = "delete" /\ h.current /\ h.path = x /\ x \notin disk
               /\ h.from = Root
  BY <1>1, <1>2, TimerFacts DEF Process, ProcessTypes, HeldTypes, Telling
<1>4. CASE HandleRemove \/ HandleWrite
  <2>1. /\ NextGenOfCalls({p})
        /\ pendingRename' = (IF h.path = p THEN NoTimer ELSE h)
        /\ \E new : Handled({p}, new)
    BY <1>4, RearmFacts
  <2>2. CASE t = h
    <3>1. Teller(t)' /\ Like(t, t)
      BY <1>3, <2>1, <2>2 DEF Teller, Like, SameKey
    <3>2. QED
      BY <1>1, <3>1, Survives
  <2>3. CASE t # h
    BY <1>1, <1>2, <2>1, <2>3, HandlerSpares DEF Teller
  <2>4. QED
    BY <2>2, <2>3
<1>5. CASE HandleRenameAway
  <2> DEFINE g == [h EXCEPT !.at = "armed"]
             new == IF h = NoTimer THEN {} ELSE {Outdate(g, {p})}
  <2>1. NextGenOfCalls({p}) /\ Handled({p}, new)
    BY <1>0, <1>5, RenameAwayFacts
  <2>2. CASE t = h
    <3>1. /\ g.kind = "delete" /\ g.path = x /\ g.current
      BY <1>0, <1>3, <2>2 DEF Timed
    <3>2. Outdate(g, {p}) = g
      <4> HIDE DEF g
      <4>1. QED
        BY <3>1, OutdateSame
    <3>3. g \in new
      BY <1>3, <2>2, <3>2
    <3>4. g.kind \in Kinds /\ Telling(g, x, x \in disk)
      BY <1>3, <2>2, <3>1 DEF Kinds, Telling
    <3> HIDE DEF g, new
    <3>5. QED
      BY <2>1, <3>3, <3>4, HandlerTells
  <2>3. CASE t # h
    <3> HIDE DEF g, new
    <3>1. QED
      BY <1>1, <1>2, <2>1, <2>3, HandlerSpares DEF Teller
  <2>4. QED
    BY <2>2, <2>3
<1>6. CASE HandleCreate
  <2> DEFINE old == h.path
             u == Timer("rename", old, p)
  <2>1. \/ /\ h # NoTimer /\ old # p
           /\ Handled({old, p}, {u}) /\ NextGenOfCalls({old, p})
        \/ /\ h = NoTimer \/ old = p
           /\ NextGenOfCalls({p}) /\ \E new : Handled({p}, new)
    BY <1>6, CreateFacts
  <2>2. CASE h # NoTimer /\ old # p /\ Handled({old, p}, {u}) /\ NextGenOfCalls({old, p})
    <3>1. u.kind = "rename" /\ u.from = old /\ u.path = p
      BY <1>0, TimerFacts DEF Timed
    <3>2. CASE x = old /\ x \notin disk
      <4>1. u.kind \in Kinds /\ Telling(u, x, x \in disk)
        BY <3>1, <3>2 DEF Kinds, Telling
      <4> HIDE DEF u
      <4>2. QED
        BY <2>2, <4>1, HandlerTells
    <3>3. CASE x = old /\ x \in disk
      <4>1. t # h /\ t.kind # "delete"
        BY <1>1, <1>3, <3>3 DEF Telling
      <4>2. t.kind = "rename" \/ t \notin timers
        <5>1. t \in timers /\ t.path = h.path => t.kind # "modify"
          BY <1>0, <2>2 DEF HeldBack
        <5>2. QED
          BY <1>1, <1>2, <3>3, <4>1, <5>1 DEF Kinds
      <4> HIDE DEF u
      <4>3. QED
        BY <1>1, <2>2, <4>1, <4>2, HandlerSpares DEF Teller
    <3>4. CASE x # old
      <4>1. t # h /\ (t.kind = "rename" \/ t.path \notin {old, p})
        BY <1>2, <1>3, <3>4
      <4> HIDE DEF u
      <4>2. QED
        BY <1>1, <2>2, <4>1, HandlerSpares DEF Teller
    <3>5. QED
      BY <3>2, <3>3, <3>4
  <2>3. CASE (h = NoTimer \/ old = p) /\ NextGenOfCalls({p}) /\ \E new : Handled({p}, new)
    <3>1. t # h
      BY <1>3, <2>3
    <3>2. QED
      BY <1>1, <1>2, <2>3, <3>1, HandlerSpares DEF Teller
  <2>4. QED
    BY <2>1, <2>2, <2>3
<1>7. QED
  BY <1>4, <1>5, <1>6

\* The handler of the last event of p, which says what p is.
LEMMA ForgottenHere ==
  ASSUME Types, Process, ~Closed, Loop, Queue,
         HandleRemove \/ HandleWrite \/ HandleRenameAway \/ HandleCreate,
         NEW p, p = events[1].path, p \in disk <=> Says(events[1]), UNCHANGED disk
  PROVE  Tells(p)'
<1>0. p \in Places /\ Root \in Places /\ pendingRename \in Timed /\ p = Head(events).path
      /\ HeldBack
  BY LoopFacts, WgFacts DEF Process, Places, Paths
<1>1. CASE HandleRemove
  <2> DEFINE u == Timer("delete", Root, p)
  <2>1. Handled({p}, {u}) /\ u.kind = "delete" /\ u.path = p /\ u.current
    <3>1. u.kind = "delete" /\ u.path = p /\ u.current
      BY <1>0, TimerFacts
    <3>2. Handled({p}, {u})
      BY <1>0, <1>1, RearmFacts
    <3>3. QED
      BY <3>1, <3>2
  <2>2. p \notin disk
    BY <1>1, LoopFacts DEF Says
  <2> HIDE DEF u
  <2>3. u.kind \in Kinds /\ Telling(u, p, p \in disk)
    BY <2>1, <2>2 DEF Kinds, Telling
  <2>4. QED
    BY <2>1, <2>3, HandlerTells
<1>2. CASE HandleWrite
  <2> DEFINE u == Timer("modify", Root, p)
  <2>1. Handled({p}, {u}) /\ u.kind = "modify" /\ u.path = p
    <3>1. u.kind = "modify" /\ u.path = p
      BY <1>0, TimerFacts
    <3>2. Handled({p}, {u})
      BY <1>0, <1>2, RearmFacts
    <3>3. QED
      BY <3>1, <3>2
  <2>2. p \in disk
    BY <1>2, LoopFacts DEF Says
  <2> HIDE DEF u
  <2>3. u.kind \in Kinds /\ Telling(u, p, p \in disk)
    BY <2>1, <2>2 DEF Kinds, Telling
  <2>4. QED
    BY <2>1, <2>3, HandlerTells
<1>3. CASE HandleRenameAway
  <2> DEFINE u == Timer("delete", Root, p)
  <2>1. /\ pendingRename' = u /\ u.kind = "delete" /\ u.path = p /\ u.current
        /\ u.at = "armed"
    <3>1. u.kind = "delete" /\ u.path = p /\ u.current /\ u.at = "armed"
      BY <1>0, TimerFacts
    <3>2. pendingRename' = u
      BY <1>0, <1>3, RenameAwayFacts
    <3>3. QED
      BY <3>1, <3>2
  <2>2. p \notin disk'
    BY <1>3, LoopFacts DEF Says
  <2> HIDE DEF u
  <2>3. u.kind \in Kinds /\ Telling(u, p, p \in disk') /\ Teller(u)'
    BY <2>1, <2>2 DEF Kinds, Telling, Teller
  <2>4. QED
    BY <2>1, <2>3 DEF Tells, Telling
<1>4. CASE HandleCreate
  <2> DEFINE old == pendingRename.path
             r == Timer("rename", old, p)
             m == Timer("modify", Root, p)
  <2>1. \/ Handled({old, p}, {r})
        \/ Handled({p}, {m})
    BY <1>0, <1>4, CreateFacts
  <2>2. r.kind = "rename" /\ r.path = p /\ m.kind = "modify" /\ m.path = p
    BY <1>0, TimerFacts DEF Timed
  <2>3. p \in disk
    BY <1>4, LoopFacts DEF Says
  <2> HIDE DEF r, m, old
  <2>4. /\ r.kind \in Kinds /\ Telling(r, p, p \in disk)
        /\ m.kind \in Kinds /\ Telling(m, p, p \in disk)
    BY <2>2, <2>3 DEF Kinds, Telling
  <2>5. QED
    BY <2>1, <2>4, HandlerTells
<1>5. QED
  BY <1>1, <1>2, <1>3, <1>4

\* The loop takes an event.
LEMMA ForgottenByLoop ==
  ASSUME Queue, Process, LastAgrees, NothingForgotten, Loop
  PROVE  NothingForgotten'
<1>0. Types /\ events \in Seq(Evs)
  BY DEF Types, Queue, Process, VaultTypes
<1>1. /\ events # <<>> /\ events' = Tail(events) /\ Head(events) = events[1]
      /\ UNCHANGED <<disk, close>> /\ 1 \in 1 .. Len(events)
  BY LoopFacts
<1>2. \A n \in 1 .. Len(events) : n = 1 \/ (n - 1 \in 1 .. Len(events')
                                            /\ events'[n - 1] = events[n])
  BY <1>0, <1>1, Rest
<1>3. CASE HandleOverflow
  BY <1>3 DEF HandleOverflow, NothingForgotten
<1>4. CASE ~HandleOverflow
  <2>1. UNCHANGED history
    BY <1>4 DEF Loop, HandleStaging, HandleRemove, HandleWrite, HandleRenameAway, HandleCreate
  <2> SUFFICES ASSUME ~Closed, NEW x \in dirty \ missed
               PROVE  Queued(x)' \/ Tells(x)'
    BY <1>1, <2>1, OutstandingIs DEF NothingForgotten, Closed, history
  <2>2. Queued(x) \/ Tells(x)
    BY OutstandingIs DEF NothingForgotten
  <2>3. ASSUME NEW n \in 1 .. Len(events), n # 1, events[n] = Overflow \/ events[n].path = x
        PROVE  Queued(x)'
    BY <1>2, <2>3 DEF Queued
  <2>4. CASE HandleStaging
    <3>1. events[1].path \in Staging /\ events[1].path # Root /\ x \notin Staging
      BY <2>4, LoopFacts, WatcherAssumption DEF Queue, VaultTypes, Paths
    <3>2. CASE Queued(x)
      <4>1. events[1] # Overflow /\ events[1].path # x
        BY <3>1, OverflowFacts
      <4>2. QED
        BY <2>3, <3>2, <4>1 DEF Queued
    <3>3. CASE Tells(x)
      <4>1. UNCHANGED <<timers, pendingRename, calls, disk>>
        BY <1>1, <2>4 DEF HandleStaging, pending
      <4>2. Tells(x)'
        BY <3>3, <4>1 DEF Tells, Teller, Telling
      <4>3. QED
        BY <4>2
    <3>4. QED
      BY <2>2, <3>2, <3>3
  <2>5. CASE HandleRemove \/ HandleWrite \/ HandleRenameAway \/ HandleCreate
    <3>1. events[1] # Overflow
      BY <2>5, LoopFacts, OverflowFacts
    <3>2. CASE \E n \in 1 .. Len(events) : n # 1 /\ (events[n] = Overflow \/ events[n].path = x)
      BY <2>3, <3>2
    <3>3. CASE /\ x = events[1].path
               /\ ~\E n \in 1 .. Len(events) :
                     n # 1 /\ (events[n] = Overflow \/ events[n].path = x)
      <4>1. ~Disagrees(events[1])
        BY <1>1, <3>3 DEF LastAgrees
      <4>2. x \in disk <=> Says(events[1])
        BY <3>3, <4>1 DEF Disagrees
      <4>3. QED
        BY <1>0, <1>1, <2>5, <3>3, <4>2, ForgottenHere
    <3>4. CASE /\ x # events[1].path
               /\ ~\E n \in 1 .. Len(events) :
                     n # 1 /\ (events[n] = Overflow \/ events[n].path = x)
      <4>1. Tells(x)
        BY <2>2, <3>1, <3>4 DEF Queued
      <4>2. QED
        BY <1>0, <1>1, <2>5, <3>4, <4>1, ForgottenElsewhere
    <3>5. QED
      BY <3>2, <3>3, <3>4
  <2>6. QED
    BY <1>4, <2>4, <2>5 DEF Loop
<1>5. QED
  BY <1>3, <1>4

\* A timer fires, a callback begins, goes on or returns.
LEMMA ForgottenByTimers ==
  ASSUME Process, NothingForgotten, UNCHANGED <<vault, close>>,
         NEW x \in dirty' \ missed', ~Closed, x \in dirty \ missed,
         \A t : /\ Teller(t) /\ t.at # "over" /\ t.kind \in Kinds
                /\ Telling(t, x, x \in disk)
                => \E u : Teller(u)' /\ u.at # "over" /\ Like(t, u)
  PROVE  Outstanding(x)'
<1>1. UNCHANGED <<disk, events>>
  BY DEF vault
<1>2. Queued(x) \/ Tells(x)
  BY OutstandingIs DEF NothingForgotten
<1>3. CASE Queued(x)
  <2>1. Queued(x)'
    BY <1>1, <1>3 DEF Queued
  <2>2. QED
    BY <2>1, OutstandingIs
<1>4. CASE Tells(x)
  <2>1. PICK t : /\ Teller(t) /\ t.at # "over" /\ t.kind \in Kinds
                 /\ Telling(t, x, x \in disk)
    BY <1>4 DEF Tells
  <2>2. PICK u : Teller(u)' /\ u.at # "over" /\ Like(t, u)
    BY <2>1
  <2>3. Tells(x)'
    BY <1>1, <2>1, <2>2, Survives
  <2>4. QED
    BY <2>3, OutstandingIs
<1>5. QED
  BY <1>2, <1>3, <1>4

\* Every step keeps it so.
LEMMA NothingForgottenKept ==
  ASSUME Queue, Process, LastAgrees, NothingForgotten, [Next]_vars
  PROVE  NothingForgotten'
<1>1. CASE VaultChanges
  BY <1>1, ForgottenByChange
<1>2. CASE Loop
  BY <1>2, ForgottenByLoop
<1>3. CASE Close \/ LoopEnds \/ CloseReturns
  BY <1>3 DEF Close, LoopEnds, CloseReturns, NothingForgotten, Closed
<1>4. ASSUME UNCHANGED <<vault, close>>,
             \/ UNCHANGED history
             \/ \E T : dirty' = dirty \ T /\ missed' = missed \ T,
             ~Closed,
             ASSUME NEW x \in dirty' \ missed', NEW t, Teller(t), t.at # "over", t.kind \in Kinds,
                    Telling(t, x, x \in disk)
             PROVE  \E u : Teller(u)' /\ u.at # "over" /\ Like(t, u)
      PROVE  NothingForgotten'
  <2> SUFFICES ASSUME NEW x \in dirty' \ missed'
               PROVE  Outstanding(x)'
    BY DEF NothingForgotten
  <2>1. x \in dirty \ missed
    BY <1>4 DEF history
  <2>2. \A t : /\ Teller(t) /\ t.at # "over" /\ t.kind \in Kinds
               /\ Telling(t, x, x \in disk)
               => \E u : Teller(u)' /\ u.at # "over" /\ Like(t, u)
    BY <1>4
  <2>3. QED
    BY <1>4, <2>1, <2>2, ForgottenByTimers
<1>5. CASE \E t \in timers : Fire(t)
  <2>1. PICK f \in timers : Fire(f)
    BY <1>5
  <2> DEFINE g == [f EXCEPT !.at = "fired"]
  <2>2. /\ UNCHANGED <<vault, close, history>> /\ timers' = (timers \ {f}) \cup {g}
        /\ UNCHANGED <<pendingRename, calls>> /\ f \in Timed
    BY <2>1, WgFacts DEF Fire, TimerFrame, Process
  <2>3. g.at = "fired" /\ Like(f, g)
    BY <2>2 DEF Timed, Like, SameKey
  <2> HIDE DEF g
  <2>4. ASSUME NEW t, Teller(t), t.at # "over"
        PROVE  \E u : Teller(u)' /\ u.at # "over" /\ Like(t, u)
    <3>1. CASE t = f
      BY <2>2, <2>3, <3>1 DEF Teller
    <3>2. CASE t # f
      BY <2>2, <2>4, <3>2 DEF Teller, Like, SameKey
    <3>3. QED
      BY <3>1, <3>2
  <2>5. CASE Closed
    BY <2>2, <2>5 DEF NothingForgotten, Closed
  <2>6. QED
    BY <1>4, <2>2, <2>4, <2>5
<1>6. CASE FirePendingRename
  <2> DEFINE h == pendingRename
             g == [h EXCEPT !.at = "fired"]
  <2>1. /\ UNCHANGED <<vault, close, history>> /\ pendingRename' = g
        /\ UNCHANGED <<timers, calls>> /\ h \in Timed
    BY <1>6, WgFacts DEF FirePendingRename, TimerFrame, Process
  <2>2. g.at = "fired" /\ Like(h, g)
    BY <2>1 DEF Timed, Like, SameKey
  <2> HIDE DEF g
  <2>3. ASSUME NEW t, Teller(t), t.at # "over"
        PROVE  \E u : Teller(u)' /\ u.at # "over" /\ Like(t, u)
    <3>1. CASE t = h
      BY <2>1, <2>2, <3>1 DEF Teller
    <3>2. CASE t # h
      BY <2>1, <2>3, <3>2 DEF Teller, Like, SameKey
    <3>3. QED
      BY <3>1, <3>2
  <2>4. CASE Closed
    BY <2>1, <2>4 DEF NothingForgotten, Closed
  <2>5. QED
    BY <1>4, <2>1, <2>3, <2>4
<1>7. CASE Leave
  <2>1. UNCHANGED <<vault, close, history, timers, pendingRename, calls>>
    BY <1>7 DEF Leave, TimerFrame
  <2>2. ASSUME NEW t, Teller(t), t.at # "over"
        PROVE  \E u : Teller(u)' /\ u.at # "over" /\ Like(t, u)
    BY <2>1, <2>2 DEF Teller, Like, SameKey
  <2>3. CASE Closed
    BY <2>1, <2>3 DEF NothingForgotten, Closed
  <2>4. QED
    BY <1>4, <2>1, <2>2, <2>3
<1>8. ASSUME NEW i \in Running, NEW f \in Timed, NEW at \in {"check", "report"}, Call(i, f, at),
             UNCHANGED <<vault, close, history>>, f.at # "over", Teller(f),
             at = "report" => f.kind # "none", at = "check" => f.kind = "delete",
             \A t : (t \in timers \/ t = pendingRename) /\ t # f /\ t.at # "over" =>
               t \in timers' \/ t = pendingRename'
      PROVE  NothingForgotten'
  <2> DEFINE g == [f EXCEPT !.at = at]
  <2>1. /\ calls[i] = NoTimer /\ calls'[i] = g
        /\ \A j \in Running \ {i} : calls'[j] = calls[j]
    BY <1>8, CallBegins DEF Process
  <2>2. g.at # "over" /\ Like(f, g)
    BY <1>8 DEF Timed, Like, SameKey
  <2> HIDE DEF g
  <2>3. ASSUME NEW t, Teller(t), t.at # "over"
        PROVE  \E u : Teller(u)' /\ u.at # "over" /\ Like(t, u)
    <3>1. CASE t = f
      BY <2>1, <2>2, <3>1 DEF Teller
    <3>2. CASE t # f /\ (t \in timers \/ t = pendingRename)
      BY <1>8, <2>3, <3>2 DEF Teller, Like, SameKey
    <3>3. ASSUME NEW j \in Running, t = calls[j]
          PROVE  \E u : Teller(u)' /\ u.at # "over" /\ Like(t, u)
      <4>1. calls'[j] = t
        BY <2>1, <2>3, <3>3, TimerFacts
      <4>2. QED
        BY <2>3, <4>1 DEF Teller, Like, SameKey
    <3>4. QED
      BY <2>3, <3>1, <3>2, <3>3 DEF Teller
  <2>4. CASE Closed
    BY <1>8, <2>4 DEF NothingForgotten, Closed
  <2>5. QED
    BY <1>4, <1>8, <2>3, <2>4
<1>9. ASSUME NEW i \in Running, NEW t \in timers, Enter(t, i)
      PROVE  NothingForgotten'
  <2> DEFINE at == IF t.kind = "delete" THEN "check" ELSE "report"
  <2>1. /\ Call(i, t, at) /\ UNCHANGED <<vault, close, history>> /\ timers' = timers \ {t}
        /\ pendingRename' = pendingRename
    BY <1>9 DEF Enter, TimerFrame
  <2>2. t \in Timed /\ t.at # "over" /\ t.kind # "none"
    BY WgFacts DEF Process, Waiting
  <2>3. Teller(t) /\ \A x : (x \in timers \/ x = pendingRename) /\ x # t =>
                       x \in timers' \/ x = pendingRename'
    BY <2>1 DEF Teller
  <2>4. at \in {"check", "report"} /\ (at = "check" => t.kind = "delete")
    OBVIOUS
  <2> HIDE DEF at
  <2>5. QED
    BY <1>8, <2>1, <2>2, <2>3, <2>4
<1>10. ASSUME NEW i \in Running, EnterPendingRename(i)
       PROVE  NothingForgotten'
  <2> DEFINE h == pendingRename
  <2>1. /\ UNCHANGED <<vault, close, history, timers>> /\ h.at = "fired" /\ h \in Timed
        /\ h # NoTimer /\ h.kind = "delete"
    BY <1>10, WgFacts, TimerFacts
    DEF EnterPendingRename, TimerFrame, Process, ProcessTypes, HeldTypes
  <2>2. CASE Closed
    BY <2>1, <2>2 DEF NothingForgotten, Closed
  <2>3. CASE ~Closed
    <3>1. Call(i, h, "check")
      BY <1>10, <2>1, <2>3 DEF EnterPendingRename, Process, HeldBack
    <3>2. Teller(h) /\ \A x : (x \in timers \/ x = h) /\ x # h => x \in timers'
      BY <2>1 DEF Teller
    <3>3. QED
      BY <1>8, <2>1, <3>1, <3>2
  <2>4. QED
    BY <2>2, <2>3
<1>11. ASSUME NEW i \in Running, CheckDelete(i) \/ RecheckDelete(i) \/ Report(i)
       PROVE  NothingForgotten'
  <2>1. /\ UNCHANGED <<vault, close, timers, pendingRename>>
        /\ \/ UNCHANGED history
           \/ \E T : dirty' = dirty \ T /\ missed' = missed \ T
    BY <1>11 DEF CheckDelete, RecheckDelete, Report, CallFrame, TimerFrame
  <2>2. CASE Closed
    BY <2>1, <2>2 DEF NothingForgotten, Closed
  <2>3. ASSUME ~Closed, NEW x \in dirty' \ missed', NEW t, Teller(t), t.at # "over",
               t.kind \in Kinds, Telling(t, x, x \in disk)
        PROVE  \E u : Teller(u)' /\ u.at # "over" /\ Like(t, u)
    <3>1. CASE t \in timers \/ t = pendingRename
      BY <2>1, <2>3, <3>1 DEF Teller, Like, SameKey
    <3>2. ASSUME NEW j \in Running, t = calls[j]
          PROVE  \E u : Teller(u)' /\ u.at # "over" /\ Like(t, u)
      <4>1. calls[i].at # "over" /\ (calls[i].at = "check" => calls[i].kind = "delete")
            /\ (calls[i].at = "recheck" => calls[i].kind = "delete")
        BY <1>11, TimerFacts
        DEF CheckDelete, RecheckDelete, Report, Process, ProcessTypes, CallTypes
      <4>2. CASE j # i
        <5>1. \A k \in Running \ {i} : calls'[k] = calls[k]
          <6>1. \/ Return(i)
                \/ GoOn(i, "recheck") /\ calls[i].kind = "delete"
                \/ GoOn(i, "report")
            BY <1>11, <4>1 DEF CheckDelete, RecheckDelete, Report
          <6>2. QED
            BY <4>1, <6>1, CallGoes DEF Process
        <5>2. QED
          BY <2>3, <3>2, <4>2, <5>1 DEF Teller, Like, SameKey
      <4>3. CASE j = i
        <5>1. \/ GoOn(i, "recheck") /\ calls[i].kind = "delete"
              \/ GoOn(i, "report")
          <6>1. CASE CheckDelete(i)
            <7>1. calls[i].current /\ calls[i].path \notin disk
              BY <2>3, <3>2, <4>1, <4>3, <6>1 DEF CheckDelete, Telling
            <7>2. QED
              BY <2>3, <4>1, <6>1, <7>1 DEF CheckDelete
          <6>2. CASE RecheckDelete(i)
            <7>1. calls[i].current
              BY <2>3, <3>2, <4>1, <4>3, <6>2 DEF RecheckDelete, Telling
            <7>2. QED
              BY <2>3, <6>2, <7>1 DEF RecheckDelete
          <6>3. CASE Report(i)
            <7>1. x \notin Told(t)
              BY <2>3, <3>2, <4>3, <6>3 DEF Report
            <7>2. TellsOf(t, x)
              BY <2>3, TellsIs
            <7>3. QED
              BY <7>1, <7>2 DEF TellsOf
          <6>4. QED
            BY <1>11, <6>1, <6>2, <6>3
        <5>2. /\ calls'[i].at # "over" /\ SameKey(calls'[i], calls[i])
              /\ calls'[i].current = calls[i].current
          BY <4>1, <5>1, CallGoes DEF Process
        <5>3. PICK u : u = calls'[i]
          OBVIOUS
        <5>4. Teller(u)' /\ u.at # "over" /\ Like(t, u)
          BY <3>2, <4>3, <5>2, <5>3 DEF Teller, Like, SameKey
        <5>5. QED
          BY <5>4
      <4>4. QED
        BY <4>2, <4>3
    <3>3. QED
      BY <2>3, <3>1, <3>2 DEF Teller
  <2>4. QED
    BY <1>4, <2>1, <2>2, <2>3
<1>12. CASE UNCHANGED vars
  <2>1. UNCHANGED <<vault, close, history, timers, pendingRename, calls>>
    BY <1>12 DEF vars, pending
  <2>2. ASSUME NEW t, Teller(t), t.at # "over"
        PROVE  \E u : Teller(u)' /\ u.at # "over" /\ Like(t, u)
    BY <2>1, <2>2 DEF Teller, Like, SameKey
  <2>3. CASE Closed
    BY <2>1, <2>3 DEF NothingForgotten, Closed
  <2>4. QED
    BY <1>4, <2>1, <2>2, <2>3
<1>13. QED
  BY <1>1, <1>2, <1>3, <1>5, <1>6, <1>7, <1>9, <1>10, <1>11, <1>12
  DEF Next, Goroutines, Callback

-----------------------------------------------------------------------------
(* The watched directories follow the vault.                                *)

\* One directory: it is created at the positions C of the queue and removed at those in R;
\* whether it is on disk, watched by the kernel and recorded.
DirOk(C, R, there, watched, known) ==
  /\ watched => known
  /\ ~there => \A i \in C : \E k \in R : k > i
  /\ there => \A i \in R : \E k \in C : k > i
  /\ \A i, j \in C : i < j => \E k \in R : i < k /\ k < j
  /\ known => \A i \in C : \E j \in R : j < i
  /\ known /\ ~there => R # {}
  /\ there /\ ~watched => C # {}

At(op, d) == {n \in 1 .. Len(events) : events[n] = Ev(op, d)}
DirsFollow == overflows = 0 => \A d \in Dirs :
  DirOk(At("CREATE", d), At("REMOVE", d), d \in disk, d \in kernel, d \in watchedDirs)

\* S2 is S one position earlier.
Shifted(S, S2) == /\ S \subseteq Nat \ {0} /\ S2 \subseteq Nat \ {0}
                  /\ \A n \in S2 : n + 1 \in S
                  /\ \A n \in S : n = 1 \/ n - 1 \in S2

\* The loop has taken the first event, which is of the directory or is not.
LEMMA DirShift ==
  ASSUME NEW C, NEW R, NEW C2, NEW R2, Shifted(C, C2), Shifted(R, R2),
         NEW there, NEW watched, NEW known, DirOk(C, R, there, watched, known)
  PROVE  /\ 1 \notin C \cup R => DirOk(C2, R2, there, watched, known)
         /\ 1 \in R => DirOk(C2, R2, there, FALSE, FALSE)
         /\ 1 \in C => /\ ~known
                       /\ DirOk(C2, R2, there, watched \/ there, known \/ there)
<1>1. /\ ~there => \A i \in C2 : \E k \in R2 : k > i
      /\ there => \A i \in R2 : \E k \in C2 : k > i
      /\ \A i, j \in C2 : i < j => \E k \in R2 : i < k /\ k < j
  <2>1. ASSUME ~there, NEW i \in C2
        PROVE  \E k \in R2 : k > i
    <3>1. PICK k \in R : k > i + 1
      BY <2>1 DEF Shifted, DirOk
    <3>2. k - 1 \in R2 /\ k - 1 > i
      BY <3>1 DEF Shifted
    <3>3. QED
      BY <3>2
  <2>2. ASSUME there, NEW i \in R2
        PROVE  \E k \in C2 : k > i
    <3>1. PICK k \in C : k > i + 1
      BY <2>2 DEF Shifted, DirOk
    <3>2. k - 1 \in C2 /\ k - 1 > i
      BY <3>1 DEF Shifted
    <3>3. QED
      BY <3>2
  <2>3. ASSUME NEW i \in C2, NEW j \in C2, i < j
        PROVE  \E k \in R2 : i < k /\ k < j
    <3>1. PICK k \in R : i + 1 < k /\ k < j + 1
      <4>1. i + 1 \in C /\ j + 1 \in C /\ i + 1 < j + 1
        BY <2>3 DEF Shifted
      <4>2. QED
        BY <4>1 DEF DirOk
    <3>2. k - 1 \in R2 /\ i < k - 1 /\ k - 1 < j
      BY <3>1 DEF Shifted
    <3>3. QED
      BY <3>2
  <2>4. QED
    BY <2>1, <2>2, <2>3
<1>2. ASSUME 1 \notin C, 1 \notin R
      PROVE  DirOk(C2, R2, there, watched, known)
  <2>1. known => \A i \in C2 : \E j \in R2 : j < i
    <3> SUFFICES ASSUME known, NEW i \in C2
                 PROVE  \E j \in R2 : j < i
      OBVIOUS
    <3>1. PICK j \in R : j < i + 1
      BY DEF Shifted, DirOk
    <3>2. j - 1 \in R2 /\ j - 1 < i
      BY <1>2, <3>1 DEF Shifted
    <3>3. QED
      BY <3>2
  <2>2. (R # {} => R2 # {}) /\ (C # {} => C2 # {})
    BY <1>2 DEF Shifted
  <2>3. QED
    BY <1>1, <2>1, <2>2 DEF DirOk
<1>3. ASSUME 1 \in R
      PROVE  DirOk(C2, R2, there, FALSE, FALSE)
  <2>1. there => C2 # {}
    <3> SUFFICES ASSUME there
                 PROVE  C2 # {}
      OBVIOUS
    <3>1. PICK k \in C : k > 1
      BY <1>3 DEF DirOk
    <3>2. k - 1 \in C2
      BY <3>1 DEF Shifted
    <3>3. QED
      BY <3>2
  <2>2. QED
    BY <1>1, <2>1 DEF DirOk
<1>4. ASSUME 1 \in C
      PROVE  ~known /\ DirOk(C2, R2, there, watched \/ there, known \/ there)
  <2>1. ~known
    <3> SUFFICES ASSUME known
                 PROVE  FALSE
      OBVIOUS
    <3>1. PICK j \in R : j < 1
      BY <1>4 DEF DirOk
    <3>2. QED
      BY <3>1 DEF Shifted
  <2>2. \A i \in C2 : \E j \in R2 : j < i
    <3> SUFFICES ASSUME NEW i \in C2
                 PROVE  \E j \in R2 : j < i
      OBVIOUS
    <3>1. PICK k \in R : 1 < k /\ k < i + 1
      <4>1. i + 1 \in C /\ 1 < i + 1
        BY DEF Shifted
      <4>2. QED
        BY <1>4, <4>1 DEF DirOk
    <3>2. k - 1 \in R2 /\ k - 1 < i
      BY <3>1 DEF Shifted
    <3>3. QED
      BY <3>2
  <2>3. ~watched
    BY <2>1 DEF DirOk
  <2>4. QED
    BY <1>1, <2>1, <2>2, <2>3 DEF DirOk
<1>5. QED
  BY <1>2, <1>3, <1>4

\* A directory is made or removed, and its event is the last of the queue.
LEMMA DirEvent ==
  ASSUME NEW C, NEW R, C \subseteq Nat, R \subseteq Nat, NEW m \in Nat,
         \A n \in C \cup R : n < m, NEW watched, NEW known
  PROVE  /\ DirOk(C, R, FALSE, watched, known) => DirOk(C \cup {m}, R, TRUE, watched, known)
         /\ DirOk(C, R, TRUE, watched, known) => DirOk(C, R \cup {m}, FALSE, FALSE, known)
<1>1. ASSUME DirOk(C, R, FALSE, watched, known)
      PROVE  DirOk(C \cup {m}, R, TRUE, watched, known)
  <2>1. \A i, j \in C \cup {m} : i < j => \E k \in R : i < k /\ k < j
    <3> SUFFICES ASSUME NEW i \in C \cup {m}, NEW j \in C \cup {m}, i < j
                 PROVE  \E k \in R : i < k /\ k < j
      OBVIOUS
    <3>1. i \in C
      BY DEF DirOk
    <3>2. CASE j \in C
      BY <1>1, <3>1, <3>2 DEF DirOk
    <3>3. CASE j = m
      BY <1>1, <3>1, <3>3 DEF DirOk
    <3>4. QED
      BY <3>2, <3>3
  <2>2. known => \A i \in C \cup {m} : \E j \in R : j < i
    <3> SUFFICES ASSUME known, NEW i \in C \cup {m}
                 PROVE  \E j \in R : j < i
      OBVIOUS
    <3>1. CASE i \in C
      BY <1>1, <3>1 DEF DirOk
    <3>2. CASE i = m
      BY <1>1, <3>2 DEF DirOk
    <3>3. QED
      BY <3>1, <3>2
  <2>3. \A i \in R : \E k \in C \cup {m} : k > i
    <3> SUFFICES ASSUME NEW i \in R
                 PROVE  m > i
      OBVIOUS
    <3>1. QED
      OBVIOUS
  <2>4. QED
    BY <1>1, <2>1, <2>2, <2>3 DEF DirOk
<1>2. ASSUME DirOk(C, R, TRUE, watched, known)
      PROVE  DirOk(C, R \cup {m}, FALSE, FALSE, known)
  <2>1. \A i \in C : \E k \in R \cup {m} : k > i
    <3> SUFFICES ASSUME NEW i \in C
                 PROVE  m > i
      OBVIOUS
    <3>1. QED
      OBVIOUS
  <2>2. QED
    BY <1>2, <2>1 DEF DirOk
<1>3. QED
  BY <1>1, <1>2

\* The events of a directory, when one more is heard and when the first is taken.
LEMMA AtFacts ==
  ASSUME Queue, NEW d \in Dirs, NEW op
  PROVE  /\ events # <<>> /\ events' = Tail(events) => Shifted(At(op, d), At(op, d)')
         /\ \A seen \in Seq(Evs) :
              /\ events' = events \o seen
              /\ \A n \in 1 .. Len(seen) : seen[n].path # d
              => At(op, d)' = At(op, d)
         /\ \A o : events' = events \o <<Ev(o, d)>> /\ Ev(o, d) \in Evs =>
              At(op, d)' = IF o = op THEN At(op, d) \cup {Len(events) + 1} ELSE At(op, d)
         /\ At(op, d) \subseteq Nat \ {0} /\ \A n \in At(op, d) : n < Len(events) + 1
         /\ Len(events) + 1 \in Nat
<1>0. events \in Seq(Evs) /\ Len(events) \in Nat
  BY DEF Queue, VaultTypes
<1>1. ASSUME events # <<>>, events' = Tail(events)
      PROVE  Shifted(At(op, d), At(op, d)')
  <2>1. /\ \A n \in 1 .. Len(events') : n + 1 \in 1 .. Len(events) /\ events'[n] = events[n + 1]
        /\ \A n \in 1 .. Len(events) : n = 1 \/ (n - 1 \in 1 .. Len(events')
                                                 /\ events'[n - 1] = events[n])
    BY <1>0, <1>1, Rest
  <2>2. At(op, d)' = {n \in 1 .. Len(events') : events'[n] = Ev(op, d)}
    BY DEF At, Ev
  <2>3. QED
    BY <1>0, <2>1, <2>2 DEF At, Shifted
<1>2. ASSUME NEW seen \in Seq(Evs), events' = events \o seen,
             \A n \in 1 .. Len(seen) : seen[n].path # d
      PROVE  At(op, d)' = At(op, d)
  <2>1. /\ \A i \in 1 .. Len(events) : i \in 1 .. Len(events') /\ events'[i] = events[i]
        /\ \A n \in 1 .. Len(events') :
             n \in 1 .. Len(events) \/ (n - Len(events) \in 1 .. Len(seen)
                                        /\ events'[n] = seen[n - Len(events)])
    BY <1>0, <1>2, Joined
  <2>2. At(op, d)' = {n \in 1 .. Len(events') : events'[n] = Ev(op, d)}
    BY DEF At, Ev
  <2>3. Ev(op, d).path = d
    BY DEF Ev
  <2>4. QED
    BY <1>2, <2>1, <2>2, <2>3 DEF At
<1>3. ASSUME NEW o, events' = events \o <<Ev(o, d)>>, Ev(o, d) \in Evs
      PROVE  At(op, d)' = IF o = op THEN At(op, d) \cup {Len(events) + 1} ELSE At(op, d)
  <2> DEFINE e == Ev(o, d)
  <2>1. e = Ev(op, d) <=> o = op
    BY DEF Ev
  <2>2. At(op, d)' = {n \in 1 .. Len(events') : events'[n] = Ev(op, d)}
    BY DEF At, Ev
  <2>3. events' = Append(events, e) /\ e \in Evs
    BY <1>0, <1>3
  <2> HIDE DEF e
  <2>4. /\ Len(events') = Len(events) + 1 /\ events'[Len(events) + 1] = e
        /\ \A n \in 1 .. Len(events) : events'[n] = events[n]
    BY <1>0, <2>3
  <2>5. \A n : n \in 1 .. Len(events') <=> n \in 1 .. Len(events) \/ n = Len(events) + 1
    BY <1>0, <2>4
  <2>6. QED
    BY <2>1, <2>2, <2>4, <2>5 DEF At
<1>4. At(op, d) \subseteq Nat \ {0} /\ \A n \in At(op, d) : n < Len(events) + 1
  BY <1>0 DEF At
<1>5. \A seen \in Seq(Evs) :
        /\ events' = events \o seen
        /\ \A n \in 1 .. Len(seen) : seen[n].path # d
        => At(op, d)' = At(op, d)
  BY <1>2
<1>6. \A o : events' = events \o <<Ev(o, d)>> /\ Ev(o, d) \in Evs =>
        At(op, d)' = IF o = op THEN At(op, d) \cup {Len(events) + 1} ELSE At(op, d)
  BY <1>3
<1>7. Len(events) + 1 \in Nat
  BY <1>0
<1>8. QED
  BY <1>1, <1>4, <1>5, <1>6, <1>7, Zenon

\* A change of the vault.
LEMMA DirsOfChange ==
  ASSUME Queue, DirsFollow, VaultChanges
  PROVE  DirsFollow'
<1>1. PICK ps, seen : ChangeOf(ps, seen)
  BY ChangeShape
<1>2. /\ seen \in Seq(Evs) /\ Raise(seen) /\ UNCHANGED watchedDirs
      /\ \A n \in 1 .. Len(seen) :
           /\ seen[n].op \in Ops /\ seen[n].path \in Paths /\ seen[n].path \in ps
           /\ seen[n].path \in Dirs => seen[n].op \in {"CREATE", "REMOVE"}
  BY <1>1 DEF ChangeOf, Changed
<1> SUFFICES ASSUME overflows' = 0, NEW d \in Dirs
             PROVE  DirOk(At("CREATE", d)', At("REMOVE", d)', d \in disk', d \in kernel',
                          d \in watchedDirs')
  BY DEF DirsFollow
<1>3. events' = events \o seen /\ overflows = 0
  BY <1>2, RaiseFacts
<1>4. /\ DirOk(At("CREATE", d), At("REMOVE", d), d \in disk, d \in kernel, d \in watchedDirs)
      /\ d \in Paths /\ d \notin Files
  BY <1>3, WatcherAssumption DEF DirsFollow, Paths
<1> DEFINE C == At("CREATE", d)
           R == At("REMOVE", d)
<1>5. CASE d \notin ps
  <2>1. \A n \in 1 .. Len(seen) : seen[n].path # d
    BY <1>2, <1>5
  <2>2. C' = C /\ R' = R
    BY <1>2, <1>3, <2>1, AtFacts
  <2>3. (d \in disk' <=> d \in disk) /\ (d \in kernel' <=> d \in kernel)
    BY <1>1, <1>4, <1>5 DEF ChangeOf
  <2> HIDE DEF C, R
  <2>4. DirOk(C', R', d \in disk', d \in kernel', d \in watchedDirs')
    BY <1>2, <1>4, <2>2, <2>3 DEF DirOk, C, R
  <2>5. QED
    BY <2>4 DEF C, R
<1>6. CASE d \in ps
  <2>1. \/ d \notin disk /\ d \in disk' /\ seen = <<Ev("CREATE", d)>> /\ kernel' = kernel
        \/ /\ d \in disk /\ d \notin disk' /\ seen = <<Ev("REMOVE", d)>>
           /\ kernel' = kernel \ {d}
    BY <1>1, <1>4, <1>6 DEF ChangeOf
  <2>2. /\ C \subseteq Nat /\ R \subseteq Nat /\ Len(events) + 1 \in Nat
        /\ \A n \in C \cup R : n < Len(events) + 1
    BY AtFacts
  <2> DEFINE m == Len(events) + 1
  <2>3. CASE d \notin disk /\ d \in disk' /\ seen = <<Ev("CREATE", d)>> /\ kernel' = kernel
    <3>1. Ev("CREATE", d) \in Evs
      BY <1>4, HeardFacts DEF Ops
    <3>2. C' = C \cup {m} /\ R' = R
      BY <1>3, <2>3, <3>1, AtFacts
    <3> HIDE DEF C, R, m
    <3>3. DirOk(C, R, FALSE, d \in kernel, d \in watchedDirs)
      BY <1>4, <2>3 DEF DirOk, C, R
    <3>4. DirOk(C \cup {m}, R, TRUE, d \in kernel, d \in watchedDirs)
      BY <2>2, <3>3, DirEvent DEF m
    <3>5. DirOk(C', R', d \in disk', d \in kernel', d \in watchedDirs')
      BY <1>2, <2>3, <3>2, <3>4 DEF DirOk
    <3>6. QED
      BY <3>5 DEF C, R
  <2>4. CASE /\ d \in disk /\ d \notin disk' /\ seen = <<Ev("REMOVE", d)>>
             /\ kernel' = kernel \ {d}
    <3>1. Ev("REMOVE", d) \in Evs
      BY <1>4, HeardFacts DEF Ops
    <3>2. C' = C /\ R' = R \cup {m}
      BY <1>3, <2>4, <3>1, AtFacts
    <3> HIDE DEF C, R, m
    <3>3. DirOk(C, R, TRUE, d \in kernel, d \in watchedDirs)
      BY <1>4, <2>4 DEF DirOk, C, R
    <3>4. DirOk(C, R \cup {m}, FALSE, FALSE, d \in watchedDirs)
      BY <2>2, <3>3, DirEvent DEF m
    <3>5. DirOk(C', R', d \in disk', d \in kernel', d \in watchedDirs')
      BY <1>2, <2>4, <3>2, <3>4 DEF DirOk
    <3>6. QED
      BY <3>5 DEF C, R
  <2>5. QED
    BY <2>1, <2>3, <2>4
<1>7. QED
  BY <1>5, <1>6

\* The loop takes an event.
LEMMA DirsOfLoop ==
  ASSUME Queue, DirsFollow, Loop
  PROVE  DirsFollow'
<1>1. /\ events # <<>> /\ events' = Tail(events) /\ 1 \in 1 .. Len(events)
      /\ Head(events) = events[1] /\ UNCHANGED <<disk, overflows>> /\ events \in Seq(Evs)
  BY LoopFacts DEF Queue, VaultTypes
<1> SUFFICES ASSUME overflows = 0, NEW d \in Dirs
             PROVE  DirOk(At("CREATE", d)', At("REMOVE", d)', d \in disk', d \in kernel',
                          d \in watchedDirs')
  BY <1>1 DEF DirsFollow
<1> DEFINE C == At("CREATE", d)
           R == At("REMOVE", d)
           e == events[1]
<1>2. DirOk(C, R, d \in disk, d \in kernel, d \in watchedDirs)
  BY DEF DirsFollow
<1>3. d \in Paths /\ d \notin Files
  BY WatcherAssumption DEF Paths
<1>4. Shifted(C, C') /\ Shifted(R, R')
  BY <1>1, AtFacts
<1>5. e \in Evs /\ (1 \in C <=> e.op = "CREATE" /\ e.path = d)
      /\ (1 \in R <=> e.op = "REMOVE" /\ e.path = d)
  <2>1. e \in Evs
    BY <1>1
  <2>2. \A o : e = Ev(o, d) <=> e.op = o /\ e.path = d
    BY <2>1 DEF Evs, Ev
  <2>3. QED
    BY <1>1, <2>1, <2>2 DEF At
<1> HIDE DEF C, R, e
<1>6. /\ 1 \notin C \cup R => DirOk(C', R', d \in disk, d \in kernel, d \in watchedDirs)
      /\ 1 \in R => DirOk(C', R', d \in disk, FALSE, FALSE)
      /\ 1 \in C => /\ d \notin watchedDirs
                    /\ DirOk(C', R', d \in disk, d \in kernel \/ d \in disk,
                             d \in watchedDirs \/ d \in disk)
  <2>1. PICK C2, R2 : C2 = C' /\ R2 = R'
    OBVIOUS
  <2>2. PICK there \in BOOLEAN : there <=> d \in disk
    OBVIOUS
  <2>3. PICK watched \in BOOLEAN : watched <=> d \in kernel
    OBVIOUS
  <2>4. PICK known \in BOOLEAN : known <=> d \in watchedDirs
    OBVIOUS
  <2>5. DirOk(C, R, there, watched, known)
    BY <1>2, <2>2, <2>3, <2>4 DEF DirOk
  <2>6. Shifted(C, C2) /\ Shifted(R, R2)
    BY <1>4, <2>1
  <2>7. /\ 1 \notin C \cup R => DirOk(C2, R2, there, watched, known)
        /\ 1 \in R => DirOk(C2, R2, there, FALSE, FALSE)
        /\ 1 \in C => /\ ~known
                      /\ DirOk(C2, R2, there, watched \/ there, known \/ there)
    BY ZenonT(40), <2>5, <2>6, DirShift
  <2>8. QED
    BY <2>1, <2>2, <2>3, <2>4, <2>7 DEF DirOk
<1>7. d \in kernel => d \in watchedDirs
  BY <1>2 DEF DirOk
<1>8. CASE HandleOverflow
  BY <1>1, <1>8, LoopFacts, OverflowFacts DEF Queue, QueueOrder
<1>9. ASSUME 1 \notin C \cup R, d \in kernel' <=> d \in kernel,
             d \in watchedDirs' <=> d \in watchedDirs
      PROVE  DirOk(C', R', d \in disk', d \in kernel', d \in watchedDirs')
  BY <1>1, <1>6, <1>9 DEF DirOk
<1>10. CASE HandleStaging \/ HandleWrite
  <2>1. e.path # d
    BY <1>3, <1>10, LoopFacts, WatcherAssumption DEF e
  <2>2. UNCHANGED <<kernel, watchedDirs>>
    BY <1>10 DEF HandleStaging, HandleWrite
  <2>3. QED
    BY <1>5, <1>9, <2>1, <2>2 DEF C, R
<1>11. CASE HandleRenameAway
  <2>1. e.path # d
    BY <1>3, <1>11, LoopFacts DEF e
  <2>2. RemoveKnownDir(e.path)
    BY <1>1, <1>11 DEF HandleRenameAway, e
  <2>3. QED
    BY <1>5, <1>9, <2>1, <2>2 DEF RemoveKnownDir, C, R
<1>12. CASE HandleRemove
  <2>1. e.op = "REMOVE" /\ RemoveKnownDir(e.path)
    BY <1>1, <1>12, LoopFacts DEF HandleRemove, e
  <2>2. CASE e.path # d
    BY <1>5, <1>9, <2>1, <2>2 DEF RemoveKnownDir, C, R
  <2>3. CASE e.path = d
    <3>1. d \notin kernel' /\ d \notin watchedDirs'
      BY <1>7, <2>1, <2>3 DEF RemoveKnownDir
    <3>2. DirOk(C', R', d \in disk, FALSE, FALSE)
      BY <1>5, <1>6, <2>1, <2>3
    <3>3. DirOk(C', R', d \in disk', d \in kernel', d \in watchedDirs')
      BY <1>1, <3>1, <3>2 DEF DirOk
    <3>4. QED
      BY <3>3 DEF C, R
  <2>4. QED
    BY <2>2, <2>3
<1>13. CASE HandleCreate
  <2>1. e.op = "CREATE" /\ AddRecursive({e.path} \cap Dirs)
    BY <1>1, <1>13, LoopFacts DEF HandleCreate, e
  <2>2. CASE e.path # d
    BY <1>5, <1>9, <2>1, <2>2 DEF AddRecursive, C, R
  <2>3. CASE e.path = d
    <3>1. 1 \in C
      BY <1>5, <2>1, <2>3
    <3>2. (d \in kernel' <=> d \in kernel \/ d \in disk)
          /\ (d \in watchedDirs' <=> d \in watchedDirs \/ d \in disk)
      BY <1>6, <2>1, <2>3, <3>1 DEF AddRecursive
    <3>3. DirOk(C', R', d \in disk', d \in kernel', d \in watchedDirs')
      BY <1>1, <1>6, <3>1, <3>2 DEF DirOk
    <3>4. QED
      BY <3>3 DEF C, R
  <2>4. QED
    BY <2>2, <2>3
<1>14. QED
  BY <1>8, <1>10, <1>11, <1>12, <1>13 DEF Loop

\* Every step keeps it so.
LEMMA DirsKept ==
  ASSUME Queue, DirsFollow, [Next]_vars
  PROVE  DirsFollow'
<1>1. CASE VaultChanges
  BY <1>1, DirsOfChange
<1>2. CASE Loop
  BY <1>2, DirsOfLoop
<1>3. ASSUME UNCHANGED <<vault, watchedDirs>>
      PROVE  DirsFollow'
  <2>1. UNCHANGED <<disk, kernel, events, overflows, watchedDirs>>
    BY <1>3 DEF vault
  <2>2. QED
    BY <2>1 DEF DirsFollow, At, Ev
<1>4. CASE Close \/ LoopEnds \/ CloseReturns \/ Leave \/ FirePendingRename
           \/ \E t \in timers : Fire(t)
  BY <1>3, <1>4 DEF Close, LoopEnds, CloseReturns, Leave, FirePendingRename, Fire, TimerFrame
<1>5. ASSUME NEW i \in Running, Callback(i)
      PROVE  DirsFollow'
  BY <1>3, <1>5 DEF Callback, EnterPendingRename, Enter, CheckDelete, RecheckDelete, Report,
                    CallFrame, TimerFrame
<1>6. CASE UNCHANGED vars
  BY <1>3, <1>6 DEF vars
<1>7. QED
  BY <1>1, <1>2, <1>4, <1>5, <1>6 DEF Next, Goroutines

-----------------------------------------------------------------------------
(* The theorems.                                                            *)

IInv == Queue /\ Process /\ LastAgrees /\ NothingForgotten /\ DirsFollow

\* A new watcher.
LEMMA InitOk == Init => IInv
<1> SUFFICES ASSUME Init
             PROVE  IInv
  OBVIOUS
<1>1. /\ disk \subseteq Paths /\ kernel = (disk \cap Dirs) \cup {Root} /\ watchedDirs = kernel
      /\ events = <<>> /\ overflows = 0 /\ dirty = {} /\ missed = {} /\ timers = {}
      /\ pendingRename = NoTimer /\ ended = 0 /\ wg = 1 /\ loop = "run" /\ close = "open"
      /\ calls = [i \in Running |-> NoTimer]
  BY DEF Init, Paths
<1>2. Queue
  BY <1>1 DEF Queue, VaultTypes, QueueOrder
<1>3. Good(Now)
  BY <1>1, TimerFacts, FS_EmptySet DEF Now, Good, Records, Keyed
<1>4. Active = {} /\ LoopCount = 1 /\ Held(NoTimer) = 0
  BY <1>1, TimerFacts DEF Active, LoopCount, Held, Waiting
<1>5. Counted
  <2>1. Balance(Now) = 1
    BY <1>1, <1>4, NowFacts, FS_EmptySet DEF Balance, Owed
  <2>2. QED
    BY <1>4, <2>1, FS_EmptySet DEF Counted
<1>6. Process
  BY <1>1, <1>3, <1>5, TimerFacts
  DEF Process, ProcessTypes, CallTypes, HeldTypes, HeldBack, ClosedIdle
<1>7. LastAgrees /\ NothingForgotten
  BY <1>1 DEF LastAgrees, NothingForgotten
<1>8. DirsFollow
  <2>1. \A d, op : At(op, d) = {}
    BY <1>1 DEF At
  <2>2. \A d \in Dirs : d \in kernel <=> d \in disk
    BY <1>1, WatcherAssumption DEF Paths
  <2>3. ASSUME NEW d \in Dirs
        PROVE  DirOk({}, {}, d \in disk, d \in kernel, d \in watchedDirs)
    BY <1>1, <2>2 DEF DirOk
  <2>4. QED
    BY <2>1, <2>3 DEF DirsFollow
<1>9. QED
  BY <1>2, <1>6, <1>7, <1>8 DEF IInv

\* What every reachable state of the watcher satisfies: the queue is in order, the wait group
\* counts what still runs, a RENAME that is held back is about the latest event of its path, the
\* last event of a path says what the path is, and no change is forgotten.
THEOREM Invariance == Spec => []IInv
<1>1. Init => IInv
  BY InitOk
<1>2. IInv /\ [Next]_vars => IInv'
  BY QueueKept, ProcessKept, LastAgreesKept, NothingForgottenKept, DirsKept DEF IInv, Queue
<1>3. QED
  BY <1>1, <1>2, PTL DEF Spec

\* Every variable of the watcher has its type.
THEOREM TypeCorrectness == Spec => []TypeOK
<1>1. IInv => TypeOK
  <2> SUFFICES ASSUME IInv
               PROVE  TypeOK
    OBVIOUS
  <2>1. /\ disk \subseteq Paths /\ kernel \subseteq Dirs \cup {Root}
        /\ watchedDirs \subseteq Dirs \cup {Root} /\ dirty \subseteq Paths /\ missed \subseteq dirty
    BY DEF IInv, Queue, VaultTypes
  <2>2. timers \subseteq Timed /\ pendingRename \in Timed /\ ended \in Nat
    BY WgFacts DEF IInv, Process
  <2>3. calls \in [Running -> Timed] /\ close \in {"open", "closing", "closed"}
    BY DEF IInv, Process, ProcessTypes, CallTypes
  <2>4. QED
    BY <2>1, <2>2, <2>3 DEF TypeOK, Timed, Places
<1>2. QED
  BY <1>1, Invariance, PTL

\* No change is forgotten: until the service has been told what a changed path is now, an event,
\* a timer or a callback that will tell it is on its way, whatever timers were replaced, paired
\* or cancelled, and in whatever order their goroutines run.
THEOREM ChangesKept == Spec => []NothingForgotten
<1>1. IInv => NothingForgotten
  BY DEF IInv
<1>2. QED
  BY <1>1, Invariance, PTL

\* Once the queue is read, and if it never overflowed, the kernel watches the directories that
\* exist, whatever was made and removed meanwhile.
THEOREM WatchesCorrect == Spec => []WatchesFollowVault
<1>1. IInv => WatchesFollowVault
  <2> SUFFICES ASSUME IInv, events = <<>>, overflows = 0
               PROVE  kernel = {Root} \cup (disk \cap Dirs)
    BY DEF WatchesFollowVault
  <2>1. \A d, op : At(op, d) = {}
    BY DEF At
  <2>2. \A d \in Dirs : d \in kernel <=> d \in disk
    BY <2>1 DEF IInv, DirsFollow, DirOk
  <2>3. kernel \subseteq Dirs \cup {Root} /\ Root \in kernel
    BY DEF IInv, Queue, VaultTypes
  <2>4. QED
    BY <2>2, <2>3
<1>2. QED
  BY <1>1, Invariance, PTL

\* The wait group never goes below zero, and when Close has returned neither the loop nor a timer
\* nor a callback is left.
WaitGroupCounts ==
  /\ wg \in Nat
  /\ close = "closed" => /\ loop = "done" /\ timers = {} /\ ended = 0
                         /\ pendingRename.at \notin Waiting
                         /\ \A i \in Running : calls[i].at = "over"

\* wg.Add and wg.Done are balanced over every way a timer or callback may end.
THEOREM WaitGroupBalanced == Spec => []WaitGroupCounts
<1>1. IInv => WaitGroupCounts
  <2> SUFFICES ASSUME IInv
               PROVE  WaitGroupCounts
    OBVIOUS
  <2>1. /\ wg = LoopCount + Cardinality(Active) + ended + Cardinality(timers) + Held(pendingRename)
        /\ Cardinality(Active) \in Nat /\ IsFiniteSet(Active) /\ ended \in Nat
        /\ Cardinality(timers) \in Nat /\ IsFiniteSet(timers) /\ LoopCount \in {0, 1}
        /\ Held(pendingRename) \in {0, 1} /\ wg \in Nat
    BY WgFacts DEF IInv, Process
  <2>2. ASSUME close = "closed"
        PROVE  /\ LoopCount = 0 /\ Cardinality(Active) = 0 /\ ended = 0
               /\ Cardinality(timers) = 0 /\ Held(pendingRename) = 0
    <3>1. wg = 0
      BY <2>2 DEF IInv, Process, ClosedIdle
    <3>2. \A n \in {0, 1} : n \in Nat
      OBVIOUS
    <3>3. LoopCount \in Nat /\ Held(pendingRename) \in Nat
      BY <2>1, <3>2
    <3>4. \A a, b, c, e, f \in Nat :
             0 = a + b + c + e + f => a = 0 /\ b = 0 /\ c = 0 /\ e = 0 /\ f = 0
      OBVIOUS
    <3>5. 0 = LoopCount + Cardinality(Active) + ended + Cardinality(timers) + Held(pendingRename)
      BY <2>1, <3>1
    <3> DEFINE r == Cardinality(Active)
               t == Cardinality(timers)
               h == Held(pendingRename)
    <3>6. LoopCount \in Nat /\ r \in Nat /\ ended \in Nat /\ t \in Nat /\ h \in Nat
      BY <2>1, <3>3
    <3>7. 0 = LoopCount + r + ended + t + h
      BY <3>5
    <3> HIDE DEF LoopCount, r, t, h
    <3>8. LoopCount = 0 /\ r = 0 /\ ended = 0 /\ t = 0 /\ h = 0
      BY <3>4, <3>6, <3>7
    <3>9. QED
      BY <3>8 DEF r, t, h
  <2>3. ASSUME close = "closed"
        PROVE  /\ loop = "done" /\ timers = {} /\ ended = 0 /\ pendingRename.at \notin Waiting
               /\ \A i \in Running : calls[i].at = "over"
    <3>1. timers = {} /\ Active = {}
      BY <2>1, <2>2, <2>3, FS_EmptySet
    <3>2. loop = "done"
      BY <2>2, <2>3 DEF LoopCount, IInv, Process, ProcessTypes
    <3>3. pendingRename.at \notin Waiting
      BY <2>2, <2>3 DEF Held
    <3>4. QED
      BY <2>2, <2>3, <3>1, <3>2, <3>3 DEF Active
  <2>4. QED
    BY <2>1, <2>3 DEF WaitGroupCounts
<1>2. QED
  BY <1>1, Invariance, PTL

=============================================================================
