------------------------------- MODULE Watcher -------------------------------
(***************************************************************************)
(* The file-system watcher (internal/watcher/watcher.go): it turns fsnotify*)
(* events into debounced reports to the daemon.  A change of a path arms a *)
(* timer for it, a later one replaces the timer; a RENAME is held back for *)
(* the CREATE that may be its other half.                                  *)
(*                                                                         *)
(* Actors: whoever changes the vault, fsnotify's queue with its overflow,  *)
(* the loop goroutine, one goroutine per timer that fires, and Close.  All *)
(* timers have the same delay, but their goroutines are scheduled freely,  *)
(* so they may run in any order.  pathGen only serves to ask whether a     *)
(* deletion is still about the latest event of its path: each pending      *)
(* deletion carries the answer, "current", instead of a number.            *)
(***************************************************************************)
EXTENDS Naturals, Sequences, FiniteSets

CONSTANTS
  Files,        \* paths of files
  Dirs,         \* subdirectories that ShouldWatchDir allows
  DirOf,        \* DirOf[f]: the directory of f, Root or one of Dirs
  Staging,      \* those of Files that isInternalStagingPath matches
  MaxChanges,   \* bound on changes of the vault
  MaxOverflows, \* bound on bursts that overflow the event queue
  MaxCallbacks  \* bound on timer callbacks that run at the same time

Root  == "."
Paths == Files \cup Dirs
Running == 1..MaxCallbacks

ASSUME WatcherAssumption ==
  /\ Files \cap Dirs = {} /\ Root \notin Paths
  /\ DirOf \in [Files -> Dirs \cup {Root}] /\ Staging \subseteq Files
  /\ MaxChanges \in Nat /\ MaxOverflows \in Nat /\ MaxCallbacks \in Nat \ {0}

VARIABLES
  disk,          \* paths that exist
  kernel,        \* directories the kernel watches
  events,        \* fsnotify's queue
  changes, overflows,
  loop,          \* "run" or "done"
  watchedDirs,
  timers,        \* w.timers, see Timer
  pendingRename, \* the held-back RENAME, a record like those of timers, or NoTimer
  calls,         \* calls[i]: a callback past its timer's check, or NoTimer
  ended,         \* timer goroutines that have nothing left to do but wg.Done
  wg,            \* w.wg
  close,         \* "open", "closing" (closed, wg.Wait) or "closed"
  dirty,         \* history: paths that no report has covered since they changed
  missed         \* history: those of dirty whose change raised no event

vault   == <<disk, kernel, events, changes, overflows>>
pending == <<timers, pendingRename, ended, wg>>
history == <<dirty, missed>>
vars == <<vault, loop, watchedDirs, pending, calls, close, history>>

\* A timer and, later, the callback it runs.  "at": armed, fired (its goroutine
\* has started), over, and for a callback check, recheck or report.
Timer(kind, from, p) ==
  [kind |-> kind, from |-> from, path |-> p, current |-> TRUE, at |-> "armed"]
NoTimer == [Timer("none", Root, Root) EXCEPT !.at = "over"]

Closed == close # "open"
Parent(p) == IF p \in Files THEN DirOf[p] ELSE Root

Init ==
  /\ disk \in {{}, Paths \ Staging}   \* an empty vault, or a full one
  /\ kernel = (disk \cap Dirs) \cup {Root} /\ watchedDirs = kernel
  /\ events = <<>> /\ changes = 0 /\ overflows = 0
  /\ loop = "run" /\ wg = 1
  /\ timers = {} /\ pendingRename = NoTimer /\ ended = 0
  /\ calls = [i \in Running |-> NoTimer]
  /\ close = "open" /\ dirty = {} /\ missed = {}

-----------------------------------------------------------------------------
(* External: the vault and fsnotify.  An event is raised for a path whose  *)
(* directory is watched.  Once the queue has overflowed, events are lost   *)
(* until it is read.                                                       *)

Ev(op, p) == [op |-> op, path |-> p]
Overflow  == Ev("OVERFLOW", Root)
Overflowing == events # <<>> /\ events[Len(events)] = Overflow

Heard(op, p) == IF Parent(p) \in kernel THEN <<Ev(op, p)>> ELSE <<>>

\* The queue takes the events that are seen, or their first n and an overflow.
Raise(seen) ==
  \/ /\ ~Overflowing /\ events' = events \o seen /\ UNCHANGED overflows
  \/ /\ ~Overflowing /\ overflows < MaxOverflows
     /\ \E n \in 0..(Len(seen) - 1) :
          events' = Append(events \o SubSeq(seen, 1, n), Overflow)
     /\ overflows' = overflows + 1
  \/ Overflowing /\ UNCHANGED <<events, overflows>>

Changed(ps, newDisk, seen) ==
  /\ close = "open" /\ changes < MaxChanges /\ changes' = changes + 1
  /\ disk' = newDisk
  /\ Raise(seen)
  /\ dirty' = dirty \cup (ps \ Staging)
  /\ missed' = {p \in missed \cup (ps \ Staging) : p \in ps => Parent(p) \notin kernel}
  /\ UNCHANGED <<loop, watchedDirs, pending, calls, close>>

Write(f) ==
  /\ DirOf[f] \in disk \cup {Root}
  /\ Changed({f}, disk \cup {f}, Heard(IF f \in disk THEN "WRITE" ELSE "CREATE", f))
  /\ UNCHANGED kernel
Delete(f) ==
  f \in disk /\ Changed({f}, disk \ {f}, Heard("REMOVE", f)) /\ UNCHANGED kernel
MoveOut(f) ==
  f \in disk /\ Changed({f}, disk \ {f}, Heard("RENAME", f)) /\ UNCHANGED kernel
Move(f, g) ==
  /\ f # g /\ f \in disk /\ DirOf[g] \in disk \cup {Root}
  /\ Changed({f, g}, (disk \ {f}) \cup {g}, Heard("RENAME", f) \o Heard("CREATE", g))
  /\ UNCHANGED kernel
MakeDir(d) ==
  d \notin disk /\ Changed({d}, disk \cup {d}, Heard("CREATE", d)) /\ UNCHANGED kernel
RemoveDir(d) ==
  /\ d \in disk /\ \A f \in Files \cap disk : DirOf[f] # d
  /\ Changed({d}, disk \ {d}, Heard("REMOVE", d))
  /\ kernel' = kernel \ {d}

VaultChanges ==
  \/ \E f \in Files : Write(f) \/ Delete(f)
  \/ \E f \in Files \ Staging : MoveOut(f) \/ \E g \in Files : Move(g, f)
  \/ \E d \in Dirs : MakeDir(d) \/ RemoveDir(d)

-----------------------------------------------------------------------------
(* Timers.  The operators work on the record q of the variables "pending". *)

Now == [timers |-> timers, pr |-> pendingRename, ended |-> ended, wg |-> wg]
Become(q) == /\ timers' = q.timers /\ pendingRename' = q.pr
             /\ ended' = q.ended /\ wg' = q.wg

\* Mutant: the count is taken back although the goroutine has started.
StopCountsTwice(q, t) ==
  [q EXCEPT !.wg = @ - 1, !.ended = @ + (IF t.at = "fired" THEN 1 ELSE 0)]

\* timer.Stop and, when it is in time, wg.Done; else the goroutine will do it.
Stop(q, t) ==
  CASE t.at = "armed" -> [q EXCEPT !.wg = @ - 1]
    [] t.at = "fired" -> [q EXCEPT !.ended = @ + 1]
    [] OTHER          -> q

SameKey(t, u) == t.kind = u.kind /\ t.from = u.from /\ t.path = u.path

\* cancelTimerLocked for the key of u.
CancelTimer(q, u) ==
  LET old == {t \in q.timers : SameKey(t, u)} IN
  IF old = {} THEN q
  ELSE Stop([q EXCEPT !.timers = @ \ old], CHOOSE t \in old : TRUE)

\* schedulePathLocked.
Schedule(q, u) ==
  IF Closed THEN q
  ELSE [CancelTimer(q, u) EXCEPT !.timers = @ \cup {u}, !.wg = @ + 1]

CancelPendingRename(q) == Stop([q EXCEPT !.pr = NoTimer], q.pr)

Outdate(t, ps) ==
  IF t.kind = "delete" /\ t.path \in ps THEN [t EXCEPT !.current = FALSE] ELSE t

\* pathGen[p]++ for the paths in ps: the deletions of p are no longer current.
NextGen(q, ps) ==
  [q EXCEPT !.timers = {Outdate(t, ps) : t \in @}, !.pr = Outdate(@, ps)]
NextGenOfCalls(ps) == calls' = [i \in Running |-> Outdate(calls[i], ps)]

-----------------------------------------------------------------------------
(* The loop goroutine: handleEvent. *)

NextEvent(op) == /\ loop = "run" /\ events # <<>> /\ Head(events).op = op
                 /\ events' = Tail(events)
EventFrame == UNCHANGED <<disk, changes, overflows, loop, close>>

\* Events of staging files are dropped.
HandleStaging ==
  /\ loop = "run" /\ events # <<>> /\ Head(events).path \in Staging
  /\ events' = Tail(events)
  /\ EventFrame /\ UNCHANGED <<kernel, watchedDirs, pending, calls, history>>

Event(op) == NextEvent(op) /\ Head(events).path \notin Staging

\* Mutant: the record of the directory stays.
RemoveKnownDirKeepsRecord(p) ==
  kernel' = kernel \ ({p} \cap watchedDirs) /\ UNCHANGED watchedDirs

RemoveKnownDir(p) ==
  IF p \in watchedDirs THEN kernel' = kernel \ {p} /\ watchedDirs' = watchedDirs \ {p}
  ELSE UNCHANGED <<kernel, watchedDirs>>

\* Mutant: whatever is there is watched, not only directories.
AddEverything(ds) ==
  LET new == disk \ watchedDirs IN
  kernel' = kernel \cup new /\ watchedDirs' = watchedDirs \cup new

\* addRecursive of the directories in ds.
AddRecursive(ds) ==
  LET new == (ds \cap disk) \ watchedDirs IN
  kernel' = kernel \cup new /\ watchedDirs' = watchedDirs \cup new

\* Mutant: the generation is taken before it is counted up.
RemoveOfOldGen ==
  /\ Event("REMOVE")
  /\ LET p  == Head(events).path
         q1 == CancelTimer(Now, Timer("modify", Root, p))
         q2 == IF pendingRename.path = p THEN CancelPendingRename(q1) ELSE q1
     IN  /\ RemoveKnownDir(p)
         /\ Become(NextGen(Schedule(q2, Timer("delete", Root, p)), {p}))
         /\ NextGenOfCalls({p})
  /\ EventFrame /\ UNCHANGED history

HandleRemove ==
  /\ Event("REMOVE")
  /\ LET p  == Head(events).path
         q1 == CancelTimer(Now, Timer("modify", Root, p))
         q2 == IF pendingRename.path = p THEN CancelPendingRename(q1) ELSE q1
     IN  /\ RemoveKnownDir(p)
         /\ Become(Schedule(NextGen(q2, {p}), Timer("delete", Root, p)))
         /\ NextGenOfCalls({p})
  /\ EventFrame /\ UNCHANGED history

HandleWrite ==
  /\ Event("WRITE")
  /\ LET p  == Head(events).path
         q1 == CancelTimer(Now, Timer("delete", Root, p))
         q2 == IF pendingRename.path = p THEN CancelPendingRename(q1) ELSE q1
     IN  /\ Become(Schedule(NextGen(q2, {p}), Timer("modify", Root, p)))
         /\ NextGenOfCalls({p})
  /\ EventFrame /\ UNCHANGED <<kernel, watchedDirs, history>>

\* Mutant: a second RENAME away replaces the first.
RenameAwayReplaces ==
  /\ Event("RENAME")
  /\ LET p == Head(events).path
         q == NextGen(CancelTimer(CancelPendingRename(Now), Timer("modify", Root, p)), {p})
     IN  /\ RemoveKnownDir(p)
         /\ Become([q EXCEPT !.pr = Timer("delete", Root, p), !.wg = @ + 1])
         /\ NextGenOfCalls({p})
  /\ EventFrame /\ UNCHANGED history

\* A second RENAME away flushes the first, which becomes a deletion.
HandleRenameAway ==
  /\ Event("RENAME")
  /\ LET p  == Head(events).path
         q1 == IF pendingRename = NoTimer THEN Now
               ELSE Schedule(CancelPendingRename(Now), [pendingRename EXCEPT !.at = "armed"])
         q2 == NextGen(CancelTimer(q1, Timer("modify", Root, p)), {p})
     IN  /\ RemoveKnownDir(p)
         /\ Become([q2 EXCEPT !.pr = Timer("delete", Root, p), !.wg = @ + 1])
         /\ NextGenOfCalls({p})
  /\ EventFrame /\ UNCHANGED history

\* pairRename: a CREATE completes the pending RENAME, unless of its own path.
HandleCreate ==
  /\ Event("CREATE")
  /\ LET p    == Head(events).path
         old  == pendingRename.path
         pair == pendingRename # NoTimer /\ old # p
         q    == CancelPendingRename(CancelTimer(Now, Timer("delete", Root, p)))
         both == CancelTimer(q, Timer("modify", Root, old))
     IN  /\ AddRecursive({p} \cap Dirs)
         /\ IF pair
              THEN /\ Become(Schedule(NextGen(both, {old, p}), Timer("rename", old, p)))
                   /\ NextGenOfCalls({old, p})
              ELSE /\ Become(Schedule(NextGen(q, {p}), Timer("modify", Root, p)))
                   /\ NextGenOfCalls({p})
  /\ EventFrame /\ UNCHANGED history

\* reconcileMissingWatches, then HandleWatchOverflow: a full scan finds every
\* change (module SyncRound has what becomes of the request for it).
HandleOverflow ==
  /\ NextEvent("OVERFLOW")
  /\ AddRecursive(Dirs)
  /\ dirty' = {} /\ missed' = {}
  /\ EventFrame /\ UNCHANGED <<pending, calls>>

Loop == HandleStaging \/ HandleRemove \/ HandleWrite \/ HandleRenameAway
        \/ HandleCreate \/ HandleOverflow

-----------------------------------------------------------------------------
(* Timers fire and their callbacks run. *)

TimerFrame == UNCHANGED <<vault, loop, watchedDirs, close>>

Fire(t) ==
  /\ t \in timers /\ t.at = "armed"
  /\ timers' = (timers \ {t}) \cup {[t EXCEPT !.at = "fired"]}
  /\ TimerFrame /\ UNCHANGED <<pendingRename, ended, wg, calls, history>>
FirePendingRename ==
  /\ pendingRename.at = "armed"
  /\ pendingRename' = [pendingRename EXCEPT !.at = "fired"]
  /\ TimerFrame /\ UNCHANGED <<timers, ended, wg, calls, history>>

Call(i, t, at) == /\ calls[i] = NoTimer /\ \A j \in 1..(i - 1) : calls[j] # NoTimer
                  /\ calls' = [calls EXCEPT ![i] = [t EXCEPT !.at = at]]

\* The goroutine finds its timer in the map, takes it out and goes on.  Close
\* empties the map, so a timer in it is that of an open watcher.
Enter(t, i) ==
  /\ t \in timers /\ t.at = "fired"
  /\ timers' = timers \ {t}
  /\ Call(i, t, IF t.kind = "delete" THEN "check" ELSE "report")
  /\ TimerFrame /\ UNCHANGED <<pendingRename, ended, wg, history>>

\* The same for a held-back RENAME that found no CREATE.
EnterPendingRename(i) ==
  /\ pendingRename.at = "fired"
  /\ IF Closed \/ ~pendingRename.current
       THEN /\ pendingRename' = [pendingRename EXCEPT !.at = "over"]
            /\ wg' = wg - 1 /\ UNCHANGED calls
       ELSE /\ pendingRename' = NoTimer
            /\ Call(i, pendingRename, "check") /\ UNCHANGED wg
  /\ TimerFrame /\ UNCHANGED <<timers, ended, history>>

\* A goroutine whose timer was replaced or cancelled after it started.
Leave ==
  /\ ended > 0 /\ ended' = ended - 1 /\ wg' = wg - 1
  /\ TimerFrame /\ UNCHANGED <<timers, pendingRename, calls, history>>

Return(i) == calls' = [calls EXCEPT ![i] = NoTimer] /\ wg' = wg - 1
GoOn(i, at) == calls' = [calls EXCEPT ![i].at = at] /\ UNCHANGED wg
CallFrame == TimerFrame /\ UNCHANGED <<timers, pendingRename, ended>>

\* isCurrentGen and confirmMissingOnDisk, then isCurrentGen again.
CheckDelete(i) ==
  /\ calls[i].at = "check"
  /\ IF ~Closed /\ calls[i].current /\ calls[i].path \notin disk
       THEN GoOn(i, "recheck") ELSE Return(i)
  /\ CallFrame /\ UNCHANGED history
RecheckDelete(i) ==
  /\ calls[i].at = "recheck"
  /\ IF ~Closed /\ calls[i].current THEN GoOn(i, "report") ELSE Return(i)
  /\ CallFrame /\ UNCHANGED history

\* The paths whose state the handler tells the service: HandleLocalModify skips
\* a missing path, HandleLocalDelete one that exists, HandleLocalRename turns
\* into a modify when the old path exists.
Told(t) ==
  CASE t.kind = "modify" -> {t.path} \cap disk
    [] t.kind = "delete" -> {t.path} \ disk
    [] t.kind = "rename" -> ({t.path} \cap disk) \cup ({t.from} \ disk)

Report(i) ==
  /\ calls[i].at = "report"
  /\ dirty' = dirty \ Told(calls[i]) /\ missed' = missed \ Told(calls[i])
  /\ Return(i)
  /\ CallFrame

Callback(i) == EnterPendingRename(i) \/ (\E t \in timers : Enter(t, i))
               \/ CheckDelete(i) \/ RecheckDelete(i) \/ Report(i)

-----------------------------------------------------------------------------
(* Close *)

\* Close's way of stopping every timer.
StopAll(q) ==
  [q EXCEPT !.timers = {}, !.pr = NoTimer,
            !.wg = @ - Cardinality({t \in q.timers \cup {q.pr} : t.at = "armed"}),
            !.ended = @ + Cardinality({t \in q.timers \cup {q.pr} : t.at = "fired"})]

Close ==
  /\ close = "open" /\ close' = "closing"
  /\ Become(StopAll(Now))
  /\ UNCHANGED <<vault, loop, watchedDirs, calls, history>>
LoopEnds ==
  /\ Closed /\ loop = "run" /\ loop' = "done" /\ wg' = wg - 1
  /\ UNCHANGED <<vault, watchedDirs, timers, pendingRename, ended, calls, close, history>>
CloseReturns ==
  /\ close = "closing" /\ wg = 0 /\ close' = "closed"
  /\ UNCHANGED <<vault, loop, watchedDirs, pending, calls, history>>

Goroutines ==
  Loop \/ (\E t \in timers : Fire(t)) \/ FirePendingRename \/ Leave
  \/ (\E i \in Running : Callback(i)) \/ LoopEnds \/ CloseReturns
Next == VaultChanges \/ Close \/ Goroutines

Spec == Init /\ [][Next]_vars

\* Go keeps running goroutines that can run; nobody has to change a file or to
\* close the watcher.
FairSpec == Spec /\ WF_vars(Goroutines)

-----------------------------------------------------------------------------
(* Properties *)

\* Every variable has its type.
TypeOK ==
  LET T == [kind : {"modify", "delete", "rename", "none"}, from : Paths \cup {Root},
            path : Paths \cup {Root}, current : BOOLEAN,
            at : {"armed", "fired", "over", "check", "recheck", "report"}]
  IN
  /\ disk \subseteq Paths /\ kernel \subseteq Dirs \cup {Root}
  /\ watchedDirs \subseteq Dirs \cup {Root}
  /\ timers \subseteq T /\ pendingRename \in T /\ calls \in [Running -> T]
  /\ dirty \subseteq Paths /\ missed \subseteq dirty
  /\ ended \in Nat /\ close \in {"open", "closing", "closed"}

\* The timers, the callbacks and the loop that will tell what p is now.
TellsOf(t, p) == p \in Told(t) /\ (t.kind = "delete" => t.current)
Outstanding(p) ==
  \/ \E n \in 1..Len(events) : events[n] = Overflow \/ events[n].path = p
  \/ \E t \in timers \cup {calls[i] : i \in Running} \cup {pendingRename} :
       t.at # "over" /\ TellsOf(t, p)

\* No change is forgotten: whatever timers were replaced, paired or cancelled
\* on the way, a path that changed has an event, a timer or a callback that will
\* tell the service what it is now, until one has.
NothingForgotten == Closed \/ \A p \in dirty \ missed : Outstanding(p)

\* Once the queue is read, the directories on disk are those that are watched,
\* whatever was made and removed meanwhile (without an overflow).
WatchesFollowVault ==
  events = <<>> /\ overflows = 0 => kernel = {Root} \cup (disk \cap Dirs)

\* A change of a path is reported, with what the path is then, unless the
\* watcher is closed or nobody saw the change.
ChangesReported ==
  \A p \in Paths \ Staging : []<>(p \notin dirty \/ p \in missed \/ Closed)

\* Close returns, and no callback runs any more then.
CloseEnds == []<>(close = "open" \/ (close = "closed" /\ \A i \in Running : calls[i] = NoTimer))

=============================================================================
