------------------------------- MODULE NoteSync -------------------------------
(***************************************************************************)
(* Remote changes of notes against local ones: the handlers that apply a   *)
(* change of the service (internal/sync/note_sync.go), the evidence they   *)
(* leave so that the watcher's report of their own write is not sent back  *)
(* (echo suppression, runtime_helpers.go), and the callbacks that decide   *)
(* whether a report is an echo or an edit (local_events.go).               *)
(*                                                                         *)
(* Actors: the user, the watcher, one goroutine per callback, the read     *)
(* loop, the timers of the evidence, the service.  A revision of a note is *)
(* its content.  The connection stays up.  Left out: local renames and     *)
(* slots (LocalOps), the sync time (VaultScan), what the watcher drops     *)
(* (Watcher), and the base a push claims.  Handlers of settings and files  *)
(* differ where the README says.                                           *)
(***************************************************************************)
EXTENDS Naturals, Sequences, FiniteSets

CONSTANTS
  Paths,
  Contents,   \* of notes
  Renames,    \* the renames <<old, new>> the service may ask for
  Kinds,      \* the kinds of messages besides acknowledgments
  MaxRemote,  \* bound on changes by the service
  MaxEdits,   \* bound on changes by the user
  MaxCalls    \* bound on callbacks that run at the same time

None  == "none"
Calls == 1..MaxCalls

ASSUME NoteSyncAssumption ==
  /\ None \notin Paths \cup Contents
  /\ Renames \subseteq {r \in Paths \X Paths : r[1] # r[2]}
  /\ MaxRemote \in Nat /\ MaxEdits \in Nat /\ MaxCalls \in Nat \ {0}

VARIABLES
  disk,      \* disk[p]: the note's content, or None
  base,      \* FileHashMap: the revision known of p, or None
  pending,   \* pendingNoteModifies
  write,     \* echoWriteMeta: see Evidence
  deleted,   \* lastSyncPathDeleted
  renamed,   \* echoRenameMeta: renamed[p] is the rename p was part of, or <<>>
  echoSeq,
  events,    \* what the watcher still has to report: <<p>> or a rename
  calls,     \* calls[i]: where callback i stands, see Idle
  rechecks,  \* rechecks[p]: goroutines of recheckLocalWriteLocked to begin
  inbox,     \* messages of the service, in order
  reader,    \* the handler the read loop is in
  remote, edits,
  svc,       \* external: what the service has
  had,       \* history: had[p]: what the service had of p, or a remote delete kept
  unsent,    \* history: notes with an edit neither sent nor replaced since
  troubled   \* history: notes that were removed, or whose write failed

echo    == <<write, deleted, renamed, echoSeq>>
books   == <<base, pending>>
counts  == <<remote, edits>>
service == <<svc, had>>
history == <<unsent, troubled>>
vars == <<disk, books, echo, events, calls, rechecks, inbox, reader, counts, service,
          history>>

\* Evidence of a remote write.  A new one takes a new token; without a hash it
\* is no proof of anything.
Evidence(t, h, prev, r) == [token |-> t, inFlight |-> TRUE, hash |-> h, prev |-> prev,
                            recheck |-> r]
Landed(t, h) == [token |-> t, inFlight |-> FALSE, hash |-> h, prev |-> None,
                 recheck |-> FALSE]
NoEvidence == Landed(0, None)

\* A callback: the path, the evidence it looked at, the content it read; "old" is the
\* other path of a rename.
Call(at, p, old) == [at |-> at, path |-> p, old |-> old, meta |-> NoEvidence,
                     got |-> None]
Idle   == Call("idle", None, None)
Asleep == [at |-> "idle", msg |-> <<>>, token |-> 0, hash |-> None]

Init ==
  /\ \E there \in SUBSET Paths, c \in Contents :
       /\ disk = [p \in Paths |-> IF p \in there THEN c ELSE None]
       /\ base = disk /\ svc = disk
  /\ pending = [p \in Paths |-> None]
  /\ write = [p \in Paths |-> NoEvidence]
  /\ deleted = {} /\ renamed = [p \in Paths |-> <<>>] /\ echoSeq = 0
  /\ events = {} /\ calls = [i \in Calls |-> Idle] /\ rechecks = [p \in Paths |-> 0]
  /\ inbox = <<>> /\ reader = Asleep /\ had = [p \in Paths |-> {disk[p], None}]
  /\ remote = 0 /\ edits = 0 /\ unsent = {} /\ troubled = {}

-----------------------------------------------------------------------------
(* External: the user, and the service with its other clients. *)

Touch(p, c) ==
  /\ edits < MaxEdits /\ edits' = edits + 1
  /\ disk' = [disk EXCEPT ![p] = c] /\ events' = events \cup {<<p>>}
  /\ unsent' = unsent \cup {p}
  /\ UNCHANGED <<books, echo, calls, rechecks, inbox, reader, remote, service, troubled>>
Edit(p)     == \E c \in Contents \ {disk[p]} : Touch(p, c)
UserDelete(p) == disk[p] # None /\ Touch(p, None)

\* A delete carries no content: it is what the service deleted, for a property.
Message(t, p, old, c) == [type |-> t, path |-> p, old |-> old, content |-> c]

Serves(new) == svc' = new /\ had' = [p \in Paths |-> had[p] \cup {new[p]}]
Ask(m, new) ==
  /\ m.type \in Kinds /\ remote < MaxRemote /\ remote' = remote + 1
  /\ inbox' = Append(inbox, m) /\ Serves(new)
  /\ UNCHANGED <<disk, books, echo, events, calls, rechecks, reader, edits, history>>
ServiceModifies(p) ==
  \E c \in Contents \ {svc[p]} : Ask(Message("Modify", p, None, c), [svc EXCEPT ![p] = c])
ServiceTouches(p) == svc[p] # None /\ Ask(Message("Mtime", p, None, svc[p]), svc)
ServiceDeletes(p) ==
  svc[p] # None /\ Ask(Message("Delete", p, None, svc[p]), [svc EXCEPT ![p] = None])
ServiceRenames(r) ==
  /\ svc[r[1]] # None /\ svc[r[2]] = None
  /\ Ask(Message("Rename", r[2], r[1], svc[r[1]]),
         [svc EXCEPT ![r[1]] = None, ![r[2]] = svc[r[1]]])

-----------------------------------------------------------------------------
(* Echo suppression. *)

\* Mutant: the counter of tokens stands still.
BeginWithoutCounting(p, h) ==
  LET old == write[p] IN
  /\ echoSeq' = echoSeq
  /\ write' = [write EXCEPT ![p] = Evidence(echoSeq + 1, h, old.hash, old.recheck)]
  /\ deleted' = deleted \ {p}
  /\ renamed' = [renamed EXCEPT ![p] = IF @ # <<>> /\ @[1] = p THEN <<>> ELSE @]

\* Mutant: the version on disk until now is not remembered.
BeginWithoutPrev(p, h) ==
  LET old == write[p] IN
  /\ echoSeq' = echoSeq + 1
  /\ write' = [write EXCEPT ![p] = Evidence(echoSeq + 1, h, None, old.recheck)]
  /\ deleted' = deleted \ {p}
  /\ renamed' = [renamed EXCEPT ![p] = IF @ # <<>> /\ @[1] = p THEN <<>> ELSE @]

\* beginRemoteWrite, with clearDeleteEchoLocked.
BeginRemoteWrite(p, h) ==
  LET old == write[p] IN
  /\ echoSeq' = echoSeq + 1
  /\ write' = [write EXCEPT ![p] = Evidence(echoSeq + 1, h, old.hash, old.recheck)]
  /\ deleted' = deleted \ {p}
  /\ renamed' = [renamed EXCEPT ![p] = IF @ # <<>> /\ @[1] = p THEN <<>> ELSE @]

\* recheckLocalWriteLocked, if a callback asked for it.
Recheck(p, meta) == rechecks' = [rechecks EXCEPT ![p] = IF meta.recheck THEN @ + 1 ELSE @]

\* finishRemoteWriteLocked: evidence of that token starts its time window.
FinishRemoteWrite(p, token, h) ==
  IF write[p].token = token
    THEN /\ write' = [write EXCEPT ![p] = Landed(token, h)]
         /\ Recheck(p, write[p])
    ELSE UNCHANGED <<write, rechecks>>

\* abortRemoteWrite
AbortRemoteWrite(p, token) ==
  IF token # 0 /\ write[p].token = token
    THEN write' = [write EXCEPT ![p] = NoEvidence] /\ Recheck(p, write[p])
    ELSE UNCHANGED <<write, rechecks>>

Reports(p) == {e \in events : p \in {e[k] : k \in 1..Len(e)}}
Busy(p) == \/ Reports(p) # {} \/ rechecks[p] > 0
           \/ \E i \in Calls : calls[i].at # "idle" /\ p \in {calls[i].path, calls[i].old}

\* The timers of echoWriteMeta, echoDeleteMeta and echoRenameMeta.  The window is
\* the watcher's delay and half a second: the reports of a write are over by then.
EvidenceExpires(p) ==
  /\ ~Busy(p) /\ reader = Asleep
  /\ \/ write[p].token # 0 /\ ~write[p].inFlight
     \/ p \in deleted
     \/ renamed[p] # <<>>
  /\ write' = [write EXCEPT ![p] = IF @.inFlight THEN @ ELSE NoEvidence]
  /\ deleted' = deleted \ {p} /\ renamed' = [renamed EXCEPT ![p] = <<>>]
  /\ UNCHANGED <<disk, books, echoSeq, events, calls, rechecks, inbox, reader, counts, service,
                 history>>

-----------------------------------------------------------------------------
(* The read loop and its handlers.  A handler holds the lock of its path   *)
(* until it returns.                                                       *)

Locked(p) == reader # Asleep /\ reader.msg.type # "Rename" /\ reader.msg.path = p

Handle(t) == reader = Asleep /\ inbox # <<>> /\ Head(inbox).type = t /\ inbox' = Tail(inbox)
Goto(l, m, token, h) == reader' = [at |-> l, msg |-> m, token |-> token, hash |-> h]
At(l)  == reader.at = l
P      == reader.msg.path
Return == reader' = Asleep
HandlerFrame == UNCHANGED <<calls, counts, service, troubled>>

BeginModify ==
  /\ Handle("Modify")
  /\ LET m == Head(inbox) IN
     /\ BeginRemoteWrite(m.path, m.content)
     /\ Goto("write", m, echoSeq', m.content)
  /\ HandlerFrame /\ UNCHANGED <<disk, books, events, rechecks, unsent>>

\* atomicWriteFile: the note is replaced whatever it holds now.
WriteNote ==
  /\ At("write")
  /\ disk' = [disk EXCEPT ![P] = reader.hash] /\ events' = events \cup {<<P>>}
  /\ unsent' = unsent \ {P}
  /\ reader' = [reader EXCEPT !.at = "verify"]
  /\ HandlerFrame /\ UNCHANGED <<books, echo, rechecks, inbox>>

WriteFails ==
  /\ At("write") /\ Return
  /\ AbortRemoteWrite(P, reader.token) /\ troubled' = troubled \cup {P}
  /\ UNCHANGED <<disk, books, deleted, renamed, echoSeq, events, calls, inbox, counts,
                 service, unsent>>

\* The note is hashed again.  If an editor was faster, the remote revision is
\* known but neither the evidence nor the pending hash is settled.
VerifyNote ==
  /\ At("verify")
  /\ IF disk[P] = reader.hash
       THEN /\ reader' = [reader EXCEPT !.at = "finish"]
            /\ UNCHANGED <<base, write, rechecks>>
       ELSE /\ base' = [base EXCEPT ![P] = reader.hash] /\ Return
            /\ AbortRemoteWrite(P, reader.token)
  /\ HandlerFrame
  /\ UNCHANGED <<disk, pending, deleted, renamed, echoSeq, events, inbox, unsent>>

FinishModify ==
  /\ At("finish") /\ Return
  /\ IF disk[P] = None
       THEN AbortRemoteWrite(P, reader.token) /\ UNCHANGED books
       ELSE /\ base' = [base EXCEPT ![P] = reader.hash]
            /\ pending' = [pending EXCEPT ![P] = None]
            /\ FinishRemoteWrite(P, reader.token, reader.hash)
  /\ HandlerFrame
  /\ UNCHANGED <<disk, deleted, renamed, echoSeq, events, inbox, unsent>>

\* handleNoteSyncMtime: only the mtime is set, on what is pending or known.
BeginMtime ==
  /\ Handle("Mtime")
  /\ LET m == Head(inbox)
         h == IF pending[m.path] # None THEN pending[m.path] ELSE base[m.path] IN
     /\ BeginRemoteWrite(m.path, h)
     /\ Goto("mtime", [m EXCEPT !.content = pending[m.path]], echoSeq', base[m.path])
  /\ HandlerFrame /\ UNCHANGED <<disk, books, events, rechecks, unsent>>
FinishMtime ==
  /\ At("mtime") /\ Return
  /\ LET sent == reader.msg.content IN
     IF sent # None /\ disk[P] # None
       THEN /\ base' = [base EXCEPT ![P] = sent] /\ pending' = [pending EXCEPT ![P] = None]
            /\ FinishRemoteWrite(P, reader.token, sent)
       ELSE FinishRemoteWrite(P, reader.token, reader.hash) /\ UNCHANGED books
  /\ HandlerFrame
  /\ UNCHANGED <<disk, deleted, renamed, echoSeq, events, inbox, unsent>>

\* Mutant: the content is not compared.
CheckNothing ==
  /\ Handle("Delete")
  /\ Goto("remove", Head(inbox), 0, disk[Head(inbox).path])
  /\ HandlerFrame /\ UNCHANGED <<disk, books, echo, events, rechecks, unsent>>

\* handleNoteSyncDelete: a note that is not what the daemon knows of it is kept, as
\* a pending edit.
CheckDelete ==
  /\ Handle("Delete")
  /\ LET m == Head(inbox) IN
     IF disk[m.path] # None /\ base[m.path] # disk[m.path]
       THEN /\ pending' = [pending EXCEPT ![m.path] = disk[m.path]]
            /\ had' = [had EXCEPT ![m.path] = @ \cup {disk[m.path]}]
            /\ UNCHANGED reader
       ELSE Goto("remove", m, 0, disk[m.path]) /\ UNCHANGED <<pending, had>>
  /\ UNCHANGED <<disk, base, echo, events, calls, rechecks, counts, svc, history>>

\* What was checked is removed, with whatever was written to it since.
RemoveNote ==
  /\ At("remove") /\ Return
  /\ disk' = [disk EXCEPT ![P] = None]
  /\ events' = IF disk[P] = None THEN events ELSE events \cup {<<P>>}
  /\ deleted' = deleted \cup {P} /\ write' = [write EXCEPT ![P] = NoEvidence]
  /\ base' = [base EXCEPT ![P] = None] /\ pending' = [pending EXCEPT ![P] = None]
  /\ unsent' = unsent \ {P} /\ troubled' = troubled \cup {P}
  /\ UNCHANGED <<renamed, echoSeq, calls, rechecks, inbox, counts, service>>

\* handleNoteSyncRename.  Without the old note, it asks for the new one unless
\* that is there already.
BeginRename ==
  /\ Handle("Rename")
  /\ LET m == Head(inbox) IN
     IF disk[m.old] # None
       THEN /\ BeginRemoteWrite(m.path, m.content)
            /\ Goto("move", m, echoSeq', m.content)
            /\ UNCHANGED base
       ELSE /\ base' = IF disk[m.path] = m.content
                         THEN [base EXCEPT ![m.path] = m.content, ![m.old] = None] ELSE base
            /\ UNCHANGED <<echo, reader>>
  /\ HandlerFrame /\ UNCHANGED <<disk, pending, events, rechecks, unsent>>

\* The watcher may report a move as one rename or as two changes.  An edit that was
\* not sent yet goes with the note, and the new base hides it (see the README).
MoveNote ==
  LET old == reader.msg.old IN
  /\ At("move") /\ Return
  /\ IF disk[old] = None
       THEN /\ AbortRemoteWrite(P, reader.token)
            /\ UNCHANGED <<disk, base, renamed, events, unsent>>
       ELSE /\ disk' = [disk EXCEPT ![P] = disk[old], ![old] = None]
            /\ \E es \in {{<<old, P>>}, {<<old>>, <<P>>}} : events' = events \cup es
            /\ renamed' = [renamed EXCEPT ![old] = <<old, P>>, ![P] = <<old, P>>]
            /\ base' = [base EXCEPT ![P] = reader.hash, ![old] = None]
            /\ unsent' = unsent \ {old, P}
            /\ LET meta == write[P] IN
               /\ write' = [write EXCEPT ![old] = NoEvidence,
                     ![P] = IF meta.token = reader.token
                              THEN Landed(reader.token, reader.hash)
                              ELSE @]
               /\ Recheck(P, IF meta.token = reader.token THEN meta ELSE NoEvidence)
  /\ troubled' = troubled \cup {old} \cup (IF old \in troubled THEN {P} ELSE {})
  /\ UNCHANGED <<calls, counts, service>>
  /\ UNCHANGED <<pending, deleted, echoSeq, inbox>>

\* handleNoteModifyAck, handleNoteDeleteAck
HandleAck ==
  /\ Handle("Ack")
  /\ LET m == Head(inbox) IN
     IF m.content = None
       THEN base' = [base EXCEPT ![m.path] = None] /\ UNCHANGED pending
       ELSE IF pending[m.path] # None /\ disk[m.path] # None
         THEN /\ base' = [base EXCEPT ![m.path] = pending[m.path]]
              /\ pending' = [pending EXCEPT ![m.path] = None]
         ELSE UNCHANGED books
  /\ HandlerFrame /\ UNCHANGED <<disk, echo, events, rechecks, reader, unsent>>

ReadLoop == \/ BeginModify \/ WriteNote \/ WriteFails \/ VerifyNote \/ FinishModify
            \/ BeginMtime \/ FinishMtime \/ CheckDelete \/ RemoveNote
            \/ BeginRename \/ MoveNote \/ HandleAck

-----------------------------------------------------------------------------
(* Callbacks, each a goroutine of its own. *)

Begin(i, c)  == /\ calls[i] = Idle /\ \A j \in Calls : j < i => calls[j] # Idle
                /\ calls' = [calls EXCEPT ![i] = c]
Step(i, l)   == calls' = [calls EXCEPT ![i].at = l]
End(i)       == calls' = [calls EXCEPT ![i] = Idle]
Again(i, l)  == calls' = [calls EXCEPT ![i] = Call(l, calls[i].path, None)]
\* A decision that nothing is to be sent of p settles an edit if the service has what
\* is there or is about to have it written.
Settle(p, c) ==
  LET has == svc[p] = c \/ (reader.at = "write" /\ P = p /\ reader.hash = c) IN
  unsent' = IF disk[p] = c /\ has THEN unsent \ {p} ELSE unsent
Atop(i, l)   == calls[i].at = l
CallFrame    == UNCHANGED <<base, events, inbox, reader, counts, service, history>>

\* The watcher reports what it finds (handleEvent), in any order.
Report(i) == \E e \in events :
  /\ events' = events \ {e}
  /\ Begin(i, IF Len(e) = 2 THEN Call("rename", e[2], e[1])
              ELSE Call(IF disk[e[1]] = None THEN "delete" ELSE "look", e[1], None))
  /\ UNCHANGED <<disk, books, echo, rechecks, inbox, reader, counts, service, history>>

\* The goroutine of recheckLocalWriteLocked waits until no handler has the path.
BeginRecheck(i) == \E p \in Paths :
  /\ rechecks[p] > 0 /\ ~Locked(p)
  /\ rechecks' = [rechecks EXCEPT ![p] = @ - 1]
  /\ Begin(i, Call("look", p, None))
  /\ UNCHANGED <<disk, books, echo, events, inbox, reader, counts, service, history>>

\* isWriteEchoed: evidence with a hash is compared with the note.
Look(i) ==
  LET p == calls[i].path meta == write[p] IN
  /\ Atop(i, "look")
  /\ IF meta.hash = None \/ disk[p] = None
       THEN Step(i, "read")
       ELSE calls' = [calls EXCEPT ![i].at = "decide", ![i].meta = meta, ![i].got = disk[p]]
  /\ CallFrame /\ UNCHANGED <<disk, pending, echo, rechecks>>

Same(m, n) == m.token = n.token /\ m.inFlight = n.inFlight

\* Mutant: what the evidence replaced is an echo too, for good.
DecideOldIsEcho(i) ==
  LET p == calls[i].path meta == calls[i].meta got == calls[i].got IN
  /\ Atop(i, "decide")
  /\ CASE ~Same(write[p], meta) -> Again(i, "look") /\ UNCHANGED <<write, rechecks, unsent>>
       [] Same(write[p], meta) /\ (got = meta.hash \/ (meta.inFlight /\ got = meta.prev)) ->
            End(i) /\ Settle(p, got) /\ UNCHANGED <<write, rechecks>>
       [] OTHER -> Again(i, "read") /\ UNCHANGED unsent
                   /\ (IF meta.inFlight THEN UNCHANGED <<write, rechecks>>
                       ELSE AbortRemoteWrite(p, meta.token))
  /\ UNCHANGED <<disk, books, deleted, renamed, echoSeq, events, inbox, reader, counts, service,
                 troubled>>

\* The evidence must still be the one that was looked at.  What it replaced may be
\* a late echo or an undo: somebody looks again when the write is over.
Decide(i) ==
  LET p == calls[i].path meta == calls[i].meta got == calls[i].got IN
  /\ Atop(i, "decide")
  /\ IF ~Same(write[p], meta)
       THEN Again(i, "look") /\ UNCHANGED <<write, rechecks, unsent>>
       ELSE CASE got = meta.hash -> End(i) /\ Settle(p, got) /\ UNCHANGED <<write, rechecks>>
              [] got # meta.hash /\ meta.inFlight /\ got = meta.prev ->
                   /\ End(i) /\ write' = [write EXCEPT ![p].recheck = TRUE]
                   /\ UNCHANGED <<rechecks, unsent>>
              [] got # meta.hash /\ meta.inFlight /\ got # meta.prev ->
                   Again(i, "read") /\ UNCHANGED <<write, rechecks, unsent>>
              [] OTHER -> /\ Again(i, "read") /\ AbortRemoteWrite(p, meta.token)
                          /\ UNCHANGED unsent
  /\ UNCHANGED <<disk, books, deleted, renamed, echoSeq, events, inbox, reader, counts, service,
                 troubled>>

ForgetDelete(p) ==
  /\ deleted' = deleted \ {p}
  /\ renamed' = [renamed EXCEPT ![p] = IF @ # <<>> /\ @[1] = p THEN <<>> ELSE @]

\* sendFileContentModify reads the note ...
Read(i) ==
  LET p == calls[i].path IN
  /\ Atop(i, "read")
  /\ IF disk[p] = None
       THEN End(i) /\ UNCHANGED <<deleted, renamed>>
       ELSE /\ ForgetDelete(p)
            /\ calls' = [calls EXCEPT ![i].at = "send", ![i].got = disk[p]]
  /\ CallFrame /\ UNCHANGED <<disk, pending, write, echoSeq, rechecks>>

Push(p, c) ==
  /\ inbox' = Append(inbox, Message("Ack", p, None, c))
  /\ Serves([svc EXCEPT ![p] = c])
  /\ unsent' = IF disk[p] = c THEN unsent \ {p} ELSE unsent

\* ... and sends it; then it is pending.
SendModify(i) ==
  LET p == calls[i].path IN
  /\ Atop(i, "send") /\ End(i)
  /\ Push(p, calls[i].got) /\ pending' = [pending EXCEPT ![p] = calls[i].got]
  /\ UNCHANGED <<disk, base, echo, events, rechecks, reader, counts, troubled>>

DeleteEchoed(p) == p \in deleted \/ (renamed[p] # <<>> /\ renamed[p][1] = p)
ClearWrite(p)   == write' = [write EXCEPT ![p] = NoEvidence]

\* HandleLocalDelete; sendLocalDeleteForCategory checks under the lock ...
DeleteSeen(i) ==
  LET p == calls[i].path IN
  /\ Atop(i, "delete")
  /\ IF DeleteEchoed(p) THEN End(i) /\ Settle(p, None)
                         ELSE Step(i, "missing") /\ UNCHANGED unsent
  /\ UNCHANGED <<disk, books, echo, events, rechecks, inbox, reader, counts, service,
                 troubled>>
DeleteMissing(i) ==
  LET p == calls[i].path IN
  /\ Atop(i, "missing") /\ ~Locked(p)
  /\ CASE DeleteEchoed(p) -> End(i) /\ Settle(p, None) /\ UNCHANGED write
       [] ~DeleteEchoed(p) /\ disk[p] # None -> End(i) /\ UNCHANGED <<write, unsent>>
       [] OTHER -> Step(i, "gone") /\ ClearWrite(p) /\ UNCHANGED unsent
  /\ UNCHANGED <<disk, books, deleted, renamed, echoSeq, events, rechecks, inbox, reader,
                 counts, service, troubled>>

\* ... and, with a slot, again.
SendDelete(i) ==
  LET p == calls[i].path IN
  /\ Atop(i, "gone") /\ ~Locked(p) /\ End(i)
  /\ CASE DeleteEchoed(p) -> Settle(p, None) /\ UNCHANGED <<write, inbox, service>>
       [] ~DeleteEchoed(p) /\ disk[p] # None -> UNCHANGED <<write, inbox, service, unsent>>
       [] OTHER -> ClearWrite(p) /\ Push(p, None)
  /\ UNCHANGED <<disk, books, deleted, renamed, echoSeq, events, rechecks, reader, counts,
                 troubled>>

\* HandleLocalRename: without an echo the evidence of both paths is void, and the
\* new note is sent: alone if the old one is there, else as a rename.
Renamed(i) ==
  LET new == calls[i].path old == calls[i].old r == <<old, new>> IN
  /\ Atop(i, "rename")
  /\ IF r \in {renamed[old], renamed[new]}
       THEN End(i) /\ UNCHANGED <<echo, inbox, service, unsent>>
       ELSE /\ write' = [write EXCEPT ![old] = NoEvidence, ![new] = NoEvidence]
            /\ renamed' = [renamed EXCEPT ![old] = <<>>, ![new] = <<>>]
            /\ deleted' = deleted \ {old, new} /\ UNCHANGED echoSeq
            /\ IF disk[old] # None
                 THEN /\ calls' = [calls EXCEPT ![i] = Call("read", new, None)]
                      /\ UNCHANGED <<inbox, service, unsent>>
                 ELSE /\ End(i)
                      /\ Serves([svc EXCEPT ![old] = None, ![new] = svc[old]])
                      /\ unsent' = unsent \ {old}
                      /\ UNCHANGED inbox
  /\ UNCHANGED <<disk, books, events, rechecks, reader, counts, troubled>>

Callback(i) == \/ Report(i) \/ BeginRecheck(i)
               \/ Look(i) \/ Decide(i) \/ Read(i) \/ SendModify(i)
               \/ DeleteSeen(i) \/ DeleteMissing(i) \/ SendDelete(i) \/ Renamed(i)
Daemon == ReadLoop \/ \E i \in Calls : Callback(i)

User    == \E p \in Paths : Edit(p) \/ UserDelete(p)
Service == \/ \E p \in Paths : ServiceModifies(p) \/ ServiceTouches(p) \/ ServiceDeletes(p)
           \/ \E r \in Renames : ServiceRenames(r)

Next == Daemon \/ User \/ Service \/ \E p \in Paths : EvidenceExpires(p)

Spec == Init /\ [][Next]_vars
\* Goroutines are scheduled; nothing makes the user or the service act, and the
\* evidence may stay.
FairSpec == Spec /\ WF_vars(Daemon)

-----------------------------------------------------------------------------
(* Properties. *)

Versions == Contents \cup {None}
Meta     == [token : Nat, inFlight : BOOLEAN, hash : Versions, prev : Versions,
             recheck : BOOLEAN]
Marks    == {<<>>} \cup Renames

\* Types; and no handler works on evidence that does not exist yet.
TypeOK ==
  /\ {disk, base, pending, svc} \subseteq [Paths -> Versions]
  /\ write \in [Paths -> Meta] /\ deleted \subseteq Paths /\ renamed \in [Paths -> Marks]
  /\ rechecks \in [Paths -> Nat] /\ events \subseteq {<<p>> : p \in Paths} \cup Renames
  /\ \A i \in Calls : calls[i].path \in Paths \cup {None} /\ calls[i].meta \in Meta
  /\ \A p \in Paths : write[p].token <= echoSeq /\ reader.token <= echoSeq

Sends(p) == /\ Len(inbox') > Len(inbox) /\ remote' = remote
            /\ inbox'[Len(inbox')].path = p

\* What the service sent is never sent back: as long as the user edits nothing, no
\* callback sends anything (echo suppression, README.md:10).
OnlyEditsArePushed == [][\A p \in Paths : Sends(p) => edits > 0 \/ p \in troubled]_vars

\* No edit stays behind: each is sent, or replaced by a remote change, or is what the
\* service has (the user stops editing at some time).
EditIsPushed == []<>(unsent = {})

\* A remote delete does not remove an edit that was there when its handler began,
\* unless the service had that content at some time or an earlier delete has kept it
\* ("preserve diverged local note", note_sync.go:224).
EditsSurviveDelete == [][RemoveNote /\ disk[P] = reader.hash => disk[P] \in had[P]]_vars
=============================================================================
