---------------------------- MODULE NoteSyncProofs ----------------------------
(***************************************************************************)
(* Proofs about NoteSync for every set of notes, contents and renames and  *)
(* every bound on changes and callbacks: its types, that nothing the       *)
(* service sent is sent back to it, and what a remote delete may remove.   *)
(***************************************************************************)
EXTENDS NoteSync, TLAPS

-----------------------------------------------------------------------------
(* Types.                                                                    *)

MessageTypes == {"Modify", "Mtime", "Delete", "Rename", "Ack"}
HandlerStages == {"write", "verify", "finish", "mtime", "remove", "move"}
CallStages == {"rename", "delete", "missing", "gone", "look", "decide", "read", "send"}

\* A note that is written or moved has a content; a rename is one of Renames.
Messages ==
  {m \in [type : MessageTypes, path : Paths, old : Paths \cup {None}, content : Versions] :
     /\ m.type \in {"Modify", "Rename"} => m.content # None
     /\ m.type = "Rename" => <<m.old, m.path>> \in Renames}

\* The hash of a handler that replaces a note is the content it was sent.
Handlers ==
  {r \in [at : HandlerStages, msg : Messages, token : Nat, hash : Versions] :
     /\ r.at \in {"write", "verify", "finish"} => r.msg.type = "Modify"
     /\ r.at = "move" => r.msg.type = "Rename"
     /\ r.at \in {"write", "verify", "finish", "move"} => r.hash = r.msg.content
     /\ r.at # "remove" => r.token # 0}

\* A callback decides with evidence that has a hash.
Callbacks ==
  {c \in [at : CallStages, path : Paths, old : Paths \cup {None}, meta : Meta,
          got : Versions] :
     /\ c.at = "rename" => <<c.old, c.path>> \in Renames
     /\ c.at = "decide" => c.meta.hash # None /\ c.meta.token # 0}

\* Evidence with a hash has a token; only a write in flight is looked at again.
Evidences ==
  {e \in Meta : /\ e.hash # None => e.token # 0
                /\ e.recheck => e.inFlight}

NoteTypes ==
  /\ disk \in [Paths -> Versions] /\ base \in [Paths -> Versions]
  /\ pending \in [Paths -> Versions] /\ svc \in [Paths -> Versions]
  /\ edits \in Nat /\ remote \in Nat
EchoTypes ==
  /\ write \in [Paths -> Evidences] /\ deleted \subseteq Paths /\ renamed \in [Paths -> Marks]
  /\ rechecks \in [Paths -> Nat] /\ echoSeq \in Nat
EventTypes  == events \subseteq {<<p>> : p \in Paths} \cup Renames
CallTypes   == calls \in [Calls -> Callbacks \cup {Idle}]
ReaderTypes == inbox \in Seq(Messages) /\ reader \in Handlers \cup {Asleep}

Types == NoteTypes /\ EchoTypes /\ EventTypes /\ CallTypes /\ ReaderTypes

\* Values that are told apart.
LEMMA Values ==
  /\ None \in Versions /\ None \notin Paths /\ Contents \subseteq Versions
  /\ \A c \in Contents : c # None
  /\ NoEvidence \in Evidences /\ NoEvidence.token = 0 /\ ~NoEvidence.inFlight
  /\ NoEvidence.hash = None /\ NoEvidence.prev = None /\ ~NoEvidence.recheck
  /\ <<>> \in Marks /\ Renames \subseteq Marks
  /\ \A r \in Renames : /\ r[1] \in Paths /\ r[2] \in Paths /\ r[1] # r[2]
                        /\ r = <<r[1], r[2]>> /\ Len(r) = 2 /\ r # <<>>
  /\ Idle.at = "idle" /\ Idle \notin Callbacks
  /\ Asleep.at = "idle" /\ Asleep \notin Handlers /\ Asleep.token = 0
<1>1. /\ None \in Versions /\ None \notin Paths /\ Contents \subseteq Versions
      /\ \A c \in Contents : c # None
  BY NoteSyncAssumption DEF Versions
<1>3. /\ NoEvidence \in Evidences /\ NoEvidence.token = 0 /\ ~NoEvidence.inFlight
      /\ NoEvidence.hash = None /\ NoEvidence.prev = None /\ ~NoEvidence.recheck
  BY <1>1 DEF Evidences, Meta, NoEvidence, Landed
<1>4. <<>> \in Marks /\ Renames \subseteq Marks
  BY DEF Marks
<1>5. \A r \in Renames : /\ r[1] \in Paths /\ r[2] \in Paths /\ r[1] # r[2]
                         /\ r = <<r[1], r[2]>> /\ Len(r) = 2 /\ r # <<>>
  BY NoteSyncAssumption
<1>6. Idle.at = "idle" /\ Idle \notin Callbacks
  BY DEF Idle, Call, Callbacks, CallStages
<1>7. Asleep.at = "idle" /\ Asleep \notin Handlers /\ Asleep.token = 0
  BY DEF Asleep, Handlers, HandlerStages
<1>8. QED BY <1>1, <1>3, <1>4, <1>5, <1>6, <1>7

\* A callback that began has its path; one at a stage is of its type.
LEMMA CallAt ==
  ASSUME CallTypes, NEW i \in Calls
  PROVE  /\ calls[i] = Idle \/ calls[i] \in Callbacks
         /\ calls[i].at = "idle" <=> calls[i] = Idle
         /\ calls[i].at # "idle" => calls[i] \in Callbacks /\ calls[i].path \in Paths
BY Values DEF CallTypes, Callbacks, CallStages

\* The read loop sleeps, or its handler has the note, the hash and the rename of its message.
LEMMA ReaderAt ==
  ASSUME ReaderTypes
  PROVE  /\ reader = Asleep \/ reader \in Handlers
         /\ reader.at = "idle" <=> reader = Asleep
         /\ reader.at # "idle" => /\ reader \in Handlers /\ P \in Paths
                                  /\ reader.hash \in Versions /\ reader.token \in Nat
         /\ reader.at \in {"write", "verify", "finish", "move"} =>
              reader.hash = reader.msg.content /\ reader.hash # None
         /\ reader.at = "move" => /\ <<reader.msg.old, P>> \in Renames
                                  /\ reader.msg.old \in Paths /\ reader.msg.old # P
<1>1. reader \in Handlers \cup {Asleep}
  BY DEF ReaderTypes
<1>2. CASE reader = Asleep
  BY <1>2, Values
<1>3. CASE reader \in Handlers
  <2>1. reader.at # "idle" /\ reader # Asleep
    BY <1>3, Values DEF Handlers, HandlerStages
  <2>2. P \in Paths /\ reader.hash \in Versions /\ reader.token \in Nat
    BY <1>3 DEF Handlers, Messages, P
  <2>3. reader.at \in {"write", "verify", "finish", "move"} =>
          reader.hash = reader.msg.content /\ reader.hash # None
    BY <1>3 DEF Handlers, Messages
  <2>4. reader.at = "move" => <<reader.msg.old, P>> \in Renames
    BY <1>3 DEF Handlers, Messages, P
  <2>5. reader.at = "move" => reader.msg.old \in Paths /\ reader.msg.old # P
    <3>1. SUFFICES ASSUME reader.at = "move"
                   PROVE  reader.msg.old \in Paths /\ reader.msg.old # P
      OBVIOUS
    <3>2. PICK r \in Renames : r = <<reader.msg.old, P>>
      BY <2>4, <3>1
    <3>3. QED BY <3>2, Values
  <2>6. QED BY <1>3, <2>1, <2>2, <2>3, <2>4, <2>5
<1>4. QED BY <1>1, <1>2, <1>3

-----------------------------------------------------------------------------
(* What the operators of echo suppression do to each note.                   *)

\* New evidence of p is in flight, takes the next token and remembers the hash it
\* replaced.
LEMMA Began ==
  ASSUME EchoTypes, NEW p \in Paths, NEW h \in Versions, BeginRemoteWrite(p, h)
  PROVE  /\ write' \in [Paths -> Evidences] /\ deleted' \subseteq Paths
         /\ renamed' \in [Paths -> Marks] /\ echoSeq' \in Nat /\ echoSeq' = echoSeq + 1
         /\ write'[p].token = echoSeq + 1 /\ write'[p].inFlight /\ write'[p].hash = h
         /\ write'[p].prev = write[p].hash
         /\ write'[p].recheck <=> write[p].recheck
         /\ \A q \in Paths : q # p => write'[q] = write[q] /\ renamed'[q] = renamed[q]
         /\ renamed[p] # <<>> /\ renamed[p][1] # p => renamed'[p] = renamed[p]
<1>1. PICK e \in Evidences : e = write[p]
  BY DEF EchoTypes
<1>2. PICK n : n = Evidence(echoSeq + 1, h, e.hash, e.recheck)
  OBVIOUS
<1>3. /\ n.token = echoSeq + 1 /\ n.inFlight /\ n.hash = h /\ n.prev = e.hash
      /\ n.recheck = e.recheck
  BY <1>2 DEF Evidence
<1>4. n \in Evidences
  BY <1>1, <1>2 DEF Evidence, Evidences, Meta, EchoTypes
<1>5. write' = [write EXCEPT ![p] = n]
  BY <1>1, <1>2 DEF BeginRemoteWrite
<1>6. PICK m \in Marks : /\ renamed' = [renamed EXCEPT ![p] = m]
                         /\ renamed[p] # <<>> /\ renamed[p][1] # p => m = renamed[p]
  <2>1. renamed[p] \in Marks /\ <<>> \in Marks
    BY Values DEF EchoTypes
  <2>2. QED BY <2>1 DEF BeginRemoteWrite, EchoTypes
<1>7. write' \in [Paths -> Evidences] /\ write'[p] = n
  BY <1>4, <1>5 DEF EchoTypes
<1>8. renamed' \in [Paths -> Marks] /\ renamed'[p] = m
  BY <1>6 DEF EchoTypes
<1>9. \A q \in Paths : q # p => write'[q] = write[q] /\ renamed'[q] = renamed[q]
  BY <1>5, <1>6 DEF EchoTypes
<1>10. deleted' \subseteq Paths /\ echoSeq' \in Nat /\ echoSeq' = echoSeq + 1
  BY DEF BeginRemoteWrite, EchoTypes
<1>11. write'[p].recheck <=> write[p].recheck
  BY <1>1, <1>3, <1>7
<1>12. QED BY <1>1, <1>3, <1>6, <1>7, <1>8, <1>9, <1>10, <1>11

\* Evidence of p is replaced, and a callback that asked for it begins again.
Replaced(p, e) ==
  /\ write' = [write EXCEPT ![p] = e]
  /\ rechecks' = [rechecks EXCEPT ![p] = IF write[p].recheck THEN @ + 1 ELSE @]

\* Settled evidence replaces the evidence of that token; other evidence stays.
LEMMA Finished ==
  ASSUME EchoTypes, NEW p \in Paths, NEW t \in Nat \ {0}, NEW h \in Versions,
         FinishRemoteWrite(p, t, h)
  PROVE  \/ /\ write[p].token = t
            /\ \E e \in Evidences : /\ Replaced(p, e)
                                    /\ e.token = t /\ ~e.inFlight /\ e.hash = h /\ e.prev = None
                                    /\ ~e.recheck
         \/ write[p].token # t /\ UNCHANGED <<write, rechecks>>
<1>1. CASE write[p].token = t
  <2>1. PICK e : e = Landed(t, h)
    OBVIOUS
  <2>2. e \in Evidences /\ e.token = t /\ ~e.inFlight /\ e.hash = h /\ e.prev = None /\ ~e.recheck
    BY <2>1, Values DEF Evidences, Meta, Landed
  <2>3. Replaced(p, e)
    BY <1>1, <2>1 DEF FinishRemoteWrite, Recheck, Replaced
  <2>4. QED BY <1>1, <2>2, <2>3
<1>2. CASE write[p].token # t
  BY <1>2 DEF FinishRemoteWrite
<1>3. QED BY <1>1, <1>2

\* Evidence that is taken back leaves none, or stays because it is not of that token.
LEMMA Aborted ==
  ASSUME EchoTypes, NEW p \in Paths, NEW t \in Nat, AbortRemoteWrite(p, t)
  PROVE  Replaced(p, NoEvidence) \/ UNCHANGED <<write, rechecks>>
BY DEF AbortRemoteWrite, Recheck, Replaced

\* Only evidence of p changes.
LEMMA ReplacedOne ==
  ASSUME EchoTypes, NEW p \in Paths, NEW e \in Evidences, Replaced(p, e)
  PROVE  /\ write' \in [Paths -> Evidences] /\ write'[p] = e
         /\ rechecks' \in [Paths -> Nat]
         /\ \A q \in Paths : q # p => write'[q] = write[q] /\ rechecks'[q] = rechecks[q]
         /\ rechecks'[p] > 0 => rechecks[p] > 0 \/ write[p].recheck
<1>1. PICK n \in Nat : n = rechecks[p]
  BY DEF EchoTypes
<1>2. PICK m \in Nat : /\ rechecks' = [rechecks EXCEPT ![p] = m]
                       /\ m > 0 => n > 0 \/ write[p].recheck
  <2>1. CASE write[p].recheck
    <3>1. rechecks' = [rechecks EXCEPT ![p] = n + 1]
      BY <1>1, <2>1 DEF Replaced
    <3>2. n + 1 \in Nat
      OBVIOUS
    <3>3. QED BY <2>1, <3>1, <3>2, Zenon
  <2>2. CASE ~write[p].recheck
    <3>1. rechecks' = [rechecks EXCEPT ![p] = n]
      BY <1>1, <2>2 DEF Replaced
    <3>2. QED BY <3>1, Zenon
  <2>3. QED BY <2>1, <2>2
<1>3. /\ rechecks' \in [Paths -> Nat] /\ rechecks'[p] = m
      /\ \A q \in Paths : q # p => rechecks'[q] = rechecks[q]
  BY <1>2 DEF EchoTypes
<1>4. /\ write' \in [Paths -> Evidences] /\ write'[p] = e
      /\ \A q \in Paths : q # p => write'[q] = write[q]
  BY DEF Replaced, EchoTypes
<1>5. QED BY <1>1, <1>2, <1>3, <1>4

-----------------------------------------------------------------------------
(* Types of the callbacks.                                                   *)

\* A callback that begins, and one that goes on to another stage.
LEMMA CallMade ==
  ASSUME NEW l \in CallStages \ {"decide"}, NEW p \in Paths, NEW old \in Paths \cup {None},
         l = "rename" => <<old, p>> \in Renames
  PROVE  /\ Call(l, p, old) \in Callbacks
         /\ Call(l, p, old).at = l /\ Call(l, p, old).path = p /\ Call(l, p, old).old = old
BY Values DEF Call, Callbacks, Evidences

\* A callback that begins again has no rename.
LEMMA CallAgain ==
  ASSUME NEW p \in Paths, NEW l \in {"look", "read"}
  PROVE  Call(l, p, None) \in Callbacks /\ Call(l, p, None).at = l /\ Call(l, p, None).path = p
<1>1. l \in CallStages \ {"decide"} /\ None \in Paths \cup {None}
  BY DEF CallStages
<1>2. l = "rename" => <<None, p>> \in Renames
  OBVIOUS
<1>3. QED BY <1>1, <1>2, CallMade

\* A callback that goes on keeps its path.
LEMMA CallMoved ==
  ASSUME NEW c \in Callbacks, NEW l \in CallStages \ {"rename", "decide"}
  PROVE  /\ [c EXCEPT !.at = l] \in Callbacks
         /\ [c EXCEPT !.at = l].at = l /\ [c EXCEPT !.at = l].path = c.path
BY DEF Callbacks

\* Only the callback that is set changes.
LEMMA CallSet ==
  ASSUME CallTypes, NEW i \in Calls, NEW c \in Callbacks \cup {Idle},
         calls' = [calls EXCEPT ![i] = c]
  PROVE  /\ CallTypes' /\ calls'[i] = c
         /\ \A j \in Calls : j # i => calls'[j] = calls[j]
BY DEF CallTypes

-----------------------------------------------------------------------------
(* What each step of a callback leaves behind.                               *)

\* The report of a change, and of a rename.
LEMMA Reported ==
  ASSUME Types, NEW i \in Calls, Report(i)
  PROVE  /\ calls[i] = Idle
         /\ \E e \in events : \E c \in Callbacks :
              /\ events' = events \ {e} /\ calls' = [calls EXCEPT ![i] = c]
              /\ \/ e \in Renames /\ c.at = "rename" /\ c.old = e[1] /\ c.path = e[2]
                 \/ \E p \in Paths : /\ e = <<p>> /\ c.path = p
                                     /\ c.at = IF disk[p] = None THEN "delete" ELSE "look"
<1>1. PICK e \in events : events' = events \ {e}
                          /\ Begin(i, IF Len(e) = 2 THEN Call("rename", e[2], e[1])
                              ELSE Call(IF disk[e[1]] = None THEN "delete" ELSE "look",
                                        e[1], None))
  BY DEF Report
<1>2. calls[i] = Idle
  BY <1>1 DEF Begin
<1>3. CASE e \in Renames
  <2>1. /\ e[1] \in Paths /\ e[2] \in Paths /\ e = <<e[1], e[2]>> /\ Len(e) = 2
    BY <1>3, Values
  <2>2. LET c == Call("rename", e[2], e[1]) IN
        c \in Callbacks /\ c.at = "rename" /\ c.path = e[2] /\ c.old = e[1]
    BY <2>1, <1>3, CallMade DEF CallStages
  <2>3. calls' = [calls EXCEPT ![i] = Call("rename", e[2], e[1])]
    BY <1>1, <2>1 DEF Begin
  <2>4. QED BY <1>1, <1>2, <1>3, <2>2, <2>3
<1>4. CASE \E p \in Paths : e = <<p>>
  <2>1. PICK p \in Paths : e = <<p>>
    BY <1>4
  <2>2. PICK l : l = IF disk[p] = None THEN "delete" ELSE "look"
    OBVIOUS
  <2>3. Len(e) # 2 /\ e[1] = p
    BY <2>1
  <2>4. calls' = [calls EXCEPT ![i] = Call(l, p, None)]
    BY <1>1, <2>2, <2>3 DEF Begin
  <2>5. l \in CallStages \ {"decide"} /\ None \in Paths \cup {None}
    BY <2>2 DEF CallStages
  <2>6. Call(l, p, None) \in Callbacks /\ Call(l, p, None).at = l /\ Call(l, p, None).path = p
    <3>1. l = "rename" => <<None, p>> \in Renames
      BY <2>2
    <3>2. QED BY <2>5, <3>1, CallMade
  <2>7. QED BY <1>1, <1>2, <2>1, <2>2, <2>4, <2>6
<1>5. e \in Renames \/ \E p \in Paths : e = <<p>>
  BY <1>1 DEF Types, EventTypes
<1>6. QED BY <1>3, <1>4, <1>5

\* The goroutine that looks again takes one of the note's rechecks.
LEMMA Rechecked ==
  ASSUME Types, NEW i \in Calls, BeginRecheck(i)
  PROVE  \E p \in Paths : \E c \in Callbacks :
           /\ rechecks[p] > 0 /\ rechecks' = [rechecks EXCEPT ![p] = rechecks[p] - 1]
           /\ calls' = [calls EXCEPT ![i] = c] /\ c.at = "look" /\ c.path = p
           /\ calls[i] = Idle
<1>1. PICK p \in Paths : /\ rechecks[p] > 0
                         /\ rechecks' = [rechecks EXCEPT ![p] = @ - 1]
                         /\ Begin(i, Call("look", p, None))
  BY DEF BeginRecheck
<1>2. Call("look", p, None) \in Callbacks /\ Call("look", p, None).at = "look"
      /\ Call("look", p, None).path = p
  BY CallAgain
<1>3. QED BY <1>1, <1>2 DEF Begin

\* A callback that stands at a stage.
LEMMA CallStands ==
  ASSUME Types, NEW i \in Calls, calls[i].at # "idle"
  PROVE  /\ calls[i] \in Callbacks /\ calls[i].path \in Paths /\ calls[i].meta \in Meta
         /\ calls[i].old \in Paths \cup {None} /\ calls[i].got \in Versions
         /\ calls[i].at = "rename" => <<calls[i].old, calls[i].path>> \in Renames
         /\ calls[i].at = "decide" => calls[i].meta.hash # None /\ calls[i].meta.token # 0
<1>1. calls[i] \in Callbacks
  BY CallAt DEF Types
<1>2. QED BY <1>1 DEF Callbacks

\* A callback that looked goes on to read, or decides with what it looked at.
LEMMA Looked ==
  ASSUME Types, NEW i \in Calls, Look(i)
  PROVE  /\ calls[i].at = "look" /\ calls[i].path \in Paths
         /\ \E c \in Callbacks :
              /\ calls' = [calls EXCEPT ![i] = c] /\ c.path = calls[i].path
              /\ \/ /\ c.at = "read"
                    /\ write[c.path].hash = None \/ disk[c.path] = None
                 \/ /\ c.at = "decide" /\ c.meta = write[c.path] /\ c.got = disk[c.path]
                    /\ write[c.path].hash # None /\ disk[c.path] # None
<1> DEFINE p == calls[i].path
<1>1. calls[i].at = "look"
  BY DEF Look, Atop
<1>2. calls[i] \in Callbacks /\ p \in Paths
  BY <1>1, CallStands
<1>3. CASE write[p].hash = None \/ disk[p] = None
  <2>1. calls' = [calls EXCEPT ![i] = [calls[i] EXCEPT !.at = "read"]]
    BY <1>3 DEF Look, Step
  <2>2. LET c == [calls[i] EXCEPT !.at = "read"] IN
        c \in Callbacks /\ c.at = "read" /\ c.path = p
    BY <1>2, CallMoved DEF CallStages
  <2>3. QED BY <1>1, <1>2, <1>3, <2>1, <2>2
<1>4. CASE ~(write[p].hash = None \/ disk[p] = None)
  <2>1. PICK m \in Evidences : m = write[p]
    BY <1>2 DEF Types, EchoTypes
  <2>2. PICK g \in Versions : g = disk[p]
    BY <1>2 DEF Types, NoteTypes
  <2>3. PICK b \in Callbacks : b = calls[i]
    BY <1>2
  <2>4. PICK d : d = [b EXCEPT !.at = "decide", !.meta = m, !.got = g]
    OBVIOUS
  <2>5. calls' = [calls EXCEPT ![i] = d]
    BY <1>4, <2>1, <2>2, <2>3, <2>4 DEF Look
  <2>6. m.hash # None
    BY <1>4, <2>1
  <2>7. d \in Callbacks /\ d.at = "decide" /\ d.meta = m /\ d.got = g /\ d.path = b.path
    BY <2>1, <2>2, <2>3, <2>4, <2>6 DEF Callbacks, CallStages, Evidences
  <2>8. QED BY <1>1, <1>2, <1>4, <2>1, <2>2, <2>3, <2>5, <2>7
<1>5. QED BY <1>3, <1>4

\* A callback that decided looks again, is over, asks that somebody looks again, or
\* goes on to read.
LEMMA Decided ==
  ASSUME Types, NEW i \in Calls, Decide(i)
  PROVE  LET p == calls[i].path
             m == calls[i].meta
             g == calls[i].got IN
         /\ calls[i].at = "decide" /\ p \in Paths
         /\ \E c \in Callbacks \cup {Idle} :
              /\ calls' = [calls EXCEPT ![i] = c]
              /\ \/ /\ c \in Callbacks /\ c.at = "look" /\ c.path = p
                    /\ ~Same(write[p], m) /\ UNCHANGED <<write, rechecks>>
                 \/ /\ c = Idle /\ UNCHANGED <<write, rechecks>>
                 \/ /\ c = Idle /\ Same(write[p], m) /\ m.inFlight /\ UNCHANGED rechecks
                    /\ write' = [write EXCEPT ![p].recheck = TRUE]
                 \/ /\ c \in Callbacks /\ c.at = "read" /\ c.path = p
                    /\ Same(write[p], m) /\ g # m.hash /\ ~(m.inFlight /\ g = m.prev)
                    /\ Replaced(p, NoEvidence) \/ UNCHANGED <<write, rechecks>>
<1> DEFINE p == calls[i].path
           m == calls[i].meta
           g == calls[i].got
<1>1. calls[i].at = "decide"
  BY DEF Decide, Atop
<1>2. /\ calls[i] \in Callbacks /\ p \in Paths /\ m \in Meta /\ m.token \in Nat
  BY <1>1, CallStands DEF Meta
<1>3. /\ Call("look", p, None) \in Callbacks /\ Call("look", p, None).at = "look"
      /\ Call("look", p, None).path = p
      /\ Call("read", p, None) \in Callbacks /\ Call("read", p, None).at = "read"
      /\ Call("read", p, None).path = p
  BY <1>2, CallAgain
<1>4. CASE ~Same(write[p], m)
  <2>1. calls' = [calls EXCEPT ![i] = Call("look", p, None)] /\ UNCHANGED <<write, rechecks>>
    BY <1>4 DEF Decide, Again
  <2>2. QED BY <1>1, <1>2, <1>3, <1>4, <2>1
<1>5. CASE Same(write[p], m) /\ g = m.hash
  <2>1. calls' = [calls EXCEPT ![i] = Idle] /\ UNCHANGED <<write, rechecks>>
    BY <1>5 DEF Decide, End
  <2>2. QED BY <1>1, <1>2, <2>1
<1>6. CASE Same(write[p], m) /\ g # m.hash /\ m.inFlight /\ g = m.prev
  <2>1. /\ calls' = [calls EXCEPT ![i] = Idle] /\ UNCHANGED rechecks
        /\ write' = [write EXCEPT ![p].recheck = TRUE]
    BY <1>6 DEF Decide, End
  <2>2. QED BY <1>1, <1>2, <1>6, <2>1
<1>7. CASE Same(write[p], m) /\ g # m.hash /\ ~(m.inFlight /\ g = m.prev)
  <2>1. calls' = [calls EXCEPT ![i] = Call("read", p, None)]
    BY <1>7 DEF Decide, Again
  <2>2. AbortRemoteWrite(p, m.token) \/ UNCHANGED <<write, rechecks>>
    BY <1>7 DEF Decide
  <2>3. Replaced(p, NoEvidence) \/ UNCHANGED <<write, rechecks>>
    BY <1>2, <2>2, Aborted DEF Types
  <2>4. QED BY <1>1, <1>2, <1>3, <1>7, <2>1, <2>3
<1>8. QED BY <1>4, <1>5, <1>6, <1>7

\* A callback that reads, sends or deletes stays at its note until it is over.
LEMMA WentOn ==
  ASSUME Types, NEW i \in Calls,
         Read(i) \/ SendModify(i) \/ DeleteSeen(i) \/ DeleteMissing(i) \/ SendDelete(i)
  PROVE  /\ calls[i].at \in {"read", "send", "delete", "missing", "gone"}
         /\ calls[i].path \in Paths
         /\ \E c \in Callbacks \cup {Idle} :
              /\ calls' = [calls EXCEPT ![i] = c]
              /\ c # Idle => c.path = calls[i].path /\ c.at \in {"send", "missing", "gone"}
<1>1. calls[i].at \in {"read", "send", "delete", "missing", "gone"}
  BY DEF Read, SendModify, DeleteSeen, DeleteMissing, SendDelete, Atop
<1>2. calls[i] \in Callbacks /\ calls[i].path \in Paths
  BY <1>1, CallStands
<1>3. CASE calls' = [calls EXCEPT ![i] = Idle]
  BY <1>1, <1>2, <1>3
<1>4. CASE Step(i, "missing") \/ Step(i, "gone")
  <2>1. PICK l \in {"missing", "gone"} : calls' = [calls EXCEPT ![i] = [calls[i] EXCEPT !.at = l]]
    BY <1>4 DEF Step
  <2>2. l \in CallStages \ {"rename", "decide"}
    BY DEF CallStages
  <2>3. LET c == [calls[i] EXCEPT !.at = l] IN
        c \in Callbacks /\ c.at = l /\ c.path = calls[i].path
    BY <1>2, <2>2, CallMoved
  <2>4. QED BY <1>1, <1>2, <2>1, <2>3
<1>5. CASE Read(i) /\ disk[calls[i].path] # None
  <2>1. PICK b \in Callbacks : b = calls[i]
    BY <1>2
  <2>2. PICK g \in Versions : g = disk[calls[i].path]
    BY <1>2 DEF Types, NoteTypes
  <2>3. PICK d : d = [b EXCEPT !.at = "send", !.got = g]
    OBVIOUS
  <2>4. calls' = [calls EXCEPT ![i] = d]
    BY <1>5, <2>1, <2>2, <2>3 DEF Read
  <2>5. d \in Callbacks /\ d.at = "send" /\ d.path = b.path
    BY <2>1, <2>2, <2>3 DEF Callbacks, CallStages
  <2>6. QED BY <1>1, <1>2, <2>1, <2>4, <2>5
<1>6. \/ calls' = [calls EXCEPT ![i] = Idle]
      \/ Step(i, "missing") \/ Step(i, "gone")
      \/ Read(i) /\ disk[calls[i].path] # None
  BY DEF Read, SendModify, DeleteSeen, DeleteMissing, SendDelete, End
<1>7. QED BY <1>3, <1>4, <1>5, <1>6

\* A rename of the user's voids the evidence of both notes.
LEMMA RenameHeard ==
  ASSUME Types, NEW i \in Calls, Renamed(i)
  PROVE  LET new == calls[i].path
             old == calls[i].old IN
         /\ calls[i].at = "rename" /\ <<old, new>> \in Renames
         /\ new \in Paths /\ old \in Paths /\ old # new
         /\ \E c \in Callbacks \cup {Idle} :
              /\ calls' = [calls EXCEPT ![i] = c]
              /\ c # Idle => c.path = new /\ c.at = "read"
              /\ \/ c = Idle /\ UNCHANGED <<echo, svc>>
                 \/ /\ <<old, new>> \notin {renamed[old], renamed[new]}
                    /\ write' = [write EXCEPT ![old] = NoEvidence, ![new] = NoEvidence]
                    /\ renamed' = [renamed EXCEPT ![old] = <<>>, ![new] = <<>>]
                    /\ deleted' = deleted \ {old, new} /\ UNCHANGED echoSeq
                    /\ \/ UNCHANGED svc
                       \/ svc' = [svc EXCEPT ![old] = None, ![new] = svc[old]]
<1> DEFINE new == calls[i].path
           old == calls[i].old
<1>1. calls[i].at = "rename"
  BY DEF Renamed, Atop
<1>2. calls[i] \in Callbacks /\ new \in Paths /\ <<old, new>> \in Renames
  BY <1>1, CallStands
<1>3. old \in Paths /\ old # new
  <2>1. PICK r \in Renames : r = <<old, new>>
    BY <1>2
  <2>2. QED BY <2>1, Values
<1>4. CASE <<old, new>> \in {renamed[old], renamed[new]}
  <2>1. calls' = [calls EXCEPT ![i] = Idle] /\ UNCHANGED <<echo, svc>>
    BY <1>4 DEF Renamed, End, Serves, service
  <2>2. QED BY <1>1, <1>2, <1>3, <2>1
<1>5. CASE <<old, new>> \notin {renamed[old], renamed[new]}
  <2>1. /\ write' = [write EXCEPT ![old] = NoEvidence, ![new] = NoEvidence]
        /\ renamed' = [renamed EXCEPT ![old] = <<>>, ![new] = <<>>]
        /\ deleted' = deleted \ {old, new} /\ UNCHANGED echoSeq
        /\ UNCHANGED svc \/ svc' = [svc EXCEPT ![old] = None, ![new] = svc[old]]
    BY <1>5 DEF Renamed, Serves, service
  <2>2. \/ calls' = [calls EXCEPT ![i] = Idle]
        \/ calls' = [calls EXCEPT ![i] = Call("read", new, None)]
    BY <1>5 DEF Renamed, End
  <2>3. /\ Call("read", new, None) \in Callbacks /\ Call("read", new, None).at = "read"
        /\ Call("read", new, None).path = new
    BY <1>2, CallAgain
  <2>4. QED BY <1>1, <1>2, <1>3, <1>5, <2>1, <2>2, <2>3
<1>6. QED BY <1>4, <1>5

-----------------------------------------------------------------------------
(* The types hold of every step.                                             *)

\* A message of each kind.
LEMMA MessageMade ==
  ASSUME NEW p \in Paths, NEW c \in Versions
  PROVE  /\ \A t \in {"Mtime", "Delete", "Ack"} : Message(t, p, None, c) \in Messages
         /\ c # None => Message("Modify", p, None, c) \in Messages
         /\ \A o \in Paths : c # None /\ <<o, p>> \in Renames =>
                               Message("Rename", p, o, c) \in Messages
BY Values DEF Message, Messages, MessageTypes

\* What is pushed is acknowledged, and known to the service.
LEMMA Pushed ==
  ASSUME Types, NEW p \in Paths, NEW c \in Versions, Push(p, c)
  PROVE  /\ inbox' = Append(inbox, Message("Ack", p, None, c))
         /\ inbox' \in Seq(Messages) /\ svc' \in [Paths -> Versions]
         /\ \A q \in Paths : q # p => svc'[q] = svc[q]
<1>1. Message("Ack", p, None, c) \in Messages
  BY MessageMade
<1>2. inbox' = Append(inbox, Message("Ack", p, None, c))
  BY DEF Push
<1>3. svc' \in [Paths -> Versions] /\ \A q \in Paths : q # p => svc'[q] = svc[q]
  BY DEF Push, Types, NoteTypes, Serves, service
<1>4. inbox' \in Seq(Messages)
  <2>1. inbox \in Seq(Messages)
    BY DEF Types, ReaderTypes
  <2>2. QED BY <1>1, <1>2, <2>1
<1>5. QED BY <1>2, <1>3, <1>4

\* Callbacks keep the types.
LEMMA CallbackTypes ==
  ASSUME Types, NEW i \in Calls, Callback(i)
  PROVE  Types'
<1> USE DEF Types
<1>1. CASE Report(i)
  <2>1. EventTypes'
    BY <1>1, Reported DEF EventTypes
  <2>2. CallTypes'
    BY <1>1, Reported, CallSet
  <2>3. QED BY <1>1, <2>1, <2>2 DEF Report, NoteTypes, EchoTypes, ReaderTypes, books, echo, counts,
                                    service
<1>2. CASE BeginRecheck(i)
  <2>1. PICK p \in Paths : rechecks[p] > 0 /\ rechecks' = [rechecks EXCEPT ![p] = rechecks[p] - 1]
    BY <1>2, Rechecked
  <2>2. rechecks' \in [Paths -> Nat]
    BY <2>1 DEF EchoTypes
  <2>3. CallTypes'
    BY <1>2, Rechecked, CallSet
  <2>4. QED BY <1>2, <2>2, <2>3
            DEF BeginRecheck, NoteTypes, EchoTypes, EventTypes, ReaderTypes, books, echo, counts,
                service
<1>3. CASE Look(i)
  <2>1. CallTypes'
    BY <1>3, Looked, CallSet
  <2>2. QED BY <1>3, <2>1
            DEF Look, CallFrame, NoteTypes, EchoTypes, EventTypes, ReaderTypes, echo, counts,
                service
<1>4. CASE Decide(i)
  <2>1. CallTypes'
    BY <1>4, Decided, CallSet
  <2>2. write' \in [Paths -> Evidences] /\ rechecks' \in [Paths -> Nat]
    <3>1. calls[i].path \in Paths /\ NoEvidence \in Evidences
      BY <1>4, Decided, Values
    <3>2. CASE UNCHANGED <<write, rechecks>>
      BY <3>2 DEF EchoTypes
    <3>3. CASE Replaced(calls[i].path, NoEvidence)
      BY <3>1, <3>3, ReplacedOne
    <3>4. CASE /\ Same(write[calls[i].path], calls[i].meta) /\ calls[i].meta.inFlight
               /\ UNCHANGED rechecks
               /\ write' = [write EXCEPT ![calls[i].path].recheck = TRUE]
      <4>1. PICK e \in Evidences : e = write[calls[i].path]
        BY <3>1 DEF EchoTypes
      <4>2. PICK n : n = [e EXCEPT !.recheck = TRUE]
        OBVIOUS
      <4>3. n \in Evidences
        BY <3>4, <4>1, <4>2 DEF Evidences, Meta, Same
      <4>4. write' = [write EXCEPT ![calls[i].path] = n]
        BY <3>4, <4>1, <4>2
      <4>5. QED BY <3>4, <4>3, <4>4 DEF EchoTypes
    <3>5. QED BY <1>4, <3>2, <3>3, <3>4, Decided
  <2>3. QED BY <1>4, <2>1, <2>2
            DEF Decide, NoteTypes, EchoTypes, EventTypes, ReaderTypes, books, counts, service
<1>5. CASE Read(i)
  <2>1. CallTypes'
    BY <1>5, WentOn, CallSet
  <2>2. deleted' \subseteq Paths /\ renamed' \in [Paths -> Marks]
    BY SMTT(30), <1>5, Values DEF Read, ForgetDelete, EchoTypes
  <2>3. QED BY <1>5, <2>1, <2>2
            DEF Read, CallFrame, NoteTypes, EchoTypes, EventTypes, ReaderTypes, counts, service
<1>6. CASE SendModify(i)
  <2>1. CallTypes'
    BY <1>6, WentOn, CallSet
  <2>2. calls[i].at = "send"
    BY <1>6 DEF SendModify, Atop
  <2>3. calls[i].path \in Paths /\ calls[i].got \in Versions
    BY <2>2, CallStands
  <2>4. Push(calls[i].path, calls[i].got)
    BY <1>6 DEF SendModify
  <2>5. inbox' \in Seq(Messages) /\ svc' \in [Paths -> Versions]
    BY <2>3, <2>4, Pushed
  <2>6. pending' \in [Paths -> Versions]
    BY <1>6, <2>3 DEF SendModify, NoteTypes
  <2>7. QED BY <1>6, <2>1, <2>5, <2>6
            DEF SendModify, NoteTypes, EchoTypes, EventTypes, ReaderTypes, echo, counts
<1>7. CASE DeleteSeen(i)
  <2>1. CallTypes'
    BY <1>7, WentOn, CallSet
  <2>2. QED BY <1>7, <2>1
            DEF DeleteSeen, NoteTypes, EchoTypes, EventTypes, ReaderTypes, books, echo, counts,
                service
<1>8. CASE DeleteMissing(i)
  <2>1. CallTypes'
    BY <1>8, WentOn, CallSet
  <2>2. write' \in [Paths -> Evidences]
    BY <1>8, Values DEF DeleteMissing, ClearWrite, EchoTypes
  <2>3. QED BY <1>8, <2>1, <2>2
            DEF DeleteMissing, NoteTypes, EchoTypes, EventTypes, ReaderTypes, books, counts,
                service
<1>9. CASE SendDelete(i)
  <2>1. CallTypes'
    BY <1>9, WentOn, CallSet
  <2>2. write' \in [Paths -> Evidences]
    BY <1>9, Values DEF SendDelete, ClearWrite, EchoTypes
  <2>3. inbox' \in Seq(Messages) /\ svc' \in [Paths -> Versions]
    <3>1. CASE Push(calls[i].path, None)
      BY <1>9, <3>1, Pushed, WentOn, Values
    <3>2. CASE UNCHANGED <<inbox, svc>>
      BY <3>2 DEF ReaderTypes, NoteTypes
    <3>3. QED BY <1>9, <3>1, <3>2 DEF SendDelete, Serves, service
  <2>4. QED BY <1>9, <2>1, <2>2, <2>3
            DEF SendDelete, NoteTypes, EchoTypes, EventTypes, ReaderTypes, books, counts
<1>10. CASE Renamed(i)
  <2>1. CallTypes'
    BY ZenonT(40), <1>10, RenameHeard, CallSet
  <2>2. EchoTypes'
    <3>1. UNCHANGED rechecks
      BY <1>10 DEF Renamed
    <3>2. PICK old \in Paths, new \in Paths : old = calls[i].old /\ new = calls[i].path
      BY <1>10, RenameHeard
    <3>3. \/ UNCHANGED echo
          \/ /\ write' = [write EXCEPT ![old] = NoEvidence, ![new] = NoEvidence]
             /\ renamed' = [renamed EXCEPT ![old] = <<>>, ![new] = <<>>]
             /\ deleted' = deleted \ {old, new} /\ UNCHANGED echoSeq
      BY <1>10, <3>2, RenameHeard
    <3>4. CASE UNCHANGED echo
      BY <3>1, <3>4 DEF EchoTypes, echo
    <3>5. CASE ~UNCHANGED echo
      <4>1. write' \in [Paths -> Evidences]
        BY <3>3, <3>5, Values DEF EchoTypes
      <4>2. renamed' \in [Paths -> Marks]
        BY SMTT(30), <3>3, <3>5, Values DEF EchoTypes
      <4>3. QED BY <3>1, <3>3, <3>5, <4>1, <4>2 DEF EchoTypes
    <3>6. QED BY <3>4, <3>5
  <2>3. svc' \in [Paths -> Versions]
    <3>1. calls[i].path \in Paths /\ calls[i].old \in Paths
      BY <1>10, RenameHeard
    <3>2. \/ UNCHANGED svc
          \/ svc' = [svc EXCEPT ![calls[i].old] = None, ![calls[i].path] = svc[calls[i].old]]
      BY <1>10, RenameHeard DEF echo
    <3>3. QED BY <3>1, <3>2, Values DEF NoteTypes
  <2>4. UNCHANGED <<disk, base, pending, edits, remote, events, inbox, reader>>
    BY <1>10 DEF Renamed, books, counts
  <2>5. QED BY <2>1, <2>2, <2>3, <2>4 DEF NoteTypes, EventTypes, ReaderTypes
<1>11. QED BY <1>1, <1>2, <1>3, <1>4, <1>5, <1>6, <1>7, <1>8, <1>9, <1>10 DEF Callback

\* The handler goes to another stage with the message it has, or returns.
LEMMA HandlerGoes ==
  ASSUME NEW r \in Handlers, NEW l \in {"verify", "finish"}, r.at \in {"write", "verify"}
  PROVE  [r EXCEPT !.at = l] \in Handlers
BY DEF Handlers, HandlerStages

\* A handler that takes a message is of its type.
LEMMA HandlerBegins ==
  ASSUME Types, NEW l \in {"write", "mtime", "remove", "move"}, NEW m \in Messages,
         NEW t \in Nat, NEW h \in Versions, Goto(l, m, t, h),
         l = "write" => m.type = "Modify", l = "move" => m.type = "Rename",
         l \in {"write", "move"} => h = m.content, l # "remove" => t # 0
  PROVE  reader' \in Handlers
<1>1. reader' = [at |-> l, msg |-> m, token |-> t, hash |-> h]
  BY DEF Goto
<1>2. QED BY <1>1 DEF Handlers, HandlerStages

\* The message a handler takes.
LEMMA Handled ==
  ASSUME Types, NEW t \in MessageTypes, Handle(t)
  PROVE  /\ reader = Asleep /\ inbox # <<>> /\ inbox' = Tail(inbox)
         /\ inbox' \in Seq(Messages)
         /\ Head(inbox) \in Messages /\ Head(inbox).type = t /\ Head(inbox).path \in Paths
         /\ Head(inbox).content \in Versions
         /\ t \in {"Modify", "Rename"} => Head(inbox).content # None
         /\ t = "Rename" => /\ <<Head(inbox).old, Head(inbox).path>> \in Renames
                            /\ Head(inbox).old \in Paths
                            /\ Head(inbox).old # Head(inbox).path
<1>1. /\ reader = Asleep /\ inbox # <<>> /\ inbox' = Tail(inbox) /\ Head(inbox).type = t
  BY DEF Handle
<1>2. inbox \in Seq(Messages)
  BY DEF Types, ReaderTypes
<1>3. inbox' \in Seq(Messages) /\ Head(inbox) \in Messages
  BY <1>1, <1>2
<1>4. PICK m \in Messages : m = Head(inbox)
  BY <1>3
<1>5. /\ m.path \in Paths /\ m.content \in Versions
      /\ m.type \in {"Modify", "Rename"} => m.content # None
      /\ m.type = "Rename" => <<m.old, m.path>> \in Renames
  BY DEF Messages
<1>6. m.type = "Rename" => m.old \in Paths /\ m.old # m.path
  BY <1>5, Values
<1>7. QED BY <1>1, <1>3, <1>4, <1>5, <1>6

\* Handlers keep the types.
LEMMA HandlerTypes ==
  ASSUME Types, ReadLoop
  PROVE  Types'
<1> USE DEF Types
<1>a. UNCHANGED <<calls, edits, remote, svc>>
  BY DEF ReadLoop, BeginModify, WriteNote, WriteFails, VerifyNote, FinishModify, BeginMtime,
         FinishMtime, CheckDelete, RemoveNote, BeginRename, MoveNote, HandleAck, HandlerFrame,
         counts, service
<1>b. CallTypes'
  BY <1>a DEF CallTypes
<1>c. ReaderTypes' => reader' = Asleep \/ reader' \in Handlers
  BY DEF ReaderTypes
<1>1. CASE BeginModify
  <2> DEFINE m == Head(inbox)
  <2>1. /\ m \in Messages /\ m.type = "Modify" /\ m.path \in Paths /\ m.content \in Versions
        /\ inbox' \in Seq(Messages)
    BY <1>1, Handled DEF BeginModify, MessageTypes
  <2>2. BeginRemoteWrite(m.path, m.content)
    BY <1>1 DEF BeginModify
  <2>3. /\ write' \in [Paths -> Evidences] /\ deleted' \subseteq Paths
        /\ renamed' \in [Paths -> Marks] /\ echoSeq' \in Nat /\ echoSeq' = echoSeq + 1
    BY <2>1, <2>2, Began
  <2>4. echoSeq' # 0
    BY <2>3 DEF EchoTypes
  <2>5. reader' \in Handlers
    BY <1>1, <2>1, <2>3, <2>4, HandlerBegins DEF BeginModify
  <2>6. QED BY <1>1, <1>a, <1>b, <2>1, <2>3, <2>5
            DEF BeginModify, NoteTypes, EchoTypes, EventTypes, ReaderTypes, books
<1>2. CASE WriteNote
  <2>1. reader \in Handlers /\ P \in Paths /\ reader.hash \in Versions /\ reader.at = "write"
    BY <1>2, ReaderAt DEF WriteNote, At
  <2>2. reader' \in Handlers
    BY <1>2, <2>1, HandlerGoes DEF WriteNote
  <2>3. disk' \in [Paths -> Versions]
    BY <1>2, <2>1 DEF WriteNote, NoteTypes
  <2>4. EventTypes'
    BY <1>2, <2>1 DEF WriteNote, EventTypes
  <2>5. QED BY <1>2, <1>a, <1>b, <2>2, <2>3, <2>4
            DEF WriteNote, NoteTypes, EchoTypes, ReaderTypes, books, echo
<1>3. CASE WriteFails
  <2>1. P \in Paths /\ reader.token \in Nat
    BY <1>3, ReaderAt DEF WriteFails, At
  <2>2. write' \in [Paths -> Evidences] /\ rechecks' \in [Paths -> Nat]
    BY <1>3, <2>1, Aborted, ReplacedOne, Values DEF WriteFails, EchoTypes
  <2>3. QED BY <1>3, <1>a, <1>b, <2>2
            DEF WriteFails, Return, NoteTypes, EchoTypes, EventTypes, ReaderTypes, books
<1>4. CASE VerifyNote
  <2>1. /\ reader \in Handlers /\ P \in Paths /\ reader.hash \in Versions
        /\ reader.at = "verify" /\ reader.token \in Nat
    BY <1>4, ReaderAt DEF VerifyNote, At
  <2>2. CASE disk[P] = reader.hash
    <3>1. reader' \in Handlers
      BY <1>4, <2>1, <2>2, HandlerGoes DEF VerifyNote
    <3>2. QED BY <1>4, <1>a, <1>b, <2>2, <3>1
              DEF VerifyNote, NoteTypes, EchoTypes, EventTypes, ReaderTypes
  <2>3. CASE disk[P] # reader.hash
    <3>1. write' \in [Paths -> Evidences] /\ rechecks' \in [Paths -> Nat]
      BY <1>4, <2>1, <2>3, Aborted, ReplacedOne, Values DEF VerifyNote, EchoTypes
    <3>2. base' \in [Paths -> Versions] /\ reader' = Asleep
      BY <1>4, <2>1, <2>3 DEF VerifyNote, Return, NoteTypes
    <3>3. QED BY <1>4, <1>a, <1>b, <2>3, <3>1, <3>2
              DEF VerifyNote, NoteTypes, EchoTypes, EventTypes, ReaderTypes
  <2>4. QED BY <2>2, <2>3
<1>5. CASE FinishModify
  <2>1. /\ reader \in Handlers /\ P \in Paths /\ reader.hash \in Versions
        /\ reader.at = "finish" /\ reader.token \in Nat /\ reader.token # 0
    BY <1>5, ReaderAt DEF FinishModify, At, Handlers
  <2>2. base' \in [Paths -> Versions] /\ pending' \in [Paths -> Versions]
    BY <1>5, <2>1, Values DEF FinishModify, NoteTypes, books
  <2>3. AbortRemoteWrite(P, reader.token) \/ FinishRemoteWrite(P, reader.token, reader.hash)
    BY <1>5 DEF FinishModify
  <2>4. write' \in [Paths -> Evidences] /\ rechecks' \in [Paths -> Nat]
    BY <2>1, <2>3, Aborted, Finished, ReplacedOne, Values DEF EchoTypes
  <2>5. QED BY <1>5, <1>a, <1>b, <2>2, <2>4
            DEF FinishModify, Return, NoteTypes, EchoTypes, EventTypes, ReaderTypes
<1>6. CASE BeginMtime
  <2> DEFINE m == Head(inbox)
             h == IF pending[m.path] # None THEN pending[m.path] ELSE base[m.path]
             n == [m EXCEPT !.content = pending[m.path]]
  <2>1. /\ m \in Messages /\ m.type = "Mtime" /\ m.path \in Paths /\ inbox' \in Seq(Messages)
    BY <1>6, Handled DEF BeginMtime, MessageTypes
  <2>2. h \in Versions /\ base[m.path] \in Versions /\ pending[m.path] \in Versions
    BY <2>1 DEF NoteTypes
  <2>3. n \in Messages
    BY <2>1, <2>2 DEF Messages
  <2>4. BeginRemoteWrite(m.path, h)
    BY <1>6 DEF BeginMtime
  <2>5. /\ write' \in [Paths -> Evidences] /\ deleted' \subseteq Paths
        /\ renamed' \in [Paths -> Marks] /\ echoSeq' \in Nat /\ echoSeq' = echoSeq + 1
    BY <2>1, <2>2, <2>4, Began
  <2>6. echoSeq' # 0
    BY <2>5 DEF EchoTypes
  <2>7. Goto("mtime", n, echoSeq', base[m.path])
    BY <1>6 DEF BeginMtime
  <2>8. reader' \in Handlers
    BY <2>2, <2>3, <2>5, <2>6, <2>7, HandlerBegins
  <2>9. QED BY <1>6, <1>a, <1>b, <2>1, <2>5, <2>8
            DEF BeginMtime, NoteTypes, EchoTypes, EventTypes, ReaderTypes, books
<1>7. CASE FinishMtime
  <2>1. /\ reader \in Handlers /\ P \in Paths /\ reader.hash \in Versions
        /\ reader.at = "mtime" /\ reader.token \in Nat /\ reader.token # 0
        /\ reader.msg.content \in Versions
    BY <1>7, ReaderAt DEF FinishMtime, At, Handlers, Messages
  <2>2. base' \in [Paths -> Versions] /\ pending' \in [Paths -> Versions]
    BY <1>7, <2>1, Values DEF FinishMtime, NoteTypes, books
  <2>3. \E h \in Versions : FinishRemoteWrite(P, reader.token, h)
    BY <1>7, <2>1 DEF FinishMtime
  <2>4. write' \in [Paths -> Evidences] /\ rechecks' \in [Paths -> Nat]
    BY <2>1, <2>3, Finished, ReplacedOne DEF EchoTypes
  <2>5. QED BY <1>7, <1>a, <1>b, <2>2, <2>4
            DEF FinishMtime, Return, NoteTypes, EchoTypes, EventTypes, ReaderTypes
<1>8. CASE CheckDelete
  <2> DEFINE m == Head(inbox)
  <2>1. /\ m \in Messages /\ m.type = "Delete" /\ m.path \in Paths /\ inbox' \in Seq(Messages)
        /\ reader = Asleep
    BY <1>8, Handled DEF CheckDelete, MessageTypes
  <2>2. pending' \in [Paths -> Versions] /\ disk[m.path] \in Versions
    BY <1>8, <2>1 DEF CheckDelete, NoteTypes
  <2>3. reader' = reader \/ Goto("remove", m, 0, disk[m.path])
    BY <1>8 DEF CheckDelete
  <2>4. reader' \in Handlers \cup {Asleep}
    BY <2>1, <2>2, <2>3, HandlerBegins
  <2>5. QED BY <1>8, <1>a, <1>b, <2>1, <2>2, <2>4
            DEF CheckDelete, NoteTypes, EchoTypes, EventTypes, ReaderTypes, echo
<1>9. CASE RemoveNote
  <2>1. P \in Paths
    BY <1>9, ReaderAt DEF RemoveNote, At
  <2>2. /\ disk' \in [Paths -> Versions] /\ base' \in [Paths -> Versions]
        /\ pending' \in [Paths -> Versions]
    BY <1>9, <2>1, Values DEF RemoveNote, NoteTypes
  <2>3. write' \in [Paths -> Evidences] /\ deleted' \subseteq Paths
    BY <1>9, <2>1, Values DEF RemoveNote, EchoTypes
  <2>4. EventTypes'
    BY <1>9, <2>1 DEF RemoveNote, EventTypes
  <2>5. QED BY <1>9, <1>a, <1>b, <2>2, <2>3, <2>4
            DEF RemoveNote, Return, NoteTypes, EchoTypes, ReaderTypes
<1>10. CASE BeginRename
  <2> DEFINE m == Head(inbox)
  <2>1. /\ m \in Messages /\ m.type = "Rename" /\ m.path \in Paths /\ m.content \in Versions
        /\ inbox' \in Seq(Messages) /\ m.old \in Paths
    BY <1>10, Handled DEF BeginRename, MessageTypes
  <2>2. CASE disk[m.old] # None
    <3>1. BeginRemoteWrite(m.path, m.content)
      BY <1>10, <2>2 DEF BeginRename
    <3>2. /\ write' \in [Paths -> Evidences] /\ deleted' \subseteq Paths
          /\ renamed' \in [Paths -> Marks] /\ echoSeq' \in Nat /\ echoSeq' = echoSeq + 1
      BY <2>1, <3>1, Began
    <3>3. echoSeq' # 0
      BY <3>2 DEF EchoTypes
    <3>4. reader' \in Handlers
      BY <1>10, <2>1, <2>2, <3>2, <3>3, HandlerBegins DEF BeginRename
    <3>5. QED BY <1>10, <1>a, <1>b, <2>1, <2>2, <3>2, <3>4
              DEF BeginRename, NoteTypes, EchoTypes, EventTypes, ReaderTypes
  <2>3. CASE disk[m.old] = None
    <3>1. base' \in [Paths -> Versions] /\ UNCHANGED <<echo, reader>>
      BY <1>10, <2>1, <2>3, Values DEF BeginRename, NoteTypes
    <3>2. QED BY <1>10, <1>a, <1>b, <2>1, <3>1
              DEF BeginRename, NoteTypes, EchoTypes, EventTypes, ReaderTypes, echo
  <2>4. QED BY <2>2, <2>3
<1>11. CASE MoveNote
  <2> DEFINE old == reader.msg.old
  <2>1. /\ P \in Paths /\ reader.hash \in Versions /\ reader.token \in Nat /\ old \in Paths
        /\ reader.token # 0 /\ <<old, P>> \in Renames
    BY <1>11, ReaderAt DEF MoveNote, At, Handlers
  <2>2. CASE disk[old] = None
    <3>1. write' \in [Paths -> Evidences] /\ rechecks' \in [Paths -> Nat]
      BY <1>11, <2>1, <2>2, Aborted, ReplacedOne, Values DEF MoveNote, EchoTypes
    <3>2. QED BY <1>11, <1>a, <1>b, <2>2, <3>1
              DEF MoveNote, Return, NoteTypes, EchoTypes, EventTypes, ReaderTypes
  <2>3. CASE disk[old] # None
    <3>1. disk' \in [Paths -> Versions] /\ base' \in [Paths -> Versions]
      BY <1>11, <2>1, <2>3, Values DEF MoveNote, NoteTypes
    <3>2. renamed' \in [Paths -> Marks]
      BY ZenonT(40), <1>11, <2>1, <2>3, Values DEF MoveNote, EchoTypes
    <3>3. EventTypes'
      BY <1>11, <2>1, <2>3 DEF MoveNote, EventTypes
    <3>4. write' \in [Paths -> Evidences]
      <4>1. Landed(reader.token, reader.hash) \in Evidences /\ NoEvidence \in Evidences
        BY <2>1, Values DEF Landed, Evidences, Meta
      <4>2. \E e \in Evidences : write' = [write EXCEPT ![old] = NoEvidence, ![P] = e]
        BY <1>11, <2>1, <2>3, <4>1, Values DEF MoveNote, EchoTypes
      <4>3. QED BY <4>1, <4>2 DEF EchoTypes
    <3>5. rechecks' \in [Paths -> Nat]
      BY <1>11, <2>1, <2>3 DEF MoveNote, Recheck, EchoTypes
    <3>6. QED BY <1>11, <1>a, <1>b, <2>3, <3>1, <3>2, <3>3, <3>4, <3>5
              DEF MoveNote, Return, NoteTypes, EchoTypes, ReaderTypes
  <2>4. QED BY <2>2, <2>3
<1>12. CASE HandleAck
  <2>1. Head(inbox).path \in Paths /\ inbox' \in Seq(Messages)
    BY <1>12, Handled DEF HandleAck, MessageTypes
  <2>2. base' \in [Paths -> Versions] /\ pending' \in [Paths -> Versions]
    BY <1>12, <2>1, Values DEF HandleAck, NoteTypes, books
  <2>3. QED BY <1>12, <1>a, <1>b, <2>1, <2>2
            DEF HandleAck, NoteTypes, EchoTypes, EventTypes, ReaderTypes, echo
<1>13. QED BY <1>1, <1>2, <1>3, <1>4, <1>5, <1>6, <1>7, <1>8, <1>9, <1>10, <1>11, <1>12
           DEF ReadLoop

\* The content of o after message m, and what the service took it for when it sent m.
Apply(m, o, v) ==
  IF m.type \in {"Modify", "Rename"} /\ m.path = o THEN m.content
  ELSE IF (m.type = "Delete" /\ m.path = o) \/ (m.type = "Rename" /\ m.old = o) THEN None
  ELSE v
Presumes(m, o, v) ==
  m.type = "Rename" => /\ m.path = o => v = None
                       /\ m.old = o => v = m.content

\* What the service asks for takes each note from what it has to what it has then.
LEMMA Asked ==
  ASSUME Types, Service
  PROVE  \E m \in Messages, new \in [Paths -> Versions] :
           /\ Ask(m, new) /\ m.type # "Ack"
           /\ \A o \in Paths : Presumes(m, o, svc[o]) /\ new[o] = Apply(m, o, svc[o])
<1>a. svc \in [Paths -> Versions] /\ None \in Versions
  BY Values DEF Types, NoteTypes
<1>1. CASE \E p \in Paths : ServiceModifies(p)
  <2>1. PICK p \in Paths, c \in Contents :
          Ask(Message("Modify", p, None, c), [svc EXCEPT ![p] = c])
    BY <1>1 DEF ServiceModifies
  <2>2. c \in Versions /\ c # None
    BY Values
  <2>3. PICK m : m = Message("Modify", p, None, c)
    OBVIOUS
  <2>4. m \in Messages /\ m.type = "Modify" /\ m.path = p /\ m.content = c
    BY <2>2, <2>3, MessageMade DEF Message
  <2>5. PICK new \in [Paths -> Versions] : new = [svc EXCEPT ![p] = c]
    BY <1>a, <2>2
  <2>6. ASSUME NEW o \in Paths PROVE Presumes(m, o, svc[o]) /\ new[o] = Apply(m, o, svc[o])
    BY <1>a, <2>4, <2>5 DEF Presumes, Apply
  <2>7. QED BY <2>1, <2>3, <2>4, <2>5, <2>6
<1>2. CASE \E p \in Paths : ServiceTouches(p)
  <2>1. PICK p \in Paths : Ask(Message("Mtime", p, None, svc[p]), svc)
    BY <1>2 DEF ServiceTouches
  <2>2. PICK m : m = Message("Mtime", p, None, svc[p])
    OBVIOUS
  <2>3. m \in Messages /\ m.type = "Mtime"
    BY <1>a, <2>2, MessageMade DEF Message
  <2>4. ASSUME NEW o \in Paths PROVE Presumes(m, o, svc[o]) /\ svc[o] = Apply(m, o, svc[o])
    BY <2>3 DEF Presumes, Apply
  <2>5. QED BY <1>a, <2>1, <2>2, <2>3, <2>4
<1>3. CASE \E p \in Paths : ServiceDeletes(p)
  <2>1. PICK p \in Paths : Ask(Message("Delete", p, None, svc[p]), [svc EXCEPT ![p] = None])
    BY <1>3 DEF ServiceDeletes
  <2>2. PICK m : m = Message("Delete", p, None, svc[p])
    OBVIOUS
  <2>3. m \in Messages /\ m.type = "Delete" /\ m.path = p
    BY <1>a, <2>2, MessageMade DEF Message
  <2>4. PICK new \in [Paths -> Versions] : new = [svc EXCEPT ![p] = None]
    BY <1>a
  <2>5. ASSUME NEW o \in Paths PROVE Presumes(m, o, svc[o]) /\ new[o] = Apply(m, o, svc[o])
    BY <1>a, <2>3, <2>4 DEF Presumes, Apply
  <2>6. QED BY <2>1, <2>2, <2>3, <2>4, <2>5
<1>4. CASE \E r \in Renames : ServiceRenames(r)
  <2>1. PICK r \in Renames :
          /\ svc[r[1]] # None /\ svc[r[2]] = None
          /\ Ask(Message("Rename", r[2], r[1], svc[r[1]]),
                 [svc EXCEPT ![r[1]] = None, ![r[2]] = svc[r[1]]])
    BY <1>4 DEF ServiceRenames
  <2>2. r[1] \in Paths /\ r[2] \in Paths /\ <<r[1], r[2]>> \in Renames /\ r[1] # r[2]
    BY Values
  <2>3. PICK c \in Versions : c = svc[r[1]]
    BY <1>a, <2>2
  <2>4. PICK m : m = Message("Rename", r[2], r[1], c)
    OBVIOUS
  <2>5. m \in Messages /\ m.type = "Rename" /\ m.path = r[2] /\ m.old = r[1] /\ m.content = c
    BY <2>1, <2>2, <2>3, <2>4, MessageMade DEF Message
  <2>6. PICK new \in [Paths -> Versions] : new = [svc EXCEPT ![r[1]] = None, ![r[2]] = c]
    BY <1>a, <2>2
  <2>7. ASSUME NEW o \in Paths PROVE Presumes(m, o, svc[o]) /\ new[o] = Apply(m, o, svc[o])
    BY <1>a, <2>1, <2>2, <2>3, <2>5, <2>6 DEF Presumes, Apply
  <2>8. QED BY <2>1, <2>3, <2>4, <2>5, <2>6, <2>7
<1>5. QED BY <1>1, <1>2, <1>3, <1>4 DEF Service

\* The types hold after every step.
LEMMA TypesKept ==
  ASSUME Types, [Next]_vars
  PROVE  Types'
<1> USE DEF Types
<1>1. CASE ReadLoop
  BY <1>1, HandlerTypes
<1>2. CASE \E i \in Calls : Callback(i)
  BY <1>2, CallbackTypes
<1>3. CASE User
  <2>1. PICK p \in Paths, c \in Versions : Touch(p, c)
    BY <1>3 DEF User, Edit, UserDelete, Versions
  <2>2. disk' \in [Paths -> Versions] /\ edits' \in Nat
    BY <2>1 DEF Touch, NoteTypes
  <2>3. EventTypes'
    BY <2>1 DEF Touch, EventTypes
  <2>4. QED BY <2>1, <2>2, <2>3
            DEF Touch, NoteTypes, EchoTypes, CallTypes, ReaderTypes, books, echo, service
<1>4. CASE Service
  <2>1. PICK m \in Messages, new \in [Paths -> Versions] : Ask(m, new)
    BY <1>4, Asked
  <2>2. svc' \in [Paths -> Versions] /\ inbox' \in Seq(Messages)
    BY <2>1 DEF Ask, ReaderTypes, Serves, service
  <2>3. QED BY <2>1, <2>2
            DEF Ask, NoteTypes, EchoTypes, EventTypes, CallTypes, ReaderTypes, books, echo
<1>5. CASE \E p \in Paths : EvidenceExpires(p)
  <2>1. PICK p \in Paths : EvidenceExpires(p)
    BY <1>5
  <2>2. write' \in [Paths -> Evidences]
    BY <2>1, Values DEF EvidenceExpires, EchoTypes
  <2>3. deleted' \subseteq Paths /\ renamed' \in [Paths -> Marks]
    BY <2>1, Values DEF EvidenceExpires, EchoTypes
  <2>4. QED BY <2>1, <2>2, <2>3 DEF EvidenceExpires, NoteTypes, EchoTypes, EventTypes,
                                    CallTypes, ReaderTypes, books, counts, service
<1>6. CASE UNCHANGED vars
  BY <1>6 DEF vars, echo, books, counts, NoteTypes, EchoTypes, EventTypes, CallTypes, ReaderTypes,
              service
<1>7. QED BY <1>1, <1>2, <1>3, <1>4, <1>5, <1>6 DEF Next, Daemon

\* The types hold at first.
LEMMA InitTypes == Init => Types
<1>1. SUFFICES ASSUME Init PROVE Types
  OBVIOUS
<1>2. PICK there \in SUBSET Paths, c \in Contents :
        /\ disk = [p \in Paths |-> IF p \in there THEN c ELSE None]
        /\ base = disk /\ svc = disk
  BY <1>1 DEF Init
<1>3. NoteTypes
  BY <1>1, <1>2, Values DEF Init, NoteTypes
<1>4. EchoTypes
  BY <1>1, Values DEF Init, EchoTypes
<1>5. EventTypes /\ CallTypes /\ ReaderTypes
  BY <1>1 DEF Init, EventTypes, CallTypes, ReaderTypes
<1>6. QED BY <1>3, <1>4, <1>5 DEF Types

-----------------------------------------------------------------------------
(* Tokens.  A callback decides with the evidence it looked at only if that   *)
(* is still the note's: a token stands for one hash while its write is in    *)
(* flight and for one when it is over, and never comes back.                 *)

\* A callback that looked at m while the evidence is e, and n tokens were given.
Agrees(m, e, n) ==
  /\ m.token <= n
  /\ m.token = e.token =>
       /\ e.inFlight => m.inFlight
       /\ (e.inFlight /\ m.inFlight) \/ (~e.inFlight /\ ~m.inFlight) =>
            m.hash = e.hash /\ m.prev = e.prev

\* Evidence e is kept, taken back, settled by its own write, or replaced, when the
\* counter of tokens goes from seq to t.
Kept(e, n) == /\ n.token = e.token /\ n.hash = e.hash /\ n.prev = e.prev
              /\ n.inFlight <=> e.inFlight
Later(e, n, seq, t) == \/ Kept(e, n)
                       \/ n.token = 0
                       \/ n.token = e.token /\ e.inFlight /\ ~n.inFlight
                       \/ n.token = seq + 1 /\ t = seq + 1

Tokens ==
  /\ reader.token <= echoSeq
  /\ \A p \in Paths : write[p].token <= echoSeq
  /\ reader.token # 0 /\ write[P].token = reader.token => write[P].inFlight
  /\ \A i \in Calls : calls[i].at = "decide" =>
       Agrees(calls[i].meta, write[calls[i].path], echoSeq)

\* What a callback looked at agrees with later evidence as well.
LEMMA AgreesStill ==
  ASSUME NEW seq \in Nat, NEW m \in Meta, NEW e \in Meta, NEW n \in Meta, m.token # 0,
         Agrees(m, e, seq), NEW t \in {seq, seq + 1}, Later(e, n, seq, t)
  PROVE  Agrees(m, n, t)
<1>1. m.token \in Nat /\ e.token \in Nat /\ n.token \in Nat
  BY DEF Meta
<1>2. m.token <= t /\ m.token <= seq
  BY <1>1 DEF Agrees
<1>3. CASE n.token = 0 \/ n.token = seq + 1
  <2>1. m.token # n.token
    BY <1>1, <1>2, <1>3
  <2>2. QED BY <1>2, <2>1 DEF Agrees
<1>4. CASE Kept(e, n)
  BY <1>2, <1>4 DEF Agrees, Kept
<1>5. CASE n.token = e.token /\ e.inFlight /\ ~n.inFlight
  <2>1. m.token = n.token => m.inFlight
    BY <1>5 DEF Agrees
  <2>2. QED BY <1>2, <1>5, <2>1 DEF Agrees
<1>6. QED BY <1>3, <1>4, <1>5 DEF Later

\* Evidence agrees with itself.
LEMMA AgreesAtFirst ==
  ASSUME NEW seq \in Nat, NEW e \in Meta, e.token <= seq
  PROVE  Agrees(e, e, seq)
BY DEF Agrees

\* A callback leaves evidence as it is, asks that it is looked at again, or takes it
\* back.
LEMMA CallbackEvidence ==
  ASSUME Types, NEW i \in Calls, Callback(i), NEW p \in Paths
  PROVE  /\ Kept(write[p], write'[p]) \/ write'[p] = NoEvidence
         /\ echoSeq' = echoSeq
<1>a. EchoTypes /\ Kept(write[p], write[p])
  BY DEF Types, Kept
<1>1. echoSeq' = echoSeq
  BY DEF Callback, Report, BeginRecheck, Look, Decide, Read, SendModify, DeleteSeen,
         DeleteMissing, SendDelete, Renamed, CallFrame, echo
<1>2. CASE Report(i) \/ BeginRecheck(i) \/ Look(i) \/ Read(i) \/ SendModify(i) \/ DeleteSeen(i)
  <2>1. write' = write
    BY <1>2 DEF Report, BeginRecheck, Look, Read, SendModify, DeleteSeen, echo
  <2>2. QED BY <1>a, <1>1, <2>1
<1>3. CASE Decide(i)
  <2> DEFINE q == calls[i].path
  <2>1. q \in Paths /\ \/ UNCHANGED <<write, rechecks>>
                       \/ write' = [write EXCEPT ![q].recheck = TRUE]
                       \/ Replaced(q, NoEvidence)
    BY <1>3, Decided
  <2>2. CASE write' = [write EXCEPT ![q].recheck = TRUE]
    <3>1. PICK e \in Evidences : e = write[q]
      BY <1>a, <2>1 DEF EchoTypes
    <3>2. PICK n : n = [e EXCEPT !.recheck = TRUE]
      OBVIOUS
    <3>3. Kept(e, n)
      BY <3>2 DEF Kept, Evidences, Meta
    <3>4. write' = [write EXCEPT ![q] = n]
      BY <2>2, <3>1, <3>2
    <3>5. write'[p] = IF p = q THEN n ELSE write[p]
      BY <1>a, <2>1, <3>4 DEF EchoTypes
    <3>6. QED BY <1>a, <1>1, <3>1, <3>3, <3>5
  <2>3. CASE Replaced(q, NoEvidence)
    <3>1. write'[p] = write[p] \/ write'[p] = NoEvidence
      BY <1>a, <2>1, <2>3, ReplacedOne, Values
    <3>2. QED BY <1>a, <1>1, <3>1
  <2>4. QED BY <1>a, <1>1, <2>1, <2>2, <2>3
<1>4. CASE DeleteMissing(i) \/ SendDelete(i)
  <2>1. calls[i].path \in Paths
    BY <1>4, WentOn
  <2>2. write' = write \/ write' = [write EXCEPT ![calls[i].path] = NoEvidence]
    BY <1>4 DEF DeleteMissing, SendDelete, ClearWrite
  <2>3. write'[p] = write[p] \/ write'[p] = NoEvidence
    BY <1>a, <2>1, <2>2 DEF EchoTypes
  <2>4. QED BY <1>a, <1>1, <2>3
<1>5. CASE Renamed(i)
  <2> DEFINE new == calls[i].path
             old == calls[i].old
  <2>1. /\ new \in Paths /\ old \in Paths
        /\ \/ write' = write
           \/ write' = [write EXCEPT ![old] = NoEvidence, ![new] = NoEvidence]
    BY <1>5, RenameHeard DEF echo
  <2>2. write'[p] = write[p] \/ write'[p] = NoEvidence
    BY <1>a, <2>1 DEF EchoTypes
  <2>3. QED BY <1>a, <1>1, <2>2
<1>6. QED BY <1>2, <1>3, <1>4, <1>5 DEF Callback

\* Every step leaves each note's evidence as it is, or a later one.
LEMMA EvidenceStep ==
  ASSUME Types, Tokens, [Next]_vars, NEW p \in Paths
  PROVE  Later(write[p], write'[p], echoSeq, echoSeq')
<1>a. write[p] \in Meta /\ EchoTypes
  BY DEF Types, EchoTypes, Evidences
<1>b. ASSUME write' = write PROVE Later(write[p], write'[p], echoSeq, echoSeq')
  BY <1>b DEF Later, Kept
<1>c. ASSUME NEW q \in Paths, Replaced(q, NoEvidence)
      PROVE  Later(write[p], write'[p], echoSeq, echoSeq')
  <2>1. write'[p] = write[p] \/ write'[p] = NoEvidence
    BY <1>a, <1>c, ReplacedOne, Values
  <2>2. QED BY <2>1, Values DEF Later, Kept
<1>d. ASSUME NEW S \in SUBSET Paths,
             write'[p] = IF p \in S THEN NoEvidence ELSE write[p]
      PROVE  Later(write[p], write'[p], echoSeq, echoSeq')
  BY <1>d, Values DEF Later, Kept
<1>e. ASSUME NEW q \in Paths, NEW h \in Versions, BeginRemoteWrite(q, h)
      PROVE  Later(write[p], write'[p], echoSeq, echoSeq') /\ echoSeq' = echoSeq + 1
  <2>1. /\ write'[q].token = echoSeq + 1
        /\ p # q => write'[p] = write[p]
        /\ echoSeq' = echoSeq + 1
    BY <1>a, <1>e, Began
  <2>2. CASE p = q
    BY <2>1, <2>2 DEF Later
  <2>3. CASE p # q
    <3>1. write'[p] = write[p]
      BY <2>1, <2>3
    <3>2. Kept(write[p], write[p])
      BY DEF Kept
    <3>3. QED BY <2>1, <3>1, <3>2 DEF Later
  <2>4. QED BY <2>2, <2>3
<1>f. ASSUME NEW h \in Versions, reader.token \in Nat \ {0}, P \in Paths,
             FinishRemoteWrite(P, reader.token, h)
      PROVE  Later(write[p], write'[p], echoSeq, echoSeq')
  <2>1. CASE UNCHANGED <<write, rechecks>>
    BY <1>b, <2>1
  <2>2. CASE write[P].token = reader.token /\ \E e \in Evidences :
               Replaced(P, e) /\ e.token = reader.token /\ ~e.inFlight
    <3>1. PICK e \in Evidences : Replaced(P, e) /\ e.token = reader.token /\ ~e.inFlight
      BY <2>2
    <3>2. write[P].inFlight
      BY <1>f, <2>2 DEF Tokens
    <3>3. write'[P] = e /\ (p # P => write'[p] = write[p])
      BY <1>a, <1>f, <3>1, ReplacedOne
    <3>4. QED BY <2>2, <3>1, <3>2, <3>3 DEF Later, Kept
  <2>3. QED BY <1>a, <1>f, <2>1, <2>2, Finished
<1>g. ASSUME P \in Paths, reader.token \in Nat, AbortRemoteWrite(P, reader.token)
      PROVE  Later(write[p], write'[p], echoSeq, echoSeq')
  BY <1>a, <1>b, <1>c, <1>g, Aborted
<1>1. CASE ReadLoop
  <2>a. reader.at # "idle" => /\ P \in Paths /\ reader.token \in Nat
                              /\ reader.at # "remove" => reader.token # 0
                              /\ reader.hash \in Versions /\ reader.msg.content \in Versions
    BY ReaderAt DEF Types, Handlers, Messages
  <2>1. CASE BeginModify
    <3>1. BeginRemoteWrite(Head(inbox).path, Head(inbox).content) /\ Handle("Modify")
      BY <2>1 DEF BeginModify
    <3>2. QED BY <1>e, <3>1, Handled DEF MessageTypes
  <2>2. CASE WriteNote \/ CheckDelete \/ HandleAck
    BY <1>b, <2>2 DEF WriteNote, CheckDelete, HandleAck, echo
  <2>3. CASE WriteFails
    BY <1>g, <2>a, <2>3 DEF WriteFails, At
  <2>4. CASE VerifyNote
    <3>1. write' = write \/ AbortRemoteWrite(P, reader.token)
      BY <2>4 DEF VerifyNote
    <3>2. QED BY <1>b, <1>g, <2>a, <2>4, <3>1 DEF VerifyNote, At
  <2>5. CASE FinishModify
    <3>1. \/ AbortRemoteWrite(P, reader.token)
          \/ FinishRemoteWrite(P, reader.token, reader.hash)
      BY <2>5 DEF FinishModify
    <3>2. reader.at = "finish" /\ echoSeq' = echoSeq
      BY <2>5 DEF FinishModify, At
    <3>3. QED BY <1>f, <1>g, <2>a, <3>1, <3>2
  <2>6. CASE BeginMtime
    <3>1. PICK h : /\ Handle("Mtime") /\ BeginRemoteWrite(Head(inbox).path, h)
                   /\ h \in {pending[Head(inbox).path], base[Head(inbox).path]}
      BY <2>6 DEF BeginMtime
    <3>2. Head(inbox).path \in Paths
      BY <3>1, Handled DEF MessageTypes
    <3>3. h \in Versions
      BY <3>1, <3>2 DEF Types, NoteTypes
    <3>4. QED BY <1>e, <3>1, <3>2, <3>3
  <2>7. CASE FinishMtime
    <3>1. reader.at = "mtime" /\ echoSeq' = echoSeq
      BY <2>7 DEF FinishMtime, At
    <3>2. PICK h \in Versions : FinishRemoteWrite(P, reader.token, h)
      BY <2>7, <2>a, <3>1 DEF FinishMtime
    <3>3. QED BY <1>f, <2>a, <3>1, <3>2
  <2>8. CASE RemoveNote
    <3>1. /\ write' = [write EXCEPT ![P] = NoEvidence] /\ echoSeq' = echoSeq
          /\ reader.at = "remove"
      BY <2>8 DEF RemoveNote, At
    <3>2. {P} \in SUBSET Paths /\ write'[p] = IF p \in {P} THEN NoEvidence ELSE write[p]
      BY <1>a, <2>a, <3>1 DEF EchoTypes
    <3>3. QED BY <1>d, <3>1, <3>2
  <2>9. CASE BeginRename
    <3>1. Handle("Rename")
      BY <2>9 DEF BeginRename
    <3>2. CASE UNCHANGED echo
      BY <1>b, <3>2 DEF echo
    <3>3. CASE BeginRemoteWrite(Head(inbox).path, Head(inbox).content)
      BY <1>e, <3>1, <3>3, Handled DEF MessageTypes
    <3>4. QED BY <2>9, <3>2, <3>3 DEF BeginRename
  <2>10. CASE MoveNote
    <3> DEFINE old == reader.msg.old
    <3>1. reader.at = "move" /\ echoSeq' = echoSeq
      BY <2>10 DEF MoveNote, At
    <3>2. old \in Paths /\ P # old
      BY <3>1, ReaderAt DEF Types
    <3>3. CASE AbortRemoteWrite(P, reader.token)
      BY <1>g, <2>a, <3>1, <3>3
    <3>4. CASE write' = [write EXCEPT ![old] = NoEvidence,
                  ![P] = IF write[P].token = reader.token
                           THEN Landed(reader.token, reader.hash) ELSE @]
      <4>1. CASE p = P /\ write[P].token = reader.token
        <5>1. write'[p] = Landed(reader.token, reader.hash)
          BY <1>a, <2>a, <3>1, <3>2, <3>4, <4>1 DEF EchoTypes
        <5>2. write[P].inFlight
          BY <2>a, <3>1, <4>1 DEF Tokens
        <5>3. QED BY <3>1, <4>1, <5>1, <5>2 DEF Later, Landed
      <4>2. CASE ~(p = P /\ write[P].token = reader.token)
        <5>1. {old} \in SUBSET Paths /\ write'[p] = IF p \in {old} THEN NoEvidence ELSE write[p]
          BY <1>a, <2>a, <3>1, <3>2, <3>4, <4>2 DEF EchoTypes
        <5>2. QED BY <1>d, <3>1, <5>1
      <4>3. QED BY <4>1, <4>2
    <3>5. QED BY <2>10, <3>3, <3>4 DEF MoveNote
  <2>11. QED BY <1>1, <2>1, <2>2, <2>3, <2>4, <2>5, <2>6, <2>7, <2>8, <2>9, <2>10
             DEF ReadLoop, WriteNote, CheckDelete, HandleAck, echo, WriteFails, VerifyNote
<1>2. CASE \E i \in Calls : Callback(i)
  BY <1>2, CallbackEvidence, Values DEF Later
<1>3. CASE User \/ Service \/ UNCHANGED vars
  <2>1. UNCHANGED echo
    BY <1>3 DEF User, Edit, UserDelete, Touch, Service, ServiceModifies, ServiceTouches,
                ServiceDeletes, ServiceRenames, Ask, vars
  <2>2. QED BY <1>b, <2>1 DEF echo
<1>4. CASE \E q \in Paths : EvidenceExpires(q)
  <2>1. PICK q \in Paths : EvidenceExpires(q)
    BY <1>4
  <2>2. write'[p] = write[p] \/ write'[p] = NoEvidence
    BY <1>a, <2>1 DEF EvidenceExpires, EchoTypes
  <2>3. QED BY <2>1, <2>2, Values DEF EvidenceExpires, Later, Kept
<1>5. QED BY <1>1, <1>2, <1>3, <1>4 DEF Next, Daemon

\* A callback changes in its own steps only.
LEMMA OwnStep ==
  ASSUME Types, [Next]_vars, NEW i \in Calls, calls'[i] # calls[i]
  PROVE  Callback(i)
<1>1. CASE \E j \in Calls : Callback(j)
  <2>1. PICK j \in Calls : Callback(j)
    BY <1>1
  <2>2. \E c \in Callbacks \cup {Idle} : calls' = [calls EXCEPT ![j] = c]
    <3>1. CASE Report(j)
      BY <3>1, Reported
    <3>2. CASE BeginRecheck(j)
      BY <3>2, Rechecked
    <3>3. CASE Look(j)
      BY <3>3, Looked
    <3>4. CASE Decide(j)
      BY <3>4, Decided
    <3>5. CASE Renamed(j)
      BY <3>5, RenameHeard
    <3>6. CASE Read(j) \/ SendModify(j) \/ DeleteSeen(j) \/ DeleteMissing(j) \/ SendDelete(j)
      BY <3>6, WentOn
    <3>7. QED BY <2>1, <3>1, <3>2, <3>3, <3>4, <3>5, <3>6 DEF Callback
  <2>3. i # j => calls'[i] = calls[i]
    BY <2>2 DEF Types, CallTypes
  <2>4. QED BY <2>1, <2>3
<1>2. CASE ReadLoop \/ User \/ Service \/ (\E p \in Paths : EvidenceExpires(p)) \/ UNCHANGED vars
  <2>1. UNCHANGED calls
    BY <1>2 DEF ReadLoop, BeginModify, WriteNote, WriteFails, VerifyNote, FinishModify,
         BeginMtime, FinishMtime, CheckDelete, RemoveNote, BeginRename, MoveNote, HandleAck,
         HandlerFrame, User, Edit, UserDelete, Touch, Service, ServiceModifies,
         ServiceTouches, ServiceDeletes, ServiceRenames, Ask, EvidenceExpires, vars
  <2>2. QED BY <2>1
<1>3. QED BY <1>1, <1>2 DEF Next, Daemon

\* A callback that begins to decide has just looked at evidence and note.
LEMMA DecideBegins ==
  ASSUME Types, [Next]_vars, NEW i \in Calls, calls'[i] # calls[i], calls'[i].at = "decide"
  PROVE  LET p == calls[i].path IN
         /\ Look(i) /\ calls[i].at = "look" /\ p \in Paths /\ calls'[i].path = p
         /\ calls'[i].meta = write[p] /\ calls'[i].got = disk[p]
         /\ write[p].hash # None /\ disk[p] # None
         /\ UNCHANGED <<disk, write, echoSeq, reader, troubled>>
<1>1. Callback(i)
  BY OwnStep
<1>2. ASSUME NEW c \in Callbacks \cup {Idle}, calls' = [calls EXCEPT ![i] = c]
      PROVE  calls'[i] = c
  BY <1>2 DEF Types, CallTypes
<1>3. ~Report(i) /\ ~BeginRecheck(i) /\ ~Decide(i) /\ ~Renamed(i)
  BY ZenonT(40), <1>2, Values, Reported, Rechecked, Decided, RenameHeard
<1>4. ~(Read(i) \/ SendModify(i) \/ DeleteSeen(i) \/ DeleteMissing(i) \/ SendDelete(i))
  BY <1>2, Values, WentOn
<1>5. Look(i)
  BY <1>1, <1>3, <1>4 DEF Callback
<1>6. PICK c \in Callbacks :
              /\ calls' = [calls EXCEPT ![i] = c] /\ c.path = calls[i].path
              /\ \/ c.at = "read"
                 \/ /\ c.at = "decide" /\ c.meta = write[c.path] /\ c.got = disk[c.path]
                    /\ write[c.path].hash # None /\ disk[c.path] # None
  BY <1>5, Looked
<1>7. calls'[i] = c
  BY <1>2, <1>6
<1>8. UNCHANGED <<disk, write, echoSeq, reader, troubled>>
  BY <1>5 DEF Look, CallFrame, echo, history
<1>9. QED BY <1>5, <1>6, <1>7, <1>8, Looked

\* The handler of a step that goes on is the one before, or took the next token.
LEMMA HandlerToken ==
  ASSUME Types, Tokens, [Next]_vars
  PROVE  \/ reader'.token = reader.token /\ (reader.token # 0 => P' = P)
         \/ reader'.token = 0
         \/ /\ reader'.token = echoSeq + 1 /\ echoSeq' = echoSeq + 1
            /\ write'[P'].inFlight /\ P' \in Paths
<1>a. EchoTypes
  BY DEF Types
<1>1. CASE BeginModify \/ BeginMtime \/ BeginRename
  <2>1. CASE UNCHANGED reader
    BY <2>1 DEF P
  <2>2. CASE reader' # reader
    <3>1. PICK h \in Versions : /\ Head(inbox).path \in Paths
                                /\ BeginRemoteWrite(Head(inbox).path, h)
      <4>1. Handle("Modify") \/ Handle("Mtime") \/ Handle("Rename")
        BY <1>1 DEF BeginModify, BeginMtime, BeginRename
      <4>2. Head(inbox).path \in Paths /\ Head(inbox).content \in Versions
        BY <4>1, Handled DEF MessageTypes
      <4>3. pending[Head(inbox).path] \in Versions /\ base[Head(inbox).path] \in Versions
        BY <4>2 DEF Types, NoteTypes
      <4>4. QED BY <1>1, <2>2, <4>2, <4>3 DEF BeginModify, BeginMtime, BeginRename
    <3>2. reader'.token = echoSeq' /\ reader'.msg.path = Head(inbox).path
      <4>1. PICK l, m, h1 : Goto(l, m, echoSeq', h1) /\ m.path = Head(inbox).path
        <5>1. CASE BeginModify \/ BeginRename
          BY <2>2, <5>1 DEF BeginModify, BeginRename
        <5>2. CASE BeginMtime
          <6>1. PICK m \in Messages : m = Head(inbox)
            BY <5>2, Handled DEF BeginMtime, MessageTypes
          <6>2. PICK c : c = pending[m.path]
            OBVIOUS
          <6>3. [m EXCEPT !.content = c].path = m.path
            BY DEF Messages
          <6>4. QED BY <5>2, <6>1, <6>2, <6>3 DEF BeginMtime
        <5>3. QED BY <1>1, <5>1, <5>2
      <4>2. QED BY <4>1 DEF Goto
    <3>3. echoSeq' = echoSeq + 1 /\ write'[Head(inbox).path].inFlight
      BY <1>a, <3>1, Began
    <3>4. P' = Head(inbox).path
      BY <3>2 DEF P
    <3>5. QED BY <3>1, <3>2, <3>3, <3>4
  <2>3. QED BY <2>1, <2>2
<1>2. CASE WriteNote \/ VerifyNote
  <2>1. reader \in Handlers /\ reader.msg \in Messages
    BY <1>2, ReaderAt DEF WriteNote, VerifyNote, At, Types, Handlers
  <2>2. \/ reader' = Asleep \/ reader' = [reader EXCEPT !.at = "verify"]
        \/ reader' = [reader EXCEPT !.at = "finish"]
    BY <1>2 DEF WriteNote, VerifyNote, Return
  <2>3. reader' = Asleep \/ (reader'.token = reader.token /\ reader'.msg = reader.msg)
    BY <2>1, <2>2 DEF Handlers
  <2>4. QED BY <2>3, Values DEF P
<1>3. CASE WriteFails \/ FinishModify \/ FinishMtime \/ RemoveNote \/ MoveNote \/ CheckDelete
  <2>1. reader' = reader \/ reader'.token = 0
    BY <1>3, Values DEF WriteFails, FinishModify, FinishMtime, RemoveNote, MoveNote,
                        CheckDelete, Return, Goto
  <2>2. QED BY <2>1 DEF P
<1>4. CASE HandleAck \/ (\E i \in Calls : Callback(i)) \/ User \/ Service
           \/ (\E p \in Paths : EvidenceExpires(p)) \/ UNCHANGED vars
  <2>1. UNCHANGED reader
    BY <1>4 DEF HandleAck, Callback, Report, BeginRecheck, Look, Decide, Read, SendModify,
         DeleteSeen, DeleteMissing, SendDelete, Renamed, CallFrame, User, Edit, UserDelete,
         Touch, Service, ServiceModifies, ServiceTouches, ServiceDeletes, ServiceRenames, Ask,
         EvidenceExpires, vars
  <2>2. QED BY <2>1 DEF P
<1>5. QED BY <1>1, <1>2, <1>3, <1>4 DEF Next, Daemon, ReadLoop

\* While a handler goes on, only callbacks touch the evidence of its note.
LEMMA HandlerGoesOn ==
  ASSUME Types, [Next]_vars, reader.token # 0, reader'.token = reader.token, P \in Paths,
         reader # Asleep
  PROVE  Kept(write[P], write'[P]) \/ write'[P] = NoEvidence
<1>1. CASE \E i \in Calls : Callback(i)
  BY <1>1, CallbackEvidence
<1>2. CASE UNCHANGED write
  BY <1>2 DEF Kept
<1>3. CASE WriteNote \/ CheckDelete \/ HandleAck \/ User \/ Service \/ UNCHANGED vars
  BY <1>2, <1>3 DEF WriteNote, CheckDelete, HandleAck, User, Edit, UserDelete, Touch, Service,
       ServiceModifies, ServiceTouches, ServiceDeletes, ServiceRenames, Ask, echo, vars
<1>4. CASE VerifyNote
  BY <1>2, <1>4, Values DEF VerifyNote, Return
<1>5. ~(WriteFails \/ FinishModify \/ FinishMtime \/ RemoveNote \/ MoveNote)
  BY Values DEF WriteFails, FinishModify, FinishMtime, RemoveNote, MoveNote, Return
<1>6. ~(BeginModify \/ BeginMtime \/ BeginRename \/ \E p \in Paths : EvidenceExpires(p))
  BY DEF BeginModify, BeginMtime, BeginRename, Handle, EvidenceExpires
<1>7. QED BY <1>1, <1>3, <1>4, <1>5, <1>6 DEF Next, Daemon, ReadLoop

\* A step gives one token at most.
LEMMA SeqStep ==
  ASSUME Types, [Next]_vars
  PROVE  echoSeq' \in {echoSeq, echoSeq + 1}
BY DEF Next, Daemon, ReadLoop, BeginModify, WriteNote, WriteFails, VerifyNote, FinishModify,
   BeginMtime, FinishMtime, CheckDelete, RemoveNote, BeginRename, MoveNote, HandleAck,
   BeginRemoteWrite, Callback, Report, BeginRecheck, Look, Decide, Read, SendModify, DeleteSeen,
   DeleteMissing, SendDelete, Renamed, CallFrame, User, Edit, UserDelete, Touch, Service,
   ServiceModifies, ServiceTouches, ServiceDeletes, ServiceRenames, Ask, EvidenceExpires,
   echo, vars

\* The order of tokens holds after every step.
LEMMA TokensKept ==
  ASSUME Types, Tokens, [Next]_vars
  PROVE  Tokens'
<1>1. Types'
  BY TypesKept
<1>2. PICK n \in Nat : n = echoSeq
  BY DEF Types, EchoTypes
<1>3. PICK k \in {n, n + 1} : k = echoSeq'
  BY <1>2, SeqStep
<1>4. \A p \in Paths : Later(write[p], write'[p], n, k)
  BY <1>2, <1>3, EvidenceStep
<1>5. \A p \in Paths : /\ write[p] \in Meta /\ write[p].token \in Nat
                       /\ write'[p] \in Meta /\ write'[p].token \in Nat
  BY <1>1 DEF Types, EchoTypes, Evidences, Meta
<1>6. ASSUME NEW p \in Paths PROVE write'[p].token <= k
  <2>1. PICK e \in Nat : e = write[p].token
    BY <1>5
  <2>2. PICK f \in Nat : f = write'[p].token
    BY <1>5
  <2>3. e <= n
    BY <1>2, <2>1 DEF Tokens
  <2>4. f = e \/ f = 0 \/ f = k
    BY <1>4, <2>1, <2>2 DEF Later, Kept
  <2>5. QED BY <1>2, <1>3, <2>2, <2>3, <2>4
<1>7. reader'.token <= k
  <2>1. PICK e \in Nat : e = reader.token
    BY Values, ReaderAt DEF Types
  <2>2. e <= n
    BY <1>2, <2>1 DEF Tokens
  <2>3. reader'.token = e \/ reader'.token = 0 \/ reader'.token = k
    BY <1>2, <1>3, <2>1, HandlerToken
  <2>4. QED BY <1>2, <1>3, <2>2, <2>3
<1>8. (reader.token # 0 /\ write[P].token = reader.token => write[P].inFlight)'
  <2>1. SUFFICES ASSUME reader'.token # 0, write'[P'].token = reader'.token, ~write'[P'].inFlight
                 PROVE  FALSE
    BY DEF P
  <2>2. reader'.token = reader.token /\ P' = P
    BY <2>1, HandlerToken
  <2>3. reader.token # 0 /\ P \in Paths /\ reader # Asleep
    BY <2>1, <2>2, Values, ReaderAt DEF Types
  <2>4. write[P].token # reader.token \/ write[P].inFlight
    BY <2>3 DEF Tokens
  <2>5. Kept(write[P], write'[P]) \/ write'[P] = NoEvidence
    BY <2>1, <2>2, <2>3, HandlerGoesOn
  <2>6. QED BY <2>1, <2>2, <2>3, <2>4, <2>5, Values DEF Kept
<1>9. ASSUME NEW i \in Calls, calls'[i].at = "decide"
      PROVE  Agrees(calls'[i].meta, write'[calls'[i].path], k)
  <2>1. CASE calls'[i] = calls[i]
    <3>1. /\ calls[i].path \in Paths /\ calls[i].meta \in Meta /\ calls[i].meta.token # 0
      BY <1>9, <2>1, CallStands
    <3>2. Agrees(calls[i].meta, write[calls[i].path], n)
      BY <1>2, <1>9, <2>1 DEF Tokens
    <3>3. QED BY <1>3, <1>4, <1>5, <2>1, <3>1, <3>2, AgreesStill
  <2>2. CASE calls'[i] # calls[i]
    <3>1. PICK p \in Paths : /\ calls'[i].path = p /\ calls'[i].meta = write[p]
                             /\ UNCHANGED <<write, echoSeq>>
      BY <1>9, <2>2, DecideBegins
    <3>2. write[p].token <= n /\ n = k
      BY <1>2, <1>3, <3>1 DEF Tokens
    <3>3. QED BY <1>5, <3>1, <3>2, AgreesAtFirst
  <2>3. QED BY <2>1, <2>2
<1>10. QED BY <1>3, <1>6, <1>7, <1>8, <1>9 DEF Tokens

-----------------------------------------------------------------------------
(* As long as the user edits nothing: the notes the service has not troubled. *)

\* A note that was never removed, moved away or left by a write that failed.
Quiet == Paths \ troubled

Works(p, stages) == reader.at \in stages /\ P = p
Leaves(p)        == reader.at = "move" /\ reader.msg.old = p

\* Somebody reports p, looks at it, or will.
Active(p) == \/ Reports(p) # {} \/ rechecks[p] > 0 \/ write[p].recheck
             \/ \E i \in Calls : calls[i].at # "idle" /\ calls[i].path = p

\* What the daemon knows of p is what is there, but for the write of its handler.
Known(p) ==
  /\ pending[p] = None
  /\ IF Works(p, {"verify", "finish"}) THEN disk[p] = reader.hash ELSE base[p] = disk[p]

\* Who looks at p finds evidence for what is there: of the write under way or over, or,
\* until the handler writes, of the one before.
Covered(p) ==
  Active(p) => /\ disk[p] # None
               /\ IF Works(p, {"write"}) THEN write[p].prev = disk[p]
                                         ELSE write[p].hash = disk[p]

\* A handler's evidence is not replaced while it works.
Own(p) ==
  Works(p, {"write", "verify", "finish", "mtime", "move"}) =>
    /\ write[p].token = reader.token /\ write[p].inFlight /\ write[p].hash = reader.hash
    /\ reader.at = "mtime" => reader.msg.content = None

\* What is moved is what the service had, and nothing is where it goes.
Moving(p) ==
  /\ Works(p, {"move"}) => disk[p] = None
  /\ Leaves(p) => disk[p] = reader.hash

Proven(p) == Known(p) /\ Covered(p) /\ Own(p) /\ Moving(p)

\* Messages q take o from v to w.
Leads(q, o, v, w) ==
  \E view \in [0..Len(q) -> Versions] :
    /\ view[0] = v /\ view[Len(q)] = w
    /\ \A k \in 1..Len(q) : /\ Presumes(q[k], o, view[k - 1])
                            /\ view[k] = Apply(q[k], o, view[k - 1])

\* The messages still to be handled take a note from what is there, or will be when the
\* handler is done, to what the service has.  The note may be missing: the daemon asked
\* for it.
StartsAt(o, v) ==
  /\ Works(o, {"write", "move"}) => v = reader.hash
  /\ ~Works(o, {"write", "move", "remove"}) /\ ~Leaves(o) => disk[o] \in {None, v}
InOrder(o) == \E v \in Versions : StartsAt(o, v) /\ Leads(inbox, o, v, svc[o])

\* Who decides with evidence that is still the note's finds an echo.
Judged(i) ==
  LET c == calls[i] IN
  c.at = "decide" /\ c.path \in Quiet /\ Same(write[c.path], c.meta) =>
    c.got = c.meta.hash \/ (c.meta.inFlight /\ c.got = c.meta.prev)

\* Nobody is about to send a quiet note, and none was sent.
Silent(i) == calls[i].at \in {"delete", "missing", "gone", "read", "send"} =>
               calls[i].path \in troubled
AcksOfTroubled == \A k \in 1..Len(inbox) : inbox[k].type = "Ack" => inbox[k].path \in troubled

\* A move that is reported as a rename is known as the handler's.
Marked(old, new) == old \in troubled /\ (new \in Quiet => renamed[new] = <<old, new>>)
RenamesMarked ==
  /\ \A r \in Renames : r \in events => Marked(r[1], r[2])
  /\ \A i \in Calls : calls[i].at = "rename" => Marked(calls[i].old, calls[i].path)

Echoes ==
  /\ \A p \in Quiet : Proven(p) /\ InOrder(p)
  /\ \A i \in Calls : Judged(i) /\ Silent(i)
  /\ AcksOfTroubled /\ RenamesMarked

IInv == Types /\ Tokens /\ (edits = 0 => Echoes)

\* A message is taken from the front of the queue, and one is added at its end.
LEMMA LeadsTail ==
  ASSUME NEW q \in Seq(Messages), q # <<>>, NEW o \in Paths, NEW v \in Versions,
         NEW w \in Versions, Leads(q, o, v, w)
  PROVE  /\ Presumes(Head(q), o, v)
         /\ Apply(Head(q), o, v) \in Versions
         /\ Leads(Tail(q), o, Apply(Head(q), o, v), w)
<1>1. PICK view \in [0..Len(q) -> Versions] :
        /\ view[0] = v /\ view[Len(q)] = w
        /\ \A k \in 1..Len(q) : /\ Presumes(q[k], o, view[k - 1])
                                /\ view[k] = Apply(q[k], o, view[k - 1])
  BY DEF Leads
<1>2. PICK n \in Nat : n + 1 = Len(q)
  <2>1. Len(q) \in Nat /\ Len(q) # 0
    OBVIOUS
  <2>2. QED BY <2>1
<1>3. Len(Tail(q)) = n /\ Head(q) = q[1] /\ \A k \in 1..n : Tail(q)[k] = q[k + 1]
  BY <1>2
<1>4. Presumes(q[1], o, v) /\ view[1] = Apply(q[1], o, v) /\ view[1] \in Versions
  <2>1. 1 \in 1..Len(q) /\ 1 - 1 = 0 /\ 1 \in 0..Len(q)
    BY <1>2
  <2>2. QED BY <1>1, <2>1
<1>5. DEFINE u == [k \in 0..n |-> view[k + 1]]
<1>6. u \in [0..n -> Versions] /\ u[0] = view[1] /\ u[n] = view[Len(q)]
  BY SMTT(30), <1>1, <1>2
<1>7. ASSUME NEW k \in 1..n
      PROVE  Presumes(Tail(q)[k], o, u[k - 1]) /\ u[k] = Apply(Tail(q)[k], o, u[k - 1])
  <2>1. k + 1 \in 1..Len(q) /\ (k + 1) - 1 = k /\ k - 1 \in 0..n /\ (k - 1) + 1 = k
    BY <1>2
  <2>2. u[k] = view[k + 1] /\ u[k - 1] = view[k]
    BY <2>1
  <2>3. Presumes(q[k + 1], o, view[k]) /\ view[k + 1] = Apply(q[k + 1], o, view[k])
    BY <1>1, <2>1
  <2>4. QED BY <1>3, <2>2, <2>3
<1>8. HIDE DEF u
<1>9. Leads(Tail(q), o, view[1], w)
  BY <1>1, <1>3, <1>6, <1>7 DEF Leads
<1>10. QED BY <1>3, <1>4, <1>9

\* ... and one that is added at the end takes the note on.
LEMMA LeadsAppend ==
  ASSUME NEW q \in Seq(Messages), NEW m \in Messages, NEW o \in Paths, NEW v \in Versions,
         NEW w \in Versions, Leads(q, o, v, w), Presumes(m, o, w), Apply(m, o, w) \in Versions
  PROVE  Leads(Append(q, m), o, v, Apply(m, o, w))
<1>1. PICK view \in [0..Len(q) -> Versions] :
        /\ view[0] = v /\ view[Len(q)] = w
        /\ \A k \in 1..Len(q) : /\ Presumes(q[k], o, view[k - 1])
                                /\ view[k] = Apply(q[k], o, view[k - 1])
  BY DEF Leads
<1>2. PICK n \in Nat : n = Len(q)
  OBVIOUS
<1>3. PICK a \in Versions : a = Apply(m, o, w)
  OBVIOUS
<1>4. /\ Len(Append(q, m)) = n + 1 /\ Append(q, m)[n + 1] = m
      /\ \A k \in 1..n : Append(q, m)[k] = q[k]
  BY <1>2
<1>5. DEFINE u == [k \in 0..(n + 1) |-> IF k = n + 1 THEN a ELSE view[k]]
<1>6. /\ u \in [0..(n + 1) -> Versions] /\ u[n + 1] = a
      /\ \A k \in 0..n : u[k] = view[k]
  BY <1>1, <1>2
<1>7. HIDE DEF u
<1>8. ASSUME NEW k \in 1..(n + 1)
      PROVE  /\ Presumes(Append(q, m)[k], o, u[k - 1])
             /\ u[k] = Apply(Append(q, m)[k], o, u[k - 1])
  <2>1. CASE k = n + 1
    <3>1. u[k - 1] = w
      BY <1>1, <1>2, <1>6, <2>1
    <3>2. QED BY <1>3, <1>4, <1>6, <2>1, <3>1
  <2>2. CASE k # n + 1
    <3>1. k \in 1..n /\ k \in 0..n /\ k - 1 \in 0..n
      BY <2>2
    <3>2. QED BY <1>1, <1>2, <1>4, <1>6, <3>1
  <2>3. QED BY <2>1, <2>2
<1>9. u[0] = v
  BY <1>1, <1>6
<1>10. QED BY <1>3, <1>4, <1>6, <1>8, <1>9 DEF Leads

-----------------------------------------------------------------------------
(* Callbacks leave quiet notes alone.                                        *)

\* The reports of p: its own, and the renames it is part of.
LEMMA ReportsOf ==
  ASSUME EventTypes, NEW p \in Paths
  PROVE  Reports(p) # {} <=> \/ <<p>> \in events
                             \/ \E r \in Renames : r \in events /\ p \in {r[1], r[2]}
<1>1. ASSUME NEW q \in Paths PROVE {<<q>>[k] : k \in 1..Len(<<q>>)} = {q}
  OBVIOUS
<1>2. ASSUME NEW r \in Renames PROVE {r[k] : k \in 1..Len(r)} = {r[1], r[2]}
  <2>1. Len(r) = 2
    BY Values
  <2>2. 1..2 = {1, 2}
    OBVIOUS
  <2>3. QED BY <2>1, <2>2
<1>3. ASSUME NEW e \in Reports(p)
      PROVE  e \in events /\ (e = <<p>> \/ (e \in Renames /\ p \in {e[1], e[2]}))
  <2>1. e \in events /\ p \in {e[k] : k \in 1..Len(e)}
    BY <1>3 DEF Reports
  <2>2. CASE e \in Renames
    BY <1>2, <2>1, <2>2
  <2>3. CASE \E q \in Paths : e = <<q>>
    <3>1. PICK q \in Paths : e = <<q>>
      BY <2>3
    <3>2. p \in {q}
      BY <1>1, <2>1, <3>1
    <3>3. QED BY <2>1, <3>1, <3>2
  <2>4. QED BY <2>1, <2>2, <2>3 DEF EventTypes
<1>4. <<p>> \in events => <<p>> \in Reports(p)
  BY <1>1 DEF Reports
<1>5. ASSUME NEW r \in Renames, r \in events, p \in {r[1], r[2]} PROVE r \in Reports(p)
  BY <1>2, <1>5 DEF Reports
<1>6. QED BY <1>3, <1>4, <1>5

\* What makes a note active.
LEMMA ActiveIf ==
  ASSUME Types, NEW p \in Paths
  PROVE  /\ <<p>> \in events => Active(p)
         /\ \A r \in Renames : r \in events /\ r[2] = p => Active(p)
         /\ \A i \in Calls : calls[i].at # "idle" /\ calls[i].path = p => Active(p)
         /\ rechecks[p] > 0 => Active(p)
BY ReportsOf DEF Active, Types

\* The reports of p.
About(p) == {<<p>>} \cup {r \in Renames : p \in {r[1], r[2]}}

\* A note stays inactive unless a step reports it, or begins or finishes a write of it.
LEMMA ActiveBefore ==
  ASSUME Types, Types', NEW p \in Paths, Active(p)',
         events' \cap About(p) \subseteq events,
         rechecks'[p] > 0 => Active(p),
         write'[p].recheck => Active(p),
         \A i \in Calls : calls'[i].at # "idle" /\ calls'[i].path = p => Active(p)
  PROVE  Active(p)
<1>1. CASE Reports(p)' # {}
  <2>1. \/ <<p>> \in events'
        \/ \E r \in Renames : r \in events' /\ p \in {r[1], r[2]}
    <3>1. EventTypes'
      BY DEF Types
    <3>2. (EventTypes => (Reports(p) # {} <=> \/ <<p>> \in events
                             \/ \E r \in Renames : r \in events /\ p \in {r[1], r[2]}))'
      BY ReportsOf, PTL
    <3>3. QED BY <1>1, <3>1, <3>2
  <2>2. \/ <<p>> \in events
        \/ \E r \in Renames : r \in events /\ p \in {r[1], r[2]}
    BY <2>1 DEF About
  <2>3. QED BY <2>2, ReportsOf DEF Active, Types
<1>2. QED BY <1>1 DEF Active

\* A callback of a quiet note has found an echo, and never wrote or sent it.
LEMMA QuietDecides ==
  ASSUME Types, Echoes, NEW i \in Calls, Decide(i), calls[i].path \in Quiet
  PROVE  /\ calls' = [calls EXCEPT ![i] = Idle] \/ \E c \in Callbacks :
              /\ calls' = [calls EXCEPT ![i] = c] /\ c.at = "look" /\ c.path = calls[i].path
         /\ UNCHANGED rechecks
         /\ write' = write \/ write' = [write EXCEPT ![calls[i].path].recheck = TRUE]
<1> DEFINE p == calls[i].path
           m == calls[i].meta
           g == calls[i].got
<1>1. calls[i].at = "decide" /\ Judged(i)
  BY Decided DEF Echoes
<1>2. Same(write[p], m) => g = m.hash \/ (m.inFlight /\ g = m.prev)
  BY <1>1 DEF Judged
<1>3. QED BY <1>2, Decided

\* A report of a rename of a quiet note is an echo.
LEMMA QuietRename ==
  ASSUME Types, Echoes, NEW i \in Calls, Renamed(i)
  PROVE  \/ calls' = [calls EXCEPT ![i] = Idle] /\ UNCHANGED <<echo, svc>>
         \/ calls[i].path \in troubled /\ calls[i].old \in troubled
<1> DEFINE new == calls[i].path
           old == calls[i].old
<1>1. /\ calls[i].at = "rename" /\ new \in Paths
      /\ \E c \in Callbacks \cup {Idle} :
              /\ calls' = [calls EXCEPT ![i] = c]
              /\ \/ c = Idle /\ UNCHANGED <<echo, svc>>
                 \/ <<old, new>> \notin {renamed[old], renamed[new]}
  BY RenameHeard
<1>2. Marked(old, new)
  BY <1>1 DEF Echoes, RenamesMarked
<1>3. QED BY <1>1, <1>2 DEF Marked, Quiet

\* What a callback leaves of a quiet note.
LEMMA QuietCallback ==
  ASSUME Types, Tokens, Echoes, NEW i \in Calls, Callback(i), NEW p \in Quiet
  PROVE  /\ Kept(write[p], write'[p])
         /\ pending'[p] = pending[p] /\ svc'[p] = svc[p]
         /\ Active(p)' => Active(p)
<1>a. Types' /\ p \in Paths
  BY CallbackTypes DEF Quiet
<1>b. EchoTypes /\ NoteTypes /\ EchoTypes'
  BY <1>a DEF Types
<1>c. Kept(write[p], write[p])
  BY DEF Kept
<1>d. ASSUME calls[i].at # "idle", NEW c \in Callbacks \cup {Idle},
             calls' = [calls EXCEPT ![i] = c], c # Idle => c.path = calls[i].path
      PROVE  \A j \in Calls : calls'[j].at # "idle" /\ calls'[j].path = p => Active(p)
  <2>1. calls'[i] = c /\ \A j \in Calls : j # i => calls'[j] = calls[j]
    BY <1>d DEF Types, CallTypes
  <2>2. \A j \in Calls : calls[j].at # "idle" /\ calls[j].path = p => Active(p)
    BY <1>a, ActiveIf
  <2>3. c.at # "idle" => c # Idle
    BY Values
  <2>4. calls[i].path = p => Active(p)
    BY <1>d, <2>2
  <2>5. QED BY <1>d, <2>1, <2>2, <2>3, <2>4
<1>e. /\ rechecks[p] > 0 => Active(p)
      /\ write[p].recheck => Active(p)
  BY DEF Active
<1>1. CASE Report(i)
  <2>1. UNCHANGED <<write, pending, svc, rechecks>>
    BY <1>1 DEF Report, books, echo, service
  <2>2. PICK e \in events : \E c \in Callbacks :
              /\ events' = events \ {e} /\ calls' = [calls EXCEPT ![i] = c]
              /\ \/ e \in Renames /\ c.at = "rename" /\ c.old = e[1] /\ c.path = e[2]
                 \/ \E q \in Paths : /\ e = <<q>> /\ c.path = q
                                     /\ c.at = IF disk[q] = None THEN "delete" ELSE "look"
    BY <1>1, Reported
  <2>3. PICK c \in Callbacks :
              /\ events' = events \ {e} /\ calls' = [calls EXCEPT ![i] = c]
              /\ (e \in Renames /\ c.path = e[2]) \/ \E q \in Paths : e = <<q>> /\ c.path = q
    BY <2>2
  <2>4. calls'[i] = c /\ \A j \in Calls : j # i => calls'[j] = calls[j]
    BY <2>3 DEF Types, CallTypes
  <2>5. c.path = p => Active(p)
    BY <1>a, <2>3, ActiveIf
  <2>6. \A j \in Calls : calls'[j].at # "idle" /\ calls'[j].path = p => Active(p)
    BY <1>a, <2>4, <2>5, ActiveIf
  <2>7. events' \cap About(p) \subseteq events
    BY <2>3
  <2>8. Active(p)' => Active(p)
    BY <1>a, <1>e, <2>1, <2>6, <2>7, ActiveBefore
  <2>9. QED BY <1>c, <2>1, <2>8
<1>2. CASE BeginRecheck(i)
  <2>1. UNCHANGED <<write, pending, svc, events>>
    BY <1>2 DEF BeginRecheck, books, echo, service
  <2>2. PICK q \in Paths, c \in Callbacks :
           /\ rechecks[q] > 0 /\ rechecks' = [rechecks EXCEPT ![q] = rechecks[q] - 1]
           /\ calls' = [calls EXCEPT ![i] = c] /\ c.path = q
    BY <1>2, Rechecked
  <2>3. calls'[i] = c /\ \A j \in Calls : j # i => calls'[j] = calls[j]
    BY <2>2 DEF Types, CallTypes
  <2>4. c.path = p => Active(p)
    BY <1>e, <2>2
  <2>5. \A j \in Calls : calls'[j].at # "idle" /\ calls'[j].path = p => Active(p)
    BY <1>a, <2>3, <2>4, ActiveIf
  <2>6. rechecks'[p] > 0 => Active(p)
    <3>1. p # q => rechecks'[p] = rechecks[p]
      BY <1>a, <1>b, <2>2 DEF EchoTypes
    <3>2. QED BY <1>e, <2>2, <3>1
  <2>7. Active(p)' => Active(p)
    BY <1>a, <1>e, <2>1, <2>5, <2>6, ActiveBefore
  <2>8. QED BY <1>c, <2>1, <2>7
<1>3. CASE Look(i)
  <2>1. UNCHANGED <<write, pending, svc, events, rechecks>>
    BY <1>3 DEF Look, CallFrame, echo, service
  <2>2. \A j \in Calls : calls'[j].at # "idle" /\ calls'[j].path = p => Active(p)
    <3>1. calls[i].at = "look"
      BY <1>3, Looked
    <3>2. \E c \in Callbacks \cup {Idle} :
            calls' = [calls EXCEPT ![i] = c] /\ (c # Idle => c.path = calls[i].path)
      BY <1>3, Looked
    <3>3. QED BY <1>d, <3>1, <3>2
  <2>3. Active(p)' => Active(p)
    BY <1>a, <1>e, <2>1, <2>2, ActiveBefore
  <2>4. QED BY <1>c, <2>1, <2>3
<1>4. CASE Decide(i)
  <2> DEFINE q == calls[i].path
  <2>1. UNCHANGED <<pending, svc, events>>
    BY <1>4 DEF Decide, books, service
  <2>2. /\ calls[i].at = "decide" /\ q \in Paths
        /\ \E c \in Callbacks \cup {Idle} :
              calls' = [calls EXCEPT ![i] = c] /\ (c # Idle => c.path = q)
    BY <1>4, Decided
  <2>3. \A j \in Calls : calls'[j].at # "idle" /\ calls'[j].path = p => Active(p)
    BY <1>d, <2>2
  <2>4. CASE p = q
    <3>1. UNCHANGED rechecks /\ Active(p)
      BY <1>4, <1>a, <2>2, <2>4, QuietDecides, ActiveIf
    <3>2. Kept(write[p], write'[p])
      <4>1. CASE write' = [write EXCEPT ![q].recheck = TRUE]
        <5>1. PICK e \in Evidences : e = write[q]
          BY <1>b, <2>2 DEF EchoTypes
        <5>2. PICK n : n = [e EXCEPT !.recheck = TRUE]
          OBVIOUS
        <5>3. Kept(e, n)
          BY <5>2 DEF Kept, Evidences, Meta
        <5>4. write' = [write EXCEPT ![q] = n]
          BY <4>1, <5>1, <5>2
        <5>5. write'[p] = n
          BY <1>b, <2>2, <2>4, <5>4 DEF EchoTypes
        <5>6. QED BY <2>4, <5>1, <5>3, <5>5
      <4>2. CASE write' = write
        BY <1>c, <4>2
      <4>3. QED BY <1>4, <2>4, <4>1, <4>2, QuietDecides
    <3>3. QED BY <2>1, <3>1, <3>2
  <2>5. CASE p # q
    <3>1. write'[p] = write[p] /\ rechecks'[p] = rechecks[p]
      <4>1. CASE UNCHANGED <<write, rechecks>>
        BY <4>1
      <4>2. CASE Replaced(q, NoEvidence)
        BY <1>a, <1>b, <2>2, <2>5, <4>2, ReplacedOne, Values
      <4>3. CASE UNCHANGED rechecks /\ write' = [write EXCEPT ![q].recheck = TRUE]
        BY <1>a, <1>b, <2>2, <2>5, <4>3 DEF EchoTypes
      <4>4. QED BY <1>4, <4>1, <4>2, <4>3, Decided
    <3>2. Active(p)' => Active(p)
      BY <1>a, <1>e, <2>1, <2>3, <3>1, ActiveBefore
    <3>3. QED BY <1>c, <2>1, <3>1, <3>2
  <2>6. QED BY <2>4, <2>5
<1>5. CASE Read(i) \/ SendModify(i) \/ DeleteSeen(i) \/ DeleteMissing(i) \/ SendDelete(i)
  <2> DEFINE q == calls[i].path
  <2>1. /\ calls[i].at \in {"read", "send", "delete", "missing", "gone"} /\ q \in Paths
        /\ \E c \in Callbacks \cup {Idle} :
              calls' = [calls EXCEPT ![i] = c] /\ (c # Idle => c.path = q)
    BY <1>5, WentOn
  <2>2. p # q
    BY <2>1 DEF Echoes, Silent, Quiet
  <2>3. UNCHANGED <<events, rechecks>>
    BY <1>5 DEF Read, SendModify, DeleteSeen, DeleteMissing, SendDelete, CallFrame
  <2>4. write'[p] = write[p] /\ pending'[p] = pending[p] /\ svc'[p] = svc[p]
    <3>1. write' = write \/ write' = [write EXCEPT ![q] = NoEvidence]
      BY <1>5 DEF Read, SendModify, DeleteSeen, DeleteMissing, SendDelete, ClearWrite, echo
    <3>2. pending' = pending \/ \E c : pending' = [pending EXCEPT ![q] = c]
      BY <1>5 DEF Read, SendModify, DeleteSeen, DeleteMissing, SendDelete, books
    <3>3. svc' = svc \/ \E c : svc' = [svc EXCEPT ![q] = c]
      BY <1>5 DEF Read, SendModify, DeleteSeen, DeleteMissing, SendDelete, CallFrame, Push,
                  Serves, service
    <3>4. QED BY <1>a, <1>b, <2>2, <3>1, <3>2, <3>3 DEF EchoTypes, NoteTypes
  <2>5. \A j \in Calls : calls'[j].at # "idle" /\ calls'[j].path = p => Active(p)
    BY <1>d, <2>1
  <2>6. Active(p)' => Active(p)
    BY <1>a, <1>e, <2>3, <2>4, <2>5, ActiveBefore
  <2>7. QED BY <1>c, <2>4, <2>6
<1>6. CASE Renamed(i)
  <2> DEFINE new == calls[i].path
             old == calls[i].old
  <2>1. UNCHANGED <<pending, events, rechecks>>
    BY <1>6 DEF Renamed, books
  <2>2. /\ calls[i].at = "rename" /\ new \in Paths /\ old \in Paths
        /\ \E c \in Callbacks \cup {Idle} :
              calls' = [calls EXCEPT ![i] = c] /\ (c # Idle => c.path = new)
    BY <1>6, RenameHeard
  <2>3. write'[p] = write[p] /\ svc'[p] = svc[p]
    <3>1. CASE UNCHANGED <<echo, svc>>
      BY <3>1 DEF echo
    <3>2. CASE new \in troubled /\ old \in troubled
      <4>1. p # new /\ p # old
        BY <3>2 DEF Quiet
      <4>2. write' = write \/ write' = [write EXCEPT ![old] = NoEvidence, ![new] = NoEvidence]
        BY <1>6, RenameHeard DEF echo
      <4>3. svc' = svc \/ \E c : svc' = [svc EXCEPT ![old] = None, ![new] = c]
        BY <1>6, RenameHeard
      <4>4. QED BY <1>a, <1>b, <2>2, <4>1, <4>2, <4>3 DEF EchoTypes, NoteTypes
    <3>3. QED BY <1>6, <3>1, <3>2, QuietRename
  <2>4. \A j \in Calls : calls'[j].at # "idle" /\ calls'[j].path = p => Active(p)
    BY <1>d, <2>2
  <2>5. Active(p)' => Active(p)
    BY <1>a, <1>e, <2>1, <2>3, <2>4, ActiveBefore
  <2>6. QED BY <1>c, <2>1, <2>3, <2>5
<1>7. QED BY <1>1, <1>2, <1>3, <1>4, <1>5, <1>6 DEF Callback

-----------------------------------------------------------------------------
(* What any step leaves of callbacks, messages and marks.                    *)

\* A troubled note stays one.
LEMMA TroubledGrows ==
  ASSUME [Next]_vars
  PROVE  troubled \subseteq troubled'
BY DEF Next, Daemon, ReadLoop, BeginModify, WriteNote, WriteFails, VerifyNote, FinishModify,
   BeginMtime, FinishMtime, CheckDelete, RemoveNote, BeginRename, MoveNote, HandleAck,
   HandlerFrame, Callback, Report, BeginRecheck, Look, Decide, Read, SendModify, DeleteSeen,
   DeleteMissing, SendDelete, Renamed, CallFrame, User, Edit, UserDelete, Touch, Service,
   ServiceModifies, ServiceTouches, ServiceDeletes, ServiceRenames, Ask, EvidenceExpires,
   history, vars

\* Evidence that is the one that was looked at was so before the step.
LEMMA SameBefore ==
  ASSUME NEW seq \in Nat, NEW m \in Meta, NEW e \in Meta, NEW n \in Meta, m.token # 0,
         NEW t, Agrees(m, e, seq), Later(e, n, seq, t), Same(n, m)
  PROVE  Same(e, m)
<1>1. m.token \in Nat /\ m.token <= seq /\ n.token = m.token
  BY DEF Meta, Agrees, Same
<1>2. Kept(e, n) \/ (n.token = e.token /\ e.inFlight /\ ~n.inFlight)
  BY <1>1 DEF Later
<1>3. CASE Kept(e, n)
  BY <1>3 DEF Kept, Same, Meta
<1>4. CASE n.token = e.token /\ e.inFlight /\ ~n.inFlight
  <2>1. m.inFlight /\ ~m.inFlight
    BY <1>1, <1>4 DEF Agrees, Same
  <2>2. QED BY <2>1
<1>5. QED BY <1>2, <1>3, <1>4

\* A callback of a quiet note still decides that it saw an echo.
LEMMA JudgedStays ==
  ASSUME Types, Tokens, Echoes, [Next]_vars, NEW i \in Calls
  PROVE  Judged(i)'
<1> DEFINE p == calls'[i].path
           m == calls'[i].meta
           g == calls'[i].got
<1>1. SUFFICES ASSUME calls'[i].at = "decide", p \in Quiet', Same(write'[p], m)
               PROVE  g = m.hash \/ (m.inFlight /\ g = m.prev)
  BY DEF Judged, Same
<1>2. p \in Quiet /\ p \in Paths
  BY <1>1, TroubledGrows DEF Quiet
<1>3. Types'
  BY TypesKept
<1>4. write[p] \in Meta /\ write'[p] \in Meta /\ echoSeq \in Nat
  BY <1>2, <1>3 DEF Types, EchoTypes, Evidences
<1>5. CASE calls'[i] = calls[i]
  <2>1. m \in Meta /\ m.token # 0
    BY <1>1, <1>5, CallStands
  <2>2. Agrees(m, write[p], echoSeq)
    BY <1>1, <1>5 DEF Tokens
  <2>3. Later(write[p], write'[p], echoSeq, echoSeq')
    BY <1>2, EvidenceStep
  <2>4. Same(write[p], m)
    BY <1>1, <1>4, <2>1, <2>2, <2>3, SameBefore
  <2>5. QED BY <1>1, <1>2, <1>5, <2>4 DEF Echoes, Judged
<1>6. CASE calls'[i] # calls[i]
  <2>1. /\ calls[i].at = "look" /\ calls[i].path = p /\ m = write[p] /\ g = disk[p]
    BY <1>1, <1>6, DecideBegins
  <2>2. Active(p) /\ Covered(p) /\ Own(p)
    BY <1>2, <2>1, ActiveIf DEF Echoes, Proven
  <2>3. CASE Works(p, {"write"})
    <3>1. Works(p, {"write", "verify", "finish", "mtime", "move"})
      BY <2>3 DEF Works
    <3>2. QED BY <2>1, <2>2, <2>3, <3>1 DEF Covered, Own
  <2>4. CASE ~Works(p, {"write"})
    BY <2>1, <2>2, <2>4 DEF Covered
  <2>5. QED BY <2>3, <2>4
<1>7. QED BY <1>5, <1>6

\* A quiet note that somebody looks at is there, and its evidence has a hash.
LEMMA LookedAt ==
  ASSUME Types, Echoes, NEW p \in Quiet, Active(p)
  PROVE  disk[p] # None /\ write[p].hash # None
<1>1. Covered(p) /\ Own(p)
  BY DEF Echoes, Proven
<1>2. disk[p] # None
  BY <1>1 DEF Covered
<1>3. CASE Works(p, {"write"})
  <2>1. write[p].hash = reader.hash
    BY <1>1, <1>3 DEF Own, Works
  <2>2. reader.hash # None
    BY <1>3, ReaderAt DEF Works, Types
  <2>3. QED BY <1>2, <2>1, <2>2
<1>4. CASE ~Works(p, {"write"})
  BY <1>1, <1>2, <1>4 DEF Covered
<1>5. QED BY <1>3, <1>4

\* Still nobody is about to send a quiet note.
LEMMA SilentStays ==
  ASSUME Types, Tokens, Echoes, [Next]_vars, NEW i \in Calls
  PROVE  Silent(i)'
<1> DEFINE c == calls'[i]
<1>1. CASE c = calls[i]
  BY <1>1, TroubledGrows DEF Echoes, Silent
<1>2. CASE c # calls[i]
  <2>0. Callback(i) /\ troubled \subseteq troubled'
    BY <1>2, OwnStep, TroubledGrows
  <2>a. ASSUME NEW d \in Callbacks \cup {Idle}, calls' = [calls EXCEPT ![i] = d]
        PROVE  c = d
    BY <2>a DEF Types, CallTypes
  <2>b. ASSUME c.path \in troubled \/ c.at \in {"idle", "look", "rename", "decide"}
        PROVE  Silent(i)'
    BY <2>0, <2>b DEF Silent
  <2>1. CASE Report(i)
    <3>1. PICK e \in events, d \in Callbacks :
            /\ calls' = [calls EXCEPT ![i] = d]
            /\ d.at = "rename" \/ \E p \in Paths :
                 e = <<p>> /\ d.path = p /\ d.at = IF disk[p] = None THEN "delete" ELSE "look"
      BY <2>1, Reported
    <3>2. c = d
      BY <2>a, <3>1
    <3>3. ASSUME NEW p \in Paths, e = <<p>>, d.path = p, d.at = "delete", disk[p] = None
          PROVE  p \in troubled
      <4>1. Active(p)
        BY <3>3, ActiveIf
      <4>2. QED BY <3>3, <4>1, LookedAt DEF Quiet
    <3>4. QED BY <2>b, <3>1, <3>2, <3>3
  <2>2. CASE BeginRecheck(i)
    BY <2>2, <2>a, <2>b, Rechecked
  <2>3. CASE Look(i)
    <3>1. PICK d \in Callbacks :
              /\ calls' = [calls EXCEPT ![i] = d] /\ d.path = calls[i].path
              /\ d.at = "decide" \/ write[d.path].hash = None \/ disk[d.path] = None
      BY <2>3, Looked
    <3>2. calls[i].at = "look" /\ d.path \in Paths
      BY <2>3, <3>1, Looked
    <3>3. Active(d.path)
      BY <3>1, <3>2, ActiveIf
    <3>4. d.at = "decide" \/ d.path \in troubled
      BY <3>1, <3>2, <3>3, LookedAt DEF Quiet
    <3>5. QED BY <2>a, <2>b, <3>1, <3>4
  <2>4. CASE Decide(i)
    <3>1. PICK d \in Callbacks \cup {Idle} :
            calls' = [calls EXCEPT ![i] = d] /\ (d # Idle => d.path = calls[i].path)
      BY <2>4, Decided
    <3>2. calls[i].path \in Paths
      BY <2>4, Decided
    <3>3. CASE calls[i].path \in troubled
      BY <2>a, <2>b, <3>1, <3>3, Values
    <3>4. CASE calls[i].path \in Quiet
      BY <2>4, <2>a, <2>b, <3>4, QuietDecides, Values
    <3>5. QED BY <3>2, <3>3, <3>4 DEF Quiet
  <2>5. CASE Read(i) \/ SendModify(i) \/ DeleteSeen(i) \/ DeleteMissing(i) \/ SendDelete(i)
    <3>1. /\ calls[i].at \in {"read", "send", "delete", "missing", "gone"}
          /\ \E d \in Callbacks \cup {Idle} :
               calls' = [calls EXCEPT ![i] = d] /\ (d # Idle => d.path = calls[i].path)
      BY <2>5, WentOn
    <3>2. calls[i].path \in troubled
      BY <3>1 DEF Echoes, Silent
    <3>3. QED BY <2>a, <2>b, <3>1, <3>2, Values
  <2>6. CASE Renamed(i)
    <3>1. \E d \in Callbacks \cup {Idle} :
            calls' = [calls EXCEPT ![i] = d] /\ (d # Idle => d.path = calls[i].path)
      BY <2>6, RenameHeard
    <3>2. calls' = [calls EXCEPT ![i] = Idle] \/ calls[i].path \in troubled
      BY <2>6, QuietRename
    <3>3. QED BY <2>a, <2>b, <3>1, <3>2, Values
  <2>7. QED BY <2>0, <2>1, <2>2, <2>3, <2>4, <2>5, <2>6 DEF Callback
<1>3. QED BY <1>1, <1>2

\* The mark of a rename stays while its report is under way.
LEMMA MarkStays ==
  ASSUME Types, Echoes, [Next]_vars, NEW old \in Paths, NEW new \in Paths, old # new,
         Marked(old, new), Active(new), Busy(new)
  PROVE  Marked(old, new)'
<1>a. /\ renamed \in [Paths -> Marks] /\ EchoTypes
      /\ troubled \subseteq troubled'
  BY TroubledGrows DEF Types, EchoTypes
<1>b. SUFFICES ASSUME new \in Quiet' PROVE renamed'[new] = <<old, new>>
  BY <1>a DEF Marked
<1>c. new \in Quiet /\ renamed[new] = <<old, new>>
  BY <1>a, <1>b DEF Quiet, Marked
<1>d. renamed[new] # <<>> /\ renamed[new][1] # new
  BY <1>c
<1>e. SUFFICES renamed'[new] = renamed[new]
  BY <1>c
<1>1. ASSUME NEW q \in Paths, NEW h \in Versions, BeginRemoteWrite(q, h)
      PROVE  renamed'[new] = renamed[new]
  BY <1>a, <1>d, <1>1, Began
<1>2. CASE BeginModify \/ BeginMtime \/ BeginRename
  <2>1. CASE UNCHANGED echo
    BY <2>1 DEF echo
  <2>2. CASE ~UNCHANGED echo
    <3>1. Handle("Modify") \/ Handle("Mtime") \/ Handle("Rename")
      BY <1>2 DEF BeginModify, BeginMtime, BeginRename
    <3>2. Head(inbox).path \in Paths /\ Head(inbox).content \in Versions
      BY <3>1, Handled DEF MessageTypes
    <3>3. pending[Head(inbox).path] \in Versions /\ base[Head(inbox).path] \in Versions
      BY <3>2 DEF Types, NoteTypes
    <3>4. \E h \in Versions : BeginRemoteWrite(Head(inbox).path, h)
      BY <1>2, <2>2, <3>2, <3>3 DEF BeginModify, BeginMtime, BeginRename
    <3>5. QED BY <1>1, <3>2, <3>4
  <2>3. QED BY <2>1, <2>2
<1>3. CASE MoveNote
  <2>1. reader.at = "move" /\ P \in Paths /\ reader.msg.old \in Paths
    BY <1>3, ReaderAt DEF MoveNote, At, Types
  <2>2. new # reader.msg.old
    BY <1>3, <1>b DEF MoveNote, Quiet
  <2>3. new # P
    <3>1. disk[new] # None /\ Moving(new)
      BY <1>c, LookedAt DEF Echoes, Proven
    <3>2. QED BY <2>1, <3>1 DEF Moving, Works
  <2>4. \/ renamed' = renamed
        \/ \E r : renamed' = [renamed EXCEPT ![reader.msg.old] = r, ![P] = r]
    BY <1>3 DEF MoveNote
  <2>5. QED BY <1>a, <2>1, <2>2, <2>3, <2>4
<1>4. CASE \E i \in Calls : Read(i)
  BY <1>4, <1>a, <1>d DEF Read, ForgetDelete
<1>5. CASE \E i \in Calls : Renamed(i)
  <2>1. PICK i \in Calls : Renamed(i)
    BY <1>5
  <2>2. CASE UNCHANGED echo
    BY <2>2 DEF echo
  <2>3. CASE calls[i].path \in troubled /\ calls[i].old \in troubled
    <3>1. new # calls[i].path /\ new # calls[i].old
      BY <1>c, <2>3 DEF Quiet
    <3>2. /\ calls[i].path \in Paths /\ calls[i].old \in Paths
          /\ \/ renamed' = renamed
             \/ renamed' = [renamed EXCEPT ![calls[i].old] = <<>>, ![calls[i].path] = <<>>]
      BY <2>1, RenameHeard DEF echo
    <3>3. QED BY <1>a, <3>1, <3>2
  <2>4. QED BY <2>1, <2>2, <2>3, QuietRename
<1>6. CASE \E q \in Paths : EvidenceExpires(q)
  <2>1. PICK q \in Paths : ~Busy(q) /\ renamed' = [renamed EXCEPT ![q] = <<>>]
    BY <1>6 DEF EvidenceExpires
  <2>2. QED BY <1>a, <2>1
<1>7. CASE \/ WriteNote \/ WriteFails \/ VerifyNote \/ FinishModify \/ FinishMtime \/ CheckDelete
           \/ RemoveNote \/ HandleAck \/ User \/ Service \/ UNCHANGED vars
  BY <1>7 DEF WriteNote, WriteFails, VerifyNote, FinishModify, FinishMtime, CheckDelete,
       RemoveNote, HandleAck, User, Edit, UserDelete, Touch, Service, ServiceModifies,
       ServiceTouches, ServiceDeletes, ServiceRenames, Ask, echo, vars
<1>8. ASSUME NEW i \in Calls, ~Read(i), ~Renamed(i), Callback(i)
      PROVE  renamed' = renamed
  BY <1>8 DEF Callback, Report, BeginRecheck, Look, Decide, SendModify, DeleteSeen,
              DeleteMissing, SendDelete, CallFrame, echo
<1>9. QED BY <1>2, <1>3, <1>4, <1>5, <1>6, <1>7, <1>8 DEF Next, Daemon, ReadLoop, Callback

\* A report of a rename keeps both of its notes busy.
LEMMA RenameIsBusy ==
  ASSUME Types, NEW r \in Renames
  PROVE  /\ r \in events => Busy(r[2]) /\ Active(r[2])
         /\ \A i \in Calls : calls[i].at = "rename" /\ calls[i].path = r[2] =>
              Busy(r[2]) /\ Active(r[2])
<1>1. r[2] \in Paths
  BY Values
<1>2. r \in events => Reports(r[2]) # {}
  BY <1>1, ReportsOf DEF Types
<1>3. QED BY <1>1, <1>2, ActiveIf DEF Busy

\* Reports of renames are those of moves that are marked.
LEMMA MarksStay ==
  ASSUME Types, Echoes, [Next]_vars, NEW new, new \subseteq Renames,
         \A r \in Renames : r \in events' => r \in events \/ r \in new,
         \A r \in new : Marked(r[1], r[2])'
  PROVE  RenamesMarked'
<1>1. ASSUME NEW r \in Renames, r \in events' PROVE Marked(r[1], r[2])'
  <2>1. CASE r \in new
    BY <2>1
  <2>2. CASE r \in events
    <3>1. Marked(r[1], r[2]) /\ r[1] \in Paths /\ r[2] \in Paths /\ r[1] # r[2]
      BY <2>2, Values DEF Echoes, RenamesMarked
    <3>2. QED BY <2>2, <3>1, RenameIsBusy, MarkStays
  <2>3. QED BY <1>1, <2>1, <2>2
<1>2. ASSUME NEW i \in Calls, calls'[i].at = "rename"
      PROVE  Marked(calls[i].old, calls[i].path)'
  <2>1. CASE calls'[i] = calls[i]
    <3>1. <<calls[i].old, calls[i].path>> \in Renames /\ calls[i].at = "rename"
      BY <1>2, <2>1, CallStands
    <3>2. PICK r \in Renames : r = <<calls[i].old, calls[i].path>>
      BY <3>1
    <3>3. Marked(r[1], r[2]) /\ r[1] \in Paths /\ r[2] \in Paths /\ r[1] # r[2]
      BY <3>1, <3>2, Values DEF Echoes, RenamesMarked
    <3>4. Marked(r[1], r[2])'
      BY <3>1, <3>2, <3>3, RenameIsBusy, MarkStays
    <3>5. QED BY <2>1, <3>2, <3>4 DEF Marked
  <2>2. CASE calls'[i] # calls[i]
    <3>1. Callback(i)
      BY <2>2, OwnStep
    <3>2. ASSUME NEW d \in Callbacks \cup {Idle}, calls' = [calls EXCEPT ![i] = d]
          PROVE  calls'[i] = d
      BY <3>2 DEF Types, CallTypes
    <3>3. ~BeginRecheck(i) /\ ~Look(i) /\ ~Decide(i) /\ ~Renamed(i)
      <4>1. Idle.at # "rename"
        BY Values
      <4>2. ~BeginRecheck(i)
        BY <1>2, <3>2, Rechecked
      <4>3. ~Look(i)
        BY <1>2, <3>2, Looked
      <4>4. ~Decide(i)
        <5>1. SUFFICES ASSUME Decide(i) PROVE FALSE
          OBVIOUS
        <5>2. PICK c \in Callbacks \cup {Idle} :
                calls' = [calls EXCEPT ![i] = c] /\ (c = Idle \/ c.at \in {"look", "read"})
          BY <5>1, Decided
        <5>3. QED BY <1>2, <3>2, <4>1, <5>2
      <4>5. ~Renamed(i)
        <5>1. SUFFICES ASSUME Renamed(i) PROVE FALSE
          OBVIOUS
        <5>2. PICK c \in Callbacks \cup {Idle} :
                calls' = [calls EXCEPT ![i] = c] /\ (c = Idle \/ c.at = "read")
          BY <5>1, RenameHeard
        <5>3. QED BY <1>2, <3>2, <4>1, <5>2
      <4>6. QED BY <4>2, <4>3, <4>4, <4>5
    <3>4. ~(Read(i) \/ SendModify(i) \/ DeleteSeen(i) \/ DeleteMissing(i) \/ SendDelete(i))
      BY <1>2, <3>2, Values, WentOn
    <3>5. Report(i)
      BY <3>1, <3>3, <3>4 DEF Callback
    <3>6. PICK e \in events, d \in Callbacks :
              /\ calls' = [calls EXCEPT ![i] = d]
              /\ (e \in Renames /\ d.old = e[1] /\ d.path = e[2]) \/ d.at \in {"delete", "look"}
      BY <3>5, Reported
    <3>7. e \in Renames /\ calls'[i].old = e[1] /\ calls'[i].path = e[2]
      BY <1>2, <3>2, <3>6
    <3>8. Marked(e[1], e[2]) /\ e[1] \in Paths /\ e[2] \in Paths /\ e[1] # e[2]
      BY <3>6, <3>7, Values DEF Echoes, RenamesMarked
    <3>9. Marked(e[1], e[2])'
      BY <3>6, <3>7, <3>8, RenameIsBusy, MarkStays
    <3>10. QED BY <3>7, <3>9 DEF Marked
  <2>3. QED BY <2>1, <2>2
<1>3. QED BY <1>1, <1>2 DEF RenamesMarked, Marked

\* A callback sends troubled notes only.
LEMMA CallbackSends ==
  ASSUME Types, Echoes, NEW i \in Calls, Callback(i)
  PROVE  \/ inbox' = inbox
         \/ \E m \in Messages : /\ inbox' = Append(inbox, m)
                                /\ m.type = "Ack" /\ m.path \in troubled
<1>1. CASE SendModify(i) \/ SendDelete(i)
  <2> DEFINE p == calls[i].path
  <2>1. calls[i].at \in {"send", "gone"}
    BY <1>1 DEF SendModify, SendDelete, Atop
  <2>2. /\ p \in Paths /\ p \in troubled /\ calls[i].got \in Versions /\ None \in Versions
    BY <2>1, CallStands, Values DEF Echoes, Silent
  <2>3. inbox' = inbox \/ \E c \in Versions : Push(p, c)
    BY <1>1, <2>2 DEF SendModify, SendDelete
  <2>4. ASSUME NEW c \in Versions
        PROVE  /\ Message("Ack", p, None, c) \in Messages
               /\ Message("Ack", p, None, c).type = "Ack"
               /\ Message("Ack", p, None, c).path = p
    BY <2>2, MessageMade DEF Message
  <2>5. QED BY <2>2, <2>3, <2>4 DEF Push
<1>2. CASE ~(SendModify(i) \/ SendDelete(i))
  BY <1>2 DEF Callback, Report, BeginRecheck, Look, Decide, Read, DeleteSeen, DeleteMissing,
              Renamed, CallFrame
<1>3. QED BY <1>1, <1>2

\* A message of the service that is handled, asked or sent by another step.
LEMMA InboxStep ==
  ASSUME Types, Echoes, [Next]_vars
  PROVE  \/ inbox' = inbox
         \/ inbox # <<>> /\ inbox' = Tail(inbox)
         \/ \E m \in Messages : /\ inbox' = Append(inbox, m)
                                /\ m.type = "Ack" => m.path \in troubled
<1>1. CASE \E i \in Calls : Callback(i)
  BY <1>1, CallbackSends
<1>2. CASE ReadLoop
  BY <1>2 DEF ReadLoop, BeginModify, WriteNote, WriteFails, VerifyNote, FinishModify,
     BeginMtime, FinishMtime, CheckDelete, RemoveNote, BeginRename, MoveNote, HandleAck, Handle
<1>3. CASE Service
  <2>1. PICK m \in Messages, new \in [Paths -> Versions] : Ask(m, new) /\ m.type # "Ack"
    BY <1>3, Asked
  <2>2. QED BY <2>1 DEF Ask
<1>4. CASE User \/ (\E p \in Paths : EvidenceExpires(p)) \/ UNCHANGED vars
  BY <1>4 DEF User, Edit, UserDelete, Touch, EvidenceExpires, vars
<1>5. QED BY <1>1, <1>2, <1>3, <1>4 DEF Next, Daemon

\* Only troubled notes are acknowledged.
LEMMA AcksStay ==
  ASSUME Types, Echoes, [Next]_vars
  PROVE  AcksOfTroubled'
<1>1. troubled \subseteq troubled' /\ inbox \in Seq(Messages)
  BY TroubledGrows DEF Types, ReaderTypes
<1>2. \A k \in 1..Len(inbox) : inbox[k].type = "Ack" => inbox[k].path \in troubled
  BY DEF Echoes, AcksOfTroubled
<1>3. SUFFICES ASSUME NEW k \in 1..Len(inbox'), inbox'[k].type = "Ack"
               PROVE  inbox'[k].path \in troubled
  BY <1>1 DEF AcksOfTroubled
<1>4. CASE inbox' = inbox
  BY <1>2, <1>3, <1>4
<1>5. CASE inbox # <<>> /\ inbox' = Tail(inbox)
  <2>1. k + 1 \in 1..Len(inbox) /\ inbox'[k] = inbox[k + 1]
    BY <1>1, <1>5
  <2>2. QED BY <1>2, <1>3, <2>1
<1>6. CASE \E m \in Messages : /\ inbox' = Append(inbox, m)
                               /\ m.type = "Ack" => m.path \in troubled
  <2>1. PICK m \in Messages : /\ inbox' = Append(inbox, m)
                              /\ m.type = "Ack" => m.path \in troubled
    BY <1>6
  <2>2. CASE k = Len(inbox) + 1
    <3>1. inbox'[k] = m
      BY <1>1, <2>1, <2>2
    <3>2. QED BY <1>3, <2>1, <3>1
  <2>3. CASE k # Len(inbox) + 1
    <3>1. k \in 1..Len(inbox) /\ inbox'[k] = inbox[k]
      BY <1>1, <2>1, <2>3
    <3>2. QED BY <1>2, <1>3, <3>1
  <2>4. QED BY <2>2, <2>3
<1>7. QED BY <1>4, <1>5, <1>6, InboxStep

-----------------------------------------------------------------------------
(* What a step leaves of a quiet note.                                       *)

\* Callbacks leave what is known of a quiet note, and the order of its messages.
LEMMA CallbackEchoes ==
  ASSUME Types, Tokens, Echoes, NEW i \in Calls, Callback(i), NEW p \in Quiet
  PROVE  Proven(p)' /\ InOrder(p)'
<1>1. p \in Paths /\ Proven(p) /\ InOrder(p)
  BY DEF Quiet, Echoes
<1>2. /\ Kept(write[p], write'[p])
      /\ pending'[p] = pending[p] /\ svc'[p] = svc[p]
      /\ Active(p)' => Active(p)
  BY QuietCallback
<1>3. UNCHANGED <<disk, base, reader>>
  BY DEF Callback, Report, BeginRecheck, Look, Decide, Read, SendModify, DeleteSeen,
         DeleteMissing, SendDelete, Renamed, CallFrame, books
<1>4. Known(p)'
  BY <1>1, <1>2, <1>3 DEF Proven, Known, Works, P
<1>5. Covered(p)'
  BY <1>1, <1>2, <1>3 DEF Proven, Covered, Works, P, Kept
<1>6. Own(p)'
  BY <1>1, <1>2, <1>3 DEF Proven, Own, Works, P, Kept
<1>7. Moving(p)'
  BY <1>1, <1>3 DEF Proven, Moving, Works, Leaves, P
<1>8. InOrder(p)'
  <2>1. PICK v \in Versions : StartsAt(p, v) /\ Leads(inbox, p, v, svc[p])
    BY <1>1 DEF InOrder
  <2>2. StartsAt(p, v)'
    BY <1>3, <2>1 DEF StartsAt, Works, Leaves, P
  <2>3. Leads(inbox', p, v, svc[p])
    <3>1. CASE inbox' = inbox
      BY <2>1, <3>1
    <3>2. CASE \E m \in Messages : /\ inbox' = Append(inbox, m)
                                   /\ m.type = "Ack" /\ m.path \in troubled
      <4>1. PICK m \in Messages : inbox' = Append(inbox, m) /\ m.type = "Ack"
        BY <3>2
      <4>2. PICK w \in Versions : w = svc[p]
        BY <1>1 DEF Types, NoteTypes
      <4>3. Presumes(m, p, w) /\ Apply(m, p, w) = w
        BY <4>1 DEF Presumes, Apply
      <4>4. inbox \in Seq(Messages)
        BY DEF Types, ReaderTypes
      <4>5. Leads(Append(inbox, m), p, v, Apply(m, p, w))
        BY <1>1, <2>1, <4>2, <4>3, <4>4, LeadsAppend
      <4>6. QED BY <4>1, <4>2, <4>3, <4>5
    <3>3. QED BY <3>1, <3>2, CallbackSends
  <2>4. Leads(inbox, p, v, svc[p])'
    BY <1>2, <2>3 DEF Leads
  <2>5. QED BY <2>2, <2>4 DEF InOrder
<1>9. QED BY <1>4, <1>5, <1>6, <1>7, <1>8 DEF Proven

\* A note that the handler of the read loop neither writes nor moves.
Bystands(p) == (reader.at # "idle" => P # p) /\ ~Leaves(p)

\* The report of one note is none of another.
LEMMA NotAbout ==
  ASSUME NEW p \in Paths, NEW q \in Paths, p # q
  PROVE  <<q>> \notin About(p) /\ <<q>> \notin Renames
<1>1. \A r \in Renames : Len(r) = 2
  BY Values
<1>2. <<q>> \notin Renames
  BY <1>1
<1>3. QED BY <1>2 DEF About

\* A bystander of a handler's step.
LEMMA Aside ==
  ASSUME Types, Types', NEW p \in Paths, Proven(p), Bystands(p), Bystands(p)',
         disk'[p] = disk[p], base'[p] = base[p], pending'[p] = pending[p],
         write'[p] = write[p], rechecks'[p] = rechecks[p], calls' = calls,
         events' \cap About(p) \subseteq events
  PROVE  Proven(p)'
<1>1. Active(p)' => Active(p)
  <2>1. /\ rechecks[p] > 0 => Active(p)
        /\ write[p].recheck => Active(p)
        /\ \A i \in Calls : calls[i].at # "idle" /\ calls[i].path = p => Active(p)
    BY DEF Active
  <2>2. QED BY <2>1, ActiveBefore
<1>2. \A stages : "idle" \notin stages => ~Works(p, stages) /\ ~Works(p, stages)'
  BY DEF Bystands, Works
<1>3. Known(p)'
  BY <1>2 DEF Proven, Known
<1>4. Covered(p)'
  BY <1>1, <1>2 DEF Proven, Covered
<1>5. Own(p)' /\ Moving(p)'
  BY <1>2 DEF Own, Moving, Bystands
<1>6. QED BY <1>3, <1>4, <1>5 DEF Proven

\* The messages of a bystander stay in order.
LEMMA AsideInOrder ==
  ASSUME NEW p \in Paths, InOrder(p), Bystands(p), Bystands(p)', disk'[p] = disk[p],
         UNCHANGED <<inbox, svc>>
  PROVE  InOrder(p)'
<1>1. PICK v \in Versions : StartsAt(p, v) /\ Leads(inbox, p, v, svc[p])
  BY DEF InOrder
<1>2. StartsAt(p, v)'
  BY <1>1 DEF StartsAt, Works, Bystands
<1>3. Leads(inbox, p, v, svc[p])'
  BY <1>1 DEF Leads
<1>4. QED BY <1>2, <1>3 DEF InOrder

\* The message that is taken takes the note from what it should be to what the next
\* ones take it for.
LEMMA Taken ==
  ASSUME Types, NEW t \in MessageTypes, Handle(t), svc' = svc, NEW p \in Paths, InOrder(p)
  PROVE  \E v, w \in Versions :
           /\ disk[p] \in {None, v} /\ Presumes(Head(inbox), p, v)
           /\ w = Apply(Head(inbox), p, v)
           /\ StartsAt(p, w)' => InOrder(p)'
<1>1. PICK v \in Versions : StartsAt(p, v) /\ Leads(inbox, p, v, svc[p])
  BY DEF InOrder
<1>2. reader = Asleep /\ inbox # <<>> /\ inbox' = Tail(inbox) /\ inbox \in Seq(Messages)
  BY DEF Handle, Types, ReaderTypes
<1>3. disk[p] \in {None, v}
  BY <1>1, <1>2, Values DEF StartsAt, Works, Leaves
<1>4. svc[p] \in Versions
  BY DEF Types, NoteTypes
<1>5. PICK w : w = Apply(Head(inbox), p, v)
  OBVIOUS
<1>6. Presumes(Head(inbox), p, v) /\ w \in Versions /\ Leads(Tail(inbox), p, w, svc[p])
  BY <1>1, <1>2, <1>4, <1>5, LeadsTail
<1>7. Leads(inbox, p, w, svc[p])'
  BY <1>2, <1>6 DEF Leads
<1>8. StartsAt(p, w)' => InOrder(p)'
  BY <1>6, <1>7 DEF InOrder
<1>9. QED BY <1>3, <1>5, <1>6, <1>8

-----------------------------------------------------------------------------
(* What the handlers leave of a quiet note: of a modify.                     *)

\* The new evidence remembers the hash of the note that is there.
LEMMA BeginModifyEchoes ==
  ASSUME Types, Types', Echoes, BeginModify, NEW p \in Quiet
  PROVE  Proven(p)' /\ InOrder(p)'
<1> DEFINE m == Head(inbox)
<1>1. p \in Paths /\ Proven(p) /\ InOrder(p)
  BY DEF Quiet, Echoes
<1>2. Handle("Modify") /\ "Modify" \in MessageTypes
  BY DEF BeginModify, MessageTypes
<1>3. /\ reader = Asleep /\ m.type = "Modify" /\ m.path \in Paths
      /\ m.content \in Versions /\ m.content # None
  BY <1>2, Handled
<1>4. BeginRemoteWrite(m.path, m.content) /\ EchoTypes
  BY DEF BeginModify, Types
<1>5. UNCHANGED <<disk, base, pending, events, rechecks, calls, svc>>
  BY DEF BeginModify, HandlerFrame, books, service
<1>6. /\ write'[m.path].token = echoSeq' /\ write'[m.path].inFlight
      /\ write'[m.path].hash = m.content /\ write'[m.path].prev = write[m.path].hash
      /\ write'[m.path].recheck <=> write[m.path].recheck
      /\ p # m.path => write'[p] = write[p]
  BY <1>1, <1>3, <1>4, Began
<1>7. /\ reader'.at = "write" /\ reader'.msg = m /\ reader'.token = echoSeq'
      /\ reader'.hash = m.content /\ P' = m.path
  BY DEF BeginModify, Goto, P
<1>8. ~Works(p, {"verify", "finish"}) /\ ~Works(p, {"write"}) /\ Bystands(p)
  BY <1>3, Values DEF Works, Bystands, Leaves
<1>9. Proven(p)'
  <2>1. CASE p = m.path
    <3>1. Active(p)' => Active(p)
      <4>1. events' \cap About(p) \subseteq events
        BY <1>5
      <4>2. /\ rechecks'[p] > 0 => Active(p)
            /\ write'[p].recheck => Active(p)
            /\ \A i \in Calls : calls'[i].at # "idle" /\ calls'[i].path = p => Active(p)
        BY <1>5, <1>6, <2>1 DEF Active
      <4>3. QED BY <1>1, <4>1, <4>2, ActiveBefore
    <3>2. Known(p)'
      BY <1>1, <1>5, <1>7, <1>8 DEF Proven, Known, Works
    <3>3. Covered(p)'
      BY <1>1, <1>5, <1>6, <1>7, <1>8, <2>1, <3>1 DEF Proven, Covered, Works
    <3>4. Own(p)' /\ Moving(p)'
      BY <1>6, <1>7, <2>1 DEF Own, Moving, Works, Leaves
    <3>5. QED BY <3>2, <3>3, <3>4 DEF Proven
  <2>2. CASE p # m.path
    <3>1. Bystands(p)'
      BY <1>7, <2>2 DEF Bystands, Leaves
    <3>2. QED BY <1>1, <1>5, <1>6, <1>8, <2>2, <3>1, Aside
  <2>3. QED BY <2>1, <2>2
<1>10. InOrder(p)'
  <2>1. PICK v, w \in Versions : /\ disk[p] \in {None, v} /\ w = Apply(m, p, v)
                                 /\ StartsAt(p, w)' => InOrder(p)'
    BY <1>1, <1>2, <1>5, Taken
  <2>2. StartsAt(p, w)'
    BY <1>3, <1>5, <1>7, <2>1 DEF StartsAt, Works, Leaves, Apply
  <2>3. QED BY <2>1, <2>2
<1>11. QED BY <1>9, <1>10

\* The note that is written is the one the evidence is of.
LEMMA WriteNoteEchoes ==
  ASSUME Types, Types', Echoes, WriteNote, NEW p \in Quiet
  PROVE  Proven(p)' /\ InOrder(p)'
<1>1. p \in Paths /\ Proven(p) /\ InOrder(p)
  BY DEF Quiet, Echoes
<1>2. reader.at = "write"
  BY DEF WriteNote, At
<1>3. reader \in Handlers /\ P \in Paths /\ reader.hash \in Versions /\ reader.hash # None
  BY <1>2, ReaderAt DEF Types
<1>4. UNCHANGED <<base, pending, write, rechecks, calls, inbox, svc>>
  BY DEF WriteNote, HandlerFrame, books, echo, service
<1>5. /\ reader'.at = "verify" /\ reader'.msg = reader.msg /\ reader'.token = reader.token
      /\ reader'.hash = reader.hash /\ P' = P
  BY <1>3 DEF WriteNote, Handlers, P
<1>6. /\ disk'[P] = reader.hash
      /\ p # P => disk'[p] = disk[p]
      /\ events' = events \cup {<<P>>}
  BY <1>1, <1>3 DEF WriteNote, Types, NoteTypes
<1>7. CASE p = P
  <2>1. Works(p, {"write"}) /\ ~Works(p, {"verify", "finish"}) /\ ~Leaves(p)
    BY <1>2, <1>7 DEF Works, Leaves
  <2>2. Own(p)
    BY <1>1 DEF Proven
  <2>3. write[p].token = reader.token /\ write[p].inFlight /\ write[p].hash = reader.hash
    BY <1>2, <1>7, <2>2 DEF Own, Works
  <2>4. Known(p)'
    BY <1>1, <1>4, <1>5, <1>6, <1>7 DEF Proven, Known, Works
  <2>5. Covered(p)'
    BY <1>3, <1>4, <1>5, <1>6, <1>7, <2>3 DEF Covered, Works
  <2>6. Own(p)' /\ Moving(p)'
    BY <1>4, <1>5, <2>3 DEF Own, Moving, Works, Leaves
  <2>7. InOrder(p)'
    <3>1. PICK v \in Versions : StartsAt(p, v) /\ Leads(inbox, p, v, svc[p])
      BY <1>1 DEF InOrder
    <3>2. v = reader.hash
      BY <1>2, <1>7, <3>1 DEF StartsAt, Works
    <3>3. StartsAt(p, v)'
      BY <1>5, <1>6, <1>7, <3>2 DEF StartsAt, Works, Leaves
    <3>4. Leads(inbox, p, v, svc[p])'
      BY <1>4, <3>1 DEF Leads
    <3>5. QED BY <3>3, <3>4 DEF InOrder
  <2>8. QED BY <2>4, <2>5, <2>6, <2>7 DEF Proven
<1>8. CASE p # P
  <2>1. Bystands(p) /\ Bystands(p)'
    BY <1>2, <1>5, <1>8 DEF Bystands, Leaves
  <2>2. events' \cap About(p) \subseteq events
    BY <1>1, <1>3, <1>6, <1>8, NotAbout
  <2>3. disk'[p] = disk[p] /\ base'[p] = base[p] /\ pending'[p] = pending[p]
        /\ write'[p] = write[p] /\ rechecks'[p] = rechecks[p]
    BY <1>4, <1>6, <1>8
  <2>4. Proven(p)'
    BY <1>1, <1>4, <2>1, <2>2, <2>3, Aside
  <2>5. InOrder(p)'
    BY <1>1, <1>4, <2>1, <2>3, AsideInOrder
  <2>6. QED BY <2>4, <2>5
<1>9. QED BY <1>7, <1>8

\* A handler whose note is another one only touches the evidence of that one, or what
\* is known of it.
LEMMA OtherNote ==
  ASSUME Types, Types', Echoes, NEW p \in Quiet, P \in Paths, p # P,
         reader.at # "idle", ~Leaves(p), reader' = Asleep \/ (reader'.at = "finish" /\ P' = P),
         NEW e \in Evidences, Replaced(P, e) \/ UNCHANGED <<write, rechecks>>,
         base'[p] = base[p], pending'[p] = pending[p],
         UNCHANGED <<disk, calls, events, inbox, svc>>
  PROVE  Proven(p)' /\ InOrder(p)'
<1>1. p \in Paths /\ Proven(p) /\ InOrder(p) /\ EchoTypes
  BY DEF Quiet, Echoes, Types
<1>2. Bystands(p) /\ Bystands(p)'
  BY Values DEF Bystands, Leaves
<1>3. write'[p] = write[p] /\ rechecks'[p] = rechecks[p]
  BY <1>1, ReplacedOne
<1>4. events' \cap About(p) \subseteq events
  OBVIOUS
<1>5. Proven(p)'
  BY <1>1, <1>2, <1>3, <1>4, Aside
<1>6. InOrder(p)'
  BY <1>1, <1>2, AsideInOrder
<1>7. QED BY <1>5, <1>6

\* The note that could not be written is troubled; the others are bystanders.
LEMMA WriteFailsEchoes ==
  ASSUME Types, Types', Echoes, WriteFails, NEW p \in Quiet, p \notin troubled'
  PROVE  Proven(p)' /\ InOrder(p)'
<1>1. reader.at = "write"
  BY DEF WriteFails, At
<1>2. P \in Paths /\ reader.token \in Nat /\ EchoTypes
  BY <1>1, ReaderAt DEF Types
<1>3. p # P /\ ~Leaves(p) /\ reader' = Asleep
  BY <1>1 DEF WriteFails, Leaves, Return
<1>4. /\ Replaced(P, NoEvidence) \/ UNCHANGED <<write, rechecks>>
      /\ NoEvidence \in Evidences
  BY <1>2, Aborted, Values DEF WriteFails
<1>5. UNCHANGED <<disk, base, pending, calls, events, inbox, svc>>
  BY DEF WriteFails, books, service
<1>6. QED BY <1>1, <1>2, <1>3, <1>4, <1>5, OtherNote

\* A quiet note is what was written.
LEMMA VerifyNoteEchoes ==
  ASSUME Types, Types', Echoes, VerifyNote, NEW p \in Quiet
  PROVE  Proven(p)' /\ InOrder(p)'
<1>1. p \in Paths /\ Proven(p) /\ InOrder(p)
  BY DEF Quiet, Echoes
<1>2. reader.at = "verify"
  BY DEF VerifyNote, At
<1>3. reader \in Handlers /\ P \in Paths /\ reader.token \in Nat /\ EchoTypes
  BY <1>2, ReaderAt DEF Types
<1>4. UNCHANGED <<disk, pending, events, calls, inbox, svc>> /\ ~Leaves(p)
  BY <1>2 DEF VerifyNote, HandlerFrame, Leaves, service
<1>5. CASE p = P
  <2>1. Works(p, {"verify", "finish"})
    BY <1>2, <1>5 DEF Works
  <2>2. disk[p] = reader.hash
    BY <1>1, <2>1 DEF Proven, Known
  <2>3. /\ UNCHANGED <<base, write, rechecks>> /\ reader' = [reader EXCEPT !.at = "finish"]
    BY <1>5, <2>2 DEF VerifyNote
  <2>4. /\ reader'.at = "finish" /\ reader'.msg = reader.msg /\ reader'.token = reader.token
        /\ reader'.hash = reader.hash /\ P' = P
    BY <1>3, <2>3 DEF Handlers, P
  <2>5. Active(p)' <=> Active(p)
    BY <1>4, <2>3 DEF Active, Reports
  <2>6. Known(p)' /\ Covered(p)' /\ Own(p)' /\ Moving(p)'
    BY <1>1, <1>2, <1>4, <1>5, <2>3, <2>4, <2>5
       DEF Proven, Known, Covered, Own, Moving, Works, Leaves
  <2>7. InOrder(p)'
    <3>1. PICK v \in Versions : StartsAt(p, v) /\ Leads(inbox, p, v, svc[p])
      BY <1>1 DEF InOrder
    <3>2. StartsAt(p, v)'
      BY <1>2, <1>4, <2>4, <3>1 DEF StartsAt, Works, Leaves
    <3>3. Leads(inbox, p, v, svc[p])'
      BY <1>4, <3>1 DEF Leads
    <3>4. QED BY <3>2, <3>3 DEF InOrder
  <2>8. QED BY <2>6, <2>7 DEF Proven
<1>6. CASE p # P
  <2>1. reader' = Asleep \/ (reader'.at = "finish" /\ P' = P)
    BY <1>3 DEF VerifyNote, Return, Handlers, P
  <2>2. /\ Replaced(P, NoEvidence) \/ UNCHANGED <<write, rechecks>>
        /\ NoEvidence \in Evidences
    BY <1>3, Aborted, Values DEF VerifyNote
  <2>3. base'[p] = base[p]
    BY <1>1, <1>3, <1>6 DEF VerifyNote, Types, NoteTypes
  <2>4. QED BY <1>2, <1>3, <1>4, <1>6, <2>1, <2>2, <2>3, OtherNote
<1>7. QED BY <1>5, <1>6

\* The handler settles the evidence of its own write: those who look at the note find
\* what they found.
LEMMA Settled ==
  ASSUME Types, Types', Echoes, NEW p \in Quiet, P = p,
         reader.at \in {"finish", "mtime"}, reader' = Asleep, reader.token # 0,
         FinishRemoteWrite(p, reader.token, reader.hash),
         base'[p] = disk[p], pending'[p] = None,
         UNCHANGED <<disk, calls, events, inbox, svc>>
  PROVE  Proven(p)' /\ InOrder(p)'
<1>1. p \in Paths /\ Proven(p) /\ InOrder(p) /\ EchoTypes
  BY DEF Quiet, Echoes, Types
<1>2. reader.token \in Nat \ {0} /\ reader.hash \in Versions
  BY ReaderAt DEF Types
<1>3. /\ write[p].token = reader.token /\ write[p].hash = reader.hash
  BY <1>1 DEF Proven, Own, Works
<1>4. PICK e \in Evidences : Replaced(p, e) /\ e.hash = reader.hash /\ ~e.recheck
  BY <1>1, <1>2, <1>3, Finished
<1>5. /\ write'[p] = e
      /\ rechecks'[p] > 0 => rechecks[p] > 0 \/ write[p].recheck
  BY <1>1, <1>4, ReplacedOne
<1>6. Active(p)' => Active(p)
  <2>1. events' \cap About(p) \subseteq events
    OBVIOUS
  <2>2. /\ rechecks'[p] > 0 => Active(p)
        /\ write'[p].recheck => Active(p)
        /\ \A i \in Calls : calls'[i].at # "idle" /\ calls'[i].path = p => Active(p)
    BY <1>4, <1>5 DEF Active
  <2>3. QED BY <1>1, <2>1, <2>2, ActiveBefore
<1>7. /\ ~Works(p, {"write"})
      /\ \A stages : "idle" \notin stages => ~Works(p, stages)'
      /\ ~Leaves(p) /\ ~Leaves(p)'
  BY Values DEF Works, Leaves
<1>8. Known(p)'
  BY <1>7 DEF Known
<1>9. Covered(p)'
  BY <1>1, <1>3, <1>4, <1>5, <1>6, <1>7 DEF Proven, Covered
<1>10. Own(p)' /\ Moving(p)'
  BY <1>7 DEF Own, Moving
<1>11. InOrder(p)'
  <2>1. PICK v \in Versions : StartsAt(p, v) /\ Leads(inbox, p, v, svc[p])
    BY <1>1 DEF InOrder
  <2>2. StartsAt(p, v)'
    BY <1>7, <2>1 DEF StartsAt, Works
  <2>3. Leads(inbox, p, v, svc[p])'
    BY <2>1 DEF Leads
  <2>4. QED BY <2>2, <2>3 DEF InOrder
<1>12. QED BY <1>8, <1>9, <1>10, <1>11 DEF Proven

\* A quiet note's evidence is settled with its hash.
LEMMA FinishModifyEchoes ==
  ASSUME Types, Types', Echoes, FinishModify, NEW p \in Quiet
  PROVE  Proven(p)' /\ InOrder(p)'
<1>1. p \in Paths /\ Proven(p)
  BY DEF Quiet, Echoes
<1>2. reader.at = "finish" /\ reader' = Asleep
  BY DEF FinishModify, At, Return
<1>3. /\ reader \in Handlers /\ P \in Paths /\ reader.token \in Nat \ {0} /\ EchoTypes
      /\ reader.hash \in Versions /\ reader.hash # None
  BY <1>2, ReaderAt DEF Types, Handlers
<1>4. UNCHANGED <<disk, events, calls, inbox, svc>> /\ ~Leaves(p)
  BY <1>2 DEF FinishModify, HandlerFrame, Leaves, service
<1>5. CASE p = P
  <2>1. disk[p] = reader.hash
    BY <1>1, <1>2, <1>5 DEF Proven, Known, Works
  <2>2. /\ FinishRemoteWrite(p, reader.token, reader.hash)
        /\ base'[p] = disk[p] /\ pending'[p] = None
    BY <1>1, <1>3, <1>5, <2>1 DEF FinishModify, Types, NoteTypes
  <2>3. QED BY <1>2, <1>3, <1>4, <1>5, <2>2, Settled
<1>6. CASE p # P
  <2>1. PICK e \in Evidences : Replaced(P, e) \/ UNCHANGED <<write, rechecks>>
    <3>1. CASE AbortRemoteWrite(P, reader.token)
      BY <1>3, <3>1, Aborted, Values
    <3>2. CASE FinishRemoteWrite(P, reader.token, reader.hash)
      BY <1>3, <3>2, Finished, Values
    <3>3. QED BY <3>1, <3>2 DEF FinishModify
  <2>2. base'[p] = base[p] /\ pending'[p] = pending[p]
    BY <1>1, <1>3, <1>6 DEF FinishModify, Types, NoteTypes, books
  <2>3. QED BY <1>2, <1>3, <1>4, <1>6, <2>1, <2>2, OtherNote
<1>7. QED BY <1>5, <1>6

-----------------------------------------------------------------------------
(* ... and of a change of its time, a delete and an acknowledgment.          *)

\* Without an edit the evidence is of what is known, which is what is there.
LEMMA BeginMtimeEchoes ==
  ASSUME Types, Types', Echoes, BeginMtime, NEW p \in Quiet
  PROVE  Proven(p)' /\ InOrder(p)'
<1>1. p \in Paths /\ Proven(p) /\ InOrder(p)
  BY DEF Quiet, Echoes
<1>2. Handle("Mtime") /\ "Mtime" \in MessageTypes
  BY DEF BeginMtime, MessageTypes
<1>3. PICK m \in Messages : m = Head(inbox)
  BY <1>2, Handled
<1>4. reader = Asleep /\ m.type = "Mtime" /\ m.path \in Paths
  BY <1>2, <1>3, Handled
<1>5. UNCHANGED <<disk, base, pending, events, rechecks, calls, svc>> /\ EchoTypes
  BY DEF BeginMtime, HandlerFrame, books, Types, service
<1>6. PICK h \in Versions : /\ BeginRemoteWrite(m.path, h)
                            /\ pending[m.path] = None => h = base[m.path]
  BY <1>3, <1>4 DEF BeginMtime, Types, NoteTypes
<1>7. /\ write'[m.path].token = echoSeq' /\ write'[m.path].inFlight
      /\ write'[m.path].hash = h
      /\ write'[m.path].recheck <=> write[m.path].recheck
      /\ p # m.path => write'[p] = write[p]
  BY <1>1, <1>4, <1>5, <1>6, Began
<1>8. /\ reader'.at = "mtime" /\ reader'.token = echoSeq'
      /\ reader'.hash = base[m.path] /\ P' = m.path
      /\ reader'.msg.content = pending[m.path]
  <2>1. PICK c : c = pending[m.path]
    OBVIOUS
  <2>2. PICK n : n = [m EXCEPT !.content = c]
    OBVIOUS
  <2>3. n.path = m.path /\ n.content = c
    BY <2>2 DEF Messages
  <2>4. Goto("mtime", n, echoSeq', base[m.path])
    BY <1>3, <2>1, <2>2 DEF BeginMtime
  <2>5. QED BY <2>1, <2>3, <2>4 DEF Goto, P
<1>9. ~Works(p, {"verify", "finish"}) /\ ~Works(p, {"write"}) /\ Bystands(p)
  BY <1>4, Values DEF Works, Bystands, Leaves
<1>10. Proven(p)'
  <2>1. CASE p = m.path
    <3>1. pending[p] = None /\ h = base[p] /\ base[p] = disk[p]
      BY <1>1, <1>6, <1>9, <2>1 DEF Proven, Known
    <3>2. Active(p)' => Active(p)
      <4>1. events' \cap About(p) \subseteq events
        BY <1>5
      <4>2. /\ rechecks'[p] > 0 => Active(p)
            /\ write'[p].recheck => Active(p)
            /\ \A i \in Calls : calls'[i].at # "idle" /\ calls'[i].path = p => Active(p)
        BY <1>5, <1>7, <2>1 DEF Active
      <4>3. QED BY <1>1, <4>1, <4>2, ActiveBefore
    <3>3. Known(p)'
      BY <1>5, <1>8, <3>1 DEF Known, Works
    <3>4. Covered(p)'
      BY <1>1, <1>5, <1>7, <1>8, <2>1, <3>1, <3>2 DEF Proven, Covered, Works
    <3>5. Own(p)' /\ Moving(p)'
      BY <1>7, <1>8, <2>1, <3>1 DEF Own, Moving, Works, Leaves
    <3>6. QED BY <3>3, <3>4, <3>5 DEF Proven
  <2>2. CASE p # m.path
    <3>1. Bystands(p)'
      BY <1>8, <2>2 DEF Bystands, Leaves
    <3>2. QED BY <1>1, <1>5, <1>7, <1>9, <2>2, <3>1, Aside
  <2>3. QED BY <2>1, <2>2
<1>11. InOrder(p)'
  <2>1. PICK v, w \in Versions : /\ disk[p] \in {None, v} /\ w = Apply(m, p, v)
                                 /\ StartsAt(p, w)' => InOrder(p)'
    BY <1>1, <1>2, <1>3, <1>5, Taken
  <2>2. w = v
    BY <1>4, <2>1 DEF Apply
  <2>3. StartsAt(p, w)'
    BY <1>5, <1>8, <2>1, <2>2 DEF StartsAt, Works
  <2>4. QED BY <2>1, <2>3
<1>12. QED BY <1>10, <1>11

\* ... and is settled with it.
LEMMA FinishMtimeEchoes ==
  ASSUME Types, Types', Echoes, FinishMtime, NEW p \in Quiet
  PROVE  Proven(p)' /\ InOrder(p)'
<1>1. p \in Paths /\ Proven(p)
  BY DEF Quiet, Echoes
<1>2. reader.at = "mtime" /\ reader' = Asleep
  BY DEF FinishMtime, At, Return
<1>3. /\ reader \in Handlers /\ P \in Paths /\ reader.token \in Nat \ {0} /\ EchoTypes
      /\ reader.hash \in Versions /\ reader.msg.content \in Versions
  BY <1>2, ReaderAt DEF Types, Handlers, Messages
<1>4. UNCHANGED <<disk, events, calls, inbox, svc>> /\ ~Leaves(p)
  BY <1>2 DEF FinishMtime, HandlerFrame, Leaves, service
<1>5. CASE p = P
  <2>1. /\ reader.msg.content = None
        /\ base[p] = disk[p] /\ pending[p] = None
    BY <1>1, <1>2, <1>5 DEF Proven, Known, Own, Works
  <2>2. FinishRemoteWrite(p, reader.token, reader.hash) /\ UNCHANGED books
    BY <1>5, <2>1 DEF FinishMtime
  <2>3. QED BY <1>2, <1>3, <1>4, <1>5, <2>1, <2>2, Settled DEF books
<1>6. CASE p # P
  <2>1. PICK e \in Evidences : Replaced(P, e) \/ UNCHANGED <<write, rechecks>>
    <3>1. \E h \in Versions : FinishRemoteWrite(P, reader.token, h)
      BY <1>3 DEF FinishMtime
    <3>2. QED BY <1>3, <3>1, Finished, Values
  <2>2. base'[p] = base[p] /\ pending'[p] = pending[p]
    BY <1>1, <1>3, <1>6 DEF FinishMtime, Types, NoteTypes, books
  <2>3. QED BY <1>2, <1>3, <1>4, <1>6, <2>1, <2>2, OtherNote
<1>7. QED BY <1>5, <1>6

\* What the daemon knows of a quiet note is what is there, so the handler goes on.
LEMMA CheckDeleteEchoes ==
  ASSUME Types, Types', Echoes, CheckDelete, NEW p \in Quiet
  PROVE  Proven(p)' /\ InOrder(p)'
<1> DEFINE m == Head(inbox)
<1>1. p \in Paths /\ Proven(p) /\ InOrder(p)
  BY DEF Quiet, Echoes
<1>2. Handle("Delete") /\ "Delete" \in MessageTypes
  BY DEF CheckDelete, MessageTypes
<1>3. reader = Asleep /\ m.type = "Delete" /\ m.path \in Paths
  BY <1>2, Handled
<1>4. UNCHANGED <<disk, base, write, events, rechecks, calls, svc>>
  BY DEF CheckDelete, HandlerFrame, echo
<1>5. ~Works(p, {"verify", "finish"}) /\ ~Works(p, {"write"}) /\ Bystands(p)
  BY <1>3, Values DEF Works, Bystands, Leaves
<1>6. pending[p] = None /\ base[p] = disk[p]
  BY <1>1, <1>5 DEF Proven, Known
<1>7. \/ reader' = Asleep /\ p # m.path
      \/ reader'.at = "remove" /\ P' = m.path
  BY <1>3, <1>6 DEF CheckDelete, Goto, P
<1>8. \A stages : "remove" \notin stages /\ "idle" \notin stages => ~Works(p, stages)'
  BY <1>7, Values DEF Works
<1>9. ~Leaves(p)'
  BY <1>7, Values DEF Leaves
<1>10. pending'[p] = None
  BY <1>1, <1>3, <1>6 DEF CheckDelete, Types, NoteTypes
<1>11. Active(p)' <=> Active(p)
  BY <1>4 DEF Active, Reports
<1>12. Known(p)'
  BY <1>4, <1>6, <1>8, <1>10 DEF Known
<1>13. Covered(p)'
  BY <1>1, <1>4, <1>5, <1>8, <1>11 DEF Proven, Covered
<1>14. Own(p)' /\ Moving(p)'
  BY <1>8, <1>9 DEF Own, Moving
<1>15. InOrder(p)'
  <2>1. PICK v, w \in Versions : /\ disk[p] \in {None, v} /\ w = Apply(m, p, v)
                                 /\ StartsAt(p, w)' => InOrder(p)'
    BY <1>1, <1>2, <1>4, Taken
  <2>2. p # m.path => w = v
    BY <1>3, <2>1 DEF Apply
  <2>3. p = m.path => Works(p, {"write", "move", "remove"})'
    BY <1>7 DEF Works
  <2>4. StartsAt(p, w)'
    BY <1>4, <1>8, <2>1, <2>2, <2>3 DEF StartsAt
  <2>5. QED BY <2>1, <2>4
<1>16. QED BY <1>12, <1>13, <1>14, <1>15 DEF Proven

\* The note that is removed is troubled; the others are bystanders.
LEMMA RemoveNoteEchoes ==
  ASSUME Types, Types', Echoes, RemoveNote, NEW p \in Quiet, p \notin troubled'
  PROVE  Proven(p)' /\ InOrder(p)'
<1>1. p \in Paths /\ Proven(p) /\ InOrder(p)
  BY DEF Quiet, Echoes
<1>2. reader.at = "remove" /\ reader' = Asleep
  BY DEF RemoveNote, At, Return
<1>3. P \in Paths /\ p # P
  BY <1>2, ReaderAt DEF RemoveNote, Types
<1>4. UNCHANGED <<rechecks, calls, inbox, svc>>
  BY DEF RemoveNote, service
<1>5. /\ disk'[p] = disk[p] /\ base'[p] = base[p] /\ pending'[p] = pending[p]
      /\ write'[p] = write[p] /\ rechecks'[p] = rechecks[p]
  BY <1>1, <1>3, <1>4 DEF RemoveNote, Types, NoteTypes, EchoTypes
<1>6. Bystands(p) /\ Bystands(p)'
  BY <1>2, <1>3, Values DEF Bystands, Leaves
<1>7. events' \cap About(p) \subseteq events
  BY <1>1, <1>3, NotAbout DEF RemoveNote
<1>8. Proven(p)'
  BY <1>1, <1>4, <1>5, <1>6, <1>7, Aside
<1>9. InOrder(p)'
  BY <1>1, <1>4, <1>5, <1>6, AsideInOrder
<1>10. QED BY <1>8, <1>9

\* Only troubled notes are acknowledged.
LEMMA HandleAckEchoes ==
  ASSUME Types, Types', Echoes, HandleAck, NEW p \in Quiet
  PROVE  Proven(p)' /\ InOrder(p)'
<1> DEFINE m == Head(inbox)
<1>1. p \in Paths /\ Proven(p) /\ InOrder(p)
  BY DEF Quiet, Echoes
<1>2. Handle("Ack") /\ "Ack" \in MessageTypes
  BY DEF HandleAck, MessageTypes
<1>3. /\ reader = Asleep /\ m.type = "Ack" /\ m.path \in Paths
      /\ inbox # <<>> /\ inbox \in Seq(Messages)
  BY <1>2, Handled DEF Types, ReaderTypes
<1>4. m.path \in troubled
  <2>1. 1 \in 1..Len(inbox) /\ inbox[1] = m
    BY <1>3
  <2>2. QED BY <1>3, <2>1 DEF Echoes, AcksOfTroubled
<1>5. p # m.path
  BY <1>4 DEF Quiet
<1>6. UNCHANGED <<disk, write, events, rechecks, calls, svc, reader>>
  BY DEF HandleAck, HandlerFrame, echo, service
<1>7. base'[p] = base[p] /\ pending'[p] = pending[p]
  BY <1>1, <1>3, <1>5 DEF HandleAck, books, Types, NoteTypes
<1>8. Bystands(p) /\ Bystands(p)'
  BY <1>3, <1>6, Values DEF Bystands, Leaves
<1>9. Proven(p)'
  BY <1>1, <1>6, <1>7, <1>8, Aside
<1>10. InOrder(p)'
  <2>1. PICK v, w \in Versions : /\ disk[p] \in {None, v} /\ w = Apply(m, p, v)
                                 /\ StartsAt(p, w)' => InOrder(p)'
    BY <1>1, <1>2, <1>6, Taken
  <2>2. w = v
    BY <1>3, <2>1 DEF Apply
  <2>3. StartsAt(p, w)'
    BY <1>3, <1>6, <2>1, <2>2, Values DEF StartsAt, Works
  <2>4. QED BY <2>1, <2>3
<1>11. QED BY <1>9, <1>10

-----------------------------------------------------------------------------
(* ... and of a rename.                                                      *)

\* A note moves to a place where nothing is; a note that is not there goes nowhere.
LEMMA BeginRenameEchoes ==
  ASSUME Types, Types', Echoes, BeginRename, NEW p \in Quiet
  PROVE  Proven(p)' /\ InOrder(p)'
<1> DEFINE m == Head(inbox)
<1>1. p \in Paths /\ Proven(p) /\ InOrder(p)
  BY DEF Quiet, Echoes
<1>2. Handle("Rename") /\ "Rename" \in MessageTypes
  BY DEF BeginRename, MessageTypes
<1>3. /\ reader = Asleep /\ m.type = "Rename" /\ m.path \in Paths
      /\ m.old \in Paths /\ m.old # m.path /\ m.content \in Versions /\ m.content # None
  BY <1>2, Handled
<1>4. UNCHANGED <<disk, pending, events, rechecks, calls, svc>> /\ EchoTypes
  BY DEF BeginRename, HandlerFrame, Types, service
<1>5. /\ ~Works(p, {"verify", "finish"}) /\ ~Works(p, {"write"}) /\ Bystands(p)
      /\ \A stages : "idle" \notin stages => ~Works(p, stages)
  BY <1>3, Values DEF Works, Bystands, Leaves
<1>6. pending[p] = None /\ base[p] = disk[p]
  BY <1>1, <1>5 DEF Proven, Known
<1>7. PICK v, w \in Versions : /\ disk[p] \in {None, v} /\ Presumes(m, p, v)
                               /\ w = Apply(m, p, v)
                               /\ StartsAt(p, w)' => InOrder(p)'
  BY <1>1, <1>2, <1>4, Taken
<1>8. /\ p = m.path => v = None /\ w = m.content
      /\ p = m.old => v = m.content /\ w = None
      /\ p # m.path /\ p # m.old => w = v
  BY <1>3, <1>7 DEF Presumes, Apply
<1>9. CASE disk[m.old] = None
  <2>1. UNCHANGED <<write, reader>>
    BY <1>9 DEF BeginRename, echo
  <2>2. base'[p] = base[p]
    <3>1. \/ base' = base
          \/ /\ disk[m.path] = m.content
             /\ base' = [base EXCEPT ![m.path] = m.content, ![m.old] = None]
      BY <1>9 DEF BeginRename
    <3>2. base \in [Paths -> Versions]
      BY DEF Types, NoteTypes
    <3>3. QED BY <1>1, <1>3, <1>6, <1>9, <3>1, <3>2
  <2>3. Bystands(p)'
    BY <1>5, <2>1 DEF Bystands, Leaves, P
  <2>4. Proven(p)'
    BY <1>1, <1>4, <1>5, <2>1, <2>2, <2>3, Aside
  <2>5. disk[p] \in {None, w}
    BY <1>7, <1>8, <1>9
  <2>6. StartsAt(p, w)'
    BY <1>3, <1>4, <2>1, <2>5, Values DEF StartsAt, Works
  <2>7. QED BY <1>7, <2>4, <2>6
<1>10. CASE disk[m.old] # None
  <2>1. BeginRemoteWrite(m.path, m.content) /\ base' = base
    BY <1>10 DEF BeginRename
  <2>2. /\ reader'.at = "move" /\ reader'.msg = m /\ reader'.token = echoSeq'
        /\ reader'.hash = m.content /\ P' = m.path
    BY <1>10 DEF BeginRename, Goto, P
  <2>3. /\ write'[m.path].token = echoSeq' /\ write'[m.path].inFlight
        /\ write'[m.path].hash = m.content
        /\ write'[m.path].recheck <=> write[m.path].recheck
        /\ p # m.path => write'[p] = write[p]
    BY <1>1, <1>3, <1>4, <2>1, Began
  <2>4. Known(p)'
    BY <1>4, <1>6, <2>1, <2>2 DEF Known, Works
  <2>5. Active(p)' => Active(p)
    <3>1. events' \cap About(p) \subseteq events
      BY <1>4
    <3>2. /\ rechecks'[p] > 0 => Active(p)
          /\ write'[p].recheck => Active(p)
          /\ \A i \in Calls : calls'[i].at # "idle" /\ calls'[i].path = p => Active(p)
      BY <1>4, <2>3 DEF Active
    <3>3. QED BY <1>1, <3>1, <3>2, ActiveBefore
  <2>6. Covered(p)'
    <3>1. Active(p)' => disk[p] # None /\ write[p].hash = disk[p]
      BY <1>1, <1>5, <2>5 DEF Proven, Covered
    <3>2. Active(p)' => p # m.path
      BY <1>7, <1>8, <3>1
    <3>3. QED BY <1>4, <2>2, <2>3, <3>1, <3>2 DEF Covered, Works
  <2>7. Own(p)'
    BY <2>2, <2>3 DEF Own, Works
  <2>8. Moving(p)'
    BY <1>4, <1>7, <1>8, <1>10, <2>2 DEF Moving, Works, Leaves
  <2>9. StartsAt(p, w)'
    BY <1>4, <1>7, <1>8, <2>2 DEF StartsAt, Works, Leaves
  <2>10. QED BY <1>7, <2>4, <2>6, <2>7, <2>8, <2>9 DEF Proven
<1>11. QED BY <1>9, <1>10

\* The note that moves is the one the service had; where it goes, nothing was.
LEMMA MoveNoteEchoes ==
  ASSUME Types, Types', Echoes, MoveNote, NEW p \in Quiet, p \notin troubled'
  PROVE  Proven(p)' /\ InOrder(p)'
<1> DEFINE old == reader.msg.old
<1>1. p \in Paths /\ Proven(p) /\ InOrder(p)
  BY DEF Quiet, Echoes
<1>2. reader.at = "move" /\ reader' = Asleep
  BY DEF MoveNote, At, Return
<1>3. /\ reader \in Handlers /\ P \in Paths /\ old \in Paths /\ old # P
      /\ reader.token \in Nat \ {0} /\ EchoTypes
      /\ reader.hash \in Versions /\ reader.hash # None
  BY <1>2, ReaderAt DEF Types, Handlers
<1>4. UNCHANGED <<calls, pending, inbox, svc>>
  BY DEF MoveNote, service
<1>5. p # old /\ (p = P => old \in Quiet)
  BY <1>3 DEF MoveNote, Quiet
<1>6. old \in Quiet => disk[old] = reader.hash
  BY <1>2 DEF Echoes, Proven, Moving, Leaves
<1>7. ~Leaves(p) /\ (p # P => Bystands(p)) /\ Bystands(p)'
  BY <1>2, <1>5, Values DEF Leaves, Bystands
<1>8. CASE disk[old] = None
  <2>1. p # P
    BY <1>3, <1>5, <1>6, <1>8
  <2>2. /\ Replaced(P, NoEvidence) \/ UNCHANGED <<write, rechecks>>
        /\ NoEvidence \in Evidences
    BY <1>3, <1>8, Aborted, Values DEF MoveNote
  <2>3. UNCHANGED <<disk, base, events>>
    BY <1>8 DEF MoveNote
  <2>4. QED BY <1>2, <1>3, <1>4, <1>7, <2>1, <2>2, <2>3, OtherNote
<1>9. CASE disk[old] # None
  <2>1. /\ disk' = [disk EXCEPT ![P] = disk[old], ![old] = None]
        /\ base' = [base EXCEPT ![P] = reader.hash, ![old] = None]
    BY <1>9 DEF MoveNote
  <2>2. PICK e \in Meta : /\ write' = [write EXCEPT ![old] = NoEvidence, ![P] = e]
                          /\ write[P].token = reader.token => e = Landed(reader.token, reader.hash)
    <3>1. Landed(reader.token, reader.hash) \in Meta /\ write[P] \in Meta
      BY <1>3 DEF Landed, Meta, Versions, EchoTypes, Evidences
    <3>2. write' = [write EXCEPT ![old] = NoEvidence,
            ![P] = IF write[P].token = reader.token THEN Landed(reader.token, reader.hash) ELSE @]
      BY <1>9 DEF MoveNote
    <3>3. CASE write[P].token = reader.token
      BY <3>1, <3>2, <3>3
    <3>4. CASE write[P].token # reader.token
      <4>1. write' = [write EXCEPT ![old] = NoEvidence, ![P] = write[P]]
        BY <1>3, <3>2, <3>4 DEF EchoTypes
      <4>2. QED BY <3>1, <3>4, <4>1
    <3>5. QED BY <3>3, <3>4
  <2>3. rechecks' = [rechecks EXCEPT ![P] = IF write[P].token = reader.token /\ write[P].recheck
                                               THEN @ + 1 ELSE @]
    BY <1>9, Values DEF MoveNote, Recheck
  <2>4. CASE p = P
    <3>1. disk[old] = reader.hash
      BY <1>5, <1>6, <2>4
    <3>2. write[p].token = reader.token /\ write[p].hash = reader.hash
      BY <1>1, <1>2, <2>4 DEF Proven, Own, Works
    <3>3. /\ write'[p].hash = reader.hash
      BY <1>3, <2>2, <2>4, <3>2 DEF Landed, EchoTypes
    <3>4. disk'[p] = reader.hash /\ base'[p] = reader.hash
      BY <1>3, <2>1, <2>4, <3>1 DEF Types, NoteTypes
    <3>5. pending'[p] = None
      BY <1>1, <1>4 DEF Proven, Known
    <3>6. \A stages : "idle" \notin stages => ~Works(p, stages)'
      BY <1>2, Values DEF Works
    <3>7. ~Leaves(p)'
      BY <1>2, Values DEF Leaves
    <3>8. Known(p)' /\ Covered(p)' /\ Own(p)' /\ Moving(p)'
      BY <1>3, <3>3, <3>4, <3>5, <3>6, <3>7 DEF Known, Covered, Own, Moving
    <3>9. InOrder(p)'
      <4>1. PICK v \in Versions : StartsAt(p, v) /\ Leads(inbox, p, v, svc[p])
        BY <1>1 DEF InOrder
      <4>2. v = reader.hash
        BY <1>2, <2>4, <4>1 DEF StartsAt, Works
      <4>3. StartsAt(p, v)'
        BY <3>4, <3>6, <4>2 DEF StartsAt
      <4>4. Leads(inbox, p, v, svc[p])'
        BY <1>4, <4>1 DEF Leads
      <4>5. QED BY <4>3, <4>4 DEF InOrder
    <3>10. QED BY <3>8, <3>9 DEF Proven
  <2>5. CASE p # P
    <3>1. /\ disk'[p] = disk[p] /\ base'[p] = base[p] /\ pending'[p] = pending[p]
          /\ write'[p] = write[p] /\ rechecks'[p] = rechecks[p]
      BY <1>1, <1>3, <1>4, <1>5, <2>1, <2>2, <2>3, <2>5 DEF Types, NoteTypes, EchoTypes
    <3>2. events' \cap About(p) \subseteq events
      <4>1. PICK es : es \in {{<<old, P>>}, {<<old>>, <<P>>}} /\ events' = events \cup es
        BY <1>9 DEF MoveNote
      <4>2. <<old>> \notin About(p) /\ <<P>> \notin About(p)
        BY <1>1, <1>3, <1>5, <2>5, NotAbout
      <4>3. <<old, P>> \notin About(p)
        BY <1>5, <2>5 DEF About
      <4>4. QED BY <4>1, <4>2, <4>3
    <3>3. Proven(p)'
      BY <1>1, <1>4, <1>7, <2>5, <3>1, <3>2, Aside
    <3>4. InOrder(p)'
      BY <1>1, <1>4, <1>7, <2>5, <3>1, AsideInOrder
    <3>5. QED BY <3>3, <3>4
  <2>6. QED BY <2>4, <2>5
<1>10. QED BY <1>8, <1>9

\* Every handler leaves what is known of a quiet note.
LEMMA HandlerEchoes ==
  ASSUME Types, Types', Echoes, ReadLoop, NEW p \in Quiet, p \notin troubled'
  PROVE  Proven(p)' /\ InOrder(p)'
<1>1. CASE BeginModify \/ WriteNote \/ WriteFails \/ VerifyNote \/ FinishModify
  BY <1>1, BeginModifyEchoes, WriteNoteEchoes, WriteFailsEchoes, VerifyNoteEchoes,
     FinishModifyEchoes
<1>2. CASE BeginMtime \/ FinishMtime \/ CheckDelete \/ RemoveNote \/ HandleAck
  BY <1>2, BeginMtimeEchoes, FinishMtimeEchoes, CheckDeleteEchoes, RemoveNoteEchoes,
     HandleAckEchoes
<1>3. CASE BeginRename \/ MoveNote
  BY <1>3, BeginRenameEchoes, MoveNoteEchoes
<1>4. QED BY <1>1, <1>2, <1>3 DEF ReadLoop

-----------------------------------------------------------------------------
(* The service and the timers.                                               *)

\* The message of the service takes a quiet note to what the service has now.
LEMMA ServiceEchoes ==
  ASSUME Types, Types', Echoes, Service, NEW p \in Quiet
  PROVE  Proven(p)' /\ InOrder(p)'
<1>1. p \in Paths /\ Proven(p) /\ InOrder(p)
  BY DEF Quiet, Echoes
<1>2. PICK m \in Messages, new \in [Paths -> Versions] :
        Ask(m, new) /\ Presumes(m, p, svc[p]) /\ new[p] = Apply(m, p, svc[p])
  BY <1>1, Asked
<1>3. /\ UNCHANGED <<disk, base, pending, write, events, calls, rechecks, reader>>
      /\ inbox' = Append(inbox, m) /\ svc' = new
  BY <1>2 DEF Ask, books, echo, Serves, service
<1>4. Proven(p)'
  BY <1>1, <1>3 DEF Proven, Known, Covered, Own, Moving, Active, Reports, Works, Leaves, P
<1>5. PICK v \in Versions : StartsAt(p, v) /\ Leads(inbox, p, v, svc[p])
  BY <1>1 DEF InOrder
<1>6. StartsAt(p, v)'
  BY <1>3, <1>5 DEF StartsAt, Works, Leaves, P
<1>7. Leads(inbox', p, v, svc'[p])
  <2>1. PICK w \in Versions : w = svc[p]
    BY <1>1 DEF Types, NoteTypes
  <2>2. inbox \in Seq(Messages) /\ Apply(m, p, w) \in Versions
    BY <1>1, <1>2, <2>1 DEF Types, ReaderTypes
  <2>3. Leads(Append(inbox, m), p, v, Apply(m, p, w))
    BY <1>1, <1>2, <1>5, <2>1, <2>2, LeadsAppend
  <2>4. QED BY <1>2, <1>3, <2>1, <2>3
<1>8. Leads(inbox, p, v, svc[p])'
  BY <1>7 DEF Leads
<1>9. QED BY <1>4, <1>6, <1>8 DEF InOrder

\* Evidence expires when nobody looks at its note any more.
LEMMA ExpiryEchoes ==
  ASSUME Types, Types', Echoes, NEW q \in Paths, EvidenceExpires(q), NEW p \in Quiet
  PROVE  Proven(p)' /\ InOrder(p)'
<1>1. p \in Paths /\ Proven(p) /\ InOrder(p) /\ EchoTypes
  BY DEF Quiet, Echoes, Types
<1>2. /\ UNCHANGED <<disk, base, pending, events, calls, rechecks, inbox, reader, svc>>
      /\ reader = Asleep /\ ~Busy(q)
      /\ write' = [write EXCEPT ![q] = IF @.inFlight THEN @ ELSE NoEvidence]
  BY DEF EvidenceExpires, books, service
<1>3. Bystands(p) /\ Bystands(p)'
  BY <1>2, Values DEF Bystands, Leaves
<1>4. InOrder(p)'
  BY <1>1, <1>2, <1>3, AsideInOrder
<1>5. CASE write'[p] = write[p]
  <2>1. events' \cap About(p) \subseteq events
    BY <1>2
  <2>2. QED BY <1>1, <1>2, <1>3, <1>4, <1>5, <2>1, Aside
<1>6. CASE write'[p] # write[p]
  <2>1. p = q /\ write'[p] = NoEvidence
    BY <1>1, <1>2, <1>6 DEF EchoTypes
  <2>2. ~Active(p)'
    BY <1>2, <2>1, Values DEF Active, Busy, Reports
  <2>3. /\ \A stages : "idle" \notin stages => ~Works(p, stages) /\ ~Works(p, stages)'
        /\ ~Leaves(p)'
    BY <1>2, Values DEF Works, Leaves
  <2>4. Known(p)' /\ Covered(p)' /\ Own(p)' /\ Moving(p)'
    BY <1>1, <1>2, <2>2, <2>3 DEF Proven, Known, Covered, Own, Moving
  <2>5. QED BY <1>4, <2>4 DEF Proven
<1>7. QED BY <1>5, <1>6

-----------------------------------------------------------------------------
(* Nothing the service sent is sent back.                                    *)

\* Only a move of the handler's makes the watcher report a rename.
LEMMA MarksKept ==
  ASSUME Types, Echoes, [Next]_vars, ~User
  PROVE  RenamesMarked'
<1>1. CASE MoveNote /\ disk[reader.msg.old] # None
  <2> DEFINE old == reader.msg.old
  <2>1. reader.at = "move"
    BY <1>1 DEF MoveNote, At
  <2>2. P \in Paths /\ old \in Paths /\ old # P /\ <<old, P>> \in Renames
    BY <2>1, ReaderAt DEF Types
  <2>3. events' \subseteq events \cup {<<old, P>>, <<old>>, <<P>>}
    BY <1>1 DEF MoveNote
  <2>4. renamed'[P] = <<old, P>> /\ old \in troubled'
    BY <1>1, <2>2 DEF MoveNote, Types, EchoTypes
  <2>5. PICK r \in Renames : r = <<old, P>>
    BY <2>2
  <2>6. Marked(r[1], r[2])'
    <3>1. r[1] = old /\ r[2] = P
      BY <2>5
    <3>2. QED BY <2>4, <3>1 DEF Marked
  <2>7. PICK moved : moved = {r}
    OBVIOUS
  <2>8. moved \subseteq Renames /\ \A s \in moved : Marked(s[1], s[2])'
    BY <2>6, <2>7
  <2>9. \A s \in Renames : s \in events' => s \in events \/ s \in moved
    <3>1. <<old>> \notin Renames /\ <<P>> \notin Renames
      BY <2>2, NotAbout
    <3>2. QED BY <2>3, <2>5, <2>7, <3>1
  <2>10. QED BY <2>8, <2>9, MarksStay
<1>2. CASE ~(MoveNote /\ disk[reader.msg.old] # None)
  <2>1. \A s \in Renames : s \in events' => s \in events
    <3>1. CASE WriteNote \/ RemoveNote
      <4>1. reader.at # "idle"
        BY <3>1 DEF WriteNote, RemoveNote, At
      <4>2. P \in Paths
        BY <4>1, ReaderAt DEF Types
      <4>3. <<P>> \notin Renames
        <5>1. \A s \in Renames : Len(s) = 2
          BY Values
        <5>2. QED BY <5>1
      <4>4. QED BY <3>1, <4>3 DEF WriteNote, RemoveNote
    <3>2. CASE ~(WriteNote \/ RemoveNote)
      <4>1. CASE \E i \in Calls : Report(i)
        BY <4>1 DEF Report
      <4>2. CASE ~\E i \in Calls : Report(i)
        <5>1. events' = events
          BY <1>2, <3>2, <4>2 DEF Next, Daemon, ReadLoop, BeginModify, WriteFails, VerifyNote,
             FinishModify, BeginMtime, FinishMtime, CheckDelete, BeginRename, MoveNote,
             HandleAck, HandlerFrame, Callback, BeginRecheck, Look, Decide, Read, SendModify,
             DeleteSeen, DeleteMissing, SendDelete, Renamed, CallFrame, Service,
             ServiceModifies, ServiceTouches, ServiceDeletes, ServiceRenames, Ask,
             EvidenceExpires, vars
        <5>2. QED BY <5>1
      <4>3. QED BY <4>1, <4>2
    <3>3. QED BY <3>1, <3>2
  <2>2. PICK moved : moved = {}
    OBVIOUS
  <2>3. moved \subseteq Renames /\ \A s \in moved : Marked(s[1], s[2])'
    BY <2>2
  <2>4. \A s \in Renames : s \in events' => s \in events \/ s \in moved
    BY <2>1
  <2>5. QED BY <2>3, <2>4, MarksStay
<1>3. QED BY <1>1, <1>2

\* As long as the user edits nothing, what is known of quiet notes holds after every step.
LEMMA EchoesKept ==
  ASSUME Types, Tokens, edits = 0 => Echoes, [Next]_vars, edits' = 0
  PROVE  Echoes'
<1>1. Types' /\ edits \in Nat
  BY TypesKept DEF Types, NoteTypes
<1>2. ~User
  BY <1>1 DEF User, Edit, UserDelete, Touch
<1>3. edits' = edits
  BY <1>2 DEF Next, Daemon, ReadLoop, BeginModify, WriteNote, WriteFails, VerifyNote,
     FinishModify, BeginMtime, FinishMtime, CheckDelete, RemoveNote, BeginRename, MoveNote,
     HandleAck, HandlerFrame, Callback, Report, BeginRecheck, Look, Decide, Read, SendModify,
     DeleteSeen, DeleteMissing, SendDelete, Renamed, CallFrame, Service, ServiceModifies,
     ServiceTouches, ServiceDeletes, ServiceRenames, Ask, EvidenceExpires, counts, vars
<1>4. Echoes
  BY <1>3
<1>5. ASSUME NEW p \in Quiet, p \notin troubled'
      PROVE  Proven(p)' /\ InOrder(p)'
  <2>1. CASE ReadLoop
    BY <1>1, <1>4, <1>5, <2>1, HandlerEchoes
  <2>2. CASE \E i \in Calls : Callback(i)
    BY <1>4, <2>2, CallbackEchoes
  <2>3. CASE Service
    BY <1>1, <1>4, <2>3, ServiceEchoes
  <2>4. CASE \E q \in Paths : EvidenceExpires(q)
    BY <1>1, <1>4, <2>4, ExpiryEchoes
  <2>5. CASE UNCHANGED vars
    <3>1. UNCHANGED <<disk, base, pending, write, events, calls, rechecks, inbox, reader, svc>>
      BY <2>5 DEF vars, books, echo, service
    <3>2. Proven(p) /\ InOrder(p)
      BY <1>4 DEF Echoes
    <3>3. Proven(p)'
      BY <3>1, <3>2 DEF Proven, Known, Covered, Own, Moving, Active, Reports, Works, Leaves, P
    <3>4. InOrder(p)'
      BY <3>1, <3>2 DEF InOrder, StartsAt, Leads, Works, Leaves, P
    <3>5. QED BY <3>3, <3>4
  <2>6. QED BY <1>2, <2>1, <2>2, <2>3, <2>4, <2>5 DEF Next, Daemon
<1>6. \A p \in Quiet' : p \in Quiet /\ p \notin troubled'
  BY TroubledGrows DEF Quiet
<1>7. \A i \in Calls : Judged(i)' /\ Silent(i)'
  BY <1>4, JudgedStays, SilentStays
<1>8. AcksOfTroubled' /\ RenamesMarked'
  BY <1>2, <1>4, AcksStay, MarksKept
<1>9. QED BY <1>5, <1>6, <1>7, <1>8 DEF Echoes

\* The invariant holds at first.
LEMMA InitHolds == Init => IInv
<1>1. SUFFICES ASSUME Init PROVE IInv
  OBVIOUS
<1>2. Types
  BY <1>1, InitTypes
<1>3. /\ base = disk /\ svc = disk /\ pending = [p \in Paths |-> None]
      /\ write = [p \in Paths |-> NoEvidence] /\ echoSeq = 0 /\ events = {}
      /\ calls = [i \in Calls |-> Idle] /\ rechecks = [p \in Paths |-> 0]
      /\ inbox = <<>> /\ reader = Asleep
  BY <1>1 DEF Init
<1>4. \A i \in Calls : calls[i].at = "idle"
  BY <1>3, Values
<1>5. Tokens
  BY <1>3, <1>4, Values DEF Tokens
<1>6. ASSUME NEW p \in Paths PROVE Proven(p) /\ InOrder(p)
  <2>1. ~Active(p)
    BY <1>3, <1>4, Values DEF Active, Reports
  <2>2. ~Leaves(p) /\ \A stages : "idle" \notin stages => ~Works(p, stages)
    BY <1>3, Values DEF Leaves, Works
  <2>3. Known(p) /\ Covered(p) /\ Own(p) /\ Moving(p)
    BY <1>3, <2>1, <2>2 DEF Known, Covered, Own, Moving
  <2>4. PICK v \in Versions : v = disk[p]
    BY <1>2 DEF Types, NoteTypes
  <2>5. StartsAt(p, v)
    BY <2>2, <2>4 DEF StartsAt
  <2>6. Leads(inbox, p, v, svc[p])
    <3>1. PICK view \in [0..0 -> Versions] : view[0] = v
      <4>1. [k \in 0..0 |-> v] \in [0..0 -> Versions] /\ [k \in 0..0 |-> v][0] = v
        OBVIOUS
      <4>2. QED BY <4>1
    <3>2. Len(inbox) = 0 /\ 1..Len(inbox) = {} /\ svc[p] = v
      BY <1>3, <2>4
    <3>3. QED BY <3>1, <3>2 DEF Leads
  <2>7. QED BY <2>3, <2>5, <2>6 DEF Proven, InOrder
<1>7. \A i \in Calls : Judged(i) /\ Silent(i)
  BY <1>4 DEF Judged, Silent
<1>8. AcksOfTroubled /\ RenamesMarked
  BY <1>3, <1>4 DEF AcksOfTroubled, RenamesMarked
<1>9. QED BY <1>2, <1>5, <1>6, <1>7, <1>8 DEF IInv, Echoes, Quiet

\* The inductive invariant: types, the order of tokens, and, as long as the user edits
\* nothing, what is known of every note that was not troubled.
THEOREM Invariance == Spec => []IInv
<1>1. Init => IInv
  BY InitHolds
<1>2. IInv /\ [Next]_vars => IInv'
  <2>1. SUFFICES ASSUME IInv, [Next]_vars PROVE IInv'
    OBVIOUS
  <2>2. Types /\ Tokens /\ (edits = 0 => Echoes)
    BY <2>1 DEF IInv
  <2>3. Types' /\ Tokens'
    BY <2>1, <2>2, TypesKept, TokensKept
  <2>4. edits' = 0 => Echoes'
    BY <2>1, <2>2, EchoesKept
  <2>5. QED BY <2>3, <2>4 DEF IInv
<1>3. QED BY <1>1, <1>2, PTL DEF Spec

\* Types; and neither a handler nor a note has evidence that was not given yet.
THEOREM TypeCorrectness == Spec => []TypeOK
<1>1. IInv => TypeOK
  <2>1. SUFFICES ASSUME IInv PROVE TypeOK
    OBVIOUS
  <2>2. Types /\ Tokens
    BY <2>1 DEF IInv
  <2>3. {disk, base, pending, svc} \subseteq [Paths -> Versions]
    BY <2>2 DEF Types, NoteTypes
  <2>4. /\ write \in [Paths -> Meta] /\ deleted \subseteq Paths
        /\ renamed \in [Paths -> Marks] /\ rechecks \in [Paths -> Nat]
    BY <2>2 DEF Types, EchoTypes, Evidences
  <2>5. events \subseteq {<<p>> : p \in Paths} \cup Renames
    BY <2>2 DEF Types, EventTypes
  <2>6. ASSUME NEW i \in Calls
        PROVE  calls[i].path \in Paths \cup {None} /\ calls[i].meta \in Meta
    <3>1. CASE calls[i] = Idle
      BY <3>1, Values DEF Idle, Call, Evidences
    <3>2. CASE calls[i] \in Callbacks
      BY <3>2 DEF Callbacks
    <3>3. QED BY <2>2, <3>1, <3>2, CallAt DEF Types
  <2>7. \A p \in Paths : write[p].token <= echoSeq /\ reader.token <= echoSeq
    BY <2>2 DEF Tokens
  <2>8. QED BY <2>3, <2>4, <2>5, <2>6, <2>7 DEF TypeOK
<1>2. QED BY <1>1, Invariance, PTL

\* What the service sent is never sent back: as long as the user edits nothing, the
\* daemon sends only notes whose removal, move or failed write left them troubled.
THEOREM NothingIsSentBack == Spec => OnlyEditsArePushed
<1>1. IInv /\ [Next]_vars => [\A p \in Paths : Sends(p) => edits > 0 \/ p \in troubled]_vars
  <2>1. SUFFICES ASSUME IInv, Next, NEW p \in Paths, Sends(p), ~(edits > 0)
                 PROVE  p \in troubled
    BY DEF vars, Sends
  <2>2. Types /\ Echoes
    BY <2>1 DEF IInv, Types, NoteTypes
  <2>3. inbox \in Seq(Messages) /\ remote \in Nat
    BY <2>2 DEF Types, ReaderTypes, NoteTypes
  <2>4. Len(inbox') > Len(inbox) /\ remote' = remote /\ inbox'[Len(inbox')].path = p
    BY <2>1 DEF Sends
  <2>5. CASE \E i \in Calls : Callback(i)
    <3>1. PICK i \in Calls : Callback(i)
      BY <2>5
    <3>2. inbox' # inbox
      BY <2>3, <2>4
    <3>3. PICK m \in Messages : inbox' = Append(inbox, m) /\ m.path \in troubled
      BY <2>2, <3>1, <3>2, CallbackSends
    <3>4. inbox'[Len(inbox')] = m
      BY <2>3, <3>3
    <3>5. QED BY <2>4, <3>3, <3>4
  <2>6. CASE Service
    <3>1. remote' = remote + 1
      BY <2>6 DEF Service, ServiceModifies, ServiceTouches, ServiceDeletes, ServiceRenames, Ask
    <3>2. QED BY <2>3, <2>4, <3>1
  <2>7. CASE ReadLoop
    <3>1. inbox' = inbox \/ (inbox # <<>> /\ inbox' = Tail(inbox))
      BY <2>7 DEF ReadLoop, BeginModify, WriteNote, WriteFails, VerifyNote, FinishModify,
         BeginMtime, FinishMtime, CheckDelete, RemoveNote, BeginRename, MoveNote, HandleAck,
         Handle
    <3>2. QED BY <2>3, <2>4, <3>1
  <2>8. CASE User \/ \E q \in Paths : EvidenceExpires(q)
    <3>1. inbox' = inbox
      BY <2>8 DEF User, Edit, UserDelete, Touch, EvidenceExpires
    <3>2. QED BY <2>3, <2>4, <3>1
  <2>9. QED BY <2>1, <2>5, <2>6, <2>7, <2>8 DEF Next, Daemon
<1>2. QED BY <1>1, Invariance, PTL DEF Spec, OnlyEditsArePushed

-----------------------------------------------------------------------------
(* What a delete removes.                                                    *)

\* What the daemon knows of a note, has sent of it or is about to write to it is
\* something the service had of it, or a note that an earlier delete has kept.
Recorded ==
  /\ had \in [Paths -> SUBSET Versions]
  /\ \A p \in Paths : {None, base[p], pending[p], svc[p]} \subseteq had[p]
  /\ \A k \in 1..Len(inbox) : inbox[k].type \in {"Modify", "Rename"} =>
                                inbox[k].content \in had[inbox[k].path]
  /\ reader.at # "idle" => reader.hash \in had[P]
  /\ reader.at = "mtime" => reader.msg.content \in had[P]

\* What is taken for known in the next state, if nothing that was had is forgotten.
Keeps ==
  /\ had' \in [Paths -> SUBSET Versions]
  /\ \A p \in Paths : had[p] \subseteq had'[p] /\ {base'[p], pending'[p], svc'[p]} \subseteq had'[p]

\* What the service has now it has had from now on.
LEMMA Served ==
  ASSUME Recorded, NEW new \in [Paths -> Versions], Serves(new)
  PROVE  /\ had' \in [Paths -> SUBSET Versions] /\ svc' = new
         /\ \A p \in Paths : had[p] \subseteq had'[p] /\ new[p] \in had'[p]
<1>1. had' = [p \in Paths |-> had[p] \cup {new[p]}] /\ svc' = new
  BY DEF Serves
<1>2. ASSUME NEW p \in Paths
      PROVE  had'[p] \in SUBSET Versions /\ had[p] \subseteq had'[p] /\ new[p] \in had'[p]
  BY <1>1 DEF Recorded
<1>3. QED BY <1>1, <1>2

\* A queue that only loses its first message, or gets one that was recorded, stays recorded.
LEMMA QueueRecorded ==
  ASSUME Types, Recorded, Keeps,
         \/ inbox' = inbox
         \/ inbox # <<>> /\ inbox' = Tail(inbox)
         \/ \E m \in Messages : /\ inbox' = Append(inbox, m)
                                /\ m.type \in {"Modify", "Rename"} => m.content \in had'[m.path]
  PROVE  \A k \in 1..Len(inbox') : inbox'[k].type \in {"Modify", "Rename"} =>
                                     inbox'[k].content \in had'[inbox'[k].path]
<1>1. inbox \in Seq(Messages)
  BY DEF Types, ReaderTypes
<1>2. \A m \in Messages : m.path \in Paths
  BY DEF Messages
<1>3. SUFFICES ASSUME NEW k \in 1..Len(inbox'), inbox'[k].type \in {"Modify", "Rename"}
               PROVE  inbox'[k].content \in had'[inbox'[k].path]
  OBVIOUS
<1>4. CASE \E j \in 1..Len(inbox) : inbox'[k] = inbox[j]
  <2>1. PICK j \in 1..Len(inbox) : inbox'[k] = inbox[j]
    BY <1>4
  <2>2. inbox[j].content \in had[inbox[j].path] /\ inbox[j].path \in Paths
    BY <1>1, <1>2, <1>3, <2>1 DEF Recorded
  <2>3. QED BY <2>1, <2>2 DEF Keeps
<1>5. CASE \E m \in Messages : /\ inbox' = Append(inbox, m)
                               /\ m.type \in {"Modify", "Rename"} => m.content \in had'[m.path]
  <2>1. PICK m \in Messages :
          /\ inbox' = Append(inbox, m)
          /\ m.type \in {"Modify", "Rename"} => m.content \in had'[m.path]
    BY <1>5
  <2>2. inbox'[k] = m \/ (k \in 1..Len(inbox) /\ inbox'[k] = inbox[k])
    BY <1>1, <2>1
  <2>3. QED BY <1>3, <1>4, <2>1, <2>2
<1>6. CASE inbox' = inbox
  BY <1>3, <1>4, <1>6
<1>7. CASE inbox # <<>> /\ inbox' = Tail(inbox)
  <2>1. k + 1 \in 1..Len(inbox) /\ inbox'[k] = inbox[k + 1]
    BY <1>1, <1>7
  <2>2. QED BY <1>4, <2>1
<1>8. QED BY <1>5, <1>6, <1>7

\* The same of the whole state, when the handler stands where it stood or is over.
LEMMA StillRecorded ==
  ASSUME Types, Recorded, Keeps,
         \/ inbox' = inbox
         \/ inbox # <<>> /\ inbox' = Tail(inbox)
         \/ \E m \in Messages : /\ inbox' = Append(inbox, m)
                                /\ m.type \in {"Modify", "Rename"} => m.content \in had'[m.path],
         \/ reader' = reader \/ reader' = Asleep
         \/ /\ reader'.hash \in had'[P']
            /\ reader'.at = "mtime" => reader'.msg.content \in had'[P']
  PROVE  Recorded'
<1>1. had' \in [Paths -> SUBSET Versions]
      /\ \A p \in Paths : {None, base'[p], pending'[p], svc'[p]} \subseteq had'[p]
  BY DEF Keeps, Recorded
<1>2. \A k \in 1..Len(inbox') : inbox'[k].type \in {"Modify", "Rename"} =>
                                  inbox'[k].content \in had'[inbox'[k].path]
  BY QueueRecorded
<1>3. /\ reader'.at # "idle" => reader'.hash \in had'[P']
      /\ reader'.at = "mtime" => reader'.msg.content \in had'[P']
  <2>1. CASE reader' = reader
    <3>1. reader.at # "idle" => P \in Paths
      BY ReaderAt DEF Types
    <3>2. P' = P
      BY <2>1 DEF P
    <3>3. QED BY <2>1, <3>1, <3>2 DEF Recorded, Keeps
  <2>2. CASE reader' = Asleep
    BY <2>2, Values
  <2>3. QED BY <2>1, <2>2
<1>4. QED BY <1>1, <1>2, <1>3 DEF Recorded

\* Callbacks know what they sent.
LEMMA CallbackRecorded ==
  ASSUME Types, Recorded, NEW i \in Calls, Callback(i)
  PROVE  Recorded'
<1>1. UNCHANGED <<base, reader>>
  BY DEF Callback, Report, BeginRecheck, Look, Decide, Read, SendModify, DeleteSeen,
         DeleteMissing, SendDelete, Renamed, CallFrame, books
<1>2. CASE UNCHANGED <<pending, inbox, service>>
  <2>1. Keeps
    BY <1>1, <1>2 DEF Keeps, Recorded, service
  <2>2. QED BY <1>1, <1>2, <2>1, StillRecorded
<1>3. CASE \E p \in Paths, c \in Versions :
             Push(p, c) /\ (pending' = pending \/ pending' = [pending EXCEPT ![p] = c])
  <2>1. PICK p \in Paths, c \in Versions :
          Push(p, c) /\ (pending' = pending \/ pending' = [pending EXCEPT ![p] = c])
    BY <1>3
  <2>2. PICK new \in [Paths -> Versions] : new = [svc EXCEPT ![p] = c]
    BY DEF Types, NoteTypes
  <2>3. Serves(new)
    BY <2>1, <2>2 DEF Push
  <2>4. /\ had' \in [Paths -> SUBSET Versions] /\ svc' = new
        /\ \A q \in Paths : had[q] \subseteq had'[q] /\ new[q] \in had'[q]
    BY <2>3, Served
  <2>5. c \in had'[p]
    BY <2>2, <2>4 DEF Types, NoteTypes
  <2>6. \A q \in Paths : pending'[q] = pending[q] \/ (q = p /\ pending'[q] = c)
    BY <2>1 DEF Types, NoteTypes
  <2>7. Keeps
    BY <1>1, <2>4, <2>5, <2>6 DEF Keeps, Recorded
  <2>8. \E m \in Messages : inbox' = Append(inbox, m) /\ m.type = "Ack"
    <3>1. Message("Ack", p, None, c) \in Messages /\ Message("Ack", p, None, c).type = "Ack"
      BY MessageMade DEF Message
    <3>2. QED BY <2>1, <3>1 DEF Push
  <2>9. QED BY <1>1, <2>7, <2>8, StillRecorded
<1>4. CASE UNCHANGED <<pending, inbox>> /\ \E new \in [Paths -> Versions] : Serves(new)
  <2>1. PICK new \in [Paths -> Versions] : Serves(new)
    BY <1>4
  <2>2. /\ had' \in [Paths -> SUBSET Versions] /\ svc' = new
        /\ \A q \in Paths : had[q] \subseteq had'[q] /\ new[q] \in had'[q]
    BY <2>1, Served
  <2>3. Keeps
    BY <1>1, <1>4, <2>2 DEF Keeps, Recorded
  <2>4. QED BY <1>1, <1>4, <2>3, StillRecorded
<1>5. CASE Report(i) \/ BeginRecheck(i) \/ Look(i) \/ Decide(i) \/ Read(i) \/ DeleteSeen(i)
           \/ DeleteMissing(i)
  BY <1>2, <1>5 DEF Report, BeginRecheck, Look, Decide, Read, DeleteSeen, DeleteMissing,
                    CallFrame, books
<1>6. CASE SendModify(i)
  <2>1. calls[i].path \in Paths /\ calls[i].got \in Versions
    BY <1>6, CallStands DEF SendModify, Atop
  <2>2. QED BY <1>3, <1>6, <2>1 DEF SendModify
<1>7. CASE SendDelete(i)
  <2>1. calls[i].path \in Paths /\ None \in Versions
    BY <1>7, CallStands, Values DEF SendDelete, Atop
  <2>2. UNCHANGED pending /\ (Push(calls[i].path, None) \/ UNCHANGED <<inbox, service>>)
    BY <1>7 DEF SendDelete, books
  <2>3. QED BY <1>2, <1>3, <2>1, <2>2
<1>8. CASE Renamed(i)
  <2>1. calls[i].path \in Paths /\ calls[i].old \in Paths
    BY <1>8, RenameHeard
  <2>2. [svc EXCEPT ![calls[i].old] = None, ![calls[i].path] = svc[calls[i].old]]
          \in [Paths -> Versions]
    BY <2>1, Values DEF Types, NoteTypes
  <2>3. /\ UNCHANGED <<pending, inbox>>
        /\ \/ UNCHANGED service
           \/ Serves([svc EXCEPT ![calls[i].old] = None, ![calls[i].path] = svc[calls[i].old]])
    BY <1>8 DEF Renamed, books
  <2>4. QED BY <1>2, <1>4, <2>2, <2>3
<1>9. QED BY <1>5, <1>6, <1>7, <1>8 DEF Callback

\* Handlers know what they were sent, what was pending, and what they found to be known.
LEMMA HandlerRecorded ==
  ASSUME Types, Recorded, ReadLoop
  PROVE  Recorded'
<1> USE DEF Types
<1>a. svc' = svc /\ (inbox' = inbox \/ (inbox # <<>> /\ inbox' = Tail(inbox)))
  BY DEF ReadLoop, BeginModify, WriteNote, WriteFails, VerifyNote, FinishModify, BeginMtime,
         FinishMtime, CheckDelete, RemoveNote, BeginRename, MoveNote, HandleAck, HandlerFrame,
         Handle, service
<1>b. \A p \in Paths : {None, base[p], pending[p], svc[p]} \subseteq had[p]
  BY DEF Recorded
<1>c. /\ base \in [Paths -> Versions] /\ pending \in [Paths -> Versions]
      /\ had \in [Paths -> SUBSET Versions]
  BY DEF NoteTypes, Recorded
<1>1. CASE UNCHANGED had /\ (reader' = reader \/ reader' = Asleep)
           /\ \A p \in Paths : base'[p] \in had[p] /\ pending'[p] \in had[p]
  <2>1. Keeps
    BY <1>1, <1>a, <1>b, <1>c DEF Keeps
  <2>2. QED BY <1>1, <1>a, <2>1, StillRecorded
<1>2. CASE UNCHANGED <<had, books>>
           /\ \/ reader' = reader \/ reader' = Asleep
              \/ /\ reader'.hash \in had[P']
                 /\ reader'.at = "mtime" => reader'.msg.content \in had[P']
  <2>1. Keeps
    BY <1>2, <1>a, <1>b, <1>c DEF Keeps, books
  <2>2. had' = had
    BY <1>2
  <2>3. \/ reader' = reader \/ reader' = Asleep
        \/ /\ reader'.hash \in had'[P']
           /\ reader'.at = "mtime" => reader'.msg.content \in had'[P']
    BY <1>2, <2>2
  <2>4. QED BY <1>a, <2>1, <2>3, StillRecorded
<1>3. ASSUME NEW t \in MessageTypes, Handle(t)
      PROVE  /\ Head(inbox).path \in Paths /\ Head(inbox) \in Messages
             /\ t \in {"Modify", "Rename"} => Head(inbox).content \in had[Head(inbox).path]
  <2>1. /\ Head(inbox) \in Messages /\ Head(inbox).type = t /\ Head(inbox).path \in Paths
        /\ inbox # <<>>
    BY <1>3, Handled
  <2>2. inbox[1] = Head(inbox) /\ 1 \in 1..Len(inbox)
    BY <2>1 DEF ReaderTypes
  <2>3. QED BY <2>1, <2>2 DEF Recorded
<1>4. reader.at # "idle" => P \in Paths /\ reader.hash \in had[P]
  BY ReaderAt DEF Recorded
<1>5. CASE BeginModify
  <2>1. /\ Handle("Modify") /\ UNCHANGED <<had, books>>
        /\ Goto("write", Head(inbox), echoSeq', Head(inbox).content)
    BY <1>5 DEF BeginModify, HandlerFrame, service
  <2>2. /\ reader'.hash = Head(inbox).content /\ P' = Head(inbox).path /\ reader'.at = "write"
    BY <2>1 DEF Goto, P
  <2>3. Head(inbox).content \in had[Head(inbox).path]
    BY <1>3, <2>1 DEF MessageTypes
  <2>4. QED BY <1>2, <2>1, <2>2, <2>3
<1>6. CASE WriteNote
  <2>1. /\ reader.at = "write" /\ UNCHANGED <<had, books>>
        /\ reader' = [reader EXCEPT !.at = "verify"]
    BY <1>6 DEF WriteNote, At, HandlerFrame, service
  <2>2. reader \in Handlers
    BY <2>1, ReaderAt
  <2>3. reader'.hash = reader.hash /\ P' = P /\ reader'.at = "verify"
    BY <2>1, <2>2 DEF P, Handlers
  <2>4. QED BY <1>2, <1>4, <2>1, <2>3
<1>7. CASE WriteFails
  BY <1>2, <1>7 DEF WriteFails, Return, service
<1>8. CASE VerifyNote
  <2>1. reader.at = "verify" /\ UNCHANGED <<had, pending>>
    BY <1>8 DEF VerifyNote, At, HandlerFrame, service
  <2>2. reader \in Handlers /\ P \in Paths /\ reader.hash \in had[P]
    BY <1>4, <2>1, ReaderAt
  <2>3. CASE disk[P] = reader.hash
    <3>1. UNCHANGED base /\ reader' = [reader EXCEPT !.at = "finish"]
      BY <1>8, <2>3 DEF VerifyNote
    <3>2. reader'.hash = reader.hash /\ P' = P /\ reader'.at = "finish"
      BY <2>2, <3>1 DEF P, Handlers
    <3>3. QED BY <1>2, <2>1, <2>2, <3>1, <3>2 DEF books
  <2>4. CASE disk[P] # reader.hash
    <3>1. base' = [base EXCEPT ![P] = reader.hash] /\ reader' = Asleep
      BY <1>8, <2>4 DEF VerifyNote, Return
    <3>2. QED BY <1>1, <1>b, <1>c, <2>1, <2>2, <3>1
  <2>5. QED BY <2>3, <2>4
<1>9. CASE FinishModify
  <2>1. reader.at = "finish" /\ UNCHANGED had /\ reader' = Asleep
    BY <1>9 DEF FinishModify, At, HandlerFrame, Return, service
  <2>2. P \in Paths /\ reader.hash \in had[P]
    BY <1>4, <2>1
  <2>3. \/ UNCHANGED books
        \/ /\ base' = [base EXCEPT ![P] = reader.hash]
           /\ pending' = [pending EXCEPT ![P] = None]
    BY <1>9 DEF FinishModify
  <2>4. \A p \in Paths : base'[p] \in had[p] /\ pending'[p] \in had[p]
    BY <1>b, <1>c, <2>2, <2>3 DEF books
  <2>5. QED BY <1>1, <2>1, <2>4
<1>10. CASE BeginMtime
  <2> DEFINE m == Head(inbox)
  <2>1. /\ Handle("Mtime") /\ UNCHANGED <<had, books>>
        /\ Goto("mtime", [m EXCEPT !.content = pending[m.path]], echoSeq', base[m.path])
    BY <1>10 DEF BeginMtime, HandlerFrame, service
  <2>2. m \in Messages /\ m.path \in Paths
    BY <1>3, <2>1 DEF MessageTypes
  <2>3. PICK n : n = [m EXCEPT !.content = pending[m.path]]
    OBVIOUS
  <2>4. n.path = m.path /\ n.content = pending[m.path]
    BY <2>2, <2>3 DEF Messages
  <2>5. reader'.hash = base[m.path] /\ reader'.msg = n
    BY <2>1, <2>3 DEF Goto
  <2>6. P' = m.path /\ reader'.msg.content = pending[m.path]
    BY <2>4, <2>5 DEF P
  <2>7. QED BY <1>2, <1>b, <2>1, <2>2, <2>5, <2>6
<1>11. CASE FinishMtime
  <2>1. reader.at = "mtime" /\ UNCHANGED had /\ reader' = Asleep
    BY <1>11 DEF FinishMtime, At, HandlerFrame, Return, service
  <2>2. P \in Paths /\ reader.msg.content \in had[P]
    BY <1>4, <2>1 DEF Recorded
  <2>3. \/ UNCHANGED books
        \/ /\ base' = [base EXCEPT ![P] = reader.msg.content]
           /\ pending' = [pending EXCEPT ![P] = None]
    BY <1>11 DEF FinishMtime
  <2>4. \A p \in Paths : base'[p] \in had[p] /\ pending'[p] \in had[p]
    BY <1>b, <1>c, <2>2, <2>3 DEF books
  <2>5. QED BY <1>1, <2>1, <2>4
<1>12. CASE CheckDelete
  <2> DEFINE m == Head(inbox)
  <2>1. Handle("Delete") /\ UNCHANGED base
    BY <1>12 DEF CheckDelete
  <2>2. m.path \in Paths
    BY <1>3, <2>1 DEF MessageTypes
  <2>3. CASE disk[m.path] # None /\ base[m.path] # disk[m.path]
    <3>1. PICK c \in Versions : c = disk[m.path]
      BY <2>2 DEF NoteTypes
    <3>2. /\ pending' = [pending EXCEPT ![m.path] = c] /\ reader' = reader
          /\ had' = [had EXCEPT ![m.path] = had[m.path] \cup {c}]
      BY <1>12, <2>3, <3>1 DEF CheckDelete
    <3>3. /\ had' \in [Paths -> SUBSET Versions]
          /\ \A p \in Paths : had[p] \subseteq had'[p] /\ pending'[p] \in had'[p]
      BY <1>b, <1>c, <2>2, <3>2
    <3>4. Keeps
      BY <1>a, <1>b, <2>1, <3>3 DEF Keeps
    <3>5. QED BY <1>a, <3>2, <3>4, StillRecorded
  <2>4. CASE disk[m.path] = None \/ base[m.path] = disk[m.path]
    <3>1. Goto("remove", m, 0, disk[m.path]) /\ UNCHANGED <<pending, had>>
      BY <1>12, <2>4 DEF CheckDelete
    <3>2. reader'.hash = disk[m.path] /\ P' = m.path /\ reader'.at = "remove"
      BY <3>1 DEF Goto, P
    <3>3. disk[m.path] \in had[m.path]
      BY <1>b, <2>2, <2>4
    <3>4. QED BY <1>2, <2>1, <3>1, <3>2, <3>3 DEF books
  <2>5. QED BY <2>3, <2>4
<1>13. CASE RemoveNote
  <2>1. /\ UNCHANGED had /\ reader' = Asleep
        /\ base' = [base EXCEPT ![P] = None] /\ pending' = [pending EXCEPT ![P] = None]
    BY <1>13 DEF RemoveNote, Return, service
  <2>2. QED BY <1>1, <1>b, <1>c, <2>1
<1>14. CASE BeginRename
  <2> DEFINE m == Head(inbox)
  <2>1. Handle("Rename") /\ UNCHANGED <<had, pending>>
    BY <1>14 DEF BeginRename, HandlerFrame, service
  <2>2. m.path \in Paths /\ m.content \in had[m.path]
    BY <1>3, <2>1 DEF MessageTypes
  <2>3. CASE disk[m.old] # None
    <3>1. Goto("move", m, echoSeq', m.content) /\ UNCHANGED base
      BY <1>14, <2>3 DEF BeginRename
    <3>2. reader'.hash = m.content /\ P' = m.path /\ reader'.at = "move"
      BY <3>1 DEF Goto, P
    <3>3. QED BY <1>2, <2>1, <2>2, <3>1, <3>2 DEF books
  <2>4. CASE disk[m.old] = None
    <3>1. /\ reader' = reader
          /\ base' = base \/ base' = [base EXCEPT ![m.path] = m.content, ![m.old] = None]
      BY <1>14, <2>4 DEF BeginRename
    <3>2. \A p \in Paths : base'[p] \in had[p] /\ pending'[p] \in had[p]
      BY <1>b, <1>c, <2>1, <2>2, <3>1
    <3>3. QED BY <1>1, <2>1, <3>1, <3>2
  <2>5. QED BY <2>3, <2>4
<1>15. CASE MoveNote
  <2>1. reader.at = "move" /\ UNCHANGED <<had, pending>> /\ reader' = Asleep
    BY <1>15 DEF MoveNote, At, Return, service
  <2>2. P \in Paths /\ reader.hash \in had[P]
    BY <1>4, <2>1
  <2>3. base' = base \/ base' = [base EXCEPT ![P] = reader.hash, ![reader.msg.old] = None]
    BY <1>15 DEF MoveNote
  <2>4. \A p \in Paths : base'[p] \in had[p] /\ pending'[p] \in had[p]
    BY <1>b, <1>c, <2>1, <2>2, <2>3
  <2>5. QED BY <1>1, <2>1, <2>4
<1>16. CASE HandleAck
  <2> DEFINE m == Head(inbox)
  <2>1. Handle("Ack") /\ UNCHANGED <<had, reader>>
    BY <1>16 DEF HandleAck, HandlerFrame, service
  <2>2. m.path \in Paths
    BY <1>3, <2>1 DEF MessageTypes
  <2>3. \/ UNCHANGED books
        \/ base' = [base EXCEPT ![m.path] = None] /\ UNCHANGED pending
        \/ /\ base' = [base EXCEPT ![m.path] = pending[m.path]]
           /\ pending' = [pending EXCEPT ![m.path] = None]
    BY <1>16 DEF HandleAck
  <2>4. \A p \in Paths : base'[p] \in had[p] /\ pending'[p] \in had[p]
    BY <1>b, <1>c, <2>2, <2>3 DEF books
  <2>5. QED BY <1>1, <2>1, <2>4
<1>17. QED BY <1>5, <1>6, <1>7, <1>8, <1>9, <1>10, <1>11, <1>12, <1>13, <1>14, <1>15, <1>16
           DEF ReadLoop

\* Every step leaves what the daemon knows recorded.
LEMMA RecordedKept ==
  ASSUME Types, Recorded, [Next]_vars
  PROVE  Recorded'
<1>1. CASE \E i \in Calls : Callback(i)
  BY <1>1, CallbackRecorded
<1>2. CASE ReadLoop
  BY <1>2, HandlerRecorded
<1>3. CASE Service
  <2>1. PICK m \in Messages, new \in [Paths -> Versions] :
          /\ Ask(m, new)
          /\ \A o \in Paths : new[o] = Apply(m, o, svc[o])
    BY <1>3, Asked
  <2>2. /\ inbox' = Append(inbox, m) /\ Serves(new) /\ UNCHANGED <<base, pending, reader>>
    BY <2>1 DEF Ask, books
  <2>3. /\ had' \in [Paths -> SUBSET Versions] /\ svc' = new
        /\ \A p \in Paths : had[p] \subseteq had'[p] /\ new[p] \in had'[p]
    BY <2>2, Served
  <2>4. Keeps
    BY <2>2, <2>3 DEF Keeps, Recorded
  <2>5. m.type \in {"Modify", "Rename"} => m.content \in had'[m.path]
    <3>1. m.path \in Paths
      BY DEF Messages
    <3>2. QED BY <2>1, <2>3, <3>1 DEF Apply
  <2>6. QED BY <2>2, <2>4, <2>5, StillRecorded
<1>4. CASE User \/ (\E p \in Paths : EvidenceExpires(p)) \/ UNCHANGED vars
  <2>1. UNCHANGED <<base, pending, inbox, reader, svc, had>>
    BY <1>4 DEF User, Edit, UserDelete, Touch, EvidenceExpires, vars, books, service
  <2>2. Keeps
    BY <2>1 DEF Keeps, Recorded
  <2>3. QED BY <2>1, <2>2, StillRecorded
<1>5. QED BY <1>1, <1>2, <1>3, <1>4 DEF Next, Daemon

\* At first the daemon knows what the service has.
LEMMA InitRecorded == Init => Recorded
<1>1. SUFFICES ASSUME Init PROVE Recorded
  OBVIOUS
<1>2. Types
  BY <1>1, InitTypes
<1>3. had = [p \in Paths |-> {disk[p], None}] /\ base = disk /\ svc = disk
      /\ pending = [p \in Paths |-> None] /\ inbox = <<>> /\ reader = Asleep
  BY <1>1 DEF Init
<1>4. had \in [Paths -> SUBSET Versions]
  BY <1>2, <1>3, Values DEF Types, NoteTypes
<1>5. \A p \in Paths : {None, base[p], pending[p], svc[p]} \subseteq had[p]
  BY <1>3
<1>6. QED BY <1>3, <1>4, <1>5, Values DEF Recorded

\* A remote delete removes no edit that was there when it looked, unless the service had
\* that content of the note, or a delete before it kept it.
THEOREM EditsOutliveDeletes == Spec => EditsSurviveDelete
<1>1. Types /\ Recorded /\ [Next]_vars => Recorded'
  BY RecordedKept
<1>2. Spec => []Types
  <2>1. IInv => Types
    BY DEF IInv
  <2>2. QED BY <2>1, Invariance, PTL
<1>3. Spec => []Recorded
  BY <1>1, <1>2, InitRecorded, PTL DEF Spec
<1>4. Recorded => [RemoveNote /\ disk[P] = reader.hash => disk[P] \in had[P]]_vars
  <2>1. SUFFICES ASSUME Recorded, RemoveNote, disk[P] = reader.hash
                 PROVE  disk[P] \in had[P]
    OBVIOUS
  <2>2. reader.at # "idle"
    BY <2>1 DEF RemoveNote, At
  <2>3. QED BY <2>1, <2>2 DEF Recorded
<1>5. QED BY <1>3, <1>4, PTL DEF Spec, EditsSurviveDelete

=============================================================================
