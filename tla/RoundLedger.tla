---------------------------- MODULE RoundLedger ----------------------------
(***************************************************************************)
(* What the round machinery of SyncRound promises its callers: rounds are  *)
(* started one at a time, in order, each once; the reported error changes  *)
(* only when the running round ends; and a round that runs ends.           *)
(***************************************************************************)
EXTENDS Naturals

CONSTANT MaxRounds

VARIABLES status,  \* status[r]: how far round r got
          err      \* the error SyncError reports is not nil

vars == <<status, err>>

Rounds == 1..MaxRounds

Init == status = [r \in Rounds |-> "unused"] /\ err = FALSE

\* A round starts when every earlier one is over.
Start(r) ==
  /\ status[r] = "unused"
  /\ \A q \in 1..(r - 1) : status[q] = "over"
  /\ status' = [status EXCEPT ![r] = "running"]
  /\ UNCHANGED err

\* The running round ends: it completes, it fails, or its connection goes
\* away, which reports nothing.
End(r) ==
  /\ status[r] = "running"
  /\ status' = [status EXCEPT ![r] = "over"]
  /\ err' \in BOOLEAN

Next == \E r \in Rounds : Start(r) \/ End(r)

Spec == Init /\ [][Next]_vars

\* A running round ends: infinitely often none is running.
FairSpec == Spec /\ []<>(\A r \in Rounds : status[r] # "running")
=============================================================================
