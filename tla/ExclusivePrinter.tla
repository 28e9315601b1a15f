--------------------------- MODULE ExclusivePrinter ---------------------------
(***************************************************************************)
(* What the print side of the service promises its clients, with no HTTP   *)
(* thread, mutex or printer command in sight: one print job is active at a *)
(* time; labels come out only for the active job and never more of them    *)
(* than it asked for; a refused job put out nothing; a complete job put    *)
(* out exactly what it asked for; a closed job stays closed.               *)
(*                                                                         *)
(* DriverPrint implements this specification (see DriverPrint!Refines).    *)
(***************************************************************************)
EXTENDS Naturals

CONSTANTS
  Requests,   \* the print requests ever received
  MaxCopies,  \* the largest print_count of a request
  None        \* "no request": not a member of Requests

VARIABLES
  phase,      \* where each request stands
  quota,      \* the labels each request asks for, 0 until it is submitted
  output,     \* the labels put out for each request
  active      \* the request being printed, or None

vars == <<phase, quota, output, active>>

Closed == {"refused", "failed", "complete"}

Init ==
  /\ phase = [r \in Requests |-> "new"]
  /\ quota = [r \in Requests |-> 0]
  /\ output = [r \in Requests |-> 0]
  /\ active = None

Submit(r) ==
  /\ phase[r] = "new"
  /\ phase' = [phase EXCEPT ![r] = "waiting"]
  /\ \E n \in 1..MaxCopies : quota' = [quota EXCEPT ![r] = n]
  /\ UNCHANGED <<output, active>>

\* Turned away before printing: nothing was or will be put out for it.
Refuse(r) ==
  /\ phase[r] = "waiting"
  /\ phase' = [phase EXCEPT ![r] = "refused"]
  /\ UNCHANGED <<quota, output, active>>

Start(r) ==
  /\ phase[r] = "waiting"
  /\ active = None
  /\ phase' = [phase EXCEPT ![r] = "active"]
  /\ active' = r
  /\ UNCHANGED <<quota, output>>

PutOut(r) ==
  /\ active = r
  /\ output[r] < quota[r]
  /\ output' = [output EXCEPT ![r] = @ + 1]
  /\ UNCHANGED <<phase, quota, active>>

Complete(r) ==
  /\ active = r
  /\ output[r] = quota[r]
  /\ phase' = [phase EXCEPT ![r] = "complete"]
  /\ active' = None
  /\ UNCHANGED <<quota, output>>

\* The active job gives up; the last write may have put out one more label.
Fail(r) ==
  /\ active = r
  /\ \/ UNCHANGED output
     \/ /\ output[r] < quota[r]
        /\ output' = [output EXCEPT ![r] = @ + 1]
  /\ phase' = [phase EXCEPT ![r] = "failed"]
  /\ active' = None
  /\ UNCHANGED quota

\* The thread of a request that is not being printed dies.
Drop(r) ==
  /\ phase[r] = "waiting"
  /\ phase' = [phase EXCEPT ![r] = "failed"]
  /\ UNCHANGED <<quota, output, active>>

\* The whole service dies: every open request fails at once.
Crash ==
  /\ phase' = [r \in Requests |->
                 IF phase[r] \in {"waiting", "active"} THEN "failed" ELSE phase[r]]
  /\ active' = None
  /\ UNCHANGED <<quota, output>>

Next ==
  \/ \E r \in Requests : \/ Submit(r) \/ Refuse(r) \/ Start(r) \/ PutOut(r)
                         \/ Complete(r) \/ Fail(r) \/ Drop(r)
  \/ Crash

Spec == Init /\ [][Next]_vars
===============================================================================
