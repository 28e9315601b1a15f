--------------------------- MODULE DriverPrintProofs ---------------------------
(***************************************************************************)
(* Proofs about DriverPrint, for any number of requests and any bound on   *)
(* the number of copies, and that it implements ExclusivePrinter.          *)
(***************************************************************************)
EXTENDS DriverPrint, TLAPS

\* The script of a printer has at least one command, and its length is the
\* number of writes listed in it.
LEMMA ScriptLength ==
  ASSUME NEW p \in Printers
  PROVE  /\ Len(Script(p)) = IF p = "zebra" THEN 1 ELSE 13
         /\ Len(Script(p)) \in Nat
         /\ 1 \in 1..Len(Script(p))
<1>1. CASE p = "zebra"
  BY <1>1 DEF Script, ZebraScript, Cmd
<1>2. CASE p = "godex"
  BY <1>2 DEF Script, execute_pack_render, download_graphic, build_pack_render, Cmd
<1>3. QED
  BY <1>1, <1>2 DEF Printers

\* A job names one of the printers and at least one copy.
LEMMA JobFields ==
  ASSUME NEW j \in Jobs
  PROVE  /\ j.printer \in Printers
         /\ j.copies \in Nat
         /\ j.copies >= 1
         /\ j.verdict \in {"invalid", "unprepared", "ready"}
BY ConstantsAssumption DEF Jobs, NoJob, Printers

\* Whatever command is delivered, in whole or in part, the printer's state keeps
\* its type.
LEMMA PrinterType ==
  ASSUME TypeOK, NEW r \in Requests, Disturb(r, Current(r))
  PROVE  /\ mem' \in [Slots -> Content]
         /\ form' \in [Parts -> Content]
         /\ labels' \subseteq Labels
         /\ printed' \in [Requests -> Nat]
         /\ last' \in Requests \cup {None}
<1> DEFINE c == Current(r)
<1> HIDE DEF c
<1>1. ASSUME Deliver(r, c)
      PROVE  /\ mem' \in [Slots -> Content]
             /\ form' \in [Parts -> Content]
             /\ labels' \subseteq Labels
             /\ printed' \in [Requests -> Nat]
             /\ last' \in Requests \cup {None}
  <2>1. CASE c.op = "set" /\ UNCHANGED printer
    BY <2>1 DEF TypeOK, printer
  <2>2. CASE c.op \in {"delete", "reserve"} /\ Store(c.part, None)
    BY <2>2 DEF TypeOK, Store, Content
  <2>3. CASE c.op = "data" /\ Store(c.part, r)
    BY <2>3 DEF TypeOK, Store, Content
  <2>4. CASE /\ c.op = "begin"
             /\ form' = [p \in Parts |-> None]
             /\ UNCHANGED <<mem, labels, printed, last>>
    BY <2>4 DEF TypeOK, Content
  <2>5. CASE /\ c.op = "place"
             /\ form' = [form EXCEPT ![c.part] = IF c.part \in Slots THEN mem[c.part] ELSE r]
             /\ UNCHANGED <<mem, labels, printed, last>>
    BY <2>5 DEF TypeOK, Content
  <2>6. CASE /\ c.op = "eject"
             /\ Eject(r, form["text"], form["fields"], form["qr"])
             /\ UNCHANGED <<mem, form>>
    BY <2>6 DEF TypeOK, Eject, Labels, Parts
  <2>7. CASE c.op = "zpl" /\ Eject(r, r, r, r) /\ UNCHANGED <<mem, form>>
    BY <2>7 DEF TypeOK, Eject, Labels, Content
  <2>8. QED
    BY <1>1, <2>1, <2>2, <2>3, <2>4, <2>5, <2>6, <2>7 DEF Deliver
<1>2. CASE UNCHANGED printer
  BY <1>2 DEF TypeOK, printer
<1>3. CASE c.op = "data" /\ Store(c.part, Torn)
  BY <1>3 DEF TypeOK, Store, Content
<1>4. CASE /\ c.op = "place" /\ c.part = "fields"
           /\ form' = [form EXCEPT ![c.part] = Torn]
           /\ UNCHANGED <<mem, labels, printed, last>>
  BY <1>4 DEF TypeOK, Content
<1>5. QED
  BY <1>1, <1>2, <1>3, <1>4 DEF Disturb, c

\* The server's half of a step that concludes a request keeps its type.
LEMMA ConcludeType ==
  ASSUME TypeOK, NEW r \in Requests, NEW code \in Statuses, Conclude(r, code)
  PROVE  /\ pc' \in [Requests -> InFlight \cup {"new", "answered", "lost"}]
         /\ status' \in [Requests -> Statuses]
         /\ pc'[r] # "script"
         /\ \A q \in Requests : q # r => pc'[q] = pc[q] /\ status'[q] = status[q]
BY DEF TypeOK, Conclude, InFlight

\* A step that does no more than conclude a request, and leave or drop the guard.
LEMMA ConcludeKeepsType ==
  ASSUME TypeOK, NEW r \in Requests, NEW code \in Statuses, Conclude(r, code),
         activity' \in Requests \cup {None},
         UNCHANGED <<config, job, done, lock, step, printer>>
  PROVE  TypeOK'
<1>1. /\ pc' \in [Requests -> InFlight \cup {"new", "answered", "lost"}]
      /\ status' \in [Requests -> Statuses]
      /\ \A q \in Requests : pc'[q] = "script" => pc[q] = "script"
  BY ConcludeType
<1>2. \A q \in Requests :
        pc'[q] = "script" => step'[q] \in 1..Len(Script(job'[q].printer))
  BY <1>1 DEF TypeOK
<1>3. QED
  BY <1>1, <1>2 DEF TypeOK, printer

\* So does moving on in the script of a request.
LEMMA AdvanceType ==
  ASSUME TypeOK, NEW r \in Requests, pc[r] = "script", advance(r), UNCHANGED job
  PROVE  /\ pc' \in [Requests -> InFlight \cup {"new", "answered", "lost"}]
         /\ done' \in [Requests -> Nat]
         /\ step' \in [Requests -> Nat]
         /\ lock' \in Requests \cup {None}
         /\ \A q \in Requests :
              pc'[q] = "script" => step'[q] \in 1..Len(Script(job'[q].printer))
<1>1. job[r].printer \in Printers
  BY JobFields DEF TypeOK
<1>2. Len(Script(job[r].printer)) \in Nat
  BY <1>1, ScriptLength
<1>3. step[r] \in 1..Len(Script(job[r].printer))
  BY DEF TypeOK
<1>4. \A q \in Requests : pc[q] = "script" => step[q] \in 1..Len(Script(job'[q].printer))
  BY DEF TypeOK
<1>5. CASE step[r] < Len(Script(job[r].printer))
  <2>1. /\ step' = [step EXCEPT ![r] = @ + 1]
        /\ UNCHANGED <<pc, done, lock>>
    BY <1>5 DEF advance
  <2>2. step[r] + 1 \in 1..Len(Script(job[r].printer))
    BY <1>2, <1>3, <1>5
  <2>3. \A q \in Requests :
          pc'[q] = "script" => step'[q] \in 1..Len(Script(job'[q].printer))
    BY <1>4, <2>1, <2>2 DEF TypeOK
  <2>4. QED
    BY <2>1, <2>3 DEF TypeOK
<1>6. CASE ~(step[r] < Len(Script(job[r].printer)))
  <2>1. /\ pc' = [pc EXCEPT ![r] = "loop"]
        /\ done' = [done EXCEPT ![r] = @ + 1]
        /\ lock' = None
        /\ UNCHANGED step
    BY <1>6 DEF advance
  <2>2. \A q \in Requests :
          pc'[q] = "script" => step'[q] \in 1..Len(Script(job'[q].printer))
    BY <1>4, <2>1 DEF TypeOK
  <2>3. QED
    BY <2>1, <2>2 DEF TypeOK, InFlight
<1>7. QED
  BY <1>5, <1>6

\* TypeOK is inductive: every action keeps every variable in its type.
LEMMA TypeStep == TypeOK /\ [Next]_vars => TypeOK'
<1> SUFFICES ASSUME TypeOK, [Next]_vars
             PROVE  TypeOK'
  OBVIOUS
<1>1. ASSUME NEW r \in Requests, handle_mobile_http_stream(r)
      PROVE  TypeOK'
  BY <1>1 DEF handle_mobile_http_stream, TypeOK, InFlight, printer
<1>2. ASSUME NEW r \in Requests, prepare(r)
      PROVE  TypeOK'
  <2>1. CASE Conclude(r, 400) \/ Conclude(r, 422)
    <3>1. 400 \in Statuses /\ 422 \in Statuses
      BY DEF Statuses
    <3>2. UNCHANGED <<config, job, done, activity, lock, step, printer>>
      BY <1>2 DEF prepare
    <3>3. activity' \in Requests \cup {None}
      BY <3>2 DEF TypeOK
    <3>4. QED
      BY <2>1, <3>1, <3>2, <3>3, ConcludeKeepsType
  <2>2. CASE pc' = [pc EXCEPT ![r] = "prepared"] /\ UNCHANGED status
    BY <1>2, <2>2 DEF prepare, TypeOK, printer, InFlight
  <2>3. QED
    BY <1>2, <2>1, <2>2 DEF prepare
<1>3. ASSUME NEW r \in Requests, try_start(r)
      PROVE  TypeOK'
  <2>1. CASE Conclude(r, 409) /\ UNCHANGED activity
    <3>1. 409 \in Statuses
      BY DEF Statuses
    <3>2. UNCHANGED <<config, job, done, lock, step, printer>>
      BY <1>3 DEF try_start
    <3>3. activity' \in Requests \cup {None}
      BY <2>1 DEF TypeOK
    <3>4. QED
      BY <2>1, <3>1, <3>2, <3>3, ConcludeKeepsType
  <2>2. CASE activity' = r /\ pc' = [pc EXCEPT ![r] = "loop"] /\ UNCHANGED status
    BY <1>3, <2>2 DEF try_start, TypeOK, printer, InFlight
  <2>3. QED
    BY <1>3, <2>1, <2>2 DEF try_start
<1>4. ASSUME NEW r \in Requests, execute_unconfigured(r)
      PROVE  TypeOK'
  <2>1. 503 \in Statuses
    BY DEF Statuses
  <2>2. QED
    BY <1>4, <2>1, ConcludeKeepsType DEF execute_unconfigured, abort, clear
<1>5. ASSUME NEW r \in Requests, execute_simulated(r)
      PROVE  TypeOK'
  BY <1>5 DEF execute_simulated, TypeOK, printer
<1>6. ASSUME NEW r \in Requests, execute_device(r)
      PROVE  TypeOK'
  <2>1. CASE abort(r, 503) /\ UNCHANGED <<lock, step>>
    <3>1. 503 \in Statuses
      BY DEF Statuses
    <3>2. QED
      BY <1>6, <2>1, <3>1, ConcludeKeepsType DEF execute_device, abort, clear
  <2>2. CASE /\ lock' = r
             /\ step' = [step EXCEPT ![r] = 1]
             /\ pc' = [pc EXCEPT ![r] = "script"]
             /\ UNCHANGED <<status, activity>>
    <3>1. 1 \in 1..Len(Script(job[r].printer))
      BY ScriptLength, JobFields DEF TypeOK
    <3>2. QED
      BY <1>6, <2>2, <3>1 DEF execute_device, TypeOK, printer, InFlight
  <2>3. QED
    BY <1>6, <2>1, <2>2 DEF execute_device
<1>7. ASSUME NEW r \in Requests, write_ok(r)
      PROVE  TypeOK'
  <2>1. Disturb(r, Current(r))
    BY <1>7 DEF write_ok, Disturb
  <2>2. QED
    BY <1>7, <2>1, PrinterType, AdvanceType DEF write_ok, advance, TypeOK
<1>8. ASSUME NEW r \in Requests, write_err(r)
      PROVE  TypeOK'
  <2>1. CASE advance(r)
    BY <1>8, <2>1, PrinterType, AdvanceType DEF write_err, advance, TypeOK
  <2>2. CASE lock' = None /\ abort(r, 500) /\ UNCHANGED <<done, step>>
    <3>1. 500 \in Statuses
      BY DEF Statuses
    <3>2. /\ pc' \in [Requests -> InFlight \cup {"new", "answered", "lost"}]
          /\ status' \in [Requests -> Statuses]
          /\ \A q \in Requests : pc'[q] = "script" => pc[q] = "script"
      BY <2>2, <3>1, ConcludeType DEF abort
    <3>3. /\ activity' = None /\ lock' = None
          /\ UNCHANGED <<config, job, done, step>>
      BY <1>8, <2>2 DEF write_err, abort, clear
    <3>4. /\ mem' \in [Slots -> Content] /\ form' \in [Parts -> Content]
          /\ labels' \subseteq Labels /\ printed' \in [Requests -> Nat]
          /\ last' \in Requests \cup {None}
      BY <1>8, PrinterType DEF write_err
    <3>5. \A q \in Requests :
            pc'[q] = "script" => step'[q] \in 1..Len(Script(job'[q].printer))
      BY <3>2, <3>3 DEF TypeOK
    <3>6. QED
      BY <3>2, <3>3, <3>4, <3>5 DEF TypeOK
  <2>3. QED
    BY <1>8, <2>1, <2>2 DEF write_err
<1>9. ASSUME NEW r \in Requests, finish(r)
      PROVE  TypeOK'
  <2>1. 200 \in Statuses
    BY DEF Statuses
  <2>2. QED
    BY <1>9, <2>1, ConcludeKeepsType DEF finish, clear
<1>10. ASSUME NEW r \in Requests, write_http_response(r)
       PROVE  TypeOK'
  BY <1>10 DEF write_http_response, TypeOK, printer, InFlight
<1>11. ASSUME crash
       PROVE  TypeOK'
  BY <1>11 DEF crash, TypeOK, printer, InFlight
<1>12. CASE UNCHANGED vars
  BY <1>12 DEF vars, server, printer, TypeOK
<1>13. QED
  BY <1>1, <1>2, <1>3, <1>4, <1>5, <1>6, <1>7, <1>8, <1>9, <1>10, <1>11, <1>12
     DEF Next, Handler

\* Type correctness of the print path: no interleaving of handlers, failed write
\* or restart takes a variable out of its type or an index out of its script.
THEOREM TypeCorrect == Spec => []TypeOK
<1>1. Init => TypeOK
  BY JobFields, ConstantsAssumption
     DEF Init, TypeOK, Jobs, NoJob, InFlight, Statuses, Content
<1>2. QED
  BY <1>1, TypeStep, PTL DEF Spec

-------------------------------------------------------------------------------
(* Exclusion: one request at a time in the copy loop, and the mutex with   *)
(* it.                                                                     *)

\* The mutex is held exactly by the request whose commands are being written.
LockMatchesScript == \A r \in Requests : lock = r <=> pc[r] = "script"

\* GuardMatchesOwner needs no more than types; LockMatchesScript needs it, for
\* no two requests can be in their scripts.
ExclusionInv == TypeOK /\ GuardMatchesOwner /\ LockMatchesScript

LEMMA ExclusionStep == ExclusionInv /\ [Next]_vars => ExclusionInv'
<1> SUFFICES ASSUME ExclusionInv, [Next]_vars
             PROVE  ExclusionInv'
  OBVIOUS
<1>0. TypeOK'
  BY TypeStep DEF ExclusionInv
<1> SUFFICES GuardMatchesOwner' /\ LockMatchesScript'
  BY <1>0 DEF ExclusionInv
<1> USE ConstantsAssumption
        DEF ExclusionInv, GuardMatchesOwner, LockMatchesScript, Holding, TypeOK
<1>0a. ASSUME NEW r \in Requests, NEW code, Conclude(r, code), UNCHANGED lock,
              pc[r] # "script",
              \/ pc[r] \notin Holding /\ UNCHANGED activity
              \/ pc[r] \in Holding /\ activity' = None
       PROVE  GuardMatchesOwner' /\ LockMatchesScript'
  <2>1. pc'[r] \notin Holding /\ \A q \in Requests \ {r} : pc'[q] = pc[q]
    BY <1>0a DEF Conclude
  <2>2. LockMatchesScript'
    BY <1>0a, <2>1
  <2>3. GuardMatchesOwner'
    BY <1>0a, <2>1
  <2>4. QED
    BY <2>2, <2>3
<1>1. ASSUME NEW r \in Requests, handle_mobile_http_stream(r)
      PROVE  GuardMatchesOwner' /\ LockMatchesScript'
  BY <1>1 DEF handle_mobile_http_stream
<1>2. ASSUME NEW r \in Requests, prepare(r)
      PROVE  GuardMatchesOwner' /\ LockMatchesScript'
  <2>1. /\ pc[r] = "received" /\ UNCHANGED <<activity, lock>>
        /\ \/ Conclude(r, 400) \/ Conclude(r, 422)
           \/ pc' = [pc EXCEPT ![r] = "prepared"]
    BY <1>2 DEF prepare
  <2>2. CASE Conclude(r, 400) \/ Conclude(r, 422)
    <3>1. pc[r] # "script" /\ pc[r] \notin Holding
      BY <2>1
    <3>2. QED
      BY <1>0a, <2>1, <2>2, <3>1, Zenon
  <2>3. CASE pc' = [pc EXCEPT ![r] = "prepared"]
    BY <2>1, <2>3
  <2>4. QED
    BY <2>1, <2>2, <2>3
<1>3. ASSUME NEW r \in Requests, try_start(r)
      PROVE  GuardMatchesOwner' /\ LockMatchesScript'
  <2>1. /\ pc[r] = "prepared" /\ UNCHANGED lock
        /\ \/ Conclude(r, 409) /\ UNCHANGED activity
           \/ activity = None /\ activity' = r /\ pc' = [pc EXCEPT ![r] = "loop"]
    BY <1>3 DEF try_start
  <2>2. CASE Conclude(r, 409) /\ UNCHANGED activity
    <3>1. pc[r] # "script" /\ pc[r] \notin Holding
      BY <2>1
    <3>2. QED
      BY <1>0a, <2>1, <2>2, <3>1, Zenon
  <2>3. CASE activity = None /\ activity' = r /\ pc' = [pc EXCEPT ![r] = "loop"]
    BY <2>1, <2>3
  <2>4. QED
    BY <2>1, <2>2, <2>3
<1>4. ASSUME NEW r \in Requests, execute_unconfigured(r)
      PROVE  GuardMatchesOwner' /\ LockMatchesScript'
  <2>1. /\ pc[r] = "loop" /\ UNCHANGED lock
        /\ Conclude(r, 503) /\ activity' = None
    BY <1>4 DEF execute_unconfigured, abort, clear
  <2>2. QED
    BY <1>0a, <2>1
<1>5. ASSUME NEW r \in Requests, execute_simulated(r)
      PROVE  GuardMatchesOwner' /\ LockMatchesScript'
  BY <1>5 DEF execute_simulated
<1>6. ASSUME NEW r \in Requests, execute_device(r)
      PROVE  GuardMatchesOwner' /\ LockMatchesScript'
  <2>1. CASE abort(r, 503) /\ UNCHANGED <<lock, step>>
    <3>1. activity' = None /\ lock' = lock /\ lock = None
      BY <1>6, <2>1 DEF execute_device, abort, clear
    <3>2. \/ pc' = [pc EXCEPT ![r] = "respond"]
          \/ pc' = [pc EXCEPT ![r] = "lost"]
      BY <2>1 DEF abort, Conclude
    <3>3. pc[r] = "loop"
      BY <1>6 DEF execute_device
    <3>4. QED
      BY <3>1, <3>2, <3>3
  <2>2. CASE /\ lock' = r
             /\ pc' = [pc EXCEPT ![r] = "script"]
             /\ UNCHANGED <<status, activity>>
    BY <1>6, <2>2 DEF execute_device
  <2>3. QED
    BY <1>6, <2>1, <2>2 DEF execute_device
<1>7. ASSUME NEW r \in Requests, pc[r] = "script", advance(r)
      PROVE  GuardMatchesOwner' /\ LockMatchesScript'
  <2>1. CASE UNCHANGED <<pc, lock>>
    BY <1>7, <2>1 DEF advance
  <2>2. CASE pc' = [pc EXCEPT ![r] = "loop"] /\ lock' = None
    BY <1>7, <2>2 DEF advance
  <2>3. QED
    BY <1>7, <2>1, <2>2 DEF advance
<1>8. ASSUME NEW r \in Requests, write_ok(r)
      PROVE  GuardMatchesOwner' /\ LockMatchesScript'
  BY <1>7, <1>8 DEF write_ok
<1>9. ASSUME NEW r \in Requests, write_err(r)
      PROVE  GuardMatchesOwner' /\ LockMatchesScript'
  <2>1. CASE advance(r)
    BY <1>7, <1>9, <2>1 DEF write_err
  <2>2. CASE lock' = None /\ abort(r, 500)
    <3>1. activity' = None /\ lock' = None /\ pc[r] = "script"
      BY <1>9, <2>2 DEF write_err, abort, clear
    <3>2. \/ pc' = [pc EXCEPT ![r] = "respond"]
          \/ pc' = [pc EXCEPT ![r] = "lost"]
      BY <2>2 DEF abort, Conclude
    <3>3. activity = r /\ \A q \in Requests \ {r} : pc[q] \notin Holding
      BY <3>1
    <3>4. pc'[r] \notin Holding /\ \A q \in Requests \ {r} : pc'[q] = pc[q]
      BY <3>2
    <3>5. QED
      BY <3>1, <3>3, <3>4
  <2>3. QED
    BY <1>9, <2>1, <2>2 DEF write_err
<1>10. ASSUME NEW r \in Requests, finish(r)
       PROVE  GuardMatchesOwner' /\ LockMatchesScript'
  BY <1>10 DEF finish, clear, Conclude
<1>11. ASSUME NEW r \in Requests, write_http_response(r)
       PROVE  GuardMatchesOwner' /\ LockMatchesScript'
  BY <1>11 DEF write_http_response
<1>12. ASSUME crash
       PROVE  GuardMatchesOwner' /\ LockMatchesScript'
  BY <1>12 DEF crash, InFlight
<1>13. CASE UNCHANGED vars
  BY <1>13 DEF vars, server
<1>14. QED
  BY <1>1, <1>2, <1>3, <1>4, <1>5, <1>6, <1>8, <1>9, <1>10, <1>11, <1>12, <1>13
     DEF Next, Handler

LEMMA ExclusionHolds == Spec => []ExclusionInv
<1>1. Init => ExclusionInv
  <2>1. Init => TypeOK
    BY JobFields, ConstantsAssumption
       DEF Init, TypeOK, Jobs, NoJob, InFlight, Statuses, Content
  <2>2. QED
    BY <2>1, ConstantsAssumption
       DEF Init, ExclusionInv, GuardMatchesOwner, LockMatchesScript, Holding
<1>2. QED
  BY <1>1, ExclusionStep, PTL DEF Spec

\* The service is busy exactly while one request is in its copy loop, for that
\* request: whatever way the handlers leave, panics and restarts included.
THEOREM GuardCorrect == Spec => []GuardMatchesOwner
<1>1. ExclusionInv => GuardMatchesOwner
  BY DEF ExclusionInv
<1>2. QED
  BY <1>1, ExclusionHolds, PTL

\* The executor's mutex is never contended.
THEOREM LockCorrect == Spec => []LockNeverBlocks
<1>1. ExclusionInv => LockNeverBlocks
  BY ConstantsAssumption
     DEF ExclusionInv, TypeOK, GuardMatchesOwner, LockMatchesScript, LockNeverBlocks, Holding
<1>2. QED
  BY <1>1, ExclusionHolds, PTL

-------------------------------------------------------------------------------
(* Label integrity: what is in the shared printer memory while a request's *)
(* commands are being written is that request's.                           *)

\* How far the label of the request in its GoDEX script has come: past the data
\* of a graphic the memory holds the request's own graphic, past a placement
\* the label does.
ScriptProgress ==
  \A r \in Requests :
    pc[r] = "script" /\ job[r].printer = "godex" =>
      /\ step[r] > 4 => mem["text"] = r
      /\ step[r] > 7 => mem["qr"] = r
      /\ step[r] > 9 => form["text"] = r
      /\ step[r] > 10 => form["fields"] = r
      /\ step[r] > 11 => form["qr"] = r

\* LabelIntegrity is not inductive: what E ejects depends on the label under
\* construction, and that on the graphics downloaded before.
LabelInv == ExclusionInv /\ ScriptProgress /\ LabelIntegrity

LEMMA CurrentCommand ==
  ASSUME TypeOK, NEW r \in Requests, pc[r] = "script"
  PROVE  \/ /\ job[r].printer = "zebra"
            /\ step[r] = 1
            /\ Len(Script(job[r].printer)) = 1
            /\ Current(r) = Cmd("zpl", "none")
         \/ /\ job[r].printer = "godex"
            /\ step[r] \in 1..13
            /\ Len(Script(job[r].printer)) = 13
            /\ step[r] = 1 => Current(r) = Cmd("set", "none")
            /\ step[r] = 2 => Current(r) = Cmd("delete", "text")
            /\ step[r] = 3 => Current(r) = Cmd("reserve", "text")
            /\ step[r] = 4 => Current(r) = Cmd("data", "text")
            /\ step[r] = 5 => Current(r) = Cmd("delete", "qr")
            /\ step[r] = 6 => Current(r) = Cmd("reserve", "qr")
            /\ step[r] = 7 => Current(r) = Cmd("data", "qr")
            /\ step[r] = 8 => Current(r) = Cmd("begin", "none")
            /\ step[r] = 9 => Current(r) = Cmd("place", "text")
            /\ step[r] = 10 => Current(r) = Cmd("place", "fields")
            /\ step[r] = 11 => Current(r) = Cmd("place", "qr")
            /\ step[r] = 12 => Current(r) = Cmd("eject", "none")
            /\ step[r] = 13 => Current(r) = Cmd("set", "none")
<1>1. job[r].printer \in Printers
  BY JobFields DEF TypeOK
<1>2. step[r] \in 1..Len(Script(job[r].printer))
  BY DEF TypeOK
<1>3. CASE job[r].printer = "zebra"
  <2>1. Len(Script(job[r].printer)) = 1
    BY <1>1, <1>3, ScriptLength
  <2>2. step[r] = 1
    BY <1>2, <2>1
  <2>3. Current(r) = Cmd("zpl", "none")
    BY <1>3, <2>2 DEF Current, Script, ZebraScript
  <2>4. QED
    BY <1>3, <2>1, <2>2, <2>3
<1>4. CASE job[r].printer = "godex"
  <2>1. Len(Script(job[r].printer)) = 13
    BY <1>1, <1>4, ScriptLength
  <2>2. Current(r) = execute_pack_render[step[r]]
    BY <1>4 DEF Current, Script
  <2>3. step[r] \in 1..13
    BY <1>2, <2>1
  <2>4. /\ execute_pack_render[1] = Cmd("set", "none")
        /\ execute_pack_render[2] = Cmd("delete", "text")
        /\ execute_pack_render[3] = Cmd("reserve", "text")
        /\ execute_pack_render[4] = Cmd("data", "text")
        /\ execute_pack_render[5] = Cmd("delete", "qr")
        /\ execute_pack_render[6] = Cmd("reserve", "qr")
        /\ execute_pack_render[7] = Cmd("data", "qr")
        /\ execute_pack_render[8] = Cmd("begin", "none")
        /\ execute_pack_render[9] = Cmd("place", "text")
        /\ execute_pack_render[10] = Cmd("place", "fields")
        /\ execute_pack_render[11] = Cmd("place", "qr")
        /\ execute_pack_render[12] = Cmd("eject", "none")
        /\ execute_pack_render[13] = Cmd("set", "none")
    BY DEF execute_pack_render, download_graphic, build_pack_render
  <2>5. QED
    BY <1>4, <2>1, <2>2, <2>3, <2>4
<1>5. QED
  BY <1>1, <1>3, <1>4 DEF Printers

\* A delivered command of the GoDEX script takes the label one step further.
LEMMA GodexDelivered ==
  ASSUME LabelInv, NEW r \in Requests, pc[r] = "script", job[r].printer = "godex",
         Deliver(r, Current(r)), step[r] < 13
  PROVE  /\ step[r] + 1 > 4 => mem'["text"] = r
         /\ step[r] + 1 > 7 => mem'["qr"] = r
         /\ step[r] + 1 > 9 => form'["text"] = r
         /\ step[r] + 1 > 10 => form'["fields"] = r
         /\ step[r] + 1 > 11 => form'["qr"] = r
<1> DEFINE c == Current(r)
<1>0. /\ step[r] \in 1..13
      /\ step[r] > 4 => mem["text"] = r
      /\ step[r] > 7 => mem["qr"] = r
      /\ step[r] > 9 => form["text"] = r
      /\ step[r] > 10 => form["fields"] = r
      /\ step[r] > 11 => form["qr"] = r
      /\ mem \in [Slots -> Content]
      /\ form \in [Parts -> Content]
  BY CurrentCommand DEF LabelInv, ExclusionInv, ScriptProgress, TypeOK
<1> USE DEF Slots, Parts
<1>1. CASE step[r] \in {2, 3, 5, 6}
  <2>1. \/ step[r] \in {2, 3} /\ c.op \in {"delete", "reserve"} /\ c.part = "text"
        \/ step[r] \in {5, 6} /\ c.op \in {"delete", "reserve"} /\ c.part = "qr"
    BY <1>1, CurrentCommand DEF LabelInv, ExclusionInv, Cmd
  <2>2. Store(c.part, None)
    BY <2>1 DEF Deliver
  <2>3. QED
    BY <1>0, <2>1, <2>2 DEF Store
<1>2. CASE step[r] \in {4, 7}
  <2>1. \/ step[r] = 4 /\ c.op = "data" /\ c.part = "text"
        \/ step[r] = 7 /\ c.op = "data" /\ c.part = "qr"
    BY <1>2, CurrentCommand DEF LabelInv, ExclusionInv, Cmd
  <2>2. Store(c.part, r)
    BY <2>1 DEF Deliver
  <2>3. QED
    BY <1>0, <2>1, <2>2 DEF Store
<1>3. CASE step[r] \in {1, 8}
  <2>1. c.op \in {"set", "begin"}
    BY <1>3, CurrentCommand DEF LabelInv, ExclusionInv, Cmd
  <2>2. UNCHANGED mem
    BY <2>1 DEF Deliver, printer
  <2>3. QED
    BY <1>0, <1>3, <2>2
<1>4. CASE step[r] \in {9, 10, 11}
  <2>1. \/ step[r] = 9 /\ c.op = "place" /\ c.part = "text"
        \/ step[r] = 10 /\ c.op = "place" /\ c.part = "fields"
        \/ step[r] = 11 /\ c.op = "place" /\ c.part = "qr"
    BY <1>4, CurrentCommand DEF LabelInv, ExclusionInv, Cmd
  <2>2. /\ form' = [form EXCEPT ![c.part] = IF c.part \in Slots THEN mem[c.part] ELSE r]
        /\ UNCHANGED mem
    BY <2>1 DEF Deliver
  <2>3. QED
    BY <1>0, <2>1, <2>2
<1>5. CASE step[r] = 12
  <2>1. c.op = "eject"
    BY <1>5, CurrentCommand DEF LabelInv, ExclusionInv, Cmd
  <2>2. UNCHANGED <<mem, form>>
    BY <2>1 DEF Deliver
  <2>3. QED
    BY <1>0, <1>5, <2>2
<1>6. QED
  BY <1>0, <1>1, <1>2, <1>3, <1>4, <1>5

\* Whatever a write does to the printer, the labels that are out are whole: the
\* one command that ejects a label comes when all its parts are the request's.
LEMMA LabelWhole ==
  ASSUME LabelInv, NEW r \in Requests, pc[r] = "script", Disturb(r, Current(r))
  PROVE  LabelIntegrity'
<1> DEFINE c == Current(r)
<1>1. CASE UNCHANGED labels
  BY <1>1 DEF LabelInv, LabelIntegrity
<1>2. CASE c.op = "eject" /\ Eject(r, form["text"], form["fields"], form["qr"])
  <2>1. job[r].printer = "godex" /\ step[r] = 12
    BY <1>2, CurrentCommand DEF LabelInv, ExclusionInv, Cmd
  <2>2. form["text"] = r /\ form["fields"] = r /\ form["qr"] = r
    BY <2>1 DEF LabelInv, ScriptProgress
  <2>3. labels' = labels \cup {[owner |-> r, text |-> r, fields |-> r, qr |-> r]}
    BY <1>2, <2>2 DEF Eject
  <2>4. QED
    BY <2>3 DEF LabelInv, LabelIntegrity
<1>3. CASE Eject(r, r, r, r)
  <2>1. labels' = labels \cup {[owner |-> r, text |-> r, fields |-> r, qr |-> r]}
    BY <1>3 DEF Eject
  <2>2. QED
    BY <2>1 DEF LabelInv, LabelIntegrity
<1>4. QED
  BY <1>1, <1>2, <1>3 DEF Disturb, Deliver, Store, printer

\* At most one request is writing commands.
LEMMA OneWriter ==
  ASSUME ExclusionInv, NEW r \in Requests, NEW q \in Requests,
         pc[r] = "script", pc[q] = "script"
  PROVE  q = r
BY DEF ExclusionInv, LockMatchesScript

LEMMA LabelStep == LabelInv /\ [Next]_vars => LabelInv'
<1> SUFFICES ASSUME LabelInv, [Next]_vars
             PROVE  LabelInv'
  OBVIOUS
<1>0. ExclusionInv /\ TypeOK /\ ExclusionInv'
  BY ExclusionStep DEF LabelInv, ExclusionInv
<1> SUFFICES ScriptProgress' /\ LabelIntegrity'
  BY <1>0 DEF LabelInv
\* Steps that leave the printer and the requests in their scripts alone.
<1>1. ASSUME UNCHANGED printer,
             \A q \in Requests : pc'[q] = "script" =>
               pc[q] = "script" /\ job'[q] = job[q] /\ step'[q] = step[q]
      PROVE  ScriptProgress' /\ LabelIntegrity'
  BY <1>1 DEF printer, LabelInv, ScriptProgress, LabelIntegrity
<1>2. ASSUME NEW r \in Requests, handle_mobile_http_stream(r)
      PROVE  ScriptProgress' /\ LabelIntegrity'
  BY <1>0, <1>1, <1>2 DEF handle_mobile_http_stream, TypeOK
<1>3. ASSUME NEW r \in Requests, prepare(r) \/ try_start(r) \/ finish(r)
                                   \/ execute_unconfigured(r)
      PROVE  ScriptProgress' /\ LabelIntegrity'
  BY <1>0, <1>1, <1>3
     DEF prepare, try_start, finish, execute_unconfigured, abort, Conclude, TypeOK
<1>4. ASSUME NEW r \in Requests, execute_simulated(r)
      PROVE  ScriptProgress' /\ LabelIntegrity'
  BY <1>1, <1>4 DEF execute_simulated
<1>5. ASSUME NEW r \in Requests, execute_device(r)
      PROVE  ScriptProgress' /\ LabelIntegrity'
  <2>1. CASE abort(r, 503) /\ UNCHANGED <<lock, step>>
    BY <1>0, <1>1, <1>5, <2>1 DEF execute_device, abort, Conclude, TypeOK
  <2>2. CASE step' = [step EXCEPT ![r] = 1] /\ pc' = [pc EXCEPT ![r] = "script"]
    <3>1. UNCHANGED <<mem, form, labels, job>>
      BY <1>5 DEF execute_device, printer
    <3>2. step'[r] = 1
      BY <1>0, <2>2 DEF TypeOK
    <3>3. \A q \in Requests : q # r => pc'[q] = pc[q] /\ step'[q] = step[q]
      BY <1>0, <2>2 DEF TypeOK
    <3>4. QED
      BY <3>1, <3>2, <3>3 DEF LabelInv, ScriptProgress, LabelIntegrity
  <2>3. QED
    BY <1>5, <2>1, <2>2 DEF execute_device
\* A request moves on after a command that was delivered, or could be ignored.
<1>6. ASSUME NEW r \in Requests, pc[r] = "script", advance(r), UNCHANGED job,
             \/ Deliver(r, Current(r))
             \/ Disturb(r, Current(r)) /\ Ignorable(Current(r))
      PROVE  ScriptProgress' /\ LabelIntegrity'
  <2>1. LabelIntegrity'
    BY <1>6, LabelWhole DEF Disturb
  <2>2. SUFFICES ASSUME NEW q \in Requests, pc'[q] = "script", job'[q].printer = "godex"
                 PROVE  /\ step'[q] > 4 => mem'["text"] = q
                        /\ step'[q] > 7 => mem'["qr"] = q
                        /\ step'[q] > 9 => form'["text"] = q
                        /\ step'[q] > 10 => form'["fields"] = q
                        /\ step'[q] > 11 => form'["qr"] = q
    BY <2>1 DEF ScriptProgress
  <2>3. pc[q] = "script"
    BY <1>0, <1>6, <2>2 DEF advance, TypeOK
  <2>4. q = r /\ job[r].printer = "godex"
    BY <1>0, <1>6, <2>2, <2>3, OneWriter
  <2>5. step[r] \in 1..13 /\ Len(Script(job[r].printer)) = 13
    BY <1>0, <1>6, <2>4, CurrentCommand
  <2>6. step[r] < 13 /\ step'[r] = step[r] + 1
    BY <1>0, <1>6, <2>2, <2>4, <2>5 DEF advance, TypeOK
  <2>7. CASE Deliver(r, Current(r))
    BY <1>6, <2>4, <2>6, <2>7, GodexDelivered
  <2>8. CASE Disturb(r, Current(r)) /\ Ignorable(Current(r)) /\ ~Deliver(r, Current(r))
    <3>1. UNCHANGED printer
      BY <2>8 DEF Disturb, Ignorable
    <3>2. step[r] \in {2, 5}
      BY <1>0, <1>6, <2>4, <2>5, <2>8, CurrentCommand DEF Ignorable, Cmd
    <3>3. QED
      BY <1>6, <2>4, <2>6, <3>1, <3>2 DEF LabelInv, ScriptProgress, printer
  <2>9. QED
    BY <1>6, <2>7, <2>8
<1>7. ASSUME NEW r \in Requests, write_ok(r)
      PROVE  ScriptProgress' /\ LabelIntegrity'
  BY <1>6, <1>7 DEF write_ok
<1>8. ASSUME NEW r \in Requests, write_err(r)
      PROVE  ScriptProgress' /\ LabelIntegrity'
  <2>1. CASE Ignorable(Current(r)) /\ advance(r)
    BY <1>6, <1>8, <2>1 DEF write_err
  <2>2. CASE abort(r, 500)
    <3>1. LabelIntegrity'
      BY <1>8, LabelWhole DEF write_err
    <3>2. \A q \in Requests : pc'[q] # "script"
      BY <1>0, <1>8, <2>2, OneWriter DEF write_err, abort, Conclude, TypeOK
    <3>3. QED
      BY <3>1, <3>2 DEF ScriptProgress
  <2>3. QED
    BY <1>8, <2>1, <2>2 DEF write_err
<1>9. ASSUME NEW r \in Requests, write_http_response(r)
      PROVE  ScriptProgress' /\ LabelIntegrity'
  BY <1>0, <1>1, <1>9 DEF write_http_response, TypeOK
<1>10. ASSUME crash
       PROVE  ScriptProgress' /\ LabelIntegrity'
  BY <1>0, <1>1, <1>10 DEF crash, TypeOK
<1>11. CASE UNCHANGED vars
  BY <1>1, <1>11 DEF vars, server
<1>12. QED
  BY <1>2, <1>3, <1>4, <1>5, <1>7, <1>8, <1>9, <1>10, <1>11 DEF Next, Handler

\* Every label ejected, by any interleaving of requests, failed and ignored
\* writes, panics and restarts, carries the parts of one request only.
THEOREM LabelsCorrect == Spec => []LabelIntegrity
<1>1. Init => LabelInv
  <2>1. Init => ScriptProgress /\ LabelIntegrity
    BY DEF Init, ScriptProgress, LabelIntegrity
  <2>2. Init => ExclusionInv
    BY JobFields, ConstantsAssumption
       DEF Init, TypeOK, Jobs, NoJob, InFlight, Statuses, Content,
           ExclusionInv, GuardMatchesOwner, LockMatchesScript, Holding
  <2>3. QED
    BY <2>1, <2>2 DEF LabelInv
<1>2. LabelInv => LabelIntegrity
  BY DEF LabelInv
<1>3. QED
  BY <1>1, <1>2, LabelStep, PTL DEF Spec

-------------------------------------------------------------------------------
(* Paper: what came out of the printer agrees with the copy loop and with  *)
(* the status the client is told.                                          *)

\* The label of the current copy is out: the script is past E.
Ejected(r) == job[r].printer = "godex" /\ step[r] > 12

\* For one request: the count of labels follows the count of successful copies,
\* one ahead between E and the final status query; while the request is in its
\* loop with labels out, the last label is its own; and the status is true.
PaperOK(r) ==
  /\ pc[r] \in {"new", "received", "prepared"} =>
       status[r] = 0 /\ done[r] = 0 /\ printed[r] = 0
  /\ pc[r] = "loop" =>
       /\ status[r] = 0
       /\ done[r] <= job[r].copies
       /\ printed[r] = IF config.mode = "simulated" THEN 0 ELSE done[r]
  /\ pc[r] = "script" =>
       /\ status[r] = 0
       /\ done[r] < job[r].copies
       /\ config.mode = "device"
       /\ job[r].printer \in config.devices
       /\ printed[r] = IF Ejected(r) THEN done[r] + 1 ELSE done[r]
  /\ done[r] > 0 => \/ config.mode = "simulated"
                    \/ config.mode = "device" /\ job[r].printer \in config.devices
  /\ pc[r] \in Holding /\ printed[r] > 0 => last = r
  /\ status[r] = 200 =>
       printed[r] = IF config.mode = "simulated" THEN 0 ELSE job[r].copies
  /\ status[r] \in {400, 409, 422, 503} => printed[r] = 0
  /\ status[r] = 500 =>
       done[r] < job[r].copies /\ printed[r] \in {done[r], done[r] + 1}

\* StatusMatchesPaper is the last part of PaperOK; the parts before it are what
\* makes it inductive.
PaperInv == ExclusionInv /\ \A r \in Requests : PaperOK(r)

\* A request keeps PaperOK in a step that leaves it alone, unless it is in its
\* loop and a label of another request comes out.
LEMMA PaperFrame ==
  ASSUME PaperInv, NEW q \in Requests, UNCHANGED config,
         pc'[q] = pc[q] \/ (pc[q] \in InFlight /\ pc'[q] = "lost"),
         job'[q] = job[q], status'[q] = status[q], done'[q] = done[q],
         step'[q] = step[q], printed'[q] = printed[q],
         last' = last \/ pc[q] \notin Holding
  PROVE  PaperOK(q)'
<1>1. PaperOK(q)
  BY DEF PaperInv
<1>2. CASE pc'[q] = pc[q]
  BY <1>1, <1>2 DEF PaperOK, Ejected
<1>3. CASE pc'[q] = "lost"
  BY <1>1, <1>3 DEF PaperOK, Holding
<1>4. QED
  BY <1>2, <1>3

\* Only the ejecting commands change the paper, and by one label of the writer.
LEMMA PaperDelivered ==
  ASSUME TypeOK, NEW r \in Requests, pc[r] = "script"
  PROVE  /\ Deliver(r, Current(r)) =>
              IF job[r].printer = "zebra" \/ step[r] = 12
              THEN printed' = [printed EXCEPT ![r] = @ + 1] /\ last' = r
              ELSE UNCHANGED <<printed, last>>
         /\ Disturb(r, Current(r)) =>
              \/ UNCHANGED <<printed, last>>
              \/ /\ job[r].printer = "zebra" \/ step[r] = 12
                 /\ printed' = [printed EXCEPT ![r] = @ + 1]
                 /\ last' = r
<1> DEFINE c == Current(r)
<1>1. ASSUME Deliver(r, c)
      PROVE  IF job[r].printer = "zebra" \/ step[r] = 12
             THEN printed' = [printed EXCEPT ![r] = @ + 1] /\ last' = r
             ELSE UNCHANGED <<printed, last>>
  <2>1. CASE job[r].printer = "zebra"
    <3>1. c.op = "zpl"
      BY <2>1, CurrentCommand DEF Cmd
    <3>2. QED
      BY <1>1, <2>1, <3>1 DEF Deliver, Eject
  <2>2. CASE job[r].printer = "godex" /\ step[r] = 12
    <3>1. c.op = "eject"
      BY <2>2, CurrentCommand DEF Cmd
    <3>2. QED
      BY <1>1, <2>2, <3>1 DEF Deliver, Eject
  <2>3. CASE job[r].printer = "godex" /\ step[r] # 12
    <3>1. step[r] \in 1..13
      BY <2>3, CurrentCommand
    <3>2. c.op \in {"set", "delete", "reserve", "data", "begin", "place"}
      BY <2>3, <3>1, CurrentCommand DEF Cmd
    <3>3. QED
      BY <1>1, <2>3, <3>2 DEF Deliver, Store, printer
  <2>4. QED
    BY <2>1, <2>2, <2>3, CurrentCommand
<1>2. QED
  BY <1>1 DEF Disturb, Store, printer

\* A request in its loop that concludes with a true status keeps PaperOK.
LEMMA PaperConclude ==
  ASSUME PaperInv, NEW r \in Requests, NEW code \in Statuses, Conclude(r, code),
         UNCHANGED <<config, job, done>>,
         code = 200 => printed'[r] = IF config.mode = "simulated" THEN 0 ELSE job[r].copies,
         code \in {400, 409, 422, 503} => printed'[r] = 0,
         code = 500 => done[r] < job[r].copies /\ printed'[r] \in {done[r], done[r] + 1},
         status[r] = 0
  PROVE  PaperOK(r)'
<1>1. PaperOK(r) /\ TypeOK
  BY DEF PaperInv, ExclusionInv
<1>2. /\ pc'[r] \in {"respond", "lost"}
      /\ status'[r] \in {code, 0}
  BY <1>1 DEF Conclude, TypeOK
<1>3. QED
  BY <1>1, <1>2 DEF PaperOK, Holding, Statuses

\* A request that has not concluded has no status.
LEMMA NoStatus ==
  ASSUME PaperInv, NEW r \in Requests,
         pc[r] \in {"new", "received", "prepared", "loop", "script"}
  PROVE  status[r] = 0
BY DEF PaperInv, PaperOK

\* After the last command of its script a request is back in the loop with one
\* more copy done; before that only its index moves.
LEMMA AdvanceEffect ==
  ASSUME TypeOK, NEW r \in Requests, pc[r] = "script", advance(r)
  PROVE  /\ status' = status /\ activity' = activity
         /\ \A q \in Requests :
              q # r => pc'[q] = pc[q] /\ done'[q] = done[q] /\ step'[q] = step[q]
         /\ IF job[r].printer = "zebra" \/ step[r] = 13
            THEN pc'[r] = "loop" /\ done'[r] = done[r] + 1 /\ lock' = None
            ELSE pc'[r] = "script" /\ done'[r] = done[r] /\ step'[r] = step[r] + 1
<1>1. /\ pc \in [Requests -> InFlight \cup {"new", "answered", "lost"}]
      /\ done \in [Requests -> Nat]
      /\ step \in [Requests -> Nat]
  BY DEF TypeOK
<1> DEFINE p == job[r].printer
           n == Len(Script(job[r].printer))
<1>2. \/ p = "zebra" /\ step[r] = 1 /\ n = 1
      \/ p = "godex" /\ step[r] \in 1..13 /\ n = 13
  BY CurrentCommand
<1>3. /\ IF step[r] < n
         THEN /\ step' = [step EXCEPT ![r] = @ + 1]
              /\ UNCHANGED <<pc, done, lock>>
         ELSE /\ pc' = [pc EXCEPT ![r] = "loop"]
              /\ done' = [done EXCEPT ![r] = @ + 1]
              /\ lock' = None
              /\ UNCHANGED step
      /\ UNCHANGED <<status, activity>>
  BY Zenon DEF advance
<1> HIDE DEF p, n
<1>4. CASE p = "zebra" \/ step[r] = 13
  <2>1. ~(step[r] < n)
    BY <1>2, <1>4
  <2>2. QED
    BY <1>1, <1>4, <1>3, <2>1 DEF p
<1>5. CASE ~(p = "zebra" \/ step[r] = 13)
  <2>1. step[r] < n
    BY <1>2, <1>5
  <2>2. QED
    BY <1>1, <1>5, <1>3, <2>1 DEF p
<1>6. QED
  BY <1>4, <1>5

\* The writer moves on in its script.
LEMMA PaperAdvance ==
  ASSUME PaperInv, NEW r \in Requests, pc[r] = "script", advance(r),
         UNCHANGED <<config, job>>,
         IF job[r].printer = "zebra" \/ step[r] = 12
         THEN printed' = [printed EXCEPT ![r] = @ + 1] /\ last' = r
         ELSE UNCHANGED <<printed, last>>
  PROVE  PaperOK(r)'
<1>1. PaperOK(r) /\ TypeOK
  BY DEF PaperInv, ExclusionInv
<1>2. /\ done[r] \in Nat /\ step[r] \in Nat /\ printed[r] \in Nat
      /\ job[r].copies \in Nat
  BY <1>1, JobFields DEF TypeOK
<1>3. CASE job[r].printer = "zebra"
  <2>1. Len(Script(job[r].printer)) = 1 /\ step[r] = 1
    BY <1>1, <1>3, CurrentCommand
  <2>2. /\ pc'[r] = "loop" /\ done'[r] = done[r] + 1 /\ status' = status
        /\ printed'[r] = printed[r] + 1 /\ last' = r
    BY <1>1, <1>3, AdvanceEffect DEF TypeOK
  <2>3. QED
    BY <1>1, <1>2, <1>3, <2>2 DEF PaperOK, Ejected, Holding
<1>4. CASE job[r].printer = "godex"
  <2>1. Len(Script(job[r].printer)) = 13 /\ step[r] \in 1..13
    BY <1>1, <1>4, CurrentCommand
  <2>2. CASE step[r] = 13
    <3>1. /\ pc'[r] = "loop" /\ done'[r] = done[r] + 1 /\ status' = status
          /\ printed'[r] = printed[r] /\ last' = last
      BY <1>1, <1>2, <1>4, <2>1, <2>2, AdvanceEffect DEF TypeOK
    <3>2. QED
      BY <1>1, <1>2, <1>4, <2>2, <3>1 DEF PaperOK, Ejected, Holding
  <2>3. CASE step[r] = 12
    <3>1. /\ pc'[r] = "script" /\ done'[r] = done[r] /\ status' = status
          /\ step'[r] = step[r] + 1
      BY <1>1, <1>4, <2>3, AdvanceEffect
    <3>2. printed'[r] = printed[r] + 1 /\ last' = r
      BY <1>1, <2>3 DEF TypeOK
    <3>3. QED
      BY <1>1, <1>2, <1>4, <2>3, <3>1, <3>2 DEF PaperOK, Ejected, Holding
  <2>4. CASE step[r] < 12
    <3>1. /\ pc'[r] = "script" /\ done'[r] = done[r] /\ status' = status
          /\ step'[r] = step[r] + 1 /\ printed'[r] = printed[r] /\ last' = last
      <4>1. step[r] # 13 /\ step[r] # 12 /\ job[r].printer # "zebra"
        BY <1>2, <1>4, <2>4
      <4>2. printed'[r] = printed[r] /\ last' = last
        BY <1>4, <4>1
      <4>3. QED
        BY <1>1, <4>1, <4>2, AdvanceEffect
    <3>2. /\ status[r] = 0 /\ done[r] < job[r].copies
          /\ config.mode = "device" /\ job[r].printer \in config.devices
          /\ printed[r] = done[r] /\ (printed[r] > 0 => last = r)
      BY <1>1, <1>2, <1>4, <2>4 DEF PaperOK, Ejected, Holding
    <3>3. ~Ejected(r)'
      BY <1>2, <2>4, <3>1 DEF Ejected
    <3>4. QED
      BY <3>1, <3>2, <3>3 DEF PaperOK, Holding
  <2>5. QED
    BY <2>1, <2>2, <2>3, <2>4
<1>5. QED
  BY <1>1, <1>3, <1>4, CurrentCommand

LEMMA PaperStep == PaperInv /\ [Next]_vars => PaperInv'
<1> SUFFICES ASSUME PaperInv, [Next]_vars
             PROVE  PaperInv'
  OBVIOUS
<1>0. ExclusionInv /\ TypeOK /\ ExclusionInv'
  BY ExclusionStep DEF PaperInv, ExclusionInv
<1> SUFFICES ASSUME NEW q \in Requests
             PROVE  PaperOK(q)'
  BY <1>0 DEF PaperInv
<1>1. ASSUME NEW r \in Requests, handle_mobile_http_stream(r)
      PROVE  PaperOK(q)'
  <2>1. CASE q # r
    BY <1>0, <1>1, <2>1, PaperFrame DEF handle_mobile_http_stream, printer, TypeOK
  <2>2. CASE q = r
    <3>1. PaperOK(r)
      BY DEF PaperInv
    <3>2. /\ pc[r] = "new" /\ pc'[r] = "received"
          /\ UNCHANGED <<config, status, done, printed>>
      BY <1>0, <1>1 DEF handle_mobile_http_stream, printer, TypeOK
    <3>3. QED
      BY <2>2, <3>1, <3>2 DEF PaperOK, Holding
  <2>3. QED
    BY <2>1, <2>2
<1>2. ASSUME NEW r \in Requests, prepare(r)
      PROVE  PaperOK(q)'
  <2>1. CASE q # r
    BY <1>0, <1>2, <2>1, PaperFrame DEF prepare, printer, TypeOK, Conclude
  <2>2. CASE q = r
    <3>1. PaperOK(r) /\ 400 \in Statuses /\ 422 \in Statuses
      BY DEF PaperInv, Statuses
    <3>2. status[r] = 0 /\ printed[r] = 0 /\ printed' = printed
      BY <1>2, <3>1 DEF prepare, PaperOK, printer
    <3>3. CASE Conclude(r, 400) \/ Conclude(r, 422)
      BY <1>2, <2>2, <3>1, <3>2, <3>3, PaperConclude DEF prepare
    <3>4. CASE pc' = [pc EXCEPT ![r] = "prepared"] /\ UNCHANGED status
      <4>1. pc[r] = "received" /\ pc'[r] = "prepared" /\ UNCHANGED <<config, done>>
        BY <1>0, <1>2, <3>4 DEF prepare, TypeOK
      <4>2. QED
        BY <2>2, <3>1, <3>2, <3>4, <4>1 DEF PaperOK, Holding
    <3>5. QED
      BY <1>2, <3>3, <3>4 DEF prepare
  <2>3. QED
    BY <2>1, <2>2
<1>3. ASSUME NEW r \in Requests, try_start(r)
      PROVE  PaperOK(q)'
  <2>1. CASE q # r
    BY <1>0, <1>3, <2>1, PaperFrame DEF try_start, printer, TypeOK, Conclude
  <2>2. CASE q = r
    <3>1. PaperOK(r) /\ 409 \in Statuses
      BY DEF PaperInv, Statuses
    <3>2. status[r] = 0 /\ printed[r] = 0 /\ done[r] = 0 /\ printed' = printed
      BY <1>3, <3>1 DEF try_start, PaperOK, printer
    <3>3. CASE Conclude(r, 409)
      BY <1>3, <2>2, <3>1, <3>2, <3>3, PaperConclude DEF try_start
    <3>4. CASE pc' = [pc EXCEPT ![r] = "loop"] /\ UNCHANGED status
      <4>1. pc'[r] = "loop" /\ UNCHANGED <<config, job, done>>
        BY <1>0, <1>3, <3>4 DEF try_start, TypeOK
      <4>2. job[r].copies \in Nat /\ job[r].copies >= 1
        BY <1>0, JobFields DEF TypeOK
      <4>3. QED
        BY <2>2, <3>1, <3>2, <3>4, <4>1, <4>2 DEF PaperOK, Holding
    <3>5. QED
      BY <1>3, <3>3, <3>4 DEF try_start
  <2>3. QED
    BY <2>1, <2>2
\* Without an executor or a device there is no successful copy before.
<1>4. ASSUME NEW r \in Requests, pc[r] = "loop", abort(r, 503),
             UNCHANGED <<config, job, done, lock, step, printer>>,
             \/ config.mode = "unconfigured"
             \/ config.mode = "device" /\ job[r].printer \notin config.devices
      PROVE  PaperOK(q)'
  <2>1. CASE q # r
    BY <1>0, <1>4, <2>1, PaperFrame DEF printer, TypeOK, abort, Conclude
  <2>2. CASE q = r
    <3>1. PaperOK(r) /\ 503 \in Statuses
      BY DEF PaperInv, Statuses
    <3>2. done[r] \in Nat
      BY <1>0 DEF TypeOK
    <3>3. status[r] = 0 /\ done[r] = 0
      BY <1>4, <3>1, <3>2 DEF PaperOK
    <3>4. printed'[r] = 0
      BY <1>4, <3>1, <3>3 DEF PaperOK, printer
    <3>5. QED
      BY <1>4, <2>2, <3>1, <3>3, <3>4, PaperConclude DEF abort
  <2>3. QED
    BY <2>1, <2>2
<1>5. ASSUME NEW r \in Requests, execute_unconfigured(r)
      PROVE  PaperOK(q)'
  BY <1>4, <1>5 DEF execute_unconfigured
<1>6. ASSUME NEW r \in Requests, execute_simulated(r)
      PROVE  PaperOK(q)'
  <2>1. CASE q # r
    BY <1>0, <1>6, <2>1, PaperFrame DEF execute_simulated, printer, TypeOK
  <2>2. CASE q = r
    <3>1. PaperOK(r) /\ done[r] \in Nat /\ job[r].copies \in Nat
      BY <1>0, JobFields DEF PaperInv, TypeOK
    <3>2. /\ pc[r] = "loop" /\ done[r] < job[r].copies /\ config.mode = "simulated"
          /\ done'[r] = done[r] + 1
          /\ UNCHANGED <<config, pc, job, status, printed, last>>
      BY <1>0, <1>6 DEF execute_simulated, printer, TypeOK
    <3>3. QED
      BY <2>2, <3>1, <3>2 DEF PaperOK, Holding
  <2>3. QED
    BY <2>1, <2>2
<1>7. ASSUME NEW r \in Requests, execute_device(r)
      PROVE  PaperOK(q)'
  <2>1. CASE abort(r, 503) /\ UNCHANGED <<lock, step>> /\ job[r].printer \notin config.devices
    BY <1>4, <1>7, <2>1 DEF execute_device
  <2>2. CASE /\ job[r].printer \in config.devices
             /\ step' = [step EXCEPT ![r] = 1]
             /\ pc' = [pc EXCEPT ![r] = "script"]
             /\ UNCHANGED <<status, activity>>
    <3>1. CASE q # r
      BY <1>0, <1>7, <2>2, <3>1, PaperFrame DEF execute_device, printer, TypeOK
    <3>2. CASE q = r
      <4>1. PaperOK(r) /\ done[r] \in Nat
        BY <1>0 DEF PaperInv, TypeOK
      <4>2. /\ pc[r] = "loop" /\ done[r] < job[r].copies /\ config.mode = "device"
            /\ pc'[r] = "script" /\ step'[r] = 1
            /\ UNCHANGED <<config, job, status, done, printed, last>>
        BY <1>0, <1>7, <2>2 DEF execute_device, printer, TypeOK
      <4>3. QED
        BY <2>2, <3>2, <4>1, <4>2 DEF PaperOK, Holding, Ejected
    <3>3. QED
      BY <3>1, <3>2
  <2>3. QED
    BY <1>7, <2>1, <2>2 DEF execute_device
\* Only one request is in its loop: a label of r is no other holder's concern.
<1>8. ASSUME NEW r \in Requests, pc[r] = "script", q # r
      PROVE  pc[q] \notin Holding
  BY <1>0, <1>8 DEF ExclusionInv, GuardMatchesOwner, Holding
<1>9. ASSUME NEW r \in Requests, pc[r] = "script", advance(r), UNCHANGED <<config, job>>,
             IF job[r].printer = "zebra" \/ step[r] = 12
             THEN printed' = [printed EXCEPT ![r] = @ + 1] /\ last' = r
             ELSE UNCHANGED <<printed, last>>
      PROVE  PaperOK(q)'
  <2>1. CASE q # r
    <3>1. printed \in [Requests -> Nat]
      BY <1>0 DEF TypeOK
    <3>2. printed'[q] = printed[q]
      BY <1>9, <2>1, <3>1
    <3>3. pc'[q] = pc[q] /\ done'[q] = done[q] /\ step'[q] = step[q] /\ status' = status
      BY <1>0, <1>9, <2>1, AdvanceEffect
    <3>4. QED
      BY <1>8, <1>9, <2>1, <3>2, <3>3, PaperFrame
  <2>2. CASE q = r
    BY <1>9, <2>2, PaperAdvance
  <2>3. QED
    BY <2>1, <2>2
<1>10. ASSUME NEW r \in Requests, write_ok(r)
       PROVE  PaperOK(q)'
  <2>1. pc[r] = "script" /\ Deliver(r, Current(r)) /\ advance(r) /\ UNCHANGED <<config, job>>
    BY <1>10 DEF write_ok
  <2>2. QED
    BY <1>0, <1>9, <2>1, PaperDelivered
\* The failed command may have ejected its label, or an earlier one did; not both.
<1>11. ASSUME NEW r \in Requests, write_err(r)
       PROVE  PaperOK(q)'
  <2>1. pc[r] = "script" /\ Disturb(r, Current(r)) /\ UNCHANGED <<config, job>>
    BY <1>11 DEF write_err
  <2>2. \/ UNCHANGED <<printed, last>>
        \/ /\ job[r].printer = "zebra" \/ step[r] = 12
           /\ printed' = [printed EXCEPT ![r] = @ + 1]
           /\ last' = r
    BY <1>0, <2>1, PaperDelivered
  <2>3. CASE Ignorable(Current(r)) /\ advance(r)
    <3>1. Current(r).op = "delete"
      BY <2>3 DEF Ignorable
    <3>2. ~(job[r].printer = "zebra" \/ step[r] = 12)
      BY <1>0, <2>1, <3>1, CurrentCommand DEF Cmd
    <3>3. QED
      BY <1>9, <2>1, <2>2, <2>3, <3>2
  <2>4. CASE lock' = None /\ abort(r, 500) /\ UNCHANGED <<done, step>>
    <3>1. PaperOK(r) /\ 500 \in Statuses
      BY DEF PaperInv, Statuses
    <3>2. printed \in [Requests -> Nat] /\ done[r] \in Nat /\ step[r] \in Nat
      BY <1>0 DEF TypeOK
    <3>3. status[r] = 0 /\ done[r] < job[r].copies
      BY <2>1, <3>1 DEF PaperOK
    <3>4. CASE q # r
      <4>1. printed'[q] = printed[q]
        BY <2>2, <3>2, <3>4
      <4>2. pc'[q] = pc[q] /\ status'[q] = status[q]
        BY <1>0, <2>4, <3>4 DEF abort, Conclude, TypeOK
      <4>3. QED
        BY <1>8, <2>1, <2>4, <3>4, <4>1, <4>2, PaperFrame
    <3>5. CASE q = r
      <4>1. printed[r] = done[r] \/ (printed[r] = done[r] + 1 /\ job[r].printer = "godex" /\ step[r] > 12)
        BY <2>1, <3>1 DEF PaperOK, Ejected
      <4>2. printed'[r] \in {done[r], done[r] + 1}
        BY <2>2, <3>2, <4>1
      <4>3. QED
        BY <2>1, <2>4, <3>1, <3>3, <3>5, <4>2, PaperConclude DEF abort
    <3>6. QED
      BY <3>4, <3>5
  <2>5. QED
    BY <1>11, <2>3, <2>4 DEF write_err
<1>12. ASSUME NEW r \in Requests, finish(r)
       PROVE  PaperOK(q)'
  <2>1. CASE q # r
    BY <1>0, <1>12, <2>1, PaperFrame DEF finish, printer, TypeOK, Conclude
  <2>2. CASE q = r
    <3>1. PaperOK(r) /\ 200 \in Statuses
      BY DEF PaperInv, Statuses
    <3>2. pc[r] = "loop" /\ done[r] = job[r].copies /\ printed' = printed
      BY <1>12 DEF finish, printer
    <3>3. /\ status[r] = 0
          /\ printed[r] = IF config.mode = "simulated" THEN 0 ELSE job[r].copies
      BY <3>1, <3>2 DEF PaperOK
    <3>4. Conclude(r, 200) /\ UNCHANGED <<config, job, done>>
      BY <1>12 DEF finish
    <3>5. QED
      BY <2>2, <3>1, <3>2, <3>3, <3>4, PaperConclude
  <2>3. QED
    BY <2>1, <2>2
<1>13. ASSUME NEW r \in Requests, write_http_response(r)
       PROVE  PaperOK(q)'
  <2>1. CASE q # r
    BY <1>0, <1>13, <2>1, PaperFrame DEF write_http_response, printer, TypeOK
  <2>2. CASE q = r
    <3>1. PaperOK(r)
      BY DEF PaperInv
    <3>2. /\ pc'[r] \in {"answered", "lost"}
          /\ UNCHANGED <<config, job, status, done, step, printed, last>>
      BY <1>0, <1>13 DEF write_http_response, printer, TypeOK
    <3>3. QED
      BY <2>2, <3>1, <3>2 DEF PaperOK, Holding
  <2>3. QED
    BY <2>1, <2>2
<1>14. ASSUME crash
       PROVE  PaperOK(q)'
  <2>1. pc'[q] = pc[q] \/ (pc[q] \in InFlight /\ pc'[q] = "lost")
    BY <1>14 DEF crash
  <2>2. UNCHANGED <<config, job, status, done, step, printed, last>>
    BY <1>14 DEF crash, printer
  <2>3. QED
    BY <2>1, <2>2, PaperFrame
<1>15. CASE UNCHANGED vars
  BY <1>15, PaperFrame DEF vars, server, printer
<1>16. QED
  BY <1>1, <1>2, <1>3, <1>5, <1>6, <1>7, <1>10, <1>11, <1>12, <1>13, <1>14, <1>15
     DEF Next, Handler

LEMMA PaperHolds == Spec => []PaperInv
<1>1. Init => PaperInv
  <2>1. Init => ExclusionInv
    BY JobFields, ConstantsAssumption
       DEF Init, TypeOK, Jobs, NoJob, InFlight, Statuses, Content,
           ExclusionInv, GuardMatchesOwner, LockMatchesScript, Holding
  <2>2. ASSUME Init, NEW r \in Requests
        PROVE  PaperOK(r)
    <3>1. pc[r] = "new" /\ status[r] = 0 /\ done[r] = 0 /\ printed[r] = 0
      BY <2>2 DEF Init
    <3>2. QED
      BY <3>1 DEF PaperOK, Holding
  <2>3. QED
    BY <2>1, <2>2 DEF PaperInv
<1>2. QED
  BY <1>1, PaperStep, PTL DEF Spec

\* The status of a request is true of the paper that left the printer for it
\* (driver_print_response, execute), whatever failed on the way.
THEOREM PaperCorrect == Spec => []StatusMatchesPaper
<1>1. PaperInv => StatusMatchesPaper
  <2>1. ASSUME PaperInv, NEW r \in Requests
        PROVE  PaperOK(r)
    BY <2>1 DEF PaperInv
  <2>2. ASSUME NEW r \in Requests, PaperOK(r)
        PROVE  /\ status[r] = 200 =>
                    printed[r] = IF config.mode = "simulated" THEN 0 ELSE job[r].copies
               /\ status[r] \in {400, 409, 422, 503} => printed[r] = 0
               /\ status[r] = 500 =>
                    done[r] < job[r].copies /\ printed[r] \in {done[r], done[r] + 1}
    BY <2>2, Zenon DEF PaperOK
  <2>3. QED
    BY <2>1, <2>2, Zenon DEF StatusMatchesPaper
<1>2. QED
  BY <1>1, PaperHolds, PTL

\* The copies of a request come out together: another request's label would need
\* the guard that this one holds from its first copy to its last.
THEOREM CopiesContiguous == Spec => ContiguousCopies
<1>1. PaperInv /\ [Next]_vars =>
        \A r \in Requests : printed'[r] # printed[r] /\ printed[r] > 0 => last = r
  <2> SUFFICES ASSUME PaperInv, [Next]_vars, NEW r \in Requests,
                      printed'[r] # printed[r], printed[r] > 0
               PROVE  last = r
    OBVIOUS
  <2>1. PaperOK(r) /\ TypeOK /\ printed \in [Requests -> Nat]
    BY DEF PaperInv, ExclusionInv, TypeOK
  <2>2. PICK q \in Requests : write_ok(q) \/ write_err(q)
    BY DEF Next, Handler, vars, server, printer, handle_mobile_http_stream, prepare, try_start,
           execute_unconfigured, execute_simulated, execute_device, finish,
           write_http_response, crash
  <2>3. pc[q] = "script" /\ Disturb(q, Current(q))
    BY <2>2 DEF write_ok, write_err, Disturb
  <2>4. printed' = printed \/ printed' = [printed EXCEPT ![q] = @ + 1]
    BY <2>1, <2>3, PaperDelivered
  <2>5. q = r
    BY <2>1, <2>4
  <2>6. QED
    BY <2>1, <2>3, <2>5 DEF PaperOK, Holding
<1>2. QED
  BY <1>1, PaperHolds, PTL DEF Spec, ContiguousCopies

-------------------------------------------------------------------------------
(* The print path implements ExclusivePrinter: every step of DriverPrint is a  *)
(* step of the abstract specification or leaves its variables alone.           *)

\* The labels that the abstract specification sees of a request, and its quota.
Quota(r) == IF pc[r] = "new" THEN 0 ELSE job[r].copies

\* Phase(r), seen from where a request stands.
LEMMA PhaseOf ==
  ASSUME PaperInv, NEW r \in Requests
  PROVE  /\ pc[r] = "new" => Phase(r) = "new"
         /\ pc[r] \in {"received", "prepared"} => Phase(r) = "waiting"
         /\ pc[r] \in Holding => Phase(r) = "active"
         /\ pc[r] \in {"respond", "answered", "lost"} =>
              Phase(r) \in {"refused", "failed", "complete"}
<1>1. pc[r] \in {"new", "received", "prepared", "loop", "script"} => status[r] = 0
  BY NoStatus
<1>2. status[r] \in Statuses
  BY DEF PaperInv, ExclusionInv, TypeOK
<1>3. CASE status[r] = 0
  BY <1>3 DEF Phase, Holding
<1>4. CASE status[r] # 0
  BY <1>1, <1>2, <1>4 DEF Phase, Holding, Statuses
<1>5. QED
  BY <1>3, <1>4

\* A request whose thread does not move keeps its phase.
LEMMA PhaseFrame ==
  ASSUME NEW q \in Requests, pc'[q] = pc[q], status'[q] = status[q]
  PROVE  Phase(q)' = Phase(q)
BY DEF Phase, Holding

\* The phase a concluded request ends in.
LEMMA PhaseConcluded ==
  ASSUME PaperInv, NEW r \in Requests, NEW code \in Statuses, Conclude(r, code),
         status[r] = 0, code # 0
  PROVE  Phase(r)' = "failed"
         \/ Phase(r)' = IF code = 200 THEN "complete"
                        ELSE IF code \in {400, 409, 422} THEN "refused" ELSE "failed"
<1>1. pc \in [Requests -> InFlight \cup {"new", "answered", "lost"}] /\ status \in [Requests -> Statuses]
  BY DEF PaperInv, ExclusionInv, TypeOK
<1>2. CASE pc'[r] = "respond" /\ status'[r] = code
  BY <1>2 DEF Phase, Holding, Statuses
<1>3. CASE pc'[r] = "lost" /\ status'[r] = 0
  BY <1>3 DEF Phase, Holding
<1>4. QED
  BY <1>1, <1>2, <1>3 DEF Conclude

LEMMA ConcludeFrame ==
  ASSUME PaperInv, NEW r \in Requests, NEW code \in Statuses, Conclude(r, code), UNCHANGED job,
         pc[r] # "new"
  PROVE  /\ \A q \in Requests : q # r => Phase(q)' = Phase(q)
         /\ \A q \in Requests : Quota(q)' = Quota(q)
<1>1. pc \in [Requests -> InFlight \cup {"new", "answered", "lost"}] /\ status \in [Requests -> Statuses]
  BY DEF PaperInv, ExclusionInv, TypeOK
<1>2. ASSUME NEW q \in Requests, q # r
      PROVE  Phase(q)' = Phase(q) /\ Quota(q)' = Quota(q)
  <2>1. pc'[q] = pc[q] /\ status'[q] = status[q]
    BY <1>1, <1>2 DEF Conclude
  <2>2. QED
    BY <2>1, PhaseFrame DEF Quota
<1>3. Quota(r)' = Quota(r)
  BY <1>1 DEF Conclude, Quota
<1>4. QED
  BY <1>2, <1>3

\* The abstract state stays as it is when no request's view of it changes.
LEMMA Stutter ==
  ASSUME \A q \in Requests : Phase(q)' = Phase(q) /\ Quota(q)' = Quota(q),
         UNCHANGED <<Output, activity>>
  PROVE  UNCHANGED Abs!vars
BY DEF Abs!vars, Quota

\* The abstract variables phase and quota in a step that moves one request.
LEMMA PhaseUpdate ==
  ASSUME NEW r \in Requests, NEW x, Phase(r)' = x,
         \A q \in Requests : q # r => Phase(q)' = Phase(q)
  PROVE  [q \in Requests |-> Phase(q)]' = [[q \in Requests |-> Phase(q)] EXCEPT ![r] = x]
OBVIOUS

LEMMA QuotaKept ==
  ASSUME \A q \in Requests : Quota(q)' = Quota(q)
  PROVE  UNCHANGED [q \in Requests |-> IF pc[q] = "new" THEN 0 ELSE job[q].copies]
BY DEF Quota

\* Concluding a request that is not being printed refuses or drops it.
LEMMA RefuseStep ==
  ASSUME PaperInv, NEW r \in Requests, NEW code \in {400, 409, 422}, Conclude(r, code),
         pc[r] \in {"received", "prepared"}, UNCHANGED <<job, Output, activity>>
  PROVE  Abs!Refuse(r) \/ Abs!Drop(r)
<1>1. Phase(r) = "waiting" /\ Phase(r)' \in {"refused", "failed"}
  BY PhaseOf, PhaseConcluded, NoStatus DEF Statuses
<1>2. /\ \A q \in Requests : q # r => Phase(q)' = Phase(q)
      /\ \A q \in Requests : Quota(q)' = Quota(q)
  BY ConcludeFrame DEF Statuses
<1>3. /\ [q \in Requests |-> Phase(q)][r] = "waiting"
      /\ UNCHANGED [q \in Requests |-> IF pc[q] = "new" THEN 0 ELSE job[q].copies]
  BY <1>1, <1>2, QuotaKept
<1>4. CASE Phase(r)' = "refused"
  <2>1. [q \in Requests |-> Phase(q)]' = [[q \in Requests |-> Phase(q)] EXCEPT ![r] = "refused"]
    BY <1>2, <1>4, PhaseUpdate
  <2>2. QED
    BY <1>3, <2>1 DEF Abs!Refuse
<1>5. CASE Phase(r)' = "failed"
  <2>1. [q \in Requests |-> Phase(q)]' = [[q \in Requests |-> Phase(q)] EXCEPT ![r] = "failed"]
    BY <1>2, <1>5, PhaseUpdate
  <2>2. QED
    BY <1>3, <2>1 DEF Abs!Drop
<1>6. QED
  BY <1>1, <1>4, <1>5

\* Concluding the request being printed without success is a failure, which may
\* have put out one label more.
LEMMA FailStep ==
  ASSUME PaperInv, NEW r \in Requests, NEW code \in {500, 503}, Conclude(r, code),
         pc[r] \in Holding, UNCHANGED job, activity' = None,
         \/ UNCHANGED Output
         \/ Output[r] < job[r].copies /\ Output' = [Output EXCEPT ![r] = @ + 1]
  PROVE  Abs!Fail(r)
<1>1. Phase(r)' = "failed"
  BY PhaseConcluded, NoStatus DEF Statuses, Holding
<1>2. /\ \A q \in Requests : q # r => Phase(q)' = Phase(q)
      /\ \A q \in Requests : Quota(q)' = Quota(q)
  BY ConcludeFrame DEF Statuses, Holding
<1>3. activity = r /\ Quota(r) = job[r].copies
  BY DEF PaperInv, ExclusionInv, GuardMatchesOwner, Quota, Holding
<1>4. UNCHANGED [q \in Requests |-> IF pc[q] = "new" THEN 0 ELSE job[q].copies]
  BY <1>2, QuotaKept
<1>5. [q \in Requests |-> Phase(q)]' = [[q \in Requests |-> Phase(q)] EXCEPT ![r] = "failed"]
  BY <1>1, <1>2, PhaseUpdate
<1>6. [q \in Requests |-> IF pc[q] = "new" THEN 0 ELSE job[q].copies][r] = job[r].copies
  BY <1>3 DEF Quota
<1>7. QED
  BY <1>3, <1>4, <1>5, <1>6 DEF Abs!Fail

\* A step of the copy loop: the request keeps its phase, and at most one label
\* of its quota comes out.
LEMMA LoopStep ==
  ASSUME PaperInv, PaperInv', NEW r \in Requests, pc[r] \in Holding, pc'[r] \in Holding,
         \A q \in Requests : q # r => pc'[q] = pc[q],
         UNCHANGED <<job, status, activity>>,
         \/ UNCHANGED Output
         \/ Output[r] < job[r].copies /\ Output' = [Output EXCEPT ![r] = @ + 1]
  PROVE  Abs!PutOut(r) \/ UNCHANGED Abs!vars
<1>1. Phase(r) = "active" /\ Phase(r)' = "active"
  <2>1. status[r] = 0 /\ status'[r] = 0
    BY NoStatus DEF Holding
  <2>2. QED
    BY <2>1 DEF Phase, Holding
<1>2. \A q \in Requests : Phase(q)' = Phase(q) /\ Quota(q)' = Quota(q)
  BY <1>1, PhaseFrame DEF Quota, Holding
<1>3. activity = r /\ Quota(r) = job[r].copies
  BY DEF PaperInv, ExclusionInv, GuardMatchesOwner, Quota, Holding
<1>4. QED
  BY <1>2, <1>3 DEF Abs!PutOut, Abs!vars, Quota

\* The writer's label counts against its quota.
LEMMA WriterOutput ==
  ASSUME PaperInv, NEW r \in Requests, pc[r] = "script", Disturb(r, Current(r)), UNCHANGED config
  PROVE  \/ UNCHANGED Output
         \/ Output[r] < job[r].copies /\ Output' = [Output EXCEPT ![r] = @ + 1]
<1>1. TypeOK /\ PaperOK(r)
  BY DEF PaperInv, ExclusionInv
<1>2. Output = printed /\ Output' = printed'
  BY <1>1 DEF PaperOK, Output
<1>3. CASE UNCHANGED printed
  BY <1>2, <1>3
<1>4. CASE /\ job[r].printer = "zebra" \/ step[r] = 12
           /\ printed' = [printed EXCEPT ![r] = @ + 1]
  <2>1. printed[r] = done[r] /\ done[r] < job[r].copies
    BY <1>1, <1>4 DEF PaperOK, Ejected
  <2>2. QED
    BY <1>2, <1>4, <2>1
<1>5. QED
  BY <1>1, <1>3, <1>4, PaperDelivered

LEMMA RefinementStep == PaperInv /\ PaperInv' /\ [Next]_vars => [Abs!Next]_(Abs!vars)
<1> SUFFICES ASSUME PaperInv, PaperInv', [Next]_vars
             PROVE  Abs!Next \/ UNCHANGED Abs!vars
  OBVIOUS
<1>0. /\ TypeOK
      /\ pc \in [Requests -> InFlight \cup {"new", "answered", "lost"}]
      /\ done \in [Requests -> Nat]
      /\ job \in [Requests -> Jobs]
  BY DEF PaperInv, ExclusionInv, TypeOK
<1>1. ASSUME NEW r \in Requests, handle_mobile_http_stream(r)
      PROVE  Abs!Submit(r)
  <2>1. /\ pc[r] = "new" /\ pc'[r] = "received"
        /\ UNCHANGED <<config, status, done, printed, activity>>
        /\ \A q \in Requests : q # r => pc'[q] = pc[q] /\ job'[q] = job[q]
    BY <1>0, <1>1 DEF handle_mobile_http_stream, printer
  <2>2. Phase(r) = "new" /\ Phase(r)' = "waiting"
    <3>1. status[r] = 0
      BY <2>1, NoStatus
    <3>2. QED
      BY <2>1, <3>1 DEF Phase, Holding
  <2>3. \A q \in Requests : q # r => Phase(q)' = Phase(q) /\ Quota(q)' = Quota(q)
    BY <2>1, PhaseFrame DEF Quota
  <2>4. PICK n \in 1..MaxCopies : job'[r].copies = n
    <3>1. job'[r] \in Jobs
      BY DEF PaperInv, ExclusionInv, TypeOK
    <3>2. QED
      BY <3>1, ConstantsAssumption DEF Jobs, NoJob
  <2>5. Output' = Output
    BY <2>1 DEF Output
  <2>6. [q \in Requests |-> Phase(q)]' = [[q \in Requests |-> Phase(q)] EXCEPT ![r] = "waiting"]
    BY <2>2, <2>3, PhaseUpdate
  <2>7. [q \in Requests |-> IF pc[q] = "new" THEN 0 ELSE job[q].copies]'
          = [[q \in Requests |-> IF pc[q] = "new" THEN 0 ELSE job[q].copies] EXCEPT ![r] = n]
    BY <2>1, <2>4
  <2>8. [q \in Requests |-> Phase(q)][r] = "new"
    BY <2>2
  <2>9. QED
    BY <2>1, <2>5, <2>6, <2>7, <2>8 DEF Abs!Submit
<1>2. ASSUME NEW r \in Requests, prepare(r)
      PROVE  Abs!Next \/ UNCHANGED Abs!vars
  <2>1. pc[r] = "received" /\ UNCHANGED <<config, job, done, printed, activity>>
    BY <1>2 DEF prepare, printer
  <2>2. Output' = Output
    BY <2>1 DEF Output
  <2>3. CASE Conclude(r, 400) \/ Conclude(r, 422)
    BY <2>1, <2>2, <2>3, RefuseStep DEF Abs!Next
  <2>4. CASE pc' = [pc EXCEPT ![r] = "prepared"] /\ UNCHANGED status
    <3>1. pc'[r] = "prepared" /\ \A q \in Requests : q # r => pc'[q] = pc[q]
      BY <1>0, <2>4
    <3>2. Phase(r)' = Phase(r)
      BY <2>1, <2>4, <3>1, NoStatus DEF Phase
    <3>3. \A q \in Requests : Phase(q)' = Phase(q) /\ Quota(q)' = Quota(q)
      BY <2>1, <2>4, <3>1, <3>2, PhaseFrame DEF Quota
    <3>4. QED
      BY <2>1, <2>2, <3>3, Stutter
  <2>5. QED
    BY <1>2, <2>3, <2>4 DEF prepare
<1>3. ASSUME NEW r \in Requests, try_start(r)
      PROVE  Abs!Next
  <2>1. pc[r] = "prepared" /\ UNCHANGED <<config, job, done, printed>>
    BY <1>3 DEF try_start, printer
  <2>2. Output' = Output
    BY <2>1 DEF Output
  <2>3. CASE Conclude(r, 409) /\ UNCHANGED activity
    BY <2>1, <2>2, <2>3, RefuseStep DEF Abs!Next
  <2>4. CASE /\ activity = None /\ activity' = r
             /\ pc' = [pc EXCEPT ![r] = "loop"] /\ UNCHANGED status
    <3>1. pc'[r] = "loop" /\ \A q \in Requests : q # r => pc'[q] = pc[q]
      BY <1>0, <2>4
    <3>2. Phase(r) = "waiting" /\ Phase(r)' = "active"
      BY <2>1, <2>4, <3>1, NoStatus DEF Phase, Holding
    <3>3. [q \in Requests |-> Phase(q)]' = [[q \in Requests |-> Phase(q)] EXCEPT ![r] = "active"]
      BY <2>4, <3>1, <3>2, PhaseFrame, PhaseUpdate
    <3>4. UNCHANGED [q \in Requests |-> IF pc[q] = "new" THEN 0 ELSE job[q].copies]
      BY <2>1, <3>1, QuotaKept DEF Quota
    <3>5. [q \in Requests |-> Phase(q)][r] = "waiting"
      BY <3>2
    <3>6. Abs!Start(r)
      BY <2>2, <2>4, <3>3, <3>4, <3>5 DEF Abs!Start
    <3>7. QED
      BY <3>6 DEF Abs!Next
  <2>5. QED
    BY <1>3, <2>3, <2>4 DEF try_start
<1>4. ASSUME NEW r \in Requests, pc[r] = "loop", abort(r, 503), UNCHANGED <<config, job, done, printed>>
      PROVE  Abs!Next
  <2>1. Output' = Output
    BY <1>4 DEF Output
  <2>2. Abs!Fail(r)
    BY <1>4, <2>1, FailStep DEF abort, clear, Holding
  <2>3. QED
    BY <2>2 DEF Abs!Next
<1>5. ASSUME NEW r \in Requests, execute_unconfigured(r)
      PROVE  Abs!Next
  BY <1>4, <1>5 DEF execute_unconfigured, printer
<1>6. ASSUME NEW r \in Requests, execute_simulated(r)
      PROVE  Abs!Next \/ UNCHANGED Abs!vars
  <2>1. /\ pc[r] = "loop" /\ done[r] < job[r].copies /\ config.mode = "simulated"
        /\ done' = [done EXCEPT ![r] = @ + 1]
        /\ UNCHANGED <<config, pc, job, status, activity>>
    BY <1>6 DEF execute_simulated
  <2>2. Output[r] < job[r].copies /\ Output' = [Output EXCEPT ![r] = @ + 1]
    BY <2>1 DEF Output
  <2>3. Abs!PutOut(r) \/ UNCHANGED Abs!vars
    BY <2>1, <2>2, LoopStep DEF Holding
  <2>4. QED
    BY <2>3 DEF Abs!Next
<1>7. ASSUME NEW r \in Requests, execute_device(r)
      PROVE  Abs!Next \/ UNCHANGED Abs!vars
  <2>1. pc[r] = "loop" /\ UNCHANGED <<config, job, done, printed>>
    BY <1>7 DEF execute_device, printer
  <2>2. CASE abort(r, 503)
    BY <1>4, <2>1, <2>2
  <2>3. CASE pc' = [pc EXCEPT ![r] = "script"] /\ UNCHANGED <<status, activity>>
    <3>1. pc'[r] = "script" /\ \A q \in Requests : q # r => pc'[q] = pc[q]
      BY <1>0, <2>3
    <3>2. Output' = Output
      BY <2>1 DEF Output
    <3>3. Abs!PutOut(r) \/ UNCHANGED Abs!vars
      BY <2>1, <2>3, <3>1, <3>2, LoopStep DEF Holding
    <3>4. QED
      BY <3>3 DEF Abs!Next
  <2>4. QED
    BY <1>7, <2>2, <2>3 DEF execute_device
<1>8. ASSUME NEW r \in Requests, pc[r] = "script", Disturb(r, Current(r)), advance(r),
             UNCHANGED <<config, job>>
      PROVE  Abs!Next \/ UNCHANGED Abs!vars
  <2>1. /\ status' = status /\ activity' = activity /\ pc'[r] \in Holding
        /\ \A q \in Requests : q # r => pc'[q] = pc[q]
    BY <1>0, <1>8, AdvanceEffect DEF Holding
  <2>2. \/ UNCHANGED Output
        \/ Output[r] < job[r].copies /\ Output' = [Output EXCEPT ![r] = @ + 1]
    BY <1>8, WriterOutput
  <2>3. Abs!PutOut(r) \/ UNCHANGED Abs!vars
    BY <1>8, <2>1, <2>2, LoopStep DEF Holding
  <2>4. QED
    BY <2>3 DEF Abs!Next
<1>9. ASSUME NEW r \in Requests, write_ok(r)
      PROVE  Abs!Next \/ UNCHANGED Abs!vars
  BY <1>8, <1>9 DEF write_ok, Disturb
<1>10. ASSUME NEW r \in Requests, write_err(r)
       PROVE  Abs!Next \/ UNCHANGED Abs!vars
  <2>1. pc[r] = "script" /\ Disturb(r, Current(r)) /\ UNCHANGED <<config, job>>
    BY <1>10 DEF write_err
  <2>2. CASE advance(r)
    BY <1>8, <2>1, <2>2
  <2>3. CASE abort(r, 500)
    <3>1. Abs!Fail(r)
      BY <2>1, <2>3, WriterOutput, FailStep DEF abort, clear, Holding
    <3>2. QED
      BY <3>1 DEF Abs!Next
  <2>4. QED
    BY <1>10, <2>2, <2>3 DEF write_err
<1>11. ASSUME NEW r \in Requests, finish(r)
       PROVE  Abs!Next
  <2>1. /\ pc[r] = "loop" /\ done[r] = job[r].copies /\ Conclude(r, 200) /\ activity' = None
        /\ UNCHANGED <<config, job, done, printed>>
    BY <1>11 DEF finish, clear, printer
  <2>2. Output' = Output /\ Output[r] = job[r].copies
    <3>1. PaperOK(r)
      BY DEF PaperInv
    <3>2. QED
      BY <2>1, <3>1 DEF Output, PaperOK
  <2>3. Phase(r)' \in {"complete", "failed"}
    BY <2>1, PhaseConcluded, NoStatus DEF Statuses
  <2>4. /\ \A q \in Requests : q # r => Phase(q)' = Phase(q)
        /\ UNCHANGED [q \in Requests |-> IF pc[q] = "new" THEN 0 ELSE job[q].copies]
    BY <2>1, ConcludeFrame, QuotaKept DEF Statuses
  <2>5. /\ activity = r
        /\ [q \in Requests |-> IF pc[q] = "new" THEN 0 ELSE job[q].copies][r] = job[r].copies
    BY <2>1 DEF PaperInv, ExclusionInv, GuardMatchesOwner, Holding
  <2>6. CASE Phase(r)' = "complete"
    <3>1. [q \in Requests |-> Phase(q)]' = [[q \in Requests |-> Phase(q)] EXCEPT ![r] = "complete"]
      BY <2>4, <2>6, PhaseUpdate
    <3>2. Abs!Complete(r)
      BY <2>1, <2>2, <2>4, <2>5, <3>1 DEF Abs!Complete
    <3>3. QED
      BY <3>2 DEF Abs!Next
  <2>7. CASE Phase(r)' = "failed"
    <3>1. [q \in Requests |-> Phase(q)]' = [[q \in Requests |-> Phase(q)] EXCEPT ![r] = "failed"]
      BY <2>4, <2>7, PhaseUpdate
    <3>2. Abs!Fail(r)
      BY <2>1, <2>2, <2>4, <2>5, <3>1 DEF Abs!Fail
    <3>3. QED
      BY <3>2 DEF Abs!Next
  <2>8. QED
    BY <2>3, <2>6, <2>7
<1>12. ASSUME NEW r \in Requests, write_http_response(r)
       PROVE  UNCHANGED Abs!vars
  <2>1. /\ pc[r] = "respond" /\ pc'[r] \in {"answered", "lost"}
        /\ \A q \in Requests : q # r => pc'[q] = pc[q]
        /\ UNCHANGED <<config, job, status, done, printed, activity>>
    BY <1>0, <1>12 DEF write_http_response, printer
  <2>2. Phase(r)' = Phase(r) /\ Quota(r)' = Quota(r)
    BY <2>1 DEF Phase, Quota, Holding
  <2>3. \A q \in Requests : Phase(q)' = Phase(q) /\ Quota(q)' = Quota(q)
    BY <2>1, <2>2, PhaseFrame DEF Quota
  <2>4. Output' = Output
    BY <2>1 DEF Output
  <2>5. QED
    BY <2>1, <2>3, <2>4, Stutter
\* Every request in flight that has no status yet is lost.
<1>13. ASSUME crash
       PROVE  Abs!Crash
  <2>1. /\ \A q \in Requests : pc'[q] = IF pc[q] \in InFlight THEN "lost" ELSE pc[q]
        /\ UNCHANGED <<config, job, status, done, printed>> /\ activity' = None
    BY <1>13 DEF crash, printer
  <2>2. Output' = Output
    BY <2>1 DEF Output
  <2>3. ASSUME NEW q \in Requests
        PROVE  Phase(q)' = IF Phase(q) \in {"waiting", "active"} THEN "failed" ELSE Phase(q)
    <3>1. CASE pc[q] \in {"received", "prepared", "loop", "script"}
      BY <2>1, <3>1, NoStatus DEF Phase, InFlight, Holding
    <3>2. CASE pc[q] = "respond"
      BY <2>1, <3>2 DEF Phase, InFlight, Holding
    <3>3. CASE pc[q] \in {"new", "answered", "lost"}
      BY <2>1, <3>3, PhaseOf, PhaseFrame DEF InFlight
    <3>4. QED
      BY <1>0, <3>1, <3>2, <3>3 DEF InFlight
  <2>4. \A q \in Requests : Quota(q)' = Quota(q)
    BY <2>1 DEF Quota, InFlight
  <2>5. UNCHANGED [q \in Requests |-> IF pc[q] = "new" THEN 0 ELSE job[q].copies]
    BY <2>4, QuotaKept
  <2>6. [q \in Requests |-> Phase(q)]'
          = [q \in Requests |-> IF [p \in Requests |-> Phase(p)][q] \in {"waiting", "active"}
                                THEN "failed" ELSE [p \in Requests |-> Phase(p)][q]]
    BY <2>3
  <2>7. QED
    BY <2>1, <2>2, <2>5, <2>6 DEF Abs!Crash
<1>14. CASE UNCHANGED vars
  <2>1. UNCHANGED <<config, pc, job, status, done, activity, printed>>
    BY <1>14 DEF vars, server, printer
  <2>2. Output' = Output /\ \A q \in Requests : Phase(q)' = Phase(q) /\ Quota(q)' = Quota(q)
    BY <2>1, PhaseFrame DEF Output, Quota
  <2>3. QED
    BY <2>1, <2>2, Stutter
<1>15. QED
  BY <1>1, <1>2, <1>3, <1>5, <1>6, <1>7, <1>9, <1>10, <1>11, <1>12, <1>13, <1>14
     DEF Next, Handler, Abs!Next

\* The print path (driver_print_response, the executors and the printer they
\* drive) implements the exclusive printer: one job at a time from try_start to
\* the drop of the guard, labels for that job only and no more than it asked
\* for, and no outcome that the paper belies.
THEOREM RefinementCorrect == Spec => Refines
<1>1. Init => Abs!Init
  <2> SUFFICES ASSUME Init
               PROVE  Abs!Init
    OBVIOUS
  <2>1. ASSUME NEW r \in Requests
        PROVE  Phase(r) = "new" /\ Quota(r) = 0
    <3>1. pc[r] = "new" /\ status[r] = 0
      BY DEF Init
    <3>2. QED
      BY <3>1 DEF Phase, Quota, Holding
  <2>2. Output = [r \in Requests |-> 0] /\ activity = None
    BY DEF Init, Output
  <2>3. QED
    BY <2>1, <2>2 DEF Abs!Init, Quota
<1>2. QED
  BY <1>1, RefinementStep, PaperHolds, PTL DEF Spec, Refines, Abs!Spec
===============================================================================
