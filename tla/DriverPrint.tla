------------------------------ MODULE DriverPrint ------------------------------
(***************************************************************************)
(* The print path of the service: POST /v1/driver/print, one thread per    *)
(* connection, from the decoded request to the bytes written to the        *)
(* printer device and back to the HTTP response.                           *)
(*                                                                         *)
(* What a request contains is reduced to what steers the path: the verdict *)
(* of into_job and of the print pipeline, the printer it resolves to and   *)
(* its print_count (module PrintPlan models how these are computed). The   *)
(* command list of a render keeps every write that changes the printer;    *)
(* neighbouring writes that set options are one command.                   *)
(***************************************************************************)
EXTENDS Naturals, Sequences

CONSTANTS
  Requests,   \* print requests; the server runs one thread for each
  MaxCopies,  \* bound: the largest print_count (a u32 in the code)
  None,       \* no request / no content
  Torn        \* a graphic of which only a part reached the printer

ASSUME ConstantsAssumption ==
  /\ MaxCopies \in Nat \ {0}
  /\ None \notin Requests
  /\ Torn \notin Requests
  /\ None # Torn

VARIABLES
  config,     \* executor mode and configured devices, fixed at start-up
  pc,         \* control state of each request's thread
  job,        \* the decoded request
  status,     \* the HTTP status computed for the request, 0 until there is one
  done,       \* successful execute() calls of the request's copy loop
  activity,   \* PrintActivityState: the request shown as printing, or None
  lock,       \* DeviceDriverPrintExecutor.lock: the holder, or None
  step,       \* index into the command script of the request being executed
  mem,        \* printer: the graphics stored under TEXTLBL and QRLBL
  form,       \* printer: the parts placed on the label since ^L
  labels,     \* printer: every label ejected (history)
  printed,    \* printer: how many labels were ejected per request (history)
  last        \* printer: the request of the last label ejected (history)

server == <<pc, job, status, done, activity, lock, step>>
printer == <<mem, form, labels, printed, last>>
vars == <<config, server, printer>>

Printers == {"zebra", "godex"}
Configs ==
  {[mode |-> "unconfigured", devices |-> {}], [mode |-> "simulated", devices |-> {}]}
    \cup [mode : {"device"}, devices : SUBSET Printers]

\* into_job fails: "invalid"; the pipeline fails: "unprepared"; what such a
\* request says of printer and copies is never looked at.
NoJob == [verdict |-> "invalid", printer |-> "zebra", copies |-> 1]
Jobs ==
  {NoJob, [verdict |-> "unprepared", printer |-> "zebra", copies |-> 1]}
    \cup [verdict : {"ready"}, printer : Printers, copies : 1..MaxCopies]

Statuses == {0, 200, 400, 409, 422, 500, 503}
Slots == {"text", "qr"}
Parts == {"text", "fields", "qr"}
Content == Requests \cup {None, Torn}
Labels == [owner : Requests, text : Content, fields : Content, qr : Content]

\* Threads that hold the activity guard.
Holding == {"loop", "script"}
InFlight == {"received", "prepared", "loop", "script", "respond"}

Init ==
  /\ config \in Configs
  /\ pc = [r \in Requests |-> "new"]
  /\ job = [r \in Requests |-> NoJob]
  /\ status = [r \in Requests |-> 0]
  /\ done = [r \in Requests |-> 0]
  /\ activity = None
  /\ lock = None
  /\ step = [r \in Requests |-> 1]
  /\ mem = [s \in Slots |-> None]
  /\ form = [p \in Parts |-> None]
  /\ labels = {}
  /\ printed = [r \in Requests |-> 0]
  /\ last = None

-------------------------------------------------------------------------------
(* Leaving the handler.                                                    *)

\* The handler logs and returns a response; println!/eprintln! panics when the
\* service's stdout/stderr is gone, and then the thread ends without one.
Conclude(r, code) ==
  \/ /\ pc' = [pc EXCEPT ![r] = "respond"]
     /\ status' = [status EXCEPT ![r] = code]
  \/ /\ pc' = [pc EXCEPT ![r] = "lost"]
     /\ UNCHANGED status

\* Drop of PrintActivityGuard: runs on every way out, unwinding included.
clear == activity' = None

-------------------------------------------------------------------------------
(* From the connection to the activity guard.                              *)

handle_mobile_http_stream(r) ==
  /\ pc[r] = "new"
  /\ \E j \in Jobs : job' = [job EXCEPT ![r] = j]
  /\ pc' = [pc EXCEPT ![r] = "received"]
  /\ UNCHANGED <<config, status, done, activity, lock, step, printer>>

\* Decoding, into_job and the pipeline touch only the thread's own data.
prepare(r) ==
  /\ pc[r] = "received"
  /\ \/ job[r].verdict = "invalid" /\ Conclude(r, 400)
     \/ job[r].verdict = "unprepared" /\ Conclude(r, 422)
     \/ /\ job[r].verdict = "ready"
        /\ pc' = [pc EXCEPT ![r] = "prepared"]
        /\ UNCHANGED status
  /\ UNCHANGED <<config, job, done, activity, lock, step, printer>>

\* Mutant: the busy check is dropped.
try_start_Unchecked(r) ==
  /\ pc[r] = "prepared"
  /\ activity' = r
  /\ pc' = [pc EXCEPT ![r] = "loop"]
  /\ UNCHANGED <<config, job, status, done, lock, step, printer>>

try_start(r) ==
  /\ pc[r] = "prepared"
  /\ \/ /\ activity # None
        /\ Conclude(r, 409)
        /\ UNCHANGED activity
     \/ /\ activity = None
        /\ activity' = r
        /\ pc' = [pc EXCEPT ![r] = "loop"]
        /\ UNCHANGED status
  /\ UNCHANGED <<config, job, done, lock, step, printer>>

-------------------------------------------------------------------------------
(* The copy loop: one execute() per copy.                                  *)

\* A failed execute() ends the loop and the handler.
abort(r, code) ==
  /\ Conclude(r, code)
  /\ clear

\* UnconfiguredDriverPrintExecutor::execute, on the first copy.
execute_unconfigured(r) ==
  /\ pc[r] = "loop" /\ done[r] < job[r].copies
  /\ config.mode = "unconfigured"
  /\ abort(r, 503)
  /\ UNCHANGED <<config, job, done, lock, step, printer>>

\* SimulatedDriverPrintExecutor::execute.
execute_simulated(r) ==
  /\ pc[r] = "loop" /\ done[r] < job[r].copies
  /\ config.mode = "simulated"
  /\ done' = [done EXCEPT ![r] = @ + 1]
  /\ UNCHANGED <<config, pc, job, status, activity, lock, step, printer>>

\* Mutant: the lock is not released when the device is missing.
execute_device_KeepsLock(r) ==
  /\ pc[r] = "loop" /\ done[r] < job[r].copies
  /\ config.mode = "device"
  /\ lock = None
  /\ lock' = r
  /\ \/ /\ job[r].printer \notin config.devices
        /\ abort(r, 503)
        /\ UNCHANGED step
     \/ /\ job[r].printer \in config.devices
        /\ step' = [step EXCEPT ![r] = 1]
        /\ pc' = [pc EXCEPT ![r] = "script"]
        /\ UNCHANGED <<status, activity>>
  /\ UNCHANGED <<config, job, done, printer>>

\* DeviceDriverPrintExecutor::execute up to its first write. Without a device
\* for the printer it returns at once, and the lock with it.
execute_device(r) ==
  /\ pc[r] = "loop" /\ done[r] < job[r].copies
  /\ config.mode = "device"
  /\ lock = None
  /\ \/ /\ job[r].printer \notin config.devices
        /\ abort(r, 503)
        /\ UNCHANGED <<lock, step>>
     \/ /\ job[r].printer \in config.devices
        /\ lock' = r
        /\ step' = [step EXCEPT ![r] = 1]
        /\ pc' = [pc EXCEPT ![r] = "script"]
        /\ UNCHANGED <<status, activity>>
  /\ UNCHANGED <<config, job, done, printer>>

\* Mutant: the loop ends one copy early.
finish_OneLess(r) ==
  /\ pc[r] = "loop" /\ done[r] + 1 >= job[r].copies
  /\ Conclude(r, 200)
  /\ clear
  /\ UNCHANGED <<config, job, done, lock, step, printer>>

\* The loop is over: 200, and the guard is dropped before the response is written.
finish(r) ==
  /\ pc[r] = "loop" /\ done[r] = job[r].copies
  /\ Conclude(r, 200)
  /\ clear
  /\ UNCHANGED <<config, job, done, lock, step, printer>>

-------------------------------------------------------------------------------
(* The commands of one execute(): each is one write_device_payload.        *)

Cmd(op, part) == [op |-> op, part |-> part]

download_graphic(slot) ==
  << Cmd("delete", slot), Cmd("reserve", slot), Cmd("data", slot) >>

\* The commands of a render: "begin" is ~S,ESG to ^L, "fields" are the AB and BA
\* commands of a pack or progress label (a qolip label has none of them).
build_pack_render ==
  << Cmd("begin", "none"),
     Cmd("place", "text"), Cmd("place", "fields"), Cmd("place", "qr"),
     Cmd("eject", "none") >>

\* Buzzer off, the two downloads, the render's commands, the final status query.
execute_pack_render ==
  << Cmd("set", "none") >>
    \o download_graphic("text") \o download_graphic("qr")
    \o build_pack_render
    \o << Cmd("set", "none") >>

\* One ZPL document draws and ejects the label.
ZebraScript == << Cmd("zpl", "none") >>

Script(p) == IF p = "zebra" THEN ZebraScript ELSE execute_pack_render

Current(r) == Script(job[r].printer)[step[r]]

\* Mutant: the outcome of the graphic's data is ignored too.
Ignorable_Data(c) == c.op \in {"delete", "data"}

\* download_graphic ignores the outcome of ~MDELG, every other error is passed on.
Ignorable(c) == c.op = "delete"

\* The printer has ejected a label for r.
Eject(r, text, fields, qr) ==
  /\ labels' = labels \cup {[owner |-> r, text |-> text, fields |-> fields, qr |-> qr]}
  /\ printed' = [printed EXCEPT ![r] = @ + 1]
  /\ last' = r

Store(s, x) ==
  /\ mem' = [mem EXCEPT ![s] = x]
  /\ UNCHANGED <<form, labels, printed, last>>

\* What a whole command of r does to the printer.
Deliver(r, c) ==
  \/ c.op = "set" /\ UNCHANGED printer
  \/ c.op \in {"delete", "reserve"} /\ Store(c.part, None)
  \/ c.op = "data" /\ Store(c.part, r)
  \/ /\ c.op = "begin"
     /\ form' = [p \in Parts |-> None]
     /\ UNCHANGED <<mem, labels, printed, last>>
  \/ /\ c.op = "place"
     /\ form' = [form EXCEPT ![c.part] = IF c.part \in Slots THEN mem[c.part] ELSE r]
     /\ UNCHANGED <<mem, labels, printed, last>>
  \/ /\ c.op = "eject"
     /\ Eject(r, form["text"], form["fields"], form["qr"])
     /\ UNCHANGED <<mem, form>>
  \/ /\ c.op = "zpl"
     /\ Eject(r, r, r, r)
     /\ UNCHANGED <<mem, form>>

\* What a failed write may have done: nothing, everything, or a part of a graphic
\* or of the field commands.
Disturb(r, c) ==
  \/ UNCHANGED printer
  \/ Deliver(r, c)
  \/ c.op = "data" /\ Store(c.part, Torn)
  \/ /\ c.op = "place" /\ c.part = "fields"
     /\ form' = [form EXCEPT ![c.part] = Torn]
     /\ UNCHANGED <<mem, labels, printed, last>>

\* Mutant: the end of the script is missed by one.
advance_OffByOne(r) ==
  /\ IF step[r] <= Len(Script(job[r].printer))
     THEN /\ step' = [step EXCEPT ![r] = @ + 1]
          /\ UNCHANGED <<pc, done, lock>>
     ELSE /\ pc' = [pc EXCEPT ![r] = "loop"]
          /\ done' = [done EXCEPT ![r] = @ + 1]
          /\ lock' = None
          /\ UNCHANGED step
  /\ UNCHANGED <<status, activity>>

\* Mutant: the guard lives for one copy only.
advance_DropsGuard(r) ==
  /\ IF step[r] < Len(Script(job[r].printer))
     THEN /\ step' = [step EXCEPT ![r] = @ + 1]
          /\ UNCHANGED <<pc, done, lock, activity>>
     ELSE /\ pc' = [pc EXCEPT ![r] = "loop"]
          /\ done' = [done EXCEPT ![r] = @ + 1]
          /\ lock' = None
          /\ activity' = None
          /\ UNCHANGED step
  /\ UNCHANGED status

\* On to the next command; after the last one execute() returns Ok and unlocks.
advance(r) ==
  /\ IF step[r] < Len(Script(job[r].printer))
     THEN /\ step' = [step EXCEPT ![r] = @ + 1]
          /\ UNCHANGED <<pc, done, lock>>
     ELSE /\ pc' = [pc EXCEPT ![r] = "loop"]
          /\ done' = [done EXCEPT ![r] = @ + 1]
          /\ lock' = None
          /\ UNCHANGED step
  /\ UNCHANGED <<status, activity>>

write_ok(r) ==
  /\ pc[r] = "script"
  /\ Deliver(r, Current(r))
  /\ advance(r)
  /\ UNCHANGED <<config, job>>

\* Mutant: a failed copy is logged and the loop goes on.
write_err_GoesOn(r) ==
  /\ pc[r] = "script"
  /\ Disturb(r, Current(r))
  /\ lock' = None
  /\ pc' = [pc EXCEPT ![r] = "loop"]
  /\ done' = [done EXCEPT ![r] = @ + 1]
  /\ UNCHANGED <<config, job, status, activity, step>>

\* Mutant: the lock is not released on the error path.
write_err_KeepsLock(r) ==
  /\ pc[r] = "script"
  /\ Disturb(r, Current(r))
  /\ \/ Ignorable(Current(r)) /\ advance(r)
     \/ /\ ~Ignorable(Current(r))
        /\ abort(r, 500)
        /\ UNCHANGED <<done, lock, step>>
  /\ UNCHANGED <<config, job>>

write_err(r) ==
  /\ pc[r] = "script"
  /\ Disturb(r, Current(r))
  /\ \/ Ignorable(Current(r)) /\ advance(r)
     \/ /\ ~Ignorable(Current(r))
        /\ lock' = None
        /\ abort(r, 500)
        /\ UNCHANGED <<done, step>>
  /\ UNCHANGED <<config, job>>

-------------------------------------------------------------------------------
\* write_http_response: a failed write is ignored, the client gets nothing.
write_http_response(r) ==
  /\ pc[r] = "respond"
  /\ \E end \in {"answered", "lost"} : pc' = [pc EXCEPT ![r] = end]
  /\ UNCHANGED <<config, job, status, done, activity, lock, step, printer>>

\* The service is killed and started again: threads, guard and lock are gone,
\* the printer keeps its memory and a half-built label.
crash ==
  /\ \E r \in Requests : pc[r] \in InFlight
  /\ pc' = [r \in Requests |-> IF pc[r] \in InFlight THEN "lost" ELSE pc[r]]
  /\ activity' = None
  /\ lock' = None
  /\ UNCHANGED <<config, job, status, done, step, printer>>

Handler(r) ==
  \/ prepare(r) \/ try_start(r)
  \/ execute_unconfigured(r) \/ execute_simulated(r) \/ execute_device(r)
  \/ write_ok(r) \/ write_err(r)
  \/ finish(r) \/ write_http_response(r)

Next ==
  \/ \E r \in Requests : handle_mobile_http_stream(r) \/ Handler(r)
  \/ crash

Spec == Init /\ [][Next]_vars

\* Threads are scheduled and writes to the device and the socket return.
FairSpec == Spec /\ \A r \in Requests : WF_vars(Handler(r))

-------------------------------------------------------------------------------
(* Properties.                                                             *)

\* Every variable has its type; while a request's commands are being written its
\* index points into its printer's script.
TypeOK ==
  /\ config \in Configs
  /\ pc \in [Requests -> InFlight \cup {"new", "answered", "lost"}]
  /\ job \in [Requests -> Jobs]
  /\ status \in [Requests -> Statuses]
  /\ done \in [Requests -> Nat]
  /\ activity \in Requests \cup {None}
  /\ lock \in Requests \cup {None}
  /\ step \in [Requests -> Nat]
  /\ \A r \in Requests : pc[r] = "script" => step[r] \in 1..Len(Script(job[r].printer))
  /\ mem \in [Slots -> Content]
  /\ form \in [Parts -> Content]
  /\ labels \subseteq Labels
  /\ printed \in [Requests -> Nat]
  /\ last \in Requests \cup {None}

\* The activity guard is held exactly while a request is in its copy loop, and
\* by that request alone: no path out of driver_print_response leaves the
\* service busy, and none frees a guard another request holds.
GuardMatchesOwner ==
  \A r \in Requests : activity = r <=> pc[r] \in Holding

\* The executor's mutex is never contended: the request that runs the copy loop
\* always finds it free, so lock() in execute() never blocks a handler.
LockNeverBlocks ==
  \A r \in Requests :
    /\ pc[r] = "loop" => lock = None
    /\ pc[r] = "script" => lock = r

\* Every label that leaves a printer shows the text graphic, the fields and the
\* QR graphic of one and the same request, although the graphics travel through
\* two names of printer memory that all requests share, and whatever writes
\* failed or services died before (execute_pack_render, download_graphic).
LabelIntegrity ==
  \A l \in labels : l.text = l.owner /\ l.fields = l.owner /\ l.qr = l.owner

\* What a status tells about paper: 200 means all copies came out (none, with
\* the simulated executor); 400, 409, 422 and 503 mean that none did, so that
\* the request can be sent again; after 500 the copies that succeeded came out,
\* and at most the one that failed besides.
StatusMatchesPaper ==
  \A r \in Requests :
    /\ status[r] = 200 =>
         printed[r] = IF config.mode = "simulated" THEN 0 ELSE job[r].copies
    /\ status[r] \in {400, 409, 422, 503} => printed[r] = 0
    /\ status[r] = 500 =>
         done[r] < job[r].copies /\ printed[r] \in {done[r], done[r] + 1}

\* The copies of a request come out together: once its first label is out, no
\* other request's label comes between it and the next one.
ContiguousCopies ==
  [][\A r \in Requests : printed'[r] # printed[r] /\ printed[r] > 0 => last = r]_vars

\* Every request that was read ends: it is answered or its connection is lost.
EveryRequestEnds ==
  \A r \in Requests : pc[r] = "received" ~> pc[r] \in {"answered", "lost"}

-------------------------------------------------------------------------------
(* Refinement: the HTTP threads, mutexes and printer commands implement an *)
(* exclusive printer.                                                      *)

Phase(r) ==
  CASE status[r] = 200 -> "complete"
    [] status[r] \in {400, 409, 422} -> "refused"
    [] status[r] \in {500, 503} -> "failed"
    [] status[r] = 0 /\ pc[r] = "new" -> "new"
    [] status[r] = 0 /\ pc[r] \in {"received", "prepared"} -> "waiting"
    [] status[r] = 0 /\ pc[r] \in Holding -> "active"
    [] OTHER -> "failed"

\* With the simulated executor a successful execute() counts as a label.
Output == IF config.mode = "simulated" THEN done ELSE printed

Abs == INSTANCE ExclusivePrinter WITH
  phase <- [r \in Requests |-> Phase(r)],
  quota <- [r \in Requests |-> IF pc[r] = "new" THEN 0 ELSE job[r].copies],
  output <- Output,
  active <- activity

\* The print path implements ExclusivePrinter: one job at a time from try_start
\* to the guard's drop, labels only for that job, and outcomes that are true.
Refines == Abs!Spec
===============================================================================
