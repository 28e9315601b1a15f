----------------------------- MODULE ScaleMonitor ------------------------------
(***************************************************************************)
(* From the serial port to the clients' screens: the reader thread that    *)
(* opens the port, reads, decodes and reconnects (SerialReader), the last  *)
(* reading it leaves in the monitor (MonitorRuntimeState), and the threads *)
(* that stream snapshots of the monitor to HTTP clients.                   *)
(*                                                                         *)
(* A chunk is reduced to the frames it completes and to whether it ends in *)
(* half a frame; module ScaleStream looks inside.                          *)
(***************************************************************************)
EXTENDS Naturals, Sequences

CONSTANTS
  Clients,    \* clients of GET /v1/mobile/monitor/stream, one thread for each
  Weights,    \* weights the scale can show
  MaxConns,   \* bound: successful opens of the serial port
  MaxFrames,  \* bound: frames that one chunk completes
  Pty,        \* the device is no serial port: open_unix_pty_source opens it
  None        \* no weight, no reading, no payload

VARIABLES
  plugged,       \* the serial device can be opened
  works,         \* the port the reader has open still works
  reader,        \* control state of the reader thread
  conn,          \* the number of the reader's connection
  queue,         \* frames of the last chunk still to be decoded
  half,          \* connection that began the frame in the buffer, 0: none
  value,         \* connection of the decoder's last parsed value, 0: none
  last_reading,  \* MonitorRuntimeState.last_reading
  present,       \* the printer's device file exists
  stream,        \* where each client's thread is in its loop, or "off"
  cloned,        \* the scale's part of the snapshot a thread is taking
  last_payload,  \* the snapshot a client's thread compares with
  shown,         \* the snapshot each client has received last
  client         \* "here", "left" (closed), or "reset" (the peer has said so)

scale == <<plugged, works, reader, conn, queue, half, value, last_reading>>
streams == <<stream, cloned, last_payload, shown, client>>
vars == <<scale, present, streams>>

Conns == 1..MaxConns
FrameKinds == [kind : {"raw", "blank"}, weight : {None}] \cup [kind : {"weight"}, weight : Weights]
Chunks == [frames : UNION {[1..n -> FrameKinds] : n \in 0..MaxFrames}, half : BOOLEAN]

\* A reading: what it shows, the connection it was made on, and the connections
\* whose text or values went into it.
Readings ==
  [weight : Weights \cup {None, 0}, error : BOOLEAN, conn : 0..MaxConns, origin : SUBSET (0..MaxConns)]

\* What a snapshot shows of the scale and the printer.
ScaleSnapshots ==
  [source : {"", "serial"}, weight : Weights \cup {None, 0}, error : BOOLEAN]
Snapshots == [scale : ScaleSnapshots, printer : BOOLEAN]

ASSUME MonitorAssumption ==
  /\ MaxConns \in Nat \ {0}
  /\ MaxFrames \in Nat \ {0}
  /\ Pty \in BOOLEAN
  /\ None \notin Weights
  /\ 0 \notin Weights
  /\ None \notin Readings
  /\ None \notin ScaleSnapshots

Reading(weight, error, origin) ==
  [weight |-> weight, error |-> error, conn |-> conn', origin |-> origin]

Init ==
  /\ plugged \in BOOLEAN
  /\ works = FALSE
  /\ reader \in {"open", "absent"}
  /\ conn = 0
  /\ queue = <<>>
  /\ half = 0 /\ value = 0
  /\ last_reading = None
  /\ present \in BOOLEAN
  /\ stream = [c \in Clients |-> "off"]
  /\ cloned = [c \in Clients |-> None]
  /\ last_payload = [c \in Clients |-> None]
  /\ shown = [c \in Clients |-> None]
  /\ client = [c \in Clients |-> "here"]

-------------------------------------------------------------------------------
(* The world: the scale is plugged and unplugged, the printer comes and    *)
(* goes.                                                                   *)

unplug ==
  /\ plugged /\ conn < MaxConns
  /\ plugged' = FALSE
  /\ works' = FALSE
  /\ UNCHANGED <<reader, conn, queue, half, value, last_reading, present, streams>>

plug ==
  /\ ~plugged
  /\ plugged' = TRUE
  /\ UNCHANGED <<works, reader, conn, queue, half, value, last_reading, present, streams>>

printer_comes_or_goes ==
  /\ present' = ~present
  /\ UNCHANGED <<scale, streams>>

-------------------------------------------------------------------------------
(* The reader thread: SerialReader::run_forever.                           *)

record_reading(reading) == last_reading' = reading

\* Mutant: the decoder outlives its connection.
open_ok_KeepsDecoder ==
  /\ reader = "open" /\ plugged /\ conn < MaxConns
  /\ conn' = conn + 1
  /\ works' = TRUE
  /\ record_reading(Reading(None, FALSE, {conn'}))
  /\ reader' = "read"
  /\ UNCHANGED <<plugged, queue, half, value, present, streams>>

\* The port opens: a reading without weight, and a fresh decoder.
open_ok ==
  /\ reader = "open" /\ plugged /\ conn < MaxConns
  /\ conn' = conn + 1
  /\ works' = TRUE
  /\ record_reading(Reading(None, FALSE, {conn'}))
  /\ half' = 0 /\ value' = 0
  /\ reader' = "read"
  /\ UNCHANGED <<plugged, queue, present, streams>>

\* Mutant: a port that cannot be opened is not reported.
open_err_Silent ==
  /\ reader = "open" /\ ~plugged
  /\ reader' = "wait"
  /\ UNCHANGED <<plugged, works, conn, queue, half, value, last_reading, present, streams>>

open_err ==
  /\ reader = "open" /\ ~plugged
  /\ UNCHANGED conn
  /\ record_reading(Reading(None, TRUE, {conn}))
  /\ reader' = "wait"
  /\ UNCHANGED <<plugged, works, queue, half, value, present, streams>>

\* reconnect_delay is over.
reconnect ==
  /\ reader = "wait"
  /\ reader' = "open"
  /\ UNCHANGED <<plugged, works, conn, queue, half, value, last_reading, present, streams>>

\* A chunk arrives. Its first frame has the half frame of the chunk before at
\* its head. (A read that gives nothing, or times out, changes nothing.)
read_ok ==
  /\ reader = "read" /\ works
  /\ \E chunk \in Chunks :
       /\ chunk.frames # <<>> \/ chunk.half
       /\ queue' = [i \in DOMAIN chunk.frames |->
                      [frame |-> chunk.frames[i],
                       from  |-> IF i = 1 /\ half # 0 THEN half ELSE conn]]
       /\ half' = IF ~chunk.half THEN 0
                  ELSE IF chunk.frames = <<>> /\ half # 0 THEN half ELSE conn
  /\ reader' = "decode"
  /\ UNCHANGED <<plugged, works, conn, value, last_reading, present, streams>>

\* frame_to_reading of the next frame, and the callback for its reading; when no
\* frame is left the thread reads again.
decode ==
  /\ reader = "decode"
  /\ UNCHANGED conn
  /\ \/ /\ queue = <<>>
        /\ reader' = "read"
        /\ UNCHANGED <<queue, value, last_reading>>
     \/ /\ queue # <<>>
        /\ queue' = Tail(queue)
        /\ LET next == Head(queue) IN
             \/ /\ next.frame.kind = "weight"
                /\ value' = conn
                /\ record_reading(Reading(next.frame.weight, FALSE, {next.from, conn}))
             \/ /\ next.frame.kind = "raw"
                /\ record_reading(Reading(None, FALSE, {next.from, conn}))
                /\ UNCHANGED value
             \/ /\ next.frame.kind = "blank" /\ value # 0
                /\ record_reading(Reading(0, FALSE, {value, conn}))
                /\ UNCHANGED value
             \/ /\ next.frame.kind = "blank" /\ value = 0
                /\ UNCHANGED <<value, last_reading>>
        /\ UNCHANGED reader
  /\ UNCHANGED <<plugged, works, half, present, streams>>

\* A read fails: for once, or because the device is gone. (A pty whose other end
\* is gone does not fail: it reads Ok(0), and the loop reads again.)
ReadFails == IF works THEN conn < MaxConns ELSE ~Pty

\* Mutant: a failed read is not reported.
read_err_Silent ==
  /\ reader = "read" /\ ReadFails
  /\ works' = FALSE
  /\ reader' = "wait"
  /\ UNCHANGED <<plugged, conn, queue, half, value, last_reading, present, streams>>

\* Mutant: a failed read is reported and the port is read again, never reopened.
read_err_NoBreak ==
  /\ reader = "read" /\ ReadFails
  /\ UNCHANGED conn
  /\ works' = FALSE
  /\ record_reading(Reading(None, TRUE, {conn}))
  /\ UNCHANGED <<reader, plugged, queue, half, value, present, streams>>

read_err ==
  /\ reader = "read" /\ ReadFails
  /\ UNCHANGED conn
  /\ works' = FALSE
  /\ record_reading(Reading(None, TRUE, {conn}))
  /\ reader' = "wait"
  /\ UNCHANGED <<plugged, queue, half, value, present, streams>>

-------------------------------------------------------------------------------
(* The monitor and its streams. A snapshot is two reads: the last reading, *)
(* cloned under its lock, and then whether the printer's file exists.      *)

\* The part of a snapshot that can change: raw text, baud rate and times are not
\* in it; without a reading the scale is shown without a source.
scale_snapshot ==
  IF last_reading = None
  THEN [source |-> "", weight |-> None, error |-> FALSE]
  ELSE [source |-> "serial", weight |-> last_reading.weight, error |-> last_reading.error]

snapshot == [scale |-> scale_snapshot, printer |-> present]

stream_open(c) ==
  /\ stream[c] = "off"
  /\ stream' = [stream EXCEPT ![c] = "scale"]
  /\ last_payload' = [last_payload EXCEPT ![c] = None]
  /\ shown' = [shown EXCEPT ![c] = None]
  /\ client' = [client EXCEPT ![c] = "here"]
  /\ UNCHANGED <<scale, present, cloned>>

stream_scale(c) ==
  /\ stream[c] = "scale"
  /\ cloned' = [cloned EXCEPT ![c] = scale_snapshot]
  /\ stream' = [stream EXCEPT ![c] = "printer"]
  /\ UNCHANGED <<scale, present, last_payload, shown, client>>

\* Mutant: a snapshot that differs in the printer only is noted but not sent.
stream_compare_ScaleOnly(c) ==
  LET payload == [scale |-> cloned[c], printer |-> present] IN
  /\ stream[c] = "printer"
  /\ last_payload' = [last_payload EXCEPT ![c] = payload]
  /\ stream' = [stream EXCEPT ![c] =
                  IF last_payload[c] # None /\ last_payload[c].scale = cloned[c] THEN "beat" ELSE "send"]
  /\ UNCHANGED <<scale, present, cloned, shown, client>>

\* The snapshot is complete; one that equals the last is not sent.
stream_compare(c) ==
  LET payload == [scale |-> cloned[c], printer |-> present] IN
  /\ stream[c] = "printer"
  /\ \/ /\ payload # last_payload[c]
        /\ last_payload' = [last_payload EXCEPT ![c] = payload]
        /\ stream' = [stream EXCEPT ![c] = "send"]
     \/ /\ payload = last_payload[c]
        /\ stream' = [stream EXCEPT ![c] = "beat"]
        /\ UNCHANGED last_payload
  /\ UNCHANGED <<scale, present, cloned, shown, client>>

\* A write: the first one after the client has closed still succeeds; the answer
\* to it makes the next one fail, and the thread returns the error. A write to a
\* client that does not read fails by the write timeout.
Write(c, next) ==
  \/ client[c] = "here"  /\ \E pos \in {next, "off"} : stream' = [stream EXCEPT ![c] = pos]
                         /\ UNCHANGED client
  \/ client[c] = "left"  /\ stream' = [stream EXCEPT ![c] = next]
                         /\ client' = [client EXCEPT ![c] = "reset"]
  \/ client[c] = "reset" /\ stream' = [stream EXCEPT ![c] = "off"] /\ UNCHANGED client

stream_send(c) ==
  /\ stream[c] = "send"
  /\ Write(c, "beat")
  /\ shown' = IF client[c] = "here" /\ stream'[c] = "beat" THEN [shown EXCEPT ![c] = last_payload[c]] ELSE shown
  /\ UNCHANGED <<scale, present, cloned, last_payload>>

\* Mutant: a ping that cannot be written is ignored.
heartbeat_Ignored(c) ==
  /\ stream[c] = "beat"
  /\ stream' = [stream EXCEPT ![c] = "scale"]
  /\ UNCHANGED <<scale, present, cloned, last_payload, shown, client>>

\* MONITOR_STREAM_HEARTBEAT has passed since the last ping: the next one is written.
heartbeat(c) ==
  /\ stream[c] = "beat"
  /\ Write(c, "scale")
  /\ UNCHANGED <<scale, present, cloned, last_payload, shown>>

no_heartbeat(c) ==
  /\ stream[c] = "beat"
  /\ stream' = [stream EXCEPT ![c] = "scale"]
  /\ UNCHANGED <<scale, present, cloned, last_payload, shown, client>>

client_leaves(c) ==
  /\ stream[c] # "off" /\ client[c] = "here"
  /\ \E how \in {"left", "reset"} : client' = [client EXCEPT ![c] = how]
  /\ UNCHANGED <<scale, present, stream, cloned, last_payload, shown>>

-------------------------------------------------------------------------------
Reader == open_ok \/ open_err \/ reconnect \/ read_ok \/ decode \/ read_err

StreamThread(c) ==
  stream_scale(c) \/ stream_compare(c) \/ stream_send(c) \/ heartbeat(c) \/ no_heartbeat(c)

Next ==
  \/ unplug \/ plug \/ printer_comes_or_goes
  \/ Reader
  \/ \E c \in Clients : stream_open(c) \/ StreamThread(c) \/ client_leaves(c)

Spec == Init /\ [][Next]_vars

\* The reader's thread is scheduled: open and sleep return, decoding goes on, and a
\* read on a dead serial port fails. A stream's thread is scheduled, its writes
\* return, and 15 seconds pass again and again.
FairSpec ==
  /\ Spec
  /\ WF_vars(open_ok \/ open_err \/ reconnect \/ decode \/ (~works /\ read_err))
  /\ \A c \in Clients : WF_vars(StreamThread(c)) /\ SF_vars(heartbeat(c))

-------------------------------------------------------------------------------
(* Properties.                                                             *)

\* Every variable has its type; what the decoder holds is of this connection.
TypeOK ==
  /\ plugged \in BOOLEAN /\ works \in BOOLEAN /\ present \in BOOLEAN
  /\ reader \in {"absent", "open", "wait", "read", "decode"}
  /\ conn \in 0..MaxConns
  /\ queue \in Seq([frame : FrameKinds, from : Conns])
  /\ half \in {0, conn} /\ value \in {0, conn}
  /\ last_reading \in Readings \cup {None}
  /\ stream \in [Clients -> {"off", "scale", "printer", "send", "beat"}]
  /\ cloned \in [Clients -> ScaleSnapshots \cup {None}]
  /\ last_payload \in [Clients -> Snapshots \cup {None}]
  /\ shown \in [Clients -> Snapshots \cup {None}]
  /\ client \in [Clients -> {"here", "left", "reset"}]

\* While a connection is open the monitor shows a reading made on it, and while
\* there is none it shows an error and no weight: the weight that was on the scale
\* when the port failed never looks live (run_forever, record_reading).
NoStaleWeight ==
  /\ reader \in {"read", "decode"} => last_reading # None /\ last_reading.conn = conn
  /\ reader \in {"open", "wait"} /\ last_reading # None =>
       last_reading.weight = None /\ last_reading.error

\* No reading is put together from two connections: neither half a frame nor the
\* memory that a value was seen survives a reconnect (run_forever's new decoder).
OneConnectionPerReading ==
  last_reading # None => last_reading.origin = {last_reading.conn}

\* A scale that stays unplugged is reported as an error (run_forever).
GoneIsReported ==
  ~plugged /\ reader # "absent" ~> plugged \/ (last_reading # None /\ last_reading.error)

\* A scale that is plugged in is read again, whatever failed before ("Reconnects
\* after open/read failures", docs/scale_contract.md).
Reconnects ==
  plugged /\ reader # "absent" ~> ~plugged \/ (works /\ reader \in {"read", "decode"})

\* Once the monitor stops changing, a client that listens is shown its state, both
\* parts of it, though the two are read at different times and only differences are
\* sent (write_monitor_stream_response).
StreamConverges ==
  \A c \in Clients :
    <>[](stream[c] # "off" /\ client[c] = "here") /\ <>[][snapshot' = snapshot]_vars
    => <>[](shown[c] = snapshot)

\* A thread whose client has left ends, even when there is nothing to send (the
\* heartbeat of write_monitor_stream_response).
StreamEnds ==
  \A c \in Clients : client[c] # "here" /\ stream[c] # "off" ~> stream[c] = "off"
===============================================================================
