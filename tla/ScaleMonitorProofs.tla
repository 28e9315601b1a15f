--------------------------- MODULE ScaleMonitorProofs ---------------------------
(***************************************************************************)
(* Proofs of the safety properties of ScaleMonitor, for any number of      *)
(* clients, weights, connections and frames in a chunk.                    *)
(***************************************************************************)
EXTENDS ScaleMonitor, SequenceTheorems, TLAPS

\* The types of the variables of the reader and of the streams.
ScaleType ==
  /\ plugged \in BOOLEAN /\ works \in BOOLEAN
  /\ reader \in {"absent", "open", "wait", "read", "decode"}
  /\ conn \in 0..MaxConns
  /\ queue \in Seq([frame : FrameKinds, from : Conns])
  /\ half \in {0, conn} /\ value \in {0, conn}
  /\ last_reading \in Readings \cup {None}

StreamType ==
  /\ present \in BOOLEAN
  /\ stream \in [Clients -> {"off", "scale", "printer", "send", "beat"}]
  /\ cloned \in [Clients -> ScaleSnapshots \cup {None}]
  /\ last_payload \in [Clients -> Snapshots \cup {None}]
  /\ shown \in [Clients -> Snapshots \cup {None}]
  /\ client \in [Clients -> {"here", "left", "reset"}]
  /\ \A c \in Clients : stream[c] = "printer" => cloned[c] # None

\* The frames that wait to be decoded are of the reader's connection, and none is
\* left when the connection is.
QueueOfConn ==
  /\ \A i \in 1..Len(queue) : queue[i].from = conn
  /\ queue # <<>> => reader = "decode"
  /\ reader \in {"read", "decode"} => conn # 0

ScaleInv == ScaleType /\ QueueOfConn /\ NoStaleWeight /\ OneConnectionPerReading

-------------------------------------------------------------------------------
\* A function on 1..n is a sequence of length n.
LEMMA FunctionIsSeq ==
  ASSUME NEW S, NEW n \in Nat, NEW f \in [1..n -> S]
  PROVE  f \in Seq(S) /\ Len(f) = n
  OBVIOUS

\* Head and tail of a sequence that is not empty.
LEMMA HeadAndTail ==
  ASSUME NEW S, NEW q \in Seq(S), q # <<>>
  PROVE  /\ Head(q) \in S /\ Head(q) = q[1] /\ 1 \in 1..Len(q)
         /\ Tail(q) \in Seq(S)
         /\ \A i \in 1..Len(Tail(q)) : i + 1 \in 1..Len(q) /\ Tail(q)[i] = q[i + 1]
  OBVIOUS

LEMMA InitScaleInv == Init => ScaleInv
  <1> SUFFICES ASSUME Init PROVE ScaleInv
    OBVIOUS
  <1>1. ScaleType
    <2>1. queue \in Seq([frame : FrameKinds, from : Conns])
      BY EmptySeq DEF Init
    <2>2. conn \in 0..MaxConns
      BY MonitorAssumption DEF Init
    <2> QED
      BY <2>1, <2>2 DEF Init, ScaleType
  <1>2. QueueOfConn /\ NoStaleWeight /\ OneConnectionPerReading
    BY DEF Init, QueueOfConn, NoStaleWeight, OneConnectionPerReading
  <1> QED
    BY <1>1, <1>2 DEF ScaleInv

\* A step that leaves the reader's variables alone.
LEMMA ScaleStutter == ScaleInv /\ UNCHANGED scale => ScaleInv'
  BY DEF ScaleInv, ScaleType, QueueOfConn, NoStaleWeight, OneConnectionPerReading, scale

\* A reading of the current connection is a reading, and not None.
LEMMA NewReading ==
  ASSUME NEW weight \in Weights \cup {None, 0}, NEW error \in BOOLEAN, conn' \in 0..MaxConns
  PROVE  /\ Reading(weight, error, {conn'}) \in Readings
         /\ Reading(weight, error, {conn'}) # None
  BY MonitorAssumption DEF Reading, Readings

LEMMA OpenOkScale == ScaleInv /\ open_ok => ScaleInv'
  <1> SUFFICES ASSUME ScaleInv, open_ok PROVE ScaleInv'
    OBVIOUS
  <1>1. conn' \in 0..MaxConns /\ conn' = conn + 1 /\ conn' # 0
    BY MonitorAssumption DEF ScaleInv, ScaleType, open_ok
  <1>2. /\ last_reading' \in Readings
        /\ last_reading' # None
        /\ last_reading'.conn = conn'
        /\ last_reading'.origin = {conn'}
    BY <1>1, NewReading DEF open_ok, record_reading, Reading
  <1>3. queue' = <<>>
    BY DEF ScaleInv, QueueOfConn, open_ok
  <1>4. ScaleType'
    BY <1>1, <1>2 DEF ScaleInv, ScaleType, open_ok
  <1>5. QueueOfConn' /\ NoStaleWeight' /\ OneConnectionPerReading'
    BY <1>1, <1>2, <1>3 DEF QueueOfConn, NoStaleWeight, OneConnectionPerReading, open_ok
  <1> QED
    BY <1>4, <1>5 DEF ScaleInv

LEMMA FailScale == ScaleInv /\ (open_err \/ read_err) => ScaleInv'
  <1> SUFFICES ASSUME ScaleInv, open_err \/ read_err PROVE ScaleInv'
    OBVIOUS
  <1>1. conn' \in 0..MaxConns /\ conn' = conn
    BY DEF ScaleInv, ScaleType, open_err, read_err
  <1>2. /\ last_reading' \in Readings
        /\ last_reading' # None
        /\ last_reading'.conn = conn'
        /\ last_reading'.origin = {conn'}
        /\ last_reading'.weight = None
        /\ last_reading'.error
    <2>1. last_reading' = Reading(None, TRUE, {conn'})
      BY <1>1 DEF open_err, read_err, record_reading
    <2>2. last_reading' \in Readings /\ last_reading' # None
      BY <1>1, <2>1, NewReading
    <2> QED
      BY <2>1, <2>2 DEF Reading
  <1>3. queue' = <<>> /\ reader' = "wait"
    BY DEF ScaleInv, QueueOfConn, open_err, read_err
  <1>4. ScaleType'
    BY <1>1, <1>2, <1>3 DEF ScaleInv, ScaleType, open_err, read_err
  <1>5. QueueOfConn' /\ NoStaleWeight' /\ OneConnectionPerReading'
    BY <1>1, <1>2, <1>3 DEF QueueOfConn, NoStaleWeight, OneConnectionPerReading
  <1> QED
    BY <1>4, <1>5 DEF ScaleInv

LEMMA ReadOkScale == ScaleInv /\ read_ok => ScaleInv'
  <1> SUFFICES ASSUME ScaleInv, read_ok PROVE ScaleInv'
    OBVIOUS
  <1>0. conn \in Conns /\ reader = "read" /\ half \in {0, conn}
    BY MonitorAssumption DEF ScaleInv, ScaleType, QueueOfConn, read_ok, Conns
  <1> PICK chunk \in Chunks :
        /\ queue' = [i \in DOMAIN chunk.frames |->
                       [frame |-> chunk.frames[i],
                        from  |-> IF i = 1 /\ half # 0 THEN half ELSE conn]]
        /\ half' = IF ~chunk.half THEN 0
                   ELSE IF chunk.frames = <<>> /\ half # 0 THEN half ELSE conn
    BY DEF read_ok
  <1> PICK n \in 0..MaxFrames : chunk.frames \in [1..n -> FrameKinds]
    BY DEF Chunks
  <1>1. queue' = [i \in 1..n |-> [frame |-> chunk.frames[i], from |-> conn]]
    BY <1>0
  <1>2. queue' \in Seq([frame : FrameKinds, from : Conns]) /\ Len(queue') = n
    <2> DEFINE S == [frame : FrameKinds, from : Conns]
    <2>1. \A i \in 1..n : [frame |-> chunk.frames[i], from |-> conn] \in S
      BY <1>0
    <2> HIDE DEF S
    <2>2. queue' \in [1..n -> S]
      BY <1>1, <2>1
    <2>3. n \in Nat
      BY MonitorAssumption
    <2>4. queue' \in Seq(S) /\ Len(queue') = n
      BY <2>2, <2>3, FunctionIsSeq
    <2> QED
      BY <2>4 DEF S
  <1>3. half' \in {0, conn}
    BY <1>0
  <1>4. ScaleType'
    BY <1>2, <1>3 DEF ScaleInv, ScaleType, read_ok
  <1>5. QueueOfConn'
    BY <1>0, <1>1, <1>2, MonitorAssumption DEF QueueOfConn, read_ok, Conns
  <1>6. NoStaleWeight' /\ OneConnectionPerReading'
    BY <1>0 DEF ScaleInv, NoStaleWeight, OneConnectionPerReading, read_ok
  <1> QED
    BY <1>4, <1>5, <1>6 DEF ScaleInv

LEMMA DecodeScale == ScaleInv /\ decode => ScaleInv'
  <1> SUFFICES ASSUME ScaleInv, decode PROVE ScaleInv'
    OBVIOUS
  <1>0. conn' = conn /\ conn \in 0..MaxConns /\ conn # 0 /\ reader = "decode"
    BY DEF ScaleInv, ScaleType, QueueOfConn, decode
  <1>1. CASE queue = <<>> /\ reader' = "read" /\ UNCHANGED <<queue, value, last_reading>>
    BY <1>0, <1>1 DEF ScaleInv, ScaleType, QueueOfConn, NoStaleWeight, OneConnectionPerReading, decode
  <1>2. CASE queue # <<>>
    <2>1. /\ queue' = Tail(queue) /\ UNCHANGED reader
          /\ Head(queue) \in [frame : FrameKinds, from : Conns]
          /\ Head(queue).from = conn
      <3>1. queue' = Tail(queue) /\ UNCHANGED reader
        BY <1>2 DEF decode
      <3> QED
        BY <3>1, <1>2, HeadAndTail DEF ScaleInv, ScaleType, QueueOfConn
    <2>2. /\ queue' \in Seq([frame : FrameKinds, from : Conns])
          /\ \A i \in 1..Len(queue') : queue'[i].from = conn
      BY <1>2, <2>1, HeadAndTail DEF ScaleInv, ScaleType, QueueOfConn
    <2>3. /\ value' \in {0, conn}
          /\ \/ UNCHANGED last_reading
             \/ \E weight \in Weights \cup {None, 0} : last_reading' = Reading(weight, FALSE, {conn'})
      <3> DEFINE next == Head(queue)
      <3>1. CASE /\ next.frame.kind = "weight"
                 /\ value' = conn
                 /\ record_reading(Reading(next.frame.weight, FALSE, {next.from, conn}))
        <4>1. next.frame.weight \in Weights \cup {None, 0}
          BY <2>1 DEF FrameKinds
        <4> QED
          BY <3>1, <4>1, <2>1, <1>0 DEF record_reading, Reading
      <3>2. CASE /\ next.frame.kind = "raw"
                 /\ record_reading(Reading(None, FALSE, {next.from, conn}))
                 /\ UNCHANGED value
        BY <3>2, <2>1, <1>0 DEF record_reading, Reading, ScaleInv, ScaleType
      <3>3. CASE /\ next.frame.kind = "blank" /\ value # 0
                 /\ record_reading(Reading(0, FALSE, {value, conn}))
                 /\ UNCHANGED value
        BY <3>3, <2>1, <1>0 DEF record_reading, Reading, ScaleInv, ScaleType
      <3>4. CASE UNCHANGED <<value, last_reading>>
        BY <3>4 DEF ScaleInv, ScaleType
      <3> QED
        BY <1>2, <3>1, <3>2, <3>3, <3>4 DEF decode
    <2>4. /\ last_reading' \in Readings
          /\ last_reading' # None
          /\ last_reading'.conn = conn
          /\ last_reading'.origin = {conn}
      <3>1. CASE UNCHANGED last_reading
        BY <3>1, <1>0 DEF ScaleInv, ScaleType, NoStaleWeight, OneConnectionPerReading
      <3>2. CASE \E weight \in Weights \cup {None, 0} : last_reading' = Reading(weight, FALSE, {conn'})
        <4> PICK weight \in Weights \cup {None, 0} : last_reading' = Reading(weight, FALSE, {conn'})
          BY <3>2
        <4>1. last_reading' \in Readings /\ last_reading' # None
          BY <1>0, NewReading
        <4> QED
          BY <4>1, <1>0 DEF Reading
      <3> QED
        BY <2>3, <3>1, <3>2
    <2>5. ScaleType'
      BY <1>0, <2>1, <2>2, <2>3, <2>4 DEF ScaleInv, ScaleType, decode
    <2>6. QueueOfConn' /\ NoStaleWeight' /\ OneConnectionPerReading'
      BY <1>0, <2>1, <2>2, <2>4 DEF QueueOfConn, NoStaleWeight, OneConnectionPerReading
    <2> QED
      BY <2>5, <2>6 DEF ScaleInv
  <1> QED
    BY <1>1, <1>2 DEF decode

LEMMA WaitScale == ScaleInv /\ (plug \/ unplug \/ reconnect) => ScaleInv'
  BY DEF ScaleInv, ScaleType, QueueOfConn, NoStaleWeight, OneConnectionPerReading, plug, unplug, reconnect

LEMMA StreamsLeaveScale ==
  ASSUME NEW c \in Clients, stream_open(c) \/ StreamThread(c) \/ client_leaves(c)
  PROVE  UNCHANGED scale
  BY DEF stream_open, StreamThread, stream_scale, stream_compare, stream_send, heartbeat,
         no_heartbeat, client_leaves

LEMMA NextScaleInv == ScaleInv /\ [Next]_vars => ScaleInv'
  <1> SUFFICES ASSUME ScaleInv, [Next]_vars PROVE ScaleInv'
    OBVIOUS
  <1>1. CASE plug \/ unplug \/ reconnect
    BY <1>1, WaitScale
  <1>2. CASE printer_comes_or_goes
    BY <1>2, ScaleStutter DEF printer_comes_or_goes
  <1>3. CASE open_ok
    BY <1>3, OpenOkScale
  <1>4. CASE open_err \/ read_err
    BY <1>4, FailScale
  <1>5. CASE read_ok
    BY <1>5, ReadOkScale
  <1>6. CASE decode
    BY <1>6, DecodeScale
  <1>7. CASE \E c \in Clients : stream_open(c) \/ StreamThread(c) \/ client_leaves(c)
    BY <1>7, StreamsLeaveScale, ScaleStutter
  <1>8. CASE UNCHANGED vars
    BY <1>8, ScaleStutter DEF vars
  <1> QED
    BY <1>1, <1>2, <1>3, <1>4, <1>5, <1>6, <1>7, <1>8 DEF Next, Reader

\* The monitor never shows the weight of a connection that has failed as live, for
\* any number of connections (run_forever, record_reading).
THEOREM NoStaleWeightCorrect == Spec => []NoStaleWeight
  <1>1. ScaleInv => NoStaleWeight
    BY DEF ScaleInv
  <1> QED
    BY InitScaleInv, NextScaleInv, <1>1, PTL DEF Spec

\* No reading is made of the text or values of two connections, for any number of
\* connections and any division of the text into chunks and frames.
THEOREM OneConnectionCorrect == Spec => []OneConnectionPerReading
  <1>1. ScaleInv => OneConnectionPerReading
    BY DEF ScaleInv
  <1> QED
    BY InitScaleInv, NextScaleInv, <1>1, PTL DEF Spec

-------------------------------------------------------------------------------
(* Types.                                                                  *)

LEMMA SnapshotType == ScaleType => scale_snapshot \in ScaleSnapshots
  <1> SUFFICES ASSUME ScaleType PROVE scale_snapshot \in ScaleSnapshots
    OBVIOUS
  <1>1. CASE last_reading = None
    BY <1>1 DEF scale_snapshot, ScaleSnapshots
  <1>2. CASE last_reading # None
    <2>1. last_reading.weight \in Weights \cup {None, 0} /\ last_reading.error \in BOOLEAN
      BY <1>2 DEF ScaleType, Readings
    <2> QED
      BY <1>2, <2>1 DEF scale_snapshot, ScaleSnapshots
  <1> QED
    BY <1>1, <1>2

LEMMA StreamStutter == StreamType /\ UNCHANGED <<present, streams>> => StreamType'
  BY DEF StreamType, streams

LEMMA ReaderLeavesStreams == Reader \/ plug \/ unplug => UNCHANGED <<present, streams>>
  BY DEF Reader, open_ok, open_err, reconnect, read_ok, decode, read_err, plug, unplug

LEMMA StreamStep ==
  ASSUME NEW c \in Clients, ScaleType, StreamType,
         stream_open(c) \/ StreamThread(c) \/ client_leaves(c)
  PROVE  StreamType'
  <1>1. CASE stream_open(c)
    BY <1>1 DEF stream_open, StreamType
  <1>2. CASE stream_scale(c)
    <2>1. scale_snapshot \in ScaleSnapshots /\ scale_snapshot # None
      BY SnapshotType, MonitorAssumption
    <2> QED
      BY <1>2, <2>1 DEF stream_scale, StreamType
  <1>3. CASE stream_compare(c)
    <2>1. stream[c] = "printer" /\ cloned[c] \in ScaleSnapshots /\ present \in BOOLEAN
      BY <1>3 DEF stream_compare, StreamType
    <2>2. [scale |-> cloned[c], printer |-> present] \in Snapshots
      BY <2>1 DEF Snapshots
    <2> QED
      BY <1>3, <2>2 DEF stream_compare, StreamType
  <1>4. CASE stream_send(c)
    BY <1>4 DEF stream_send, Write, StreamType
  <1>5. CASE heartbeat(c) \/ no_heartbeat(c)
    BY <1>5 DEF heartbeat, no_heartbeat, Write, StreamType
  <1>6. CASE client_leaves(c)
    BY <1>6 DEF client_leaves, StreamType
  <1> QED
    BY <1>1, <1>2, <1>3, <1>4, <1>5, <1>6 DEF StreamThread

LEMMA NextStreamType == ScaleType /\ StreamType /\ [Next]_vars => StreamType'
  <1> SUFFICES ASSUME ScaleType, StreamType, [Next]_vars PROVE StreamType'
    OBVIOUS
  <1>1. CASE Reader \/ plug \/ unplug
    BY <1>1, ReaderLeavesStreams, StreamStutter
  <1>2. CASE printer_comes_or_goes
    BY <1>2 DEF printer_comes_or_goes, StreamType, streams
  <1>3. CASE \E c \in Clients : stream_open(c) \/ StreamThread(c) \/ client_leaves(c)
    BY <1>3, StreamStep
  <1>4. CASE UNCHANGED vars
    BY <1>4, StreamStutter DEF vars
  <1> QED
    BY <1>1, <1>2, <1>3, <1>4 DEF Next

\* Types are kept by every step; the decoder's half frame and last value are of the
\* current connection, and a thread that compares has cloned a reading.
THEOREM MonitorTypeCorrect == Spec => []TypeOK
  <1> DEFINE Inv == ScaleInv /\ StreamType
  <1>1. Init => Inv
    <2>1. Init => StreamType
      BY DEF Init, StreamType
    <2> QED
      BY <2>1, InitScaleInv
  <1>2. Inv /\ [Next]_vars => Inv'
    <2>1. Inv => ScaleType /\ ScaleInv /\ StreamType
      BY DEF ScaleInv
    <2> QED
      BY <2>1, NextScaleInv, NextStreamType
  <1>3. Inv => TypeOK
    BY DEF ScaleInv, ScaleType, StreamType, TypeOK
  <1> QED
    BY <1>1, <1>2, <1>3, PTL DEF Spec
===============================================================================
