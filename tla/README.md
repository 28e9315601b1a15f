# rp-scale: TLA+ verification project

`rp-scale` is the service that runs next to a scale and a label printer: it reads
the scale over a serial line, shows its state to mobile clients over HTTP, and
prints labels that the Accord server has prepared. This directory holds TLA+
models of the service, the TLC runs that check them on small instances, and
TLAPS proofs of the properties that matter most. Paths below are relative to the
repository (`src/service/http.rs`); `PROJECT.json` maps every definition that
models code to its lines.

## 1. Inventory

| Component | State it keeps | Operations | Interacts with |
| --- | --- | --- | --- |
| Driver print handler (`service/http.rs`, `service/print_activity.rs`) | the activity snapshot behind a mutex; per thread: request, job, copy counter, response | decode, `into_job`, prepare, `try_start`, copy loop, guard drop, response | HTTP runtime (one thread per connection), planner, executor; `healthz` and `handshake` read the snapshot |
| Executors and transports (`service/driver_print_runtime.rs`, `print/executor.rs`, `print/godex/executor.rs`) | executor mode, device paths, a mutex; in the printer: stored graphics and the label being built | `execute` (unconfigured, simulated, device), `execute_pack_render`, `download_graphic`, `write_device_payload` | called by the copy loop; writes to the printer device |
| GoDEX renders (`print/godex/*`) and Zebra ZPL (`print/zebra/*`) | none | build a label's commands and graphics | planner and executor |
| Request contract (`service/driver_print_contract.rs`) | none | request to job: printer, mode, quantity, tare, print count | handler |
| Core planner (`core/*`, `runtime/print_pipeline.rs`), adapter and capabilities (`print/adapter.rs`, `capabilities.rs`) | none | selection, receipt, job, capability check, command | handler |
| EPC generator (`print/epc.rs`) | last time, counter, salt | `next` | none in the service |
| Frames and parser (`scale/frame.rs`, `parser.rs`, `stream.rs`) | pending text, last unit, whether a value was seen | `push_chunk`, `pop_serial_frame`, `parse_weight` | serial reader |
| Serial reader (`scale/serial/reader.rs`) | open port, decoder | open, read, report, wait, reconnect | decoder, monitor |
| Detection and probe (`scale/serial/detect.rs`, `probe.rs`) | none | rank devices, probe, fall back | command line tools |
| Stable tracker (`scale/stable.rs`) | candidate weight, since when, last snapshot | `apply` | consumers of readings |
| Monitor (`service/monitor_runtime.rs`, `monitor_contract.rs`) | last reading behind a mutex | `record_reading`, `snapshot` | reader thread writes; HTTP threads and event streams read |
| HTTP runtime (`service/http_runtime.rs`) | per connection: bytes read; per event stream: last payload and heartbeat time | accept, read, route, respond, stream | everything |
| Start-up (`main.rs`, `service/config.rs`, `printer_device.rs`) | chosen address, devices | choose port, resolve device, announce, bind | all |
| Discovery (`service/discovery*.rs`), Bonjour (`service/bonjour.rs`) | socket, targets, time of the next announcement | announce, answer a probe | network |
| Tools (`src/bin/*`) | none | diagnostics, simulated scale | library code |

What is hard in this code, and hence what the models are for:

* **Concurrency.** Each connection has its own thread; two print requests race
  for the guard, and share one printer with two graphic names in its memory.
* **Partial failure.** A label is some twenty writes to a device file, each of
  which can fail, and a request is a loop of labels.
* **Crash and restart.** The service dies at any write; the printer remembers.
* **Ordering and staleness.** Scale readings, monitor snapshots and event
  streams are produced and consumed by different threads.
* **Boundaries.** Buffer limits, minimum quantity after tare, stable hold time,
  clocks that step back.

Per component, what correctness means: the print path must be exclusive, free
itself on every way out, put only one request's data on a label, and tell the
truth about paper; the planner must never produce a job for a printer that
cannot do it, nor a label without a positive quantity; the scale path must show
the last reading, must not mix two connections, and must keep reading; the
tracker's `Ready` must mean an uninterrupted hold; start-up must announce the
port it serves.

`PROJECT.json` lists every hazard at its line, with the properties that cover it
or the reason why none does yet.

## 2. Modules

| Module | What it is |
| --- | --- |
| `ExclusivePrinter` | abstract specification: what the print side promises a client |
| `DriverPrint` | the print path: handler threads, guard, mutex, executors, printer commands; its properties; the refinement mapping to `ExclusivePrinter` |
| `DriverPrintProofs` | proofs of the safety properties of `DriverPrint`, and that it implements `ExclusivePrinter` |
| `PrintPlan` | from the request's fields to job, receipt, plan, label and response: the values that `DriverPrint` takes as verdicts |
| `PrintPlanProofs` | proofs of its properties, and of `EpcGenerator`'s |
| `HttpConnection` | a connection's thread: reading a request that comes in segments, routing, answering |
| `HttpConnectionProofs` | proofs of its safety properties |
| `ServiceStartup` | `serve()` from environment to listening socket, for several services of a host, with crashes and reboots |
| `ServiceStartupProofs` | proofs of its safety properties, and of those of `Discovery` |
| `Discovery` | broadcast targets, announcement rounds, answers to probes |
| `ScaleStream` | the stream decoder, character by character: buffer, frames, units, made-up zeros |
| `ScaleParser` | `parse_weight` on one frame, as operators; `ScaleStream` extends it |
| `ScaleStreamProofs` | proofs of `FramesSurvive`, `ZeroNeedsValue` and the parser's properties |
| `ScaleMonitor` | the reader thread with its connections, the monitor's last reading, the event stream threads |
| `ScaleMonitorProofs` | proofs of the safety properties of `ScaleMonitor` |
| `StableTracker` | the stable weight tracker over a series of readings |
| `StableTrackerProofs` | proofs of its properties |
| `ScaleDetect` | the search for the scale's port and baud rate |
| `ScaleDetectProofs` | proof of `VerdictIsJustified` |
| `EpcGenerator` | the generator of EPCs, its clock and its mutex |
| `MC...` | instances for TLC: constants that a cfg cannot write |

How they fit together: `PrintPlan` computes the verdicts (400, 422 or a job) that
`DriverPrint` chooses from, and `HttpConnection` has the whole print path as one
step that takes as long as it likes; `ScaleParser` gives `ScaleStream` its
readings, which `ScaleMonitor` reduces to weight or error; `ServiceStartup` says
when a process announces, `Discovery` how.

`EpcGenerator` and `Discovery` have names of their own (`EpcSpec`, `DiscoverySpec`), so that
`PrintPlanProofs` and `ServiceStartupProofs` can extend them too.

A definition whose name is that of another one with a suffix, under a comment
`Mutant:`, is a wrong variant of it. `PROJECT.json` pairs each property with one
that the property rules out.

### DriverPrint

A request `r` stands for one connection with `POST /v1/driver/print` and its
thread. `pc[r]` is where the thread is:

| `pc[r]` | the thread is in | actions that leave it |
| --- | --- | --- |
| `new` | not connected | `handle_mobile_http_stream` (thread spawned, request read) |
| `received` | `driver_print_response` before the guard | `prepare` (400, 422, or on) |
| `prepared` | before `try_start` | `try_start` (409, or the guard) |
| `loop` | the copy loop between two `execute` calls | `execute_unconfigured`, `execute_simulated`, `execute_device`, `finish` |
| `script` | inside `DeviceDriverPrintExecutor::execute`, lock held | `write_ok`, `write_err` |
| `respond` | response computed, guard dropped | `write_http_response` |
| `answered`, `lost` | ended | |

`activity` is `PrintActivityState` (the request whose data it shows), `lock` the
executor's mutex, `step[r]` the next command, `done[r]` the successful copies.
`mem`, `form`, `labels`, `printed` and `last` are the printer: the two stored
graphics, the label under construction, and what has come out.

Interleaving is at the grain at which the threads touch shared state: one action
per mutex section (`try_start`, the guard's drop with the computed response) and
one per write to the device. Decoding, planning and rendering work on the
thread's own data and are one action. A log macro panics when the service's
output is gone; `Conclude` therefore may end a thread without a response, with
the guard dropped by unwinding. `crash` kills the process at any point.

Data is reduced to what the path tells apart. A job is its verdict (what
`into_job` and the pipeline decide), its printer and its `print_count`. Content
on a label is the request it belongs to. Of the GoDEX commands, those that only
set options are grouped: `set` (buzzer, status query), `begin` (`~S,ESG` to
`^L`), `place fields` (the `AB` and `BA` commands). A Zebra label is one write.

**The printer is external.** The model assumes of it: `~EB` replaces a stored
graphic of that name; `^L` starts an empty label; `E` prints it with the
graphics as placed; a failed write delivered nothing, everything or, for a
graphic or the group of fields, a part; a graphic of which only a part arrived
is replaced by the next download; a ZPL document that was cut prints nothing.

The mutexes are never poisoned: no code panics while it holds one (`execute`
returns its errors, `try_start` and `clear` only assign), so the poisoned
branches are not modelled.

Its properties:

* `GuardMatchesOwner`: the guard is held exactly by the request in its loop.
* `LockNeverBlocks`: the mutex is free whenever a request wants it. The guard
  makes the mutex redundant in today's service; a change of the guard's scope
  would show here first.
* `LabelIntegrity`: a label carries text, fields and QR of one request. It holds
  because a download that fails ends the request before `E`; the one error that
  is ignored (`~MDELG`) is harmless because the data is sent after it.
* `StatusMatchesPaper`: 200 means that all copies came out (none in simulated
  mode); 400, 409, 422 and 503 mean that nothing did and the request can be sent
  again; 500 means that the successful copies came out and at most one more.
  That "one more" is real: the write of `E` or of the final status query fails
  after the label is out.
* `ContiguousCopies`: no other label between two copies of a request.
* `Refines`: all of it as one picture, `ExclusivePrinter`.
* `EveryRequestEnds`: liveness. The guard is free again with it, since a request
  that has ended holds none.

### PrintPlan

One request at a time, with any body and default printer: `from_json`, `into_job`,
`prepare_print_job` (with the receipt), `validate_core_print_job` (the capability
check) and `build_print_command` (the adapter) run one after the other, each of
which may end with its error. Texts are classes: an EPC is empty, hexadecimal,
hexadecimal with dashes, too long for a QR, of punctuation only or other; a name is
empty, of punctuation only or other; mode, label kind and printer are words the
code looks for and one it does not know. Weights are whole tenths of a gram; each of
the three copies of the formatting to tenths of a kilogram is an operator of its own
over `round`, which is `f64::round`. The difference of two `f64` is the exact one, or
a tick below or above it.

* `ModePolicy`, `RfidMeansTag`: a mode is refused or obeyed, never replaced; a tag
  is written exactly where it was asked for and can be.
* `WeightsAddUp`: the weights on the paper are positive and differ by the tare.
* `LabelMatchesResponse`: they are what the client is told, and the METRAJ of a
  progress label is the quantity of the request. The unit is the response's on a
  Zebra, and KG on a GoDEX whatever the response says (Observations).
* `SameLabelOnBothPrinters`: where both printers make a label of a job, it has the
  same weights; the same unit when that is kg; the same code when the EPC is
  written without dashes. In the other cases the labels differ (Observations).

### HttpConnection

A connection's thread reads tokens (`got` of the `arrived` ones), looks for the end
of the head, computes `expected`, and stops at that length, at the end of file or
at the read timeout; then it routes by method and path and answers. `expected` is
a sum of machine words and wraps modulo `Word`, or panics: a build with and one
without overflow checks are both in the model. `Traffic` says which requests come
together: any one alone, and print, health and stream requests in pairs. The token
`}` is the brace that closes the JSON object of the body, `end` the empty line;
`IsRequest` says where in a request they stand.

* `PrintsWhatWasSent`: no cut, early close, wrong length or second request makes
  the service print something that was not sent as a whole.
* `WholeBodyIsRead`: a well-behaved client is never told that its JSON is bad.
* `RoutesMatchTable`: every answer has the status that `EndpointTable` gives its
  method and path. The table is written from the list of endpoints in the
  repository's README, not from the code's sets of paths; what is not in it is 405
  on a known path and 404 elsewhere; a preflight is 204 on every path but the
  monitor's stream (Observations). The paths of the handshake are served.
* `EveryConnectionEnds`: except streams and the one that waits for the printer.

### ServiceStartup

`pc[s]` is how far `serve()` of service `s` has come: `probe` and `probing` a
candidate port, `chosen`, `configured` (devices and executor), `registered`
(Bonjour), `bind`, `serving`; `off` before the first start and after a crash,
`exited` after an error. `owner` says who holds a TCP port. A probe binds the port
and drops the listener, in two steps: another service that probes in between finds
it taken. `http_port` is the port that is announced: that of the address, or the
default port when the address has none or 0. For a port 0 the listener takes one of
`Ephemeral`; an address without a port (`Malformed`) cannot be bound. An exit drops
the Bonjour service without waiting for its goodbye to be sent, so that the record
may stay; a record that no process stands for expires. Crashes, foreign programs and reboots
(which list the USB printers in another order) are bounded by `MaxFaults`.

* `RefsAreDistinct`, `SerialDecidesDevice`: what a service tells about itself is its
  own. The first is about plain addresses: an explicit port 0 or one that is also a
  position in the list of candidates is left out (Observations).
* `AdvertisesItsPort`: a serving process listens on the port that it announced
  before it was bound, unless the explicit port is 0 (Observations).
* `EveryServiceComesUp`: after the faults, all of them, whatever they took from
  each other, and then no record and no announcement of theirs names a port where
  they do not serve. Services with an explicit port are left out: when it stays
  taken they register at every restart and never serve. It needs that a service that `systemd`
  restarts after `RestartSec=2` meets the start-ups that were going on when it exited finished
  (`overlap`); without it two services can chase each other for ever.

### Discovery

`collect_discovery_broadcast_targets` gives the addresses of a round, once, from
the interfaces; the thread alternates a round, when one is due (`send_ok` and
`send_err` target by target), with the receipt of a packet. Targets become
reachable and unreachable at any time, apps send probes, others send anything, and
the thread's own announcements come back to it. An address is its four octets; the
bitwise or with the inverted mask is written bit by bit (`octet_or`). A mask is one
that an interface can have: ones, then zeros.

* `TargetsAreTheNetworks`: against a definition of a network's last address by
  remainders instead of masks.
* `EveryProbeAnswered`, `ReachableIsTold`: neither duty starves the other.

### ScaleStream and ScaleParser

`SerialStreamDecoder` on one connection. `pending`, `last_unit` and
`seen_parsed_value` are its fields; `sent` and `out` are histories, of the text
received and of the readings emitted. `push_chunk` appends a chunk and cuts the
buffer; `next_frame` is one iteration of its loop. The alphabet has one character
of each kind the code tells apart: a digit, a unit, other text, a blank, the two
delimiters, and `?`, the three-byte character that `from_utf8_lossy` puts for
noise. `alive` is lost when the cut falls inside a character.

* `FramesSurvive`: the readings of a text without noise do not depend on how it was
  cut into chunks, except that a frame too long for the buffer beside one more
  chunk may lose its head, and never more than that. (With noise the buffer's limit
  counts more bytes than characters, and the thread may die of it: section 3.)
* `ZeroNeedsValue`: no weight is made up before the scale has shown one.
* `DelimitersConsumedTogether`, `StreamStaysAlive`: what `docs/scale_contract.md`
  says, which the code does not keep (section 3).

`ScaleParser` works on tokens: digits (of numbers inside and outside of the
accepted range), a unit, signs, the letter that marks a negative weight, blank,
stability markers and other text. `captures` are the leftmost matches of the
regular expression, one behind the other; scores and the choice among candidates
are as in the code. Its properties are about all `Frames` of up to
`MaxFrame` tokens as well as about those that were decoded:

* `NoNumberIsLost`, `UnitDecides`, `MinusIsSeen`: stated on the frame's tokens,
  without matches or scores.

### ScaleMonitor

The reader thread (`reader`: `open`, `read`, `decode`, `wait`, or `absent` when no
device is configured) is `run_forever`; its connections are numbered by `conn`. A
chunk is reduced to the frames it completes and to whether it ends in half a
frame, and the decoder to what could leak from one connection to the next: the
connection of the half frame (`half`) and of the last parsed value (`value`).
`queue` holds the decoded chunk while the callback reports its readings one by
one. The panic of `ScaleStream` is left out here.

A stream's thread (`stream[c]`) goes round its loop: clone the last reading
(`scale`), look for the printer's file and compare (`printer`), write if the
snapshot differs (`send`), ping if fifteen seconds have passed (`beat`). A write
to a client that has closed succeeds once and then fails; one to a client that is
too slow fails by the write timeout.

* `NoStaleWeight`: with a connection open the monitor shows a reading of it;
  without, an error and no weight.
* `OneConnectionPerReading`: nothing of one connection goes into a reading of
  another.
* `GoneIsReported`, `Reconnects`: liveness of the reader.
* `StreamConverges`: a listening client is shown the last state of the monitor.
* `StreamEnds`: a client that left costs its thread only until the next ping.

### StableTracker

`candidate_weight`, `stable_since` and `last` are the tracker's fields, `applied`
the history of readings. `apply` is the whole of `StableTracker::apply`. A reading
carries its own time stamp, taken from a clock that may be set back, so that the
stamps of a series are arbitrary. Weights are whole numbers: how `f64` rounds a
difference that is exactly the tolerance is not in the model.

* `ReadyMeansHeld`: behind a `Ready` there is a reading, older by the hold
  duration, since which all readings were stable and within the tolerance of it.
* `HeldMeansReady`: a weight shown unchanged for the hold duration is `Ready`,
  also when the hold began at a near weight, and without a return to zero.

### ScaleDetect

`detect_scale_port_with_probe`: the candidates from the links and device names
(links first, each port once), then a probe for every candidate and baud rate. A
probe opens the port (which another process may hold), and reads until it has seen
a weight or its deadline has passed; any data will then do. Noise can also end it
with a panic (`append_raw_panics`): the probe cuts its buffer like the stream does.
Meanwhile ports are taken, released, plugged and unplugged.

* `VerdictIsJustified`: found, fallen back, busy or none, each for its reason.
* `DetectionEnds`: with a verdict or that panic, though noise never stops.

### EpcGenerator

`now_unix_ns` is read before the mutex is taken, by `Threads` at a time; `next` is
the section under the mutex. A word is the set of the positions of its one bits, so
that exclusive or is `SymDiff` and a rotation moves the positions. Words are scaled
down for TLC: `Bits` for 32, a timestamp field that counts modulo `NsSpan` for 2^56,
smaller rotations; the formula is the code's. The times of a run lie between `Start`
and `MaxClock`, less than `NsSpan` apart: the field repeats after 2.28 years. In the
run it wraps from 7 to 0.

* `UniqueInOrder`: no EPC twice while timestamps reach the mutex in order and the
  counter stays below 2^(Bits - RotSeq) within a timestamp: 2^25 in the code, since the
  bit above is the one that is forced to one.

## 3. Runs

| Run | Instance | Checks |
| --- | --- | --- |
| `driver_print` | 2 requests, up to 2 copies, all executor configurations, faults everywhere, `FairSpec` | exclusion, labels, statuses, contiguity, the refinement, liveness |
| `print_plan` | all words with one quantity, and all quantities with one set of words; two default printers | modes, tags, weights, response |
| `http_connection` | every route alone; print requests with every length and tail; three requests in pairs; 2 connections | framing, routing, liveness |
| `service_startup` | 2 services, environments with every kind of address, 2 candidate ports, 2 USB orders, 1 fault | references, announcements, devices, liveness |
| `discovery` | 7 hosts, 1 client, a queue of 2 | targets, answers, announcements |
| `scale_stream` | texts of 7 characters in chunks of at most 2, buffer of 4; all frames of 5 tokens | decoder and parser |
| `scale_stream_delims`, `scale_stream_noise` | the smallest alphabets that show it | two sentences of the scale contract, violated |
| `scale_monitor` | 2 connections, 1 client, serial port, `FairSpec` | staleness, mixing, reconnection, streams |
| `stable_tracker` | all series of up to 4 readings; 3 weights, tolerance 1, hold 2, times 0 to 3 | `ReadyMeansHeld`, `HeldMeansReady` |
| `scale_detect` | 4 contents of `/dev`, up to 2 baud rates, 1 change of the world | verdicts, termination |
| `epc_generator` | 3 threads, 6 calls, 3 bits, a clock that steps back once and a field that wraps | uniqueness |

What the two violations show:

* `scale_stream_delims`: "Consecutive `\r` and `\n` bytes are consumed together"
  (`docs/scale_contract.md:164`) holds inside the buffer only. A read that ends
  between CR and LF turns the LF into an empty frame, and that into weight 0.0.
* `scale_stream_noise`: "Pending serial buffer keeps only the last `1024` bytes"
  (line 166). The cut is at a byte offset; inside a multi-byte character it
  panics, the reader's thread ends, and the monitor keeps its last reading. The
  probe of the detection dies of the same cut (`append_raw_panics` in `ScaleDetect`),
  against "If any data is seen but no parsed weight, candidate is still selected"
  (line 207).

Bounds. `MaxCopies` stands for a `u32`: two copies are a first one, a last one and
the gap between them, in which another request could get in. Two requests are one
that prints and one that competes, precedes or follows. The proofs remove both
bounds. `Requests` is also the number of requests in the whole run, so that a
restart is followed by at most one fresh request, which is the one that meets what
the first left in the printer. `MaxPending` and `MaxChunk` keep the order of 1024
and 256 (a chunk is smaller than the buffer, and a frame can fill both); `MaxSent`
lets a frame overflow the buffer and another one follow it. Five tokens are two
numbers with a sign or a unit each and something between them. `MaxConns` lets a
connection fail and a second one follow, with half a frame left by the first;
chunks of more frames are in the proofs only. Streams do not interact, so that one
client is enough. Four readings are an interruption or a near weight, the start of
a hold, its middle and its end. `MaxFaults = 1` lets every kind of fault hit every
point of two racing start-ups; the proofs are for any number. The quantities of
`print_plan` lie below, at and above the minimum and the halves of a tenth, with
and without tare; words and quantities meet in `into_job` only through the label
kind and the printer, which vary in both halves. `MaxCalls` lets a timestamp be
shared by several calls, left and met again. Deadlock is checked in the monitor's
run only: in the others, when all requests have ended or all input is used up, the
program waits.

Fairness. `FairSpec` has weak fairness of every thread's own steps, because the
operating system schedules every thread. It contains two assumptions about the
outside: a write to the printer device returns (the code sets no timeout on it),
and the response write returns (the code sets a timeout of two seconds).
No fairness is assumed of clients, of success or of crashes. In `ScaleMonitor`
the reader's own steps are weakly fair, and so is the failure of a read on a
serial port whose device has gone (`serialport` reports the hang-up); that a read
delivers data, or fails on a working port, is not. A stream's thread is weakly
fair, and its heartbeat strongly: each round of the loop asks whether fifteen
seconds have passed, and again and again they have. `HttpConnection` has weak
fairness of the handler threads, whose reads return by the timeout of two seconds;
nothing is assumed of clients, nor of the printer. `ServiceStartup` has weak
fairness of `serve()` and of the restart (`Restart=always` in the unit of `README.md:353`), and
of foreign programs giving a port back and of records expiring (they have a time to
live, and only a running process renews its own). `Discovery` has weak fairness of its thread
and of the clock; `ScaleDetect` of the tool.

### Observations

Differences between the code and what its documents, comments or tests say, met
while modelling, beside the two that have a run. Each property above is stated so
that it holds of the code as it is; what it leaves out is listed here.

| Code | Says otherwise | What happens |
| --- | --- | --- |
| `src/print/adapter.rs:84` | `README.md:22` | an RFID request with a qolip label kind prints a plain QR label on a Zebra and answers 200: the mode is not looked at |
| `src/print/zebra/zpl.rs:65` | `README.md:252` | a Zebra makes the QR of qolip labels that are documented for GoDEX |
| `src/service/config.rs:93` | `README.md:306` | the reference depends on the port that was free: after restarts in another order it names the other service |
| `src/service/printer_device.rs:27` | `README.md:311` | only GoDEX printers are matched, so that a Zebra's serial number never resolves |
| `src/service/discovery.rs:104` | `README.md:16` | the first target that fails ends the round: with the limited broadcast unreachable the LAN is never told |
| `src/print/epc.rs:40` | `src/print/epc.rs:111` | timestamps 1, 2, 1 give the same EPC twice: the counter restarts when the timestamp changes, in either direction |
| `src/scale/parser.rs:5` | `docs/scale_contract.md:142` | in `01 -1.250 kg` the minus is matched as the suffix of `01`, and the weight is positive |
| `src/scale/stream.rs:60` | `docs/scale_contract.md:176` | the parser fills in the configured unit, so that the last parsed unit is never reused |
| `src/scale/serial/reader.rs:103` | `docs/scale_contract.md:189` | a device opened by the pty fallback reads `Ok(0)` when its other end has gone: it is never reconnected (`Pty = TRUE` in `ScaleMonitor.cfg` shows it) |
| `src/service/config.rs:36` | `README.md:303` | an explicit address with port 0 listens on a port of the system's choice, but the default port is announced, and the reference is made of that: it can be another service's |
| `src/service/config.rs:99` | `README.md:306` | a port that is no candidate is its own suffix: an explicit port 1 and the first candidate give one reference |
| `src/service/bonjour.rs:41` | `README.md:16` | the goodbye of a dropped Bonjour service is not waited for, and registration comes before the bind: a service whose explicit port stays taken is announced again at every restart |
| `src/service/http_runtime.rs:51` | `src/service/http.rs:243` | the monitor's stream is among the paths that have a preflight, but the stream is routed before them and answers `OPTIONS` with 405 |
| `src/print/godex/pack.rs:193` | `README.md:274` | a GoDEX prints KG whatever the `unit` of the request; a Zebra prints that unit (`src/print/weight.rs:49`), and the response names it for both |
| `src/core/label.rs:26` | `src/print/zebra/epc.rs:1` | a GoDEX prints the EPC as it is written, with `0x`, blanks and dashes; a Zebra prints its hex digits |
| `src/core/progress_label.rs:58` | `README.md:267` | the `qty` of a progress label is not checked for its sign: `METRAJ: -2` is printed |
| `src/scale/serial/probe.rs:58` | `docs/scale_contract.md:207` | a read error after data ends the probe as one that failed: the data no longer selects the candidate |
| `src/scale/stable.rs:127` | `docs/scale_contract.md:85` | numbers are compared without their units: 3 kg followed by 3 g goes on as one hold |

## 4. Proofs

`DriverPrint`, for any set of requests and any bound on copies, from
`ConstantsAssumption`:

* `TypeCorrect`: types, and the script index stays in the script.
* `GuardCorrect`, `LockCorrect`: from `ExclusionInv`, which adds to
  `GuardMatchesOwner` that the mutex is held exactly by the request in its script.
* `LabelsCorrect`: from `LabelInv`. What is in the shared memory is only right
  while the owner is in its script, so `ScriptProgress` says how far it has come:
  past the data of a graphic the memory holds its own graphic, past `begin` the
  label holds nothing foreign, past a placement its own part. Since only one
  request is in its script, no other step can disturb that.
* `PaperCorrect`, `CopiesContiguous`: from `PaperInv`, which ties the labels of a
  request to its successful copies: equal in the loop, one ahead between `E` and
  the final status query; and says that, while a request is in its loop with
  labels out, the last label is its own.
* `RefinementCorrect`: under `PaperInv` every step is a
  step of `ExclusivePrinter` or leaves its variables alone.

`ScaleMonitor`, for any number of clients, connections, weights and frames, from
`MonitorAssumption`:

* `NoStaleWeightCorrect`, `OneConnectionCorrect`: from `ScaleInv`. The two
  properties are not inductive: the frames of a chunk are decoded one by one, so
  `QueueOfConn` adds that those still waiting are of the current connection and
  that none is left when it ends, and `ScaleType` that a half frame or a value in
  the decoder is of it too.
* `MonitorTypeCorrect`: types of the streams as well; a thread that is about to
  compare has cloned a reading.

`StableTracker`, for any weights, tolerance, hold duration and number of readings,
from `TrackerAssumption`:

* `ReadyCorrect`: from `HoldHasStart`, which names the reading that began the hold
  (`Hold(k)`) and what all readings since then have kept.
* `HeldCorrect`: from `HoldCovers` too: while the clock goes forward, an unchanged
  weight that is still shown lies within the tolerance of the candidate, and the
  hold began no later than it.
* `TrackerTypeCorrect`.

`ServiceStartup`, for any number of services, environments, ports and faults, from
`StartupAssumption`:

* `RefsCorrect`, `AdvertisesCorrect`: from `StartupInv`. That two serving processes
  have two ports is not enough for two references, and not inductive: a service
  holds the port it probes, and when it serves one of those its address can be bound
  to (`PortsAreHeld`); and the address it has chosen is still a candidate or the
  explicit one when it binds it (`PortsAreCandidates`). `PositionFound` then says
  that a candidate has a first position, so that two candidates have two; another
  port keeps its number, which for a plain address is no position.
* `DevicesCorrect`: an action property, `SerialDecidesDevice`, from `DeviceInv` (the
  printers are a list of printers, the configured serial numbers are such). That
  the search by serial number finds a printer, if there is one, rests on
  `LeastNumber`: a set of numbers that is not empty has a least one.

`PrintPlan`, for any set of requests, any quantities and tares, from
`PlanAssumption`:

* `PlanCorrect`: `PlanInv` says, stage by stage, what is known of the job, the label
  and the response: where each field of the job comes from, that both weights are
  at least the minimum and differ by the tare to within a tick, that the mode is
  one the printer supports, that the label is what the adapter builds of the job.
* `ModesCorrect`, `TagsCorrect`: from it and case analyses of the adapter, label kind
  by label kind.
* `LabelsAgree`: from `LabelWeights`, what each adapter puts on the label, kind by kind:
  its own copy of the rounding, its own choice between net and gross weight, its
  own unit and code.
* `WeightsCorrect`, `ResponseCorrect`: from it and lemmas about the rounding: it is off
  by at most half a tenth, also below zero (`Rounding`), it is monotone, what is at least the
  minimum is not rounded to zero, and a difference of two rounded numbers is off by at most a
  tenth.

`HttpConnection`, for any requests on any number of connections, from
`ConnAssumption`:

* `RoutesCorrect`: from `RouteInv`, and lemmas that compare the code's sets of paths with
  the rows of the table (`Rows`, `TableOf`). The status alone does not carry over a print,
  which is answered later: a connection on its way through the print path is known
  to be a POST to one of its paths, and so is one for which labels came out.
* `ReadCorrect`, `PrintsCorrect`, `BodiesCorrect`: from `ReadInv`. What was read has
  arrived; while the body is read, its end is computed from the head that was read;
  what prints is what was sent. The steps are lemmas about the part of a request
  that was read: its head is whole exactly when an `end` is in it, and a body that
  ends in the closing brace is the whole body, because the brace stands nowhere
  else and what follows on the connection is not part of an object. The assumption
  `IsRequest` says just that of the requests, and that they are shorter than the
  address space; what a client declares as Content-Length may be anything.

`ScaleDetect`, for any ports, baud rates, deadlines and changes of the world, from
`ListsAssumption` (candidates and baud rates are lists):

* `VerdictCorrect`: from `ProbedInv`, which says of the two nested loops that every
  pair behind the current one was probed, and every probed pair is one of theirs;
  and `SpokeInv`, that nothing has spoken while the loops go on.

`ScaleStream` and `ScaleParser`, for any text and chunks, from `ParserAssumption` and
`StreamAssumption`:

* `ZeroCorrect`: from `FlagMeansWeight`, that `seen_parsed_value` stands for a
  weight among the readings already given.
* `NumbersCorrect`, `UnitsCorrect`, `MinusCorrect`, for texts of any length, not only for
  the `Frames` of the run. `captures` and `number` are defined by recursion:
  `RecursionExists` shows that a function exists whose values depend on those at
  arguments of a smaller rank, here the characters still to read. `ScanFindsAll` is
  then an induction from the end of the text, as a least counterexample: from every
  position that is not inside a number, the search finds each number behind it,
  with a sign that stands before it or with none, and nothing else. It needs that a match ends
  outside of a number and jumps over none (`NextIsClean`). The best candidate exists because
  scores and positions are bounded (`BestFound`). For the sign, `OneSigned` adds that nothing
  before a minus that belongs to the only number can start a match.
* For the readings, `ReadingsInv` says that each is what `frame_to_reading` makes of
  some text; that the buffer stays a text needs that its cut, its first delimiter
  and the ends of a trimmed frame exist (`AppendedIsText`, `PoppedIsText`,
  `TrimIsText`).
* `FramesCorrect`, for any text without noise, any chunks and any size of the buffer:
  from `FramesInv`. It names two places in the text received: up to the delimiter
  at `c` all was decoded, and the buffer holds the text from `d` on, where `d` is
  behind `c` only when the buffer had no room for the head of the frame between. The
  property speaks of the end of the loop only; the invariant holds at every
  iteration, since the readings are matched with the frames up to `c`
  (`Decodes`). `FramesStay` says that a text that goes on keeps its frames up to a
  delimiter, `OneMoreFrame` that an iteration goes one frame further at most,
  `PushedIs` what is left of the buffer and a chunk (`AppendedIs`: no cut falls
  inside a character when every one is a byte), and `SafeSlice` that what the buffer
  keeps beside a chunk is part of what is trimmed in the end. That a frame is still
  open when its head goes is what makes the bound `MaxPending - MaxChunk` right: the
  buffer is cut only for a chunk, and its text from before that chunk has no
  delimiter.

`EpcGenerator`, in `PrintPlanProofs`, for words of any size, any rotations, salts,
threads and calls, from `EpcAssumption`:

* `UniqueCorrect`: from `EpcInv`. That nothing was repeated is not inductive: the
  generator keeps no record, so the invariant says that each EPC was made of a
  timestamp and a counter that lie behind its state, an earlier timestamp or the
  same one with a counter that is not greater. Then the next call's pair is new, and
  `FormatInjective` says that two pairs have two EPCs: equal fields are equal times
  within the window; with these the tails differ by the rotated counters alone, whose
  low bits all stay clear of the bit that is forced (`RotatedBit`), and a number is
  given by its bits (`SameBits`). `pow2` is defined by recursion; `PowersExist` shows
  that there is such a function.

`Discovery`, in `ServiceStartupProofs`, for any lists of interfaces with any addresses
and masks, from `DiscoveryAssumption`:

* `TargetsCorrect`: from `HostInv` (the targets are collected once and stay) and
  `TargetsCover`, an induction over the interfaces, as a least counterexample: behind
  the first `k` the targets are distinct, each network among them has one, and each
  but the first belongs to one (`NextCovers`). `OctetIsCompleted` is the arithmetic of
  an octet: setting the bits that are zero in its mask gives the end of its block.

* `ProbesCorrect`: the safety half of `EveryProbeAnswered`. An app that waits has a probe
  in the socket which `is_discovery_probe` accepts (`ProbesWait`), and taking other
  packets only moves it forward. That the thread comes to take it is left to TLC.

Every invariant and action property of the runs that pass is proved. Only
model-checked are the liveness properties (`EveryRequestEnds`, `EveryConnectionEnds`,
`EveryServiceComesUp`, `EveryProbeAnswered`, `ReachableIsTold`, `GoneIsReported`,
`Reconnects`, `StreamConverges`, `StreamEnds`, `DetectionEnds`), which need fairness
and `ENABLED`, and the two sentences that the code violates.

## 5. Plan

All components that carry the service's logic have a module. What is left:

1. `run_with_limits` of the serial reader, the bounded variant of the loop that a
   diagnostic tool uses.
2. A client of the print endpoint that sends again after a lost answer, should the
   service ever get a means to recognise it.

## 6. Not modelled

* Pixel and text layout, fonts, QR encoding, the bytes of ZPL and EZPL beyond the
  order and the effect of commands, JSON text, log text: formatting without
  control.
* The Bonjour library and the `dns-sd` and `avahi` child processes; printer and
  scale firmware beyond the assumptions above.
* The command line tools and the simulated scale (`src/bin/*`), which are clients
  of the library code.
* `run_with_limits`, see above; `encode_scan_payload`, which the service does not
  call.
* At this commit `build_qolip_cell_render` (`src/print/godex/pack.rs:78`) uses a
  name that is not defined (`label_length_dots`), so that the crate does not
  compile; the model takes that function as its siblings are written.
* Host parts of addresses: all addresses with one port conflict in `ServiceStartup`.
  Which addresses `bind` takes is external: of those that have no port it is none.
* A small divergence that no property is about: the handshake's `profile_path` is
  not served.
