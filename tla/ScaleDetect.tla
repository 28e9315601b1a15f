------------------------------ MODULE ScaleDetect ------------------------------
(***************************************************************************)
(* Finding the scale's serial port: the candidates of /dev, one probe per  *)
(* candidate and baud rate, and the verdict. While it goes on, ports are   *)
(* opened and released by others, and devices come and go.                 *)
(*                                                                         *)
(* A device at the other end of a port is a scale with a baud rate, one    *)
(* that only sends noise, a silent one, or none. A scale that is read at   *)
(* another baud rate gives noise.                                          *)
(***************************************************************************)
EXTENDS Naturals, Sequences, SequencesExt

CONSTANTS
  Hosts,        \* what /dev may hold: [links, usb, acm]
  BaudLists,    \* lists of baud rates to try
  Explicit,     \* explicit device settings, None for a blank one
  Ends,         \* what may be at the other end of a port
  Busy,         \* the ports that another process may hold
  Deadline,     \* reads that fit into the timeout of a probe
  MaxChanges,   \* bound on what the world does meanwhile
  None

ASSUME DetectAssumption == Deadline \in Nat \ {0} /\ MaxChanges \in Nat

VARIABLES
  host, bauds, explicit,    \* the parameters
  far,          \* what is at the other end of each port
  held,         \* ports that another process holds, or without permission
  pc,           \* where detect_scale_port_with_probe is
  d, b,         \* indices of the candidate and of the baud rate
  left,         \* reads left before the deadline
  has_data,     \* of the probe that is going on
  last_busy,    \* a busy error was seen
  result,       \* the verdict
  probed,       \* pairs whose probe has begun (history)
  spoke,        \* pairs whose probe saw data (history)
  changes

setting == <<host, bauds, explicit>>
world == <<far, held, changes>>
history == <<probed, spoke>>
vars == <<setting, world, pc, d, b, left, has_data, last_busy, result, history>>

Names(h) == ToSet(h.links) \cup ToSet(h.usb) \cup ToSet(h.acm)

push_unique(out, path) == IF path \in ToSet(out) THEN out ELSE Append(out, path)

\* The links of /dev/serial/by-id come resolved, or as they are when broken.
collect_serial_candidates(h) ==
  LET add(out, path) == push_unique(out, path)
  IN FoldLeft(add, <<>>, h.links \o h.usb \o h.acm)

ASSUME ListsAssumption ==
  /\ \A h \in Hosts : collect_serial_candidates(h) \in Seq(Names(h))
  /\ BaudLists \subseteq Seq(Nat)

candidates == collect_serial_candidates(host)

Init ==
  /\ host \in Hosts /\ bauds \in BaudLists /\ explicit \in Explicit
  /\ far \in [Names(host) -> Ends]
  /\ held \in SUBSET (Busy \cap Names(host))
  /\ pc = "start" /\ d = 1 /\ b = 1
  /\ left = 0 /\ has_data = FALSE /\ last_busy = FALSE
  /\ result = None
  /\ probed = {} /\ spoke = {} /\ changes = 0

-------------------------------------------------------------------------------
Verdict(kind, device, baud) == [kind |-> kind, device |-> device, baud |-> baud]

finish(v) ==
  /\ result' = v /\ pc' = "done"
  /\ UNCHANGED <<setting, world, d, b, left, has_data, last_busy, history>>

detect_scale_port_with_probe ==
  /\ pc = "start"
  /\ IF bauds = <<>> THEN finish(Verdict("empty baud list", None, None))
     ELSE IF explicit # None THEN finish(Verdict("explicit", explicit, bauds[1]))
     ELSE IF candidates = <<>> THEN finish(Verdict("no candidates", None, None))
     ELSE /\ pc' = "open"
          /\ UNCHANGED <<setting, world, d, b, left, has_data, last_busy, result, history>>

\* The loops go on to the next baud rate, or to the next candidate.
next_probe ==
  IF b < Len(bauds) THEN pc' = "open" /\ b' = b + 1 /\ UNCHANGED d
  ELSE IF d < Len(candidates) THEN pc' = "open" /\ d' = d + 1 /\ b' = 1
  ELSE pc' = "end" /\ UNCHANGED <<d, b>>

Pair == <<candidates[d], bauds[b]>>

opening == pc = "open" /\ probed' = probed \cup {Pair}

open_ok ==
  /\ opening
  /\ far[candidates[d]] # None /\ candidates[d] \notin held
  /\ pc' = "read" /\ left' = Deadline /\ has_data' = FALSE
  /\ UNCHANGED <<setting, world, d, b, last_busy, result, spoke>>

\* "resource busy" and "permission denied" are remembered, other errors are not.
open_err ==
  /\ opening
  /\ far[candidates[d]] = None \/ candidates[d] \in held
  /\ last_busy' = (last_busy \/ candidates[d] \in held)
  /\ next_probe
  /\ UNCHANGED <<setting, world, left, has_data, result, spoke>>

found ==
  /\ spoke' = spoke \cup {Pair}
  /\ result' = Verdict("found", candidates[d], bauds[b])
  /\ pc' = "done" /\ UNCHANGED <<d, b>>

\* One read that brings data: a weight in it ends the probe at once.
Noisy == far[candidates[d]].kind = "noise" \/ far[candidates[d]].baud # bauds[b]

\* Mutant: data puts the deadline off.
read_noise_Extends ==
  /\ pc = "read" /\ left > 0 /\ far[candidates[d]] # None
  /\ far[candidates[d]].kind \in {"scale", "noise"} /\ Noisy
  /\ has_data' = TRUE /\ left' = Deadline
  /\ UNCHANGED <<setting, world, pc, d, b, last_busy, result, history>>

read_noise ==
  /\ pc = "read" /\ left > 0 /\ far[candidates[d]] # None
  /\ far[candidates[d]].kind \in {"scale", "noise"} /\ Noisy
  /\ has_data' = TRUE /\ left' = left - 1
  /\ UNCHANGED <<setting, world, pc, d, b, last_busy, result, history>>

\* append_raw keeps the last 240 bytes of what was read so far: when the cut falls
\* inside a character of noise, U+FFFD of three bytes, it panics, and nothing
\* catches that.
append_raw_panics ==
  /\ pc = "read" /\ left > 0 /\ far[candidates[d]] # None
  /\ far[candidates[d]].kind \in {"scale", "noise"}
  /\ Noisy \/ has_data
  /\ has_data' = TRUE /\ pc' = "panicked"
  /\ UNCHANGED <<setting, world, d, b, left, last_busy, result, history>>

read_weight ==
  /\ pc = "read" /\ left > 0 /\ far[candidates[d]] # None
  /\ far[candidates[d]].kind = "scale" /\ ~Noisy
  /\ found
  /\ UNCHANGED <<setting, world, left, has_data, last_busy, probed>>

\* No byte, TimedOut or WouldBlock.
read_nothing ==
  /\ pc = "read" /\ left > 0
  /\ left' = left - 1
  /\ UNCHANGED <<setting, world, pc, d, b, has_data, last_busy, result, history>>

\* The device is gone: what it sent before is forgotten with the error.
read_err ==
  /\ pc = "read" /\ left > 0 /\ far[candidates[d]] = None
  /\ next_probe
  /\ UNCHANGED <<setting, world, left, has_data, last_busy, result, history>>

\* The deadline: any data selects the candidate.
probe_ends ==
  /\ pc = "read" /\ left = 0
  /\ IF has_data THEN found ELSE next_probe /\ UNCHANGED <<result, spoke>>
  /\ UNCHANGED <<setting, world, left, has_data, last_busy, probed>>

\* Mutant: an earlier busy port is forgotten.
loops_end_NoBusy ==
  /\ pc = "end"
  /\ finish(Verdict("fallback", candidates[1], bauds[1]))

loops_end ==
  /\ pc = "end"
  /\ finish(IF last_busy THEN Verdict("busy", None, None)
            ELSE Verdict("fallback", candidates[1], bauds[1]))

-------------------------------------------------------------------------------
world_changes ==
  /\ pc \notin {"done", "panicked"} /\ changes < MaxChanges
  /\ \/ \E p \in DOMAIN far, e \in Ends : e # far[p] /\ far' = [far EXCEPT ![p] = e] /\ UNCHANGED held
     \/ \E p \in Busy \cap DOMAIN far :
          /\ held' = IF p \in held THEN held \ {p} ELSE held \cup {p}
          /\ UNCHANGED far
  /\ changes' = changes + 1
  /\ UNCHANGED <<setting, pc, d, b, left, has_data, last_busy, result, history>>

detect ==
  \/ detect_scale_port_with_probe \/ open_ok \/ open_err
  \/ read_noise \/ append_raw_panics \/ read_weight \/ read_nothing \/ read_err
  \/ probe_ends \/ loops_end

Next == detect \/ world_changes

\* The tool runs on.
Spec == Init /\ [][Next]_vars /\ WF_vars(detect)

-------------------------------------------------------------------------------
(* Properties                                                              *)

\* A port is only ever reported as found when its probe saw data at that baud
\* rate; the fall-back to the first candidate and the busy error come only after
\* every candidate was probed at every baud rate and none spoke, and a busy port
\* on the way is never hidden by the fall-back (detect.rs
\* detect_scale_port_with_probe).
VerdictIsJustified ==
  LET all == {<<candidates[i], bauds[k]>> : i \in 1..Len(candidates), k \in 1..Len(bauds)}
  IN pc = "done" =>
       /\ result.kind = "found" => <<result.device, result.baud>> \in spoke
       /\ result.kind \in {"fallback", "busy"} => spoke = {} /\ probed = all
       /\ result.kind = "fallback" => ~last_busy

\* Detection does not go on for ever, though a device never stops sending noise:
\* the deadline of a probe is absolute (probe.rs probe_reader). Noise can end it
\* without a verdict, when append_raw panics.
DetectionEnds == <>(pc \in {"done", "panicked"})
===============================================================================
