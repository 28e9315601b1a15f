--------------------------- MODULE ScaleDetectProofs ---------------------------
(***************************************************************************)
(* The verdict of the detection is justified, for any ports, baud rates,   *)
(* deadlines and changes of the world meanwhile.                           *)
(***************************************************************************)
EXTENDS ScaleDetect, TLAPS

\* A pair that the two loops have left behind, or that is being probed.
Behind(i, k) == i < d \/ (i = d /\ k < b)
PairOf(i, k) == <<candidates[i], bauds[k]>>

IndexInv ==
  /\ host \in Hosts /\ bauds \in BaudLists
  /\ pc \in {"start", "open", "read", "end", "done", "panicked"}
  /\ d \in Nat /\ b \in Nat
  /\ pc \in {"open", "read"} => d \in 1..Len(candidates) /\ b \in 1..Len(bauds)
  /\ pc = "start" => d = 1 /\ b = 1

\* Every probe was of a candidate and a baud rate, in the order of the loops.
ProbedInv ==
  /\ \A x \in probed : \E i \in 1..Len(candidates), k \in 1..Len(bauds) : x = PairOf(i, k)
  /\ pc \in {"open", "read"} =>
       \A i \in 1..Len(candidates), k \in 1..Len(bauds) : Behind(i, k) => PairOf(i, k) \in probed
  /\ pc = "read" => PairOf(d, b) \in probed
  /\ pc = "end" => \A i \in 1..Len(candidates), k \in 1..Len(bauds) : PairOf(i, k) \in probed

\* A probe that saw data ends the detection.
SpokeInv ==
  /\ pc # "done" => spoke = {}
  /\ pc = "done" /\ result.kind = "found" => <<result.device, result.baud>> \in spoke
  /\ pc = "done" /\ result.kind \in {"fallback", "busy"} =>
       /\ spoke = {}
       /\ \A i \in 1..Len(candidates), k \in 1..Len(bauds) : PairOf(i, k) \in probed
  /\ pc = "done" /\ result.kind = "fallback" => ~last_busy

DetectInv == IndexInv /\ ProbedInv /\ SpokeInv

-------------------------------------------------------------------------------
LEMMA Lengths ==
  ASSUME host \in Hosts, bauds \in BaudLists
  PROVE  /\ Len(candidates) \in Nat /\ Len(bauds) \in Nat
         /\ candidates # <<>> => Len(candidates) >= 1
         /\ bauds # <<>> => Len(bauds) >= 1
<1>1. candidates \in Seq(Names(host)) /\ bauds \in Seq(Nat)
  BY ListsAssumption DEF candidates
<1>2. QED
  BY <1>1

LEMMA InitDetect == Init => DetectInv
  BY DEF Init, DetectInv, IndexInv, ProbedInv, SpokeInv

\* What the parameters give stays the same.
LEMMA Fixed ==
  ASSUME UNCHANGED setting
  PROVE  candidates' = candidates /\ bauds' = bauds /\ host' = host
  BY DEF setting, candidates

\* A verdict that is none of the three that follow from probes.
LEMMA StartStep ==
  ASSUME DetectInv, detect_scale_port_with_probe
  PROVE  DetectInv'
<1> USE DEF DetectInv, IndexInv, SpokeInv
<1>1. UNCHANGED <<setting, d, b, history, last_busy>> /\ pc = "start" /\ pc' \in {"open", "done"}
  BY DEF detect_scale_port_with_probe, finish
<1>2. candidates' = candidates /\ bauds' = bauds /\ host' = host /\ probed' = probed /\ spoke' = spoke
  BY <1>1, Fixed DEF history
<1>3. pc' = "open" => Len(candidates) >= 1 /\ Len(bauds) >= 1
  BY Lengths DEF detect_scale_port_with_probe, finish
<1>4. pc' = "done" => result'.kind \in {"empty baud list", "explicit", "no candidates"}
  <2>1. CASE bauds = <<>>
    <3>1. result' = Verdict("empty baud list", None, None)
      BY <2>1 DEF detect_scale_port_with_probe, finish
    <3>2. QED
      BY <3>1 DEF Verdict
  <2>2. CASE bauds # <<>> /\ explicit # None
    <3>1. result' = Verdict("explicit", explicit, bauds[1])
      BY <2>2 DEF detect_scale_port_with_probe, finish
    <3>2. QED
      BY <3>1 DEF Verdict
  <2>3. CASE bauds # <<>> /\ explicit = None /\ candidates = <<>>
    <3>1. result' = Verdict("no candidates", None, None)
      BY <2>3 DEF detect_scale_port_with_probe, finish
    <3>2. QED
      BY <3>1 DEF Verdict
  <2>4. CASE bauds # <<>> /\ explicit = None /\ candidates # <<>>
    BY <2>4 DEF detect_scale_port_with_probe
  <2>5. QED
    BY <2>1, <2>2, <2>3, <2>4
<1>5. IndexInv'
  BY <1>1, <1>2, <1>3, Lengths
<1>6. ProbedInv'
  <2>1. pc' = "open" => \A i \in 1..Len(candidates), k \in 1..Len(bauds) : ~Behind(i, k)'
    BY <1>1, Lengths DEF Behind
  <2>2. QED
    BY <1>1, <1>2, <2>1 DEF ProbedInv, PairOf
<1>7. SpokeInv'
  BY <1>1, <1>2, <1>4
<1>8. QED
  BY <1>5, <1>6, <1>7

\* The loops go on behind a pair that was probed.
LEMMA NextProbe ==
  ASSUME DetectInv, pc \in {"open", "read"}, next_probe, UNCHANGED <<setting, spoke>>,
         probed' = probed \cup {PairOf(d, b)}
  PROVE  DetectInv'
<1> USE DEF DetectInv, IndexInv, SpokeInv
<1>1. candidates' = candidates /\ bauds' = bauds /\ host' = host
  BY Fixed
<1>2. /\ Len(candidates) \in Nat /\ Len(bauds) \in Nat
      /\ d \in 1..Len(candidates) /\ b \in 1..Len(bauds)
  BY Lengths
<1>3. pc' \in {"open", "end"}
  BY DEF next_probe
<1>4. IndexInv'
  BY <1>1, <1>2 DEF next_probe
<1>5. \A i \in 1..Len(candidates), k \in 1..Len(bauds) :
        pc' = "end" \/ Behind(i, k)' => Behind(i, k) \/ (i = d /\ k = b)
  BY <1>2 DEF next_probe, Behind
<1>6. \A i \in 1..Len(candidates), k \in 1..Len(bauds) :
        Behind(i, k) \/ (i = d /\ k = b) => PairOf(i, k) \in probed'
  BY DEF ProbedInv
<1>7. \A i \in 1..Len(candidates), k \in 1..Len(bauds) : PairOf(i, k)' = PairOf(i, k)
  BY <1>1 DEF PairOf
<1>8. \A x \in probed' : \E i \in 1..Len(candidates), k \in 1..Len(bauds) : x = PairOf(i, k)
  BY <1>2 DEF ProbedInv
<1>9. ProbedInv'
  <2>1. \A x \in probed' : \E i \in 1..Len(candidates'), k \in 1..Len(bauds') : x = PairOf(i, k)'
    BY <1>1, <1>7, <1>8
  <2>2. pc' = "end" \/ pc' = "open" => \A i \in 1..Len(candidates'), k \in 1..Len(bauds') :
          pc' = "end" \/ Behind(i, k)' => PairOf(i, k)' \in probed'
    BY <1>1, <1>5, <1>6, <1>7
  <2>3. QED
    BY <1>3, <2>1, <2>2 DEF ProbedInv
<1>10. SpokeInv'
  BY <1>3
<1>11. QED
  BY <1>4, <1>9, <1>10

\* The indices stay: a probe begins or goes on.
LEMMA StayStep ==
  ASSUME DetectInv, pc \in {"open", "read"}, pc' = "read", UNCHANGED <<setting, spoke, d, b>>,
         probed' = probed \cup {PairOf(d, b)}
  PROVE  DetectInv'
<1> USE DEF DetectInv, IndexInv, SpokeInv
<1>1. candidates' = candidates /\ bauds' = bauds /\ host' = host
  BY Fixed
<1>2. d \in 1..Len(candidates) /\ b \in 1..Len(bauds)
  OBVIOUS
<1>3. IndexInv'
  BY <1>1, <1>2
<1>4. \A i, k : (Behind(i, k)' <=> Behind(i, k)) /\ PairOf(i, k)' = PairOf(i, k) /\ PairOf(d, b)' = PairOf(d, b)
  BY <1>1 DEF Behind, PairOf
<1>5. ProbedInv'
  BY <1>1, <1>2, <1>4 DEF ProbedInv
<1>6. SpokeInv'
  OBVIOUS
<1>7. QED
  BY <1>3, <1>5, <1>6

LEMMA FoundStep ==
  ASSUME DetectInv, pc = "read", found, UNCHANGED <<setting, probed>>
  PROVE  DetectInv'
<1> USE DEF DetectInv, IndexInv
<1>1. candidates' = candidates /\ bauds' = bauds /\ host' = host
  BY Fixed
<1>2. pc' = "done" /\ result'.kind = "found" /\ <<result'.device, result'.baud>> \in spoke'
      /\ UNCHANGED <<d, b>>
  BY DEF found, Verdict, Pair
<1>3. IndexInv'
  BY <1>1, <1>2
<1>4. ProbedInv'
  BY <1>1, <1>2 DEF ProbedInv, PairOf
<1>5. SpokeInv'
  BY <1>2 DEF SpokeInv
<1>6. QED
  BY <1>3, <1>4, <1>5

LEMMA EndStep ==
  ASSUME DetectInv, loops_end
  PROVE  DetectInv'
<1> USE DEF DetectInv, IndexInv
<1>1. pc = "end" /\ pc' = "done" /\ UNCHANGED <<setting, d, b, probed, spoke, last_busy>>
  BY DEF loops_end, finish, history
<1>2. candidates' = candidates /\ bauds' = bauds /\ host' = host
  BY <1>1, Fixed
<1>3. result'.kind = IF last_busy THEN "busy" ELSE "fallback"
  BY DEF loops_end, finish, Verdict
<1>4. IndexInv'
  BY <1>1, <1>2
<1>5. ProbedInv'
  BY <1>1, <1>2 DEF ProbedInv, PairOf
<1>6. SpokeInv'
  BY <1>1, <1>2, <1>3 DEF SpokeInv, ProbedInv, PairOf
<1>7. QED
  BY <1>4, <1>5, <1>6

LEMMA SameStep ==
  ASSUME DetectInv, UNCHANGED <<setting, pc, d, b, last_busy, result, history>>
  PROVE  DetectInv'
<1>1. candidates' = candidates /\ bauds' = bauds /\ host' = host /\ UNCHANGED <<probed, spoke>>
  BY Fixed DEF history
<1>2. IndexInv'
  BY <1>1 DEF DetectInv, IndexInv
<1>3. ProbedInv'
  BY <1>1 DEF DetectInv, ProbedInv, PairOf, Behind
<1>4. SpokeInv'
  BY <1>1 DEF DetectInv, SpokeInv, PairOf
<1>5. QED
  BY <1>2, <1>3, <1>4 DEF DetectInv

\* The panic leaves no verdict.
LEMMA PanicStep ==
  ASSUME DetectInv, append_raw_panics
  PROVE  DetectInv'
<1>1. candidates' = candidates /\ bauds' = bauds /\ host' = host
  BY Fixed DEF append_raw_panics
<1>2. /\ pc = "read" /\ pc' = "panicked"
      /\ UNCHANGED <<d, b, last_busy, result, probed, spoke>>
  BY DEF append_raw_panics, history
<1>3. IndexInv'
  BY <1>1, <1>2 DEF DetectInv, IndexInv
<1>4. ProbedInv'
  BY <1>1, <1>2 DEF DetectInv, ProbedInv, PairOf
<1>5. SpokeInv'
  BY <1>2 DEF DetectInv, SpokeInv
<1>6. QED
  BY <1>3, <1>4, <1>5 DEF DetectInv

LEMMA NextDetect == DetectInv /\ [Next]_vars => DetectInv'
<1> SUFFICES ASSUME DetectInv, [Next]_vars PROVE DetectInv'
  OBVIOUS
<1>0. Pair = PairOf(d, b)
  BY DEF Pair, PairOf
<1>a. pc = "read" => probed = probed \cup {PairOf(d, b)}
  BY DEF DetectInv, ProbedInv
<1>1. CASE detect_scale_port_with_probe
  BY <1>1, StartStep
<1>2. CASE open_ok
  BY <1>0, <1>2, StayStep DEF open_ok, opening
<1>3. CASE open_err
  BY <1>0, <1>3, NextProbe DEF open_err, opening
<1>4. CASE read_noise \/ read_nothing
  BY <1>4, SameStep DEF read_noise, read_nothing
<1>5. CASE read_weight
  BY <1>5, FoundStep DEF read_weight
<1>6. CASE read_err
  BY <1>a, <1>6, NextProbe DEF read_err, history
<1>7. CASE probe_ends
  <2>1. CASE has_data
    BY <1>7, <2>1, FoundStep DEF probe_ends
  <2>2. CASE ~has_data
    BY <1>a, <1>7, <2>2, NextProbe DEF probe_ends
  <2>3. QED
    BY <2>1, <2>2
<1>8. CASE loops_end
  BY <1>8, EndStep
<1>9. CASE world_changes
  BY <1>9, SameStep DEF world_changes
<1>10. CASE UNCHANGED vars
  BY <1>10, SameStep DEF vars
<1>11. CASE append_raw_panics
  BY <1>11, PanicStep
<1>12. QED
  BY <1>1, <1>2, <1>3, <1>4, <1>5, <1>6, <1>7, <1>8, <1>9, <1>10, <1>11 DEF Next, detect

LEMMA DetectInvariant == Spec => []DetectInv
  BY InitDetect, NextDetect, PTL DEF Spec

\* A port is reported as found only for data its probe saw; the fall-back and the
\* busy error come only after every candidate was probed at every baud rate and
\* none spoke, and a busy port is not hidden by the fall-back: for any ports, baud
\* rates and deadlines, however often the world changes.
THEOREM VerdictCorrect == Spec => []VerdictIsJustified
<1>1. DetectInv => VerdictIsJustified
  <2> DEFINE all == {<<candidates[i], bauds[k]>> : i \in 1..Len(candidates), k \in 1..Len(bauds)}
  <2> SUFFICES ASSUME DetectInv, pc = "done"
               PROVE  /\ result.kind = "found" => <<result.device, result.baud>> \in spoke
                      /\ result.kind \in {"fallback", "busy"} => spoke = {} /\ probed = all
                      /\ result.kind = "fallback" => ~last_busy
    BY DEF VerdictIsJustified
  <2>1. probed \subseteq all
    BY DEF DetectInv, ProbedInv, PairOf
  <2>2. result.kind \in {"fallback", "busy"} => all \subseteq probed
    BY DEF DetectInv, SpokeInv, PairOf
  <2> HIDE DEF all
  <2>3. QED
    BY <2>1, <2>2 DEF DetectInv, SpokeInv
<1>2. QED
  BY <1>1, DetectInvariant, PTL
===============================================================================
