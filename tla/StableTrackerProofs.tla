-------------------------- MODULE StableTrackerProofs --------------------------
(***************************************************************************)
(* Ready means held and held means Ready, for any weights, tolerance, hold *)
(* duration and number of readings.                                        *)
(***************************************************************************)
EXTENDS StableTracker, TLAPS

\* The reading that began the hold, and what all readings since then have kept.
Hold(k) ==
  /\ SteadyFrom(k)
  /\ applied[k].weight = candidate_weight
  /\ applied[k].updated_at = stable_since
  /\ \A i \in k..Len(applied) : Distance(applied[k].weight, applied[i].weight) <= tolerance

HoldHasStart == candidate_weight # None => \E k \in 1..Len(applied) : Hold(k)

\* With a clock that goes forward the hold began no later than any unchanged
\* weight that is still shown, and at a weight within the tolerance of it.
HoldCovers ==
  ClockGoesForward =>
    \A k \in 1..Len(applied) :
      SteadyFrom(k) /\ (\A i \in k..Len(applied) : applied[i].weight = applied[k].weight)
      => /\ candidate_weight # None
         /\ Distance(candidate_weight, applied[k].weight) <= tolerance
         /\ stable_since <= applied[k].updated_at

TrackerInv == TypeOK /\ HoldHasStart /\ HoldCovers /\ ReadyMeansHeld /\ HeldMeansReady

-------------------------------------------------------------------------------
\* What Append does to the history: all earlier readings stay where they are.
LEMMA AppendReading ==
  ASSUME applied \in Seq(Readings), NEW reading \in Readings, applied' = Append(applied, reading)
  PROVE  /\ applied' \in Seq(Readings)
         /\ Len(applied) \in Nat
         /\ Len(applied') = Len(applied) + 1
         /\ \A i \in 1..Len(applied) : applied'[i] = applied[i] /\ applied[i] \in Readings
         /\ applied'[Len(applied')] = reading
  OBVIOUS

LEMMA InitTracker == Init => TrackerInv
  <1> SUFFICES ASSUME Init PROVE TrackerInv
    OBVIOUS
  <1>1. applied \in Seq(Readings) /\ Len(applied) = 0
    BY DEF Init
  <1>2. TypeOK
    BY <1>1 DEF Init, TypeOK
  <1>3. HoldHasStart /\ ReadyMeansHeld
    BY DEF Init, HoldHasStart, ReadyMeansHeld
  <1>4. HoldCovers /\ HeldMeansReady
    BY <1>1 DEF HoldCovers, HeldMeansReady
  <1> QED
    BY <1>2, <1>3, <1>4 DEF TrackerInv

LEMMA TrackerStutter == TrackerInv /\ UNCHANGED vars => TrackerInv'
  BY DEF TrackerInv, TypeOK, HoldHasStart, Hold, HoldCovers, ReadyMeansHeld, HeldMeansReady,
         SteadyFrom, Steady, ClockGoesForward, vars

\* A reading that is not steady ends every hold.
LEMMA ResetStep ==
  ASSUME TrackerInv, NEW reading \in Readings, applied' = Append(applied, reading),
         ~Steady(reading),
         NEW state \in {"NoWeight", "Moving", "Error"},
         NEW weight \in Weights \cup {None},
         reset(state, weight)
  PROVE  TrackerInv'
  <1>1. /\ applied' \in Seq(Readings)
        /\ Len(applied') \in Nat
        /\ Len(applied') = Len(applied) + 1
        /\ applied'[Len(applied')] = reading
    BY AppendReading DEF TrackerInv, TypeOK
  <1>2. TypeOK'
    BY <1>1 DEF reset, snapshot, TypeOK
  <1>3. HoldHasStart' /\ ReadyMeansHeld'
    BY DEF reset, snapshot, HoldHasStart, ReadyMeansHeld
  <1>4. \A k \in 1..Len(applied') : ~SteadyFrom(k)'
    BY <1>1 DEF SteadyFrom, Steady
  <1>5. HoldCovers' /\ HeldMeansReady'
    BY <1>4 DEF HoldCovers, HeldMeansReady
  <1> QED
    BY <1>2, <1>3, <1>5 DEF TrackerInv

\* A steady reading: it begins a hold or goes on with one.
LEMMA SteadyStep ==
  ASSUME TrackerInv, NEW reading \in Readings, applied' = Append(applied, reading),
         Steady(reading),
         \/ new_candidate(reading.weight, reading.updated_at)
         \/ same_candidate(reading.weight, reading.updated_at)
  PROVE  TrackerInv'
  <1> DEFINE w == reading.weight
             t == reading.updated_at
  <1> PICK n \in Nat : n = Len(applied')
    BY AppendReading DEF TrackerInv, TypeOK
  <1>1. /\ applied' \in Seq(Readings)
        /\ Len(applied) \in Nat
        /\ n = Len(applied) + 1
        /\ \A i \in 1..Len(applied) : applied'[i] = applied[i] /\ applied[i] \in Readings
        /\ applied'[n] = reading
    BY AppendReading DEF TrackerInv, TypeOK
  <1>2. w \in Weights /\ w \in Int /\ t \in Times /\ t \in Int /\ w # None /\ t # None
    <2>1. w \in Weights \cup {None} /\ t \in Times /\ w # None
      BY DEF Steady, Readings
    <2>2. w \in Weights /\ w \in Int
      BY <2>1, TrackerAssumption
    <2>3. t \in Int
      BY <2>1, TrackerAssumption DEF Times
    <2>4. t # None
      BY <2>3, TrackerAssumption, Zenon
    <2> QED
      BY <2>1, <2>2, <2>3, <2>4
  <1>3. \A i \in 1..Len(applied) : Steady(applied[i]) => applied[i].weight \in Int
    BY <1>1, TrackerAssumption DEF Readings, Steady
  <1>4. \A i \in 1..n : applied'[i].updated_at \in Int
    BY <1>1, TrackerAssumption DEF Readings, Times
  <1>5. \A k \in 1..Len(applied) : SteadyFrom(k)' => SteadyFrom(k)
    BY <1>1 DEF SteadyFrom, Steady
  <1>6. ClockGoesForward' => ClockGoesForward /\ \A i \in 1..Len(applied) : applied[i].updated_at <= t
    BY <1>1 DEF ClockGoesForward
  <1>a. CASE new_candidate(w, t)
    <2>1. /\ candidate_weight' = w /\ stable_since' = t
          /\ last' = [state |-> "Holding", weight |-> w, stable_since |-> t]
      BY <1>a DEF new_candidate, snapshot
    <2>2. TypeOK'
      BY <1>1, <1>2, <2>1 DEF TypeOK
    <2>3. Hold(n)'
      <3>1. \A i \in n..Len(applied') : i = n
        OBVIOUS
      <3>2. Distance(w, w) <= tolerance
        BY <1>2, TrackerAssumption DEF Distance
      <3>3. SteadyFrom(n)'
        BY <3>1, <1>1 DEF SteadyFrom, Steady
      <3> QED
        BY <3>1, <3>2, <3>3, <1>1, <2>1 DEF Hold
    <2>4. HoldHasStart' /\ ReadyMeansHeld'
      BY <1>1, <2>1, <2>3 DEF HoldHasStart, ReadyMeansHeld
    <2>5. ASSUME ClockGoesForward', NEW k \in 1..Len(applied), SteadyFrom(k)',
                 \A i \in k..n : applied'[i].weight = applied'[k].weight
          PROVE  FALSE
      <3>1. ClockGoesForward /\ SteadyFrom(k) /\ applied[k].weight = w
            /\ \A i \in k..Len(applied) : applied[i].weight = applied[k].weight
        BY <1>1, <1>5, <1>6, <2>5
      <3>2. candidate_weight # None /\ Distance(candidate_weight, w) <= tolerance
        BY <3>1 DEF TrackerInv, HoldCovers
      <3>3. candidate_weight \in Int
        BY <3>2, TrackerAssumption DEF TrackerInv, TypeOK
      <3> QED
        BY <3>2, <3>3, <1>2, <1>a, TrackerAssumption DEF new_candidate, candidate_changed, Distance
    <2>6. HoldCovers'
      <3> SUFFICES ASSUME ClockGoesForward', NEW k \in 1..n, SteadyFrom(k)',
                          \A i \in k..n : applied'[i].weight = applied'[k].weight
                   PROVE  /\ candidate_weight' # None
                          /\ Distance(candidate_weight', applied'[k].weight) <= tolerance
                          /\ stable_since' <= applied'[k].updated_at
        BY DEF HoldCovers
      <3>1. k = n
        BY <2>5, <1>1
      <3> QED
        BY <3>1, <1>1, <1>2, <2>1, TrackerAssumption DEF Distance
    <2>7. HeldMeansReady'
      BY <2>5, <1>1 DEF HeldMeansReady
    <2> QED
      BY <2>2, <2>4, <2>6, <2>7 DEF TrackerInv
  <1>b. CASE same_candidate(w, t)
    <2>1. /\ candidate_weight # None /\ candidate_weight' = candidate_weight
          /\ stable_since' = stable_since
          /\ candidate_weight \in Int /\ Distance(candidate_weight, w) <= tolerance
          /\ stable_since \in Times /\ stable_since \in Int
      <3>1. candidate_weight # None /\ ~(Distance(candidate_weight, w) > tolerance)
            /\ candidate_weight' = candidate_weight /\ stable_since' = stable_since
        BY <1>b DEF same_candidate, candidate_changed
      <3>2. candidate_weight \in Int /\ stable_since \in Times /\ stable_since \in Int
        BY <3>1, TrackerAssumption DEF TrackerInv, TypeOK, Times
      <3> QED
        BY <3>1, <3>2, <1>2, TrackerAssumption DEF Distance
    <2>2. \/ last' = [state |-> "Ready", weight |-> w, stable_since |-> stable_since]
             /\ t - stable_since >= hold_duration
          \/ last' = [state |-> "Holding", weight |-> w, stable_since |-> stable_since]
             /\ ~(t >= stable_since /\ t - stable_since >= hold_duration)
      BY <1>b, <2>1 DEF same_candidate, snapshot, elapsed_at_least
    <2>3. TypeOK'
      BY <1>1, <1>2, <2>1, <2>2 DEF TrackerInv, TypeOK
    <2>4. PICK s \in 1..Len(applied) : Hold(s)
      BY <2>1 DEF TrackerInv, HoldHasStart
    <2>5. Hold(s)'
      BY <1>1, <2>1, <2>4 DEF Hold, SteadyFrom
    <2>6. HoldHasStart'
      BY <1>1, <2>5 DEF HoldHasStart
    <2>7. ReadyMeansHeld'
      <3> SUFFICES ASSUME last'.state = "Ready" PROVE ReadyMeansHeld'
        BY DEF ReadyMeansHeld
      <3>1. applied'[n].updated_at - applied'[s].updated_at >= hold_duration
        BY <1>1, <2>1, <2>2, <2>5 DEF Hold
      <3> QED
        BY <3>1, <2>5, <1>1 DEF ReadyMeansHeld, Hold
    <2>8. ASSUME ClockGoesForward', NEW k \in 1..Len(applied), SteadyFrom(k)',
                 \A i \in k..n : applied'[i].weight = applied'[k].weight
          PROVE  stable_since <= applied'[k].updated_at /\ applied'[k].weight = w
      <3>1. ClockGoesForward /\ SteadyFrom(k) /\ applied[k].weight = w
            /\ \A i \in k..Len(applied) : applied[i].weight = applied[k].weight
        BY <1>1, <1>5, <1>6, <2>8
      <3> QED
        BY <3>1, <1>1 DEF TrackerInv, HoldCovers
    <2>9. HoldCovers'
      <3> SUFFICES ASSUME ClockGoesForward', NEW k \in 1..n, SteadyFrom(k)',
                          \A i \in k..n : applied'[i].weight = applied'[k].weight
                   PROVE  /\ candidate_weight' # None
                          /\ Distance(candidate_weight', applied'[k].weight) <= tolerance
                          /\ stable_since' <= applied'[k].updated_at
        BY DEF HoldCovers
      <3>1. CASE k = n
        <4>1. stable_since <= t
          BY <2>4, <1>6 DEF Hold
        <4> QED
          BY <3>1, <4>1, <1>1, <2>1
      <3>2. CASE k # n
        <4>1. k \in 1..Len(applied)
          BY <3>2, <1>1
        <4> QED
          BY <4>1, <2>8, <2>1
      <3> QED
        BY <3>1, <3>2
    <2>10. HeldMeansReady'
      <3> SUFFICES ASSUME NEW k \in 1..n, ClockGoesForward', k < n, SteadyFrom(k)',
                          \A i \in k..n : applied'[i].weight = applied'[k].weight,
                          applied'[n].updated_at - applied'[k].updated_at >= hold_duration
                   PROVE  last'.state = "Ready"
        BY DEF HeldMeansReady
      <3>1. k \in 1..Len(applied)
        BY <1>1
      <3>2. stable_since <= applied'[k].updated_at
        BY <3>1, <2>8
      <3>3. t - stable_since >= hold_duration /\ t >= stable_since
        <4>1. applied'[n].updated_at = t
          BY <1>1
        <4>2. applied'[k].updated_at \in Int /\ t - applied'[k].updated_at >= hold_duration
          BY <4>1, <1>4
        <4>3. hold_duration \in Nat
          BY TrackerAssumption
        <4> HIDE DEF t
        <4> QED
          BY <3>2, <4>2, <4>3, <1>2, <2>1
      <3> QED
        BY <3>3, <2>2
    <2> QED
      BY <2>3, <2>6, <2>7, <2>9, <2>10 DEF TrackerInv
  <1> QED
    BY <1>a, <1>b

LEMMA NextTracker == TrackerInv /\ [Next]_vars => TrackerInv'
  <1> SUFFICES ASSUME TrackerInv, Next PROVE TrackerInv'
    BY TrackerStutter
  <1> PICK reading \in Readings : apply(reading)
    BY DEF Next
  <1>1. applied' = Append(applied, reading) /\ reading.weight \in Weights \cup {None}
    BY DEF apply, Readings
  <1>2. CASE Steady(reading)
    <2>1. \/ new_candidate(reading.weight, reading.updated_at)
          \/ same_candidate(reading.weight, reading.updated_at)
      BY <1>2 DEF apply, Steady
    <2> QED
      BY <1>1, <1>2, <2>1, SteadyStep
  <1>3. CASE ~Steady(reading)
    <2>1. \E state \in {"NoWeight", "Moving", "Error"}, weight \in Weights \cup {None} : reset(state, weight)
      BY <1>1, <1>3 DEF apply, Steady
    <2> QED
      BY <1>1, <1>3, <2>1, ResetStep
  <1> QED
    BY <1>2, <1>3

\* Types are kept, and a hold always has both a weight and a start.
THEOREM TrackerTypeCorrect == Spec => []TypeOK
  <1>1. TrackerInv => TypeOK
    BY DEF TrackerInv
  <1> QED
    BY InitTracker, NextTracker, <1>1, PTL DEF Spec

\* Ready means an uninterrupted hold within the tolerance (StableTracker::apply).
THEOREM ReadyCorrect == Spec => []ReadyMeansHeld
  <1>1. TrackerInv => ReadyMeansHeld
    BY DEF TrackerInv
  <1> QED
    BY InitTracker, NextTracker, <1>1, PTL DEF Spec

\* An unchanged weight held for long enough is Ready, whatever came before it.
THEOREM HeldCorrect == Spec => []HeldMeansReady
  <1>1. TrackerInv => HeldMeansReady
    BY DEF TrackerInv
  <1> QED
    BY InitTracker, NextTracker, <1>1, PTL DEF Spec
===============================================================================
