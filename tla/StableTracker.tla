----------------------------- MODULE StableTracker -----------------------------
(***************************************************************************)
(* StableTracker: from a series of readings to the observation that a      *)
(* weight is held. Weights are whole numbers (thousandths of the unit) and *)
(* times are whole numbers of the clock that stamps the readings, which    *)
(* may step back. The readings applied so far are kept as a history.       *)
(***************************************************************************)
EXTENDS Integers, Sequences

CONSTANTS
  Weights,       \* weights a reading can show
  Units,         \* units a reading can have, normalised
  MaxTime,       \* bound: the latest time stamp
  MaxReadings,   \* bound: readings applied
  hold_duration, \* StableConfig.hold_duration
  tolerance,     \* StableConfig.tolerance_kg
  None           \* no weight, no time

ASSUME TrackerAssumption ==
  /\ Weights \subseteq Int
  /\ Units \subseteq {"kg", "g"}
  /\ MaxTime \in Nat /\ MaxReadings \in Nat
  /\ hold_duration \in Nat
  /\ tolerance \in Nat
  /\ None \notin Int

VARIABLES
  candidate_weight,
  stable_since,
  last,     \* the snapshot that apply returned last
  applied   \* the readings applied (history)

vars == <<candidate_weight, stable_since, last, applied>>

Times == 0..MaxTime

\* A reading as Reading's constructors make it: one with an error has no weight, one
\* without a weight no stability. stable is TRUE for Some(true).
Readings ==
  {r \in [error : BOOLEAN, weight : Weights \cup {None}, stable : BOOLEAN, unit : Units,
          updated_at : Times] :
     (r.error => r.weight = None) /\ (r.weight = None => ~r.stable)}

Init ==
  /\ candidate_weight = None
  /\ stable_since = None
  /\ last = [state |-> "NoWeight", weight |-> None, stable_since |-> None]
  /\ applied = <<>>

-------------------------------------------------------------------------------
Distance(a, b) == IF a < b THEN b - a ELSE a - b

\* Mutant: a weight is compared with the one before it.
candidate_changed_Drifts(weight) ==
  \/ candidate_weight = None
  \/ candidate_weight # None /\ Distance(last.weight, weight) > tolerance

candidate_changed(weight) ==
  \/ candidate_weight = None
  \/ candidate_weight # None /\ Distance(candidate_weight, weight) > tolerance

\* Mutant: the hold has to be longer than the duration.
elapsed_at_least_Longer(start, now, duration) == now - start > duration

\* duration_since fails when start is later than now.
elapsed_at_least(start, now, duration) == now >= start /\ now - start >= duration

snapshot(state, weight) ==
  last' = [state |-> state, weight |-> weight, stable_since |-> stable_since']

reset(state, weight) ==
  /\ candidate_weight' = None
  /\ stable_since' = None
  /\ snapshot(state, weight)

\* The start of a new hold.
new_candidate(weight, now) ==
  /\ candidate_changed(weight)
  /\ candidate_weight' = weight
  /\ stable_since' = now
  /\ snapshot("Holding", weight)

\* A hold goes on (it has a start: TypeOK).
same_candidate(weight, now) ==
  /\ ~candidate_changed(weight)
  /\ UNCHANGED <<candidate_weight, stable_since>>
  /\ \/ elapsed_at_least(stable_since, now, hold_duration) /\ snapshot("Ready", weight)
     \/ ~elapsed_at_least(stable_since, now, hold_duration) /\ snapshot("Holding", weight)

apply(reading) ==
  /\ \/ reading.error /\ reset("Error", None)
     \/ ~reading.error /\ reading.weight = None /\ reset("NoWeight", None)
     \/ /\ ~reading.error /\ reading.weight # None /\ ~reading.stable
        /\ reset("Moving", reading.weight)
     \/ /\ ~reading.error /\ reading.weight # None /\ reading.stable
        /\ \/ new_candidate(reading.weight, reading.updated_at)
           \/ same_candidate(reading.weight, reading.updated_at)
  /\ applied' = Append(applied, reading)

Next == Len(applied) < MaxReadings /\ \E reading \in Readings : apply(reading)

Spec == Init /\ [][Next]_vars

-------------------------------------------------------------------------------
(* Properties.                                                             *)

\* Every variable has its type, and a hold has both a weight and a start.
TypeOK ==
  /\ candidate_weight \in Weights \cup {None}
  /\ stable_since \in Times \cup {None}
  /\ candidate_weight = None <=> stable_since = None
  /\ last \in [state : {"NoWeight", "Moving", "Holding", "Ready", "Error"},
               weight : Weights \cup {None}, stable_since : Times \cup {None}]
  /\ applied \in Seq(Readings)

Steady(reading) == ~reading.error /\ reading.weight # None /\ reading.stable
SteadyFrom(k) == \A i \in k..Len(applied) : Steady(applied[i])

\* Ready means that the weight has been held: the last readings, back to one that
\* is older by hold_duration at least, are all stable and without an error, and
\* all within the tolerance of that one; neither an interruption nor a slow drift
\* nor a clock that steps back counts as holding (apply, candidate_changed,
\* elapsed_at_least).
ReadyMeansHeld ==
  last.state = "Ready" =>
    \E k \in 1..Len(applied) :
      /\ SteadyFrom(k)
      /\ \A i \in k..Len(applied) : Distance(applied[k].weight, applied[i].weight) <= tolerance
      /\ applied[Len(applied)].updated_at - applied[k].updated_at >= hold_duration

ClockGoesForward ==
  \A i, j \in 1..Len(applied) : i <= j => applied[i].updated_at <= applied[j].updated_at

\* A weight that is shown unchanged for hold_duration is Ready, whatever came
\* before it: a hold that began at a near weight does not make it start again, and
\* no return to zero is needed (apply; the clock must not have stepped back, and
\* a second reading is needed).
HeldMeansReady ==
  \A k \in 1..Len(applied) :
    /\ ClockGoesForward
    /\ k < Len(applied)
    /\ SteadyFrom(k)
    /\ \A i \in k..Len(applied) : applied[i].weight = applied[k].weight
    /\ applied[Len(applied)].updated_at - applied[k].updated_at >= hold_duration
    => last.state = "Ready"
===============================================================================
