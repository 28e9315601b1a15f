------------------------------ MODULE EpcGenerator ------------------------------
(***************************************************************************)
(* EPCs from a clock, a counter and a salt. Threads read the clock first   *)
(* and take the mutex afterwards, so timestamps reach the generator in     *)
(* another order than they were read in; the clock may also be set back.   *)
(*                                                                         *)
(* The words are scaled down: a u32 has Bits bits (32 in the code), the    *)
(* timestamp field counts modulo NsSpan (2^56), the rotations are RotNs    *)
(* (13) and RotSeq (7), a microsecond has Micro (1000) nanoseconds. A word *)
(* is the set of the positions of its one bits. Its names differ from      *)
(* those of PrintPlan, beside which the proofs extend it.                  *)
(***************************************************************************)
EXTENDS Naturals, FiniteSetsExt

CONSTANTS
  Threads, Salts,
  Bits, NsSpan, RotNs, RotSeq, Micro,
  Start, MaxClock,   \* the earliest and the latest time
  MaxCalls,          \* bound on the calls
  MaxBack,           \* how often the clock may be set back
  NoTime

\* The times of a run lie closer together than the timestamp field wraps: within
\* 2.28 years in the code.
ASSUME EpcAssumption ==
  /\ Bits \in Nat \ {0} /\ RotNs \in 0..Bits /\ RotSeq \in 1..(Bits - 1)
  /\ Salts \subseteq SUBSET (0..(Bits - 1))
  /\ Micro \in Nat \ {0} /\ NsSpan \in Nat \ {0}
  /\ Start \in Nat /\ MaxClock \in Nat /\ Start <= MaxClock /\ MaxClock < Start + NsSpan
  /\ NoTime \notin Nat

VARIABLES
  clock,
  read,         \* the timestamp a thread has read and not used yet, or NoTime
  last_ns, seq, salt,    \* EpcState
  issued,       \* EPCs given out, with their timestamps (history)
  repeated,     \* an EPC was given out twice (history)
  ordered,      \* timestamps came to the generator in order so far (history)
  top,          \* the highest seq so far (history)
  calls, backs

epc_vars == <<clock, read, last_ns, seq, salt, issued, repeated, ordered, top, calls, backs>>

EpcInit ==
  /\ clock = Start
  /\ read = [t \in Threads |-> NoTime]
  /\ last_ns = 0 /\ seq = 0
  /\ \E s \in Salts : salt = s \cup {0}
  /\ issued = {} /\ repeated = FALSE /\ ordered = TRUE /\ top = 0
  /\ calls = 0 /\ backs = 0

pow2[k \in 0..Bits] == IF k = 0 THEN 1 ELSE 2 * pow2[k - 1]

\* The lowest bits of a number, as the casts to u32 keep them.
bits(n) == {i \in 0..(Bits - 1) : (n \div pow2[i]) % 2 = 1}

rotate_left(w, k) == {(i + k) % Bits : i \in w}

\* The exclusive or of timestamp, counter and salt, with the lowest bit set.
format_epc_24(ns, n, s) ==
  LET atom == bits(ns \div Micro)
      time == SymDiff(atom, rotate_left(bits(ns), RotNs))
  IN [ns |-> ns % NsSpan,
      tail |-> SymDiff(SymDiff(time, rotate_left(bits(n), RotSeq)), s) \cup {0}]

now_unix_ns(t) ==
  /\ read[t] = NoTime /\ calls < MaxCalls
  /\ read' = [read EXCEPT ![t] = clock]
  /\ calls' = calls + 1
  /\ UNCHANGED <<clock, last_ns, seq, salt, issued, repeated, ordered, top, backs>>

\* Mutant: the counter starts anew with every call.
next_seq_Reset(ns) == 0

next_seq(ns) == IF ns # last_ns THEN 0 ELSE (seq + 1) % pow2[Bits]

\* Under the mutex.
next_at_unix_ns(t) ==
  /\ read[t] # NoTime
  /\ LET ns == read[t]
         epc == format_epc_24(ns, next_seq(ns), salt)
     IN /\ last_ns' = ns
        /\ seq' = next_seq(ns)
        /\ repeated' = (repeated \/ epc \in issued)
        /\ issued' = issued \cup {epc}
        /\ ordered' = (ordered /\ ns >= last_ns)
        /\ top' = IF next_seq(ns) > top THEN next_seq(ns) ELSE top
  /\ read' = [read EXCEPT ![t] = NoTime]
  /\ UNCHANGED <<clock, salt, calls, backs>>

tick ==
  /\ clock < MaxClock
  /\ clock' = clock + 1
  /\ UNCHANGED <<read, last_ns, seq, salt, issued, repeated, ordered, top, calls, backs>>

set_back ==
  /\ backs < MaxBack
  /\ clock' \in Start..(clock - 1)
  /\ backs' = backs + 1
  /\ UNCHANGED <<read, last_ns, seq, salt, issued, repeated, ordered, top, calls>>

EpcNext == tick \/ set_back \/ \E t \in Threads : now_unix_ns(t) \/ next_at_unix_ns(t)

EpcSpec == EpcInit /\ [][EpcNext]_epc_vars

-------------------------------------------------------------------------------
(* Properties                                                              *)

\* As long as the timestamps reach the generator in order, no EPC is given out
\* twice, for as many calls in one nanosecond as the bit that is forced to one
\* leaves apart: 2^25 in the code (epc.rs next_at_unix_ns, format_epc_24).
UniqueInOrder == ordered /\ top < pow2[Bits - RotSeq] => ~repeated
===============================================================================
