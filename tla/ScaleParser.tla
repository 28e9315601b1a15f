------------------------------ MODULE ScaleParser ------------------------------
(***************************************************************************)
(* parse_weight: the candidates the weight expression finds in a frame,    *)
(* their scores, and the stability markers. A frame is a sequence of       *)
(* tokens: digits, "g" for a unit, "-", "+" and "N" for signs, "SP" for    *)
(* white space, "ST" and "US" for the markers, "x" for other letters and   *)
(* ":" for punctuation. A run of digits is a number; decimals are left     *)
(* out. normalize_minus has made one "-" of every minus.                   *)
(***************************************************************************)
EXTENDS Integers, Sequences, FiniteSets, SequencesExt

CONSTANTS
  Limit,        \* 1_000_000 in the code
  FrameTokens,  \* the tokens of the frames of Frames
  MaxFrame      \* bound on their number in a frame

default_unit == "kg"

Digits == {"1", "2"}
Unit == "g"
Signs == {"-", "+", "N"}
Tokens == Digits \cup Signs \cup {Unit, "SP", "ST", "US", "x", ":"}

ASSUME ParserAssumption ==
  /\ Limit \in Nat
  /\ FrameTokens \subseteq Tokens
  /\ MaxFrame \in Nat

Frames == UNION {[1..n -> FrameTokens] : n \in 0..MaxFrame}

TokenAt(f, i) == IF i \in 1..Len(f) THEN f[i] ELSE "end"

\* Behind the white space at i.
skip(f, i) ==
  CHOOSE j \in i..(Len(f) + 1) :
    TokenAt(f, j) # "SP" /\ \A k \in i..(j - 1) : TokenAt(f, k) = "SP"

\* The last digit of the number at j, and the number.
number_end(f, j) ==
  CHOOSE k \in j..Len(f) :
    (\A i \in j..k : f[i] \in Digits) /\ TokenAt(f, k + 1) \notin Digits
number(f, j) ==
  LET value[k \in j..number_end(f, j)] ==
        (IF k = j THEN 0 ELSE 10 * value[k - 1]) + (IF f[k] = "1" THEN 1 ELSE 2)
  IN value[number_end(f, j)]

\* Mutant: the sign behind the number comes first.
resolve_sign_SuffixFirst(prefix, suffix) ==
  IF suffix \in {"-", "+"} THEN suffix
  ELSE IF prefix \in {"-", "N"} THEN "-"
  ELSE IF prefix = "+" THEN "+"
  ELSE "none"

resolve_sign(prefix, suffix) ==
  IF prefix = "-" \/ suffix = "-" \/ prefix = "N" THEN "-"
  ELSE IF prefix = "+" \/ suffix = "+" THEN "+"
  ELSE "none"

\* The match whose number is at j, with the sign before it: the candidate, and
\* where the search goes on.
weight_match(f, prefix, j) ==
  LET u == skip(f, number_end(f, j) + 1)
      has_unit == TokenAt(f, u) = Unit
      e == IF has_unit THEN u + 1 ELSE number_end(f, j) + 1
      s == skip(f, e)
      suffix == IF TokenAt(f, s) \in {"-", "+"} THEN TokenAt(f, s) ELSE "none"
      sign == resolve_sign(prefix, suffix)
  IN [next |-> IF suffix = "none" THEN e ELSE s + 1,
      candidate |-> [at |-> j, weight |-> IF sign = "-" THEN -number(f, j) ELSE number(f, j),
                     has_unit |-> has_unit, sign |-> sign]]

\* Whether the expression matches at i, with a sign or without one.
signed(f, i) == TokenAt(f, i) \in Signs /\ TokenAt(f, skip(f, i + 1)) \in Digits
bare(f, i) == TokenAt(f, skip(f, i)) \in Digits
match_at(f, i) ==
  IF signed(f, i) THEN weight_match(f, TokenAt(f, i), skip(f, i + 1))
  ELSE weight_match(f, "none", skip(f, i))

\* Leftmost matches, one behind the other, from each position on.
captures(f) ==
  LET from[i \in 1..(Len(f) + 1)] ==
        IF i > Len(f) THEN {}
        ELSE IF signed(f, i) \/ bare(f, i)
        THEN {match_at(f, i).candidate} \cup from[match_at(f, i).next]
        ELSE from[i + 1]
  IN from[1]

\* Mutant: the range is checked for positive values only.
InRange_Positive(c) == c.weight <= Limit

InRange(c) == c.weight \in (-Limit)..Limit

candidates(f) == {c \in captures(f) : InRange(c)}

\* Mutant: the unit is not worth more than a sign.
score_candidate_Flat(c) == IF c.sign = "-" THEN 160 ELSE 0

score_candidate(c) ==
  (IF c.has_unit THEN 80 ELSE 0)
    + (CASE c.sign = "-" -> 40 + 120 [] c.sign = "+" -> 40 + 10 [] OTHER -> 0)

best_candidate(cs) ==
  CHOOSE c \in cs :
    \A o \in cs :
      \/ score_candidate(o) < score_candidate(c)
      \/ score_candidate(o) = score_candidate(c) /\ o.at <= c.at

\* A marker stands as a word of its own; "?" is a byte that is no text.
Has(f, marker) ==
  LET boundary(i) == TokenAt(f, i) \in {"-", "+", "SP", ":", "?", "end"}
  IN \E i \in 1..Len(f) : f[i] = marker /\ boundary(i - 1) /\ boundary(i + 1)

stable(f) == IF Has(f, "US") THEN "unstable" ELSE IF Has(f, "ST") THEN "stable" ELSE "unknown"

Parses(f) == candidates(f) # {}

\* Of a frame that parses.
parse_weight(f) ==
  LET best == best_candidate(candidates(f))
  IN [at |-> best.at, weight |-> best.weight,
      unit |-> IF best.has_unit THEN Unit ELSE default_unit, stable |-> stable(f)]

-------------------------------------------------------------------------------
(* What parse_weight should find, said without candidates and scores.      *)

NumbersOf(f) == {i \in 1..Len(f) : f[i] \in Digits /\ TokenAt(f, i - 1) \notin Digits}
InRangeOf(f) == {i \in NumbersOf(f) : number(f, i) <= Limit}

WithUnit(f) == {i \in InRangeOf(f) : TokenAt(f, skip(f, number_end(f, i) + 1)) = Unit}
UnitIsClear(f) ==
  (\A i \in 1..Len(f) : f[i] \notin Signs) /\ Cardinality(WithUnit(f)) = 1

\* The only number of a frame has a minus next to it, on either side of it and
\* its unit, or an N before it.
OneNumber(f) == Cardinality(NumbersOf(f)) = 1 /\ InRangeOf(f) # {}
Negative(f) ==
  \E i \in NumbersOf(f) :
    LET n == number_end(f, i)
        e == IF TokenAt(f, skip(f, n + 1)) = Unit THEN skip(f, n + 1) ELSE n
    IN \/ \E j \in 1..(i - 1) : f[j] \in {"-", "N"} /\ skip(f, j + 1) = i
       \/ TokenAt(f, skip(f, e + 1)) = "-"

NumbersKept ==
  \A f \in Frames :
    /\ Parses(f) <=> InRangeOf(f) # {}
    /\ Parses(f) => parse_weight(f).at \in InRangeOf(f)

UnitsDecide ==
  \A f \in Frames :
    UnitIsClear(f) => parse_weight(f).at \in WithUnit(f) /\ parse_weight(f).unit = Unit

MinusesSeen ==
  \A f \in Frames : OneNumber(f) => (parse_weight(f).weight < 0 <=> Negative(f))
===============================================================================
