--------------------------- MODULE ScaleStreamProofs ---------------------------
(***************************************************************************)
(* What the decoder and the parser make of any text, however it is cut     *)
(* into chunks: each frame gives its reading, no weight is made up before  *)
(* the scale has shown one, every number in range is found, and units and  *)
(* signs are read as they stand.                                           *)
(***************************************************************************)
EXTENDS ScaleStream, SequenceTheorems, FiniteSetTheorems, WellFoundedInduction, TLAPS

\* The flag of the decoder stands for a weight among the readings it has given.
FlagMeansWeight ==
  /\ \E S : out \in Seq(S)
  /\ seen_parsed_value => \E j \in 1..Len(out) : out[j].kind = "weight"

ZeroInv == FlagMeansWeight /\ ZeroNeedsValue

\* A reading is added: behind a weight if it is a zero, and a weight if the flag
\* comes to be set.
LEMMA AddReading ==
  ASSUME ZeroInv, NEW reading, out' = Append(out, reading),
         reading.kind = "zero" => seen_parsed_value,
         seen_parsed_value' => seen_parsed_value \/ reading.kind = "weight"
  PROVE  ZeroInv'
<1> PICK S : out \in Seq(S)
  BY DEF ZeroInv, FlagMeansWeight
<1> DEFINE n == Len(out)  T == S \cup {reading}
<1>1. out \in Seq(T) /\ reading \in T
  OBVIOUS
<1>2. /\ out' \in Seq(T) /\ Len(out') = n + 1 /\ n \in Nat
      /\ out'[n + 1] = reading /\ \A i \in 1..n : out'[i] = out[i]
      /\ DOMAIN out' = 1..(n + 1) /\ DOMAIN out = 1..n
  BY <1>1
<1> HIDE DEF n, T
<1>3. FlagMeansWeight'
  <2>1. \E U : out' \in Seq(U)
    BY <1>2
  <2>2. seen_parsed_value => \E j \in 1..n : out[j].kind = "weight"
    BY DEF ZeroInv, FlagMeansWeight, n
  <2>3. seen_parsed_value' => \E j \in 1..(n + 1) : out'[j].kind = "weight"
    BY <1>2, <2>2
  <2>4. QED
    BY <1>2, <2>1, <2>3 DEF FlagMeansWeight
<1>4. ZeroNeedsValue'
  <2> SUFFICES ASSUME NEW k \in 1..(n + 1), out'[k].kind = "zero"
               PROVE  \E j \in 1..(k - 1) : out'[j].kind = "weight"
    BY <1>2 DEF ZeroNeedsValue
  <2>1. CASE k \in 1..n
    <3>1. PICK j \in 1..(k - 1) : out[j].kind = "weight"
      BY <1>2, <2>1 DEF ZeroInv, ZeroNeedsValue
    <3>2. QED
      BY <1>2, <2>1, <3>1
  <2>2. CASE k = n + 1
    <3>1. PICK j \in 1..n : out[j].kind = "weight"
      BY <1>2, <2>2 DEF ZeroInv, FlagMeansWeight, n
    <3>2. QED
      BY <1>2, <2>2, <3>1
  <2>3. QED
    BY <1>2, <2>1, <2>2
<1>5. QED
  BY <1>3, <1>4 DEF ZeroInv

\* A step that leaves the readings and the flag alone.
LEMMA SameReadings ==
  ASSUME ZeroInv, UNCHANGED <<out, seen_parsed_value>>
  PROVE  ZeroInv'
  BY DEF ZeroInv, FlagMeansWeight, ZeroNeedsValue

\* Of the ways through frame_to_reading only the one with the flag gives a zero.
LEMMA FrameStep ==
  ASSUME ZeroInv, NEW text, frame_to_reading(text)
  PROVE  ZeroInv'
<1> DEFINE R(kind, weight, unit) ==
      [kind |-> kind, text |-> text, weight |-> weight, unit |-> unit]
<1>1. CASE UNCHANGED <<seen_parsed_value, out>>
  BY <1>1, SameReadings
<1>2. CASE text = <<>> /\ seen_parsed_value /\ ~UNCHANGED <<seen_parsed_value, out>>
  <2>1. out' = Append(out, R("zero", 0, last_unit)) /\ UNCHANGED seen_parsed_value
    BY <1>2 DEF frame_to_reading, Emit
  <2>2. QED
    BY <1>2, <2>1, AddReading
<1>3. CASE text # <<>> /\ ~Parses(text)
  <2>1. out' = Append(out, R("raw", 0, last_unit)) /\ UNCHANGED seen_parsed_value
    BY <1>3 DEF frame_to_reading, Emit
  <2>2. R("raw", 0, last_unit).kind # "zero"
    OBVIOUS
  <2>3. QED
    BY <2>1, <2>2, AddReading
<1>4. CASE text # <<>> /\ Parses(text)
  <2>1. out' = Append(out, R("weight", parse_weight(text).weight, last_unit'))
    BY <1>4 DEF frame_to_reading, Emit
  <2>2. R("weight", parse_weight(text).weight, last_unit').kind = "weight"
    OBVIOUS
  <2> HIDE DEF R
  <2>3. QED
    BY <2>1, <2>2, AddReading
<1>5. QED
  BY <1>1, <1>2, <1>3, <1>4 DEF frame_to_reading

LEMMA NextZero == ZeroInv /\ [Next]_vars => ZeroInv'
<1> SUFFICES ASSUME ZeroInv, [Next]_vars PROVE ZeroInv'
  OBVIOUS
<1>1. CASE next_frame
  BY <1>1, FrameStep DEF next_frame
<1>2. CASE \E chunk \in Chunks : push_chunk(chunk)
  BY <1>2, SameReadings DEF push_chunk
<1>3. CASE UNCHANGED vars
  BY <1>3, SameReadings DEF vars
<1>4. QED
  BY <1>1, <1>2, <1>3 DEF Next

\* An empty frame is reported as a zero weight only behind a weight of the same
\* connection, whatever the scale sends and however it is cut into chunks.
THEOREM ZeroCorrect == Spec => []ZeroNeedsValue
<1>1. Init => ZeroInv
  <2> SUFFICES ASSUME Init PROVE ZeroInv
    OBVIOUS
  <2>1. out \in Seq({}) /\ Len(out) = 0
    BY DEF Init
  <2>2. QED
    BY <2>1 DEF Init, ZeroInv, FlagMeansWeight, ZeroNeedsValue
<1>2. ZeroInv => ZeroNeedsValue
  BY DEF ZeroInv
<1>3. QED
  BY <1>1, <1>2, NextZero, PTL DEF Spec

-------------------------------------------------------------------------------
(* Least numbers, and functions defined by recursion.                      *)

\* A set of numbers that is not empty has a least one.
LEMMA LeastNumber ==
  ASSUME NEW T, T \subseteq Nat, T # {}
  PROVE  \E x \in T : \A y \in T : ~(y < x)
<1> DEFINE R == {p \in Nat \X Nat : p[1] < p[2]}
<1>1. PICK x \in T : \A y \in T : ~(<<y, x>> \in R)
  <2>1. IsWellFoundedOn(R, Nat)
    BY NatLessThanWellFounded, Zenon DEF OpToRel
  <2> HIDE DEF R
  <2> QED
    BY <2>1, WFMin, Zenon
<1>2. ASSUME NEW y \in T, y < x PROVE FALSE
  <2>1. <<y, x>> \in R
    BY <1>2
  <2>2. QED
    BY <1>1, <2>1
<1>3. QED
  BY <1>2

\* G computes the values of a function at each argument from those at arguments
\* of a smaller rank r.
Descends(D, V, N, r, G) ==
  /\ V # {} /\ N \in Nat /\ r \in [D -> 0..N]
  /\ G \in [[D -> V] -> [D -> V]]
  /\ \A i \in D, g \in [D -> V], h \in [D -> V] :
       (\A j \in D : r[j] < r[i] => g[j] = h[j]) => G[g][i] = G[h][i]

\* Then the function exists.
LEMMA RecursionExists ==
  ASSUME NEW D, NEW V, NEW N, NEW r, NEW G, Descends(D, V, N, r, G)
  PROVE  \E g \in [D -> V] : g = G[g]
<1> USE DEF Descends
<1> DEFINE Upto(n) == \E g \in [D -> V] : \A i \in D : r[i] < n => g[i] = G[g][i]
           T == {n \in 0..(N + 1) : ~Upto(n)}
<1>1. Upto(0)
  <2>1. PICK v \in V : TRUE
    OBVIOUS
  <2>2. [i \in D |-> v] \in [D -> V] /\ \A i \in D : ~(r[i] < 0)
    OBVIOUS
  <2>3. QED
    BY <2>2
<1>2. ASSUME NEW n \in Nat, Upto(n) PROVE Upto(n + 1)
  <2>1. PICK g \in [D -> V] : \A i \in D : r[i] < n => g[i] = G[g][i]
    BY <1>2
  <2> DEFINE h == [i \in D |-> IF r[i] = n THEN G[g][i] ELSE g[i]]
  <2>2. h \in [D -> V]
    OBVIOUS
  <2>3. \A i \in D : r[i] # n => h[i] = g[i]
    OBVIOUS
  <2>4. \A i \in D : r[i] = n => h[i] = G[g][i]
    OBVIOUS
  <2> HIDE DEF h
  <2>5. ASSUME NEW i \in D, r[i] < n + 1 PROVE h[i] = G[h][i]
    <3>1. r[i] \in Nat /\ \A j \in D : r[j] \in Nat
      OBVIOUS
    <3>2. \A j \in D : r[j] < r[i] => g[j] = h[j]
      BY <2>3, <2>5, <3>1
    <3>3. G[g][i] = G[h][i]
      BY <2>2, <3>2
    <3>4. CASE r[i] = n
      BY <2>4, <3>3, <3>4
    <3>5. CASE r[i] < n
      BY <2>1, <2>3, <3>1, <3>3, <3>5
    <3>6. r[i] = n \/ r[i] < n
      <4> HIDE DEF Descends
      <4> QED
        BY <2>5, <3>1
    <3>7. QED
      BY <3>4, <3>5, <3>6, Zenon
  <2>6. QED
    BY <2>2, <2>5
<1>3. Upto(N + 1)
  <2> SUFFICES ASSUME ~Upto(N + 1) PROVE FALSE
    OBVIOUS
  <2>1. T \subseteq Nat /\ T # {}
    <3> HIDE DEF Upto
    <3> QED OBVIOUS
  <2>2. PICK n \in T : \A y \in T : ~(y < n)
    <3> HIDE DEF T
    <3> QED
      BY <2>1, LeastNumber
  <2> HIDE DEF Upto
  <2>3. n \in 0..(N + 1) /\ ~Upto(n)
    OBVIOUS
  <2>4. n # 0 /\ n - 1 \in 0..(N + 1) /\ n - 1 < n /\ n - 1 \in Nat /\ (n - 1) + 1 = n
    BY <1>1, <2>3
  <2>5. Upto(n - 1)
    BY <2>2, <2>4
  <2>6. QED
    BY <1>2, <2>3, <2>4, <2>5
<1>4. QED
  BY <1>3

-------------------------------------------------------------------------------
(* White space and numbers.                                                *)

\* White space ends.
LEMMA SkipFound ==
  ASSUME NEW f, Len(f) \in Nat, NEW i \in 1..(Len(f) + 1)
  PROVE  /\ skip(f, i) \in i..(Len(f) + 1)
         /\ TokenAt(f, skip(f, i)) # "SP"
         /\ \A k \in i..(skip(f, i) - 1) : TokenAt(f, k) = "SP"
<1> DEFINE n == Len(f) + 1
           T == {k \in i..n : TokenAt(f, k) # "SP"}
<1>1. n \in Nat /\ i \in 1..n /\ TokenAt(f, n) # "SP"
  BY DEF TokenAt
<1> HIDE DEF n
<1>2. T \subseteq Nat /\ n \in T
  BY <1>1
<1>3. PICK x \in T : \A y \in T : ~(y < x)
  <2> HIDE DEF T
  <2> QED
    BY <1>2, LeastNumber
<1>4. x \in i..n /\ TokenAt(f, x) # "SP"
  OBVIOUS
<1>5. \A k \in i..(x - 1) : TokenAt(f, k) = "SP"
  <2> SUFFICES ASSUME NEW k \in i..(x - 1), TokenAt(f, k) # "SP" PROVE FALSE
    OBVIOUS
  <2>1. k \in i..n /\ k < x
    BY <1>1, <1>4
  <2>2. QED
    BY <1>3, <2>1
<1>6. QED
  BY <1>4, <1>5, Zenon DEF skip, n

\* A number ends.
LEMMA NumberEndFound ==
  ASSUME NEW f, Len(f) \in Nat, NEW j \in 1..Len(f), f[j] \in Digits
  PROVE  /\ number_end(f, j) \in j..Len(f)
         /\ \A i \in j..number_end(f, j) : f[i] \in Digits
         /\ TokenAt(f, number_end(f, j) + 1) \notin Digits
<1> DEFINE T == {k \in j..Len(f) : TokenAt(f, k + 1) \notin Digits}
<1>1. T \subseteq Nat
  OBVIOUS
<1>2. Len(f) \in T
  BY DEF TokenAt, Digits
<1>3. PICK x \in T : \A y \in T : ~(y < x)
  <2> HIDE DEF T
  <2> QED
    BY <1>1, <1>2, LeastNumber
<1>4. x \in j..Len(f) /\ TokenAt(f, x + 1) \notin Digits
  OBVIOUS
<1>5. \A i \in j..x : f[i] \in Digits
  <2> SUFFICES ASSUME NEW i \in j..x, f[i] \notin Digits PROVE FALSE
    OBVIOUS
  <2>1. i # j /\ i - 1 \in j..Len(f) /\ i - 1 < x /\ (i - 1) + 1 = i /\ i \in 1..Len(f)
    BY <1>4
  <2>2. TokenAt(f, i) \notin Digits
    BY <2>1 DEF TokenAt
  <2>3. i - 1 \in T
    BY <2>1, <2>2
  <2> HIDE DEF T
  <2>4. QED
    BY <1>3, <2>1, <2>3
<1>6. QED
  BY <1>4, <1>5, Zenon DEF number_end

\* Every digit belongs to a number.
LEMMA NumberStartFound ==
  ASSUME NEW f, Len(f) \in Nat, NEW q \in 1..Len(f), f[q] \in Digits
  PROVE  \E i \in NumbersOf(f) : i <= q
<1> DEFINE T == {s \in 1..q : \A k \in s..q : f[k] \in Digits}
<1>1. T \subseteq Nat
  OBVIOUS
<1>2. q \in T
  OBVIOUS
<1>3. PICK x \in T : \A y \in T : ~(y < x)
  <2> HIDE DEF T
  <2> QED
    BY <1>1, <1>2, LeastNumber
<1>4. x \in 1..q /\ f[x] \in Digits /\ \A k \in x..q : f[k] \in Digits
  OBVIOUS
<1>5. TokenAt(f, x - 1) \notin Digits
  <2> SUFFICES ASSUME TokenAt(f, x - 1) \in Digits PROVE FALSE
    OBVIOUS
  <2>1. x - 1 \in 1..Len(f) /\ f[x - 1] \in Digits
    BY DEF TokenAt, Digits
  <2>2. x - 1 \in 1..q /\ x - 1 < x
    BY <1>4, <2>1
  <2>3. \A k \in (x - 1)..q : f[k] \in Digits
    BY <1>4, <2>1
  <2>4. x - 1 \in T
    BY <2>2, <2>3
  <2> HIDE DEF T
  <2>5. QED
    BY <1>3, <2>2, <2>4
<1>6. QED
  BY <1>4, <1>5 DEF NumbersOf

\* A number is positive.
LEMMA NumberPositive ==
  ASSUME NEW f, Len(f) \in Nat, NEW j \in 1..Len(f), f[j] \in Digits
  PROVE  number(f, j) \in Nat /\ number(f, j) > 0
<1> DEFINE e == number_end(f, j)
           D == j..e
           V == Nat \ {0}
           Digit(k) == IF f[k] = "1" THEN 1 ELSE 2
           Body(g, k) == (IF k = j THEN 0 ELSE 10 * g[k - 1]) + Digit(k)
           value == CHOOSE g : g = [k \in D |-> Body(g, k)]
           r == [k \in D |-> k]
           G == [g \in [D -> V] |-> [k \in D |-> Body(g, k)]]
<1>1. number(f, j) = value[e]
  BY Zenon DEF number
<1>2. e \in j..Len(f)
  BY NumberEndFound
<1> HIDE DEF e
<1>3. V # {} /\ Len(f) \in Nat /\ r \in [D -> 0..Len(f)]
  BY <1>2
<1>4. \A g \in [D -> V], i \in D : Body(g, i) \in V
  <2> SUFFICES ASSUME NEW g \in [D -> V], NEW i \in D PROVE Body(g, i) \in V
    OBVIOUS
  <2>1. CASE i = j
    BY <2>1
  <2>2. CASE i # j
    <3>1. i - 1 \in D
      BY <1>2, <2>2
    <3>2. g[i - 1] \in Nat
      BY <3>1
    <3>3. QED
      BY <2>2, <3>2
  <2>3. QED
    BY <2>1, <2>2
<1>5. \A g \in [D -> V], i \in D : G[g][i] = Body(g, i)
  <2> HIDE DEF Body
  <2> QED
    OBVIOUS
<1>6. ASSUME NEW i \in D, NEW g \in [D -> V], NEW h \in [D -> V],
             \A k \in D : r[k] < r[i] => g[k] = h[k]
      PROVE  G[g][i] = G[h][i]
  <2>1. Body(g, i) = Body(h, i)
    <3>1. CASE i = j
      BY <3>1
    <3>2. CASE i # j
      <4>1. i - 1 \in D /\ r[i - 1] < r[i]
        BY <1>2, <3>2
      <4>2. g[i - 1] = h[i - 1]
        BY <1>6, <4>1
      <4>3. QED
        BY <3>2, <4>2
    <3>3. QED
      BY <3>1, <3>2
  <2> HIDE DEF Body, r, G, D, V
  <2>2. QED
    BY <1>5, <2>1
<1>7. Descends(D, V, Len(f), r, G)
  <2>1. G \in [[D -> V] -> [D -> V]]
    <3> HIDE DEF Body, D, V
    <3> QED
      BY <1>4
  <2> HIDE DEF D, V, r, G, Body
  <2>2. QED
    BY <1>3, <1>6, <2>1, Zenon DEF Descends
<1>8. PICK g \in [D -> V] : g = [k \in D |-> Body(g, k)]
  <2>1. PICK g \in [D -> V] : g = G[g]
    <3> HIDE DEF D, V, r, G, Body
    <3> QED
      BY <1>7, RecursionExists
  <2> HIDE DEF Body, D, V
  <2>2. QED
    BY <2>1
<1>9. value = [k \in D |-> Body(value, k)]
  <2> HIDE DEF Body, D
  <2> QED
    BY <1>8
<1> HIDE DEF value
<1> DEFINE T == {k \in D : ~(value[k] \in Nat /\ value[k] > 0)}
<1>10. T = {}
  <2> SUFFICES ASSUME T # {} PROVE FALSE
    OBVIOUS
  <2>1. PICK x \in T : \A y \in T : ~(y < x)
    <3>1. T \subseteq Nat
      BY <1>2
    <3> HIDE DEF T
    <3> QED
      BY <3>1, LeastNumber
  <2>2. x \in D /\ ~(value[x] \in Nat /\ value[x] > 0)
    OBVIOUS
  <2>3. value[x] = Body(value, x)
    <3> HIDE DEF Body, D
    <3> QED
      BY <1>9, <2>2
  <2>4. CASE x = j
    BY <2>2, <2>3, <2>4
  <2>5. CASE x # j
    <3>1. x - 1 \in D /\ x - 1 < x
      BY <1>2, <2>5
    <3>2. ~(x - 1 \in T)
      <4> HIDE DEF T
      <4> QED
        BY <2>1, <3>1
    <3>3. value[x - 1] \in Nat /\ value[x - 1] > 0
      BY <3>1, <3>2
    <3> DEFINE v == value[x - 1]
    <3>4. value[x] = 10 * v + Digit(x) /\ Digit(x) \in 1..2
      BY <2>3, <2>5
    <3>5. v \in Nat
      BY <3>3
    <3> HIDE DEF v, Digit
    <3>6. value[x] \in Nat /\ value[x] > 0
      BY <3>4, <3>5
    <3>7. QED
      BY <2>2, <3>6
  <2>6. QED
    BY <2>4, <2>5
<1>11. e \in D
  BY <1>2
<1>12. QED
  BY <1>1, <1>10, <1>11

-------------------------------------------------------------------------------
(* What stands behind a number: its unit, its suffix, the next match.      *)

UnitAt(f, q) == skip(f, number_end(f, q) + 1)
End(f, q) == IF TokenAt(f, UnitAt(f, q)) = Unit THEN UnitAt(f, q) + 1 ELSE number_end(f, q) + 1
SuffixAt(f, q) == skip(f, End(f, q))
Suffix(f, q) ==
  IF TokenAt(f, SuffixAt(f, q)) \in {"-", "+"} THEN TokenAt(f, SuffixAt(f, q)) ELSE "none"
NextAt(f, q) == IF Suffix(f, q) = "none" THEN End(f, q) ELSE SuffixAt(f, q) + 1

\* A match and its parts, by the names above.
LEMMA MatchIs ==
  ASSUME NEW f, NEW prefix, NEW q
  PROVE  weight_match(f, prefix, q) =
           [next |-> NextAt(f, q),
            candidate |->
              [at |-> q,
               weight |-> IF resolve_sign(prefix, Suffix(f, q)) = "-" THEN -number(f, q)
                          ELSE number(f, q),
               has_unit |-> TokenAt(f, UnitAt(f, q)) = Unit,
               sign |-> resolve_sign(prefix, Suffix(f, q))]]
  BY Zenon DEF weight_match, NextAt, SuffixAt, Suffix, End, UnitAt

LEMMA MatchNext ==
  ASSUME NEW f, NEW prefix, NEW q \in Nat
  PROVE  /\ weight_match(f, prefix, q).next = NextAt(f, q)
         /\ weight_match(f, prefix, q).candidate.at = q
  BY MatchIs

LEMMA MatchUnit ==
  ASSUME NEW f, NEW prefix, NEW q \in Nat
  PROVE  weight_match(f, prefix, q).candidate.has_unit <=> TokenAt(f, UnitAt(f, q)) = Unit
  BY MatchIs

LEMMA MatchSign ==
  ASSUME NEW f, NEW prefix, NEW q \in Nat, NEW sign, sign = resolve_sign(prefix, Suffix(f, q))
  PROVE  /\ weight_match(f, prefix, q).candidate.sign = sign
         /\ weight_match(f, prefix, q).candidate.weight =
              IF sign = "-" THEN -number(f, q) ELSE number(f, q)
  BY MatchIs

\* Behind a number at q the search goes on within the text, not inside of a
\* number, and jumps over no number.
Clean(f, i) == TokenAt(f, i - 1) \notin Digits \/ TokenAt(f, i) \notin Digits

LEMMA NextIsClean ==
  ASSUME NEW f, Len(f) \in Nat, NEW q \in 1..Len(f), f[q] \in Digits
  PROVE  /\ NextAt(f, q) \in (q + 1)..(Len(f) + 1)
         /\ Clean(f, NextAt(f, q))
         /\ \A k \in (q + 1)..(NextAt(f, q) - 1) : k \notin NumbersOf(f)
<1> DEFINE n == number_end(f, q)
           u == UnitAt(f, q)
           e == End(f, q)
           s == SuffixAt(f, q)
<1>1. n \in q..Len(f) /\ TokenAt(f, n + 1) \notin Digits
  BY NumberEndFound
<1>2. \A i \in q..n : f[i] \in Digits
  BY NumberEndFound
<1>3. /\ u \in (n + 1)..(Len(f) + 1)
      /\ \A k \in (n + 1)..(u - 1) : TokenAt(f, k) = "SP"
  <2>1. n + 1 \in 1..(Len(f) + 1)
    BY <1>1
  <2> HIDE DEF n
  <2>2. QED
    BY <2>1, SkipFound DEF UnitAt, n
<1>4. \/ e = u + 1 /\ TokenAt(f, u) = Unit /\ u \in 1..Len(f)
      \/ e = n + 1
  <2>1. TokenAt(f, u) = Unit => u \in 1..Len(f)
    BY DEF TokenAt, Unit
  <2>2. QED
    BY <2>1, Zenon DEF End
<1> HIDE DEF n, u, e
<1>5. e \in 1..(Len(f) + 1) /\ e \in (n + 1)..(Len(f) + 1)
  BY <1>1, <1>3, <1>4
<1>6. /\ s \in e..(Len(f) + 1)
      /\ \A k \in e..(s - 1) : TokenAt(f, k) = "SP"
  BY <1>5, SkipFound DEF SuffixAt, e
<1>7. \/ NextAt(f, q) = s + 1 /\ TokenAt(f, s) \in {"-", "+"} /\ s \in 1..Len(f)
      \/ NextAt(f, q) = e
  <2>1. TokenAt(f, s) \in {"-", "+"} => s \in 1..Len(f)
    BY DEF TokenAt
  <2>2. QED
    BY <2>1, Zenon DEF NextAt, Suffix, e
<1> HIDE DEF s
<1> DEFINE x == NextAt(f, q)
<1>8. (x = s + 1 /\ TokenAt(f, s) \in {"-", "+"} /\ s \in 1..Len(f)) \/ x = e
  BY <1>7
<1> HIDE DEF x
<1>9. x \in (q + 1)..(Len(f) + 1)
  BY <1>1, <1>5, <1>6, <1>8
<1>10. Clean(f, x)
  <2>1. CASE x = s + 1 /\ TokenAt(f, s) \in {"-", "+"} /\ s \in 1..Len(f)
    <3>1. x - 1 = s
      BY <2>1
    <3>2. QED
      BY <2>1, <3>1 DEF Clean, Digits
  <2>2. CASE x = e /\ e = n + 1
    BY <1>1, <2>2 DEF Clean
  <2>3. CASE x = e /\ e = u + 1 /\ TokenAt(f, u) = Unit
    <3>1. x - 1 = u
      BY <1>1, <1>3, <2>3
    <3>2. QED
      BY <2>3, <3>1 DEF Clean, Digits, Unit
  <2>4. QED
    BY <1>4, <1>8, <2>1, <2>2, <2>3
<1>11. ASSUME NEW k \in (q + 1)..(x - 1), k \in NumbersOf(f) PROVE FALSE
  <2>1. k \in 1..Len(f) /\ f[k] \in Digits /\ TokenAt(f, k - 1) \notin Digits
    BY <1>11 DEF NumbersOf
  <2>2. TokenAt(f, k) = f[k]
    BY <2>1 DEF TokenAt
  <2>3. CASE k \in (q + 1)..n
    <3>1. k - 1 \in q..n /\ k - 1 \in 1..Len(f)
      BY <1>1, <2>3
    <3>2. f[k - 1] \in Digits /\ TokenAt(f, k - 1) = f[k - 1]
      BY <1>2, <3>1 DEF TokenAt
    <3>3. QED
      BY <2>1, <3>2
  <2>4. CASE k \in (n + 1)..(u - 1)
    BY <1>3, <2>1, <2>2, <2>4 DEF Digits
  <2>5. CASE k = u /\ TokenAt(f, u) = Unit
    BY <2>1, <2>2, <2>5 DEF Digits, Unit
  <2>6. CASE k \in e..(s - 1)
    BY <1>6, <2>1, <2>2, <2>6 DEF Digits
  <2>7. CASE k = s /\ TokenAt(f, s) \in {"-", "+"}
    BY <2>1, <2>2, <2>7 DEF Digits
  <2>8. QED
    <3>1. CASE e = n + 1
      BY <1>1, <1>5, <1>6, <1>8, <1>9, <1>11, <2>3, <2>6, <2>7, <3>1
    <3>2. CASE e = u + 1 /\ TokenAt(f, u) = Unit
      <4>1. k \in (q + 1)..n \/ k \in (n + 1)..(u - 1) \/ k = u \/ k \in e..(s - 1) \/ k = s
        BY <1>1, <1>3, <1>5, <1>6, <1>8, <3>2
      <4>2. k = s => TokenAt(f, s) \in {"-", "+"} \/ k \in e..(s - 1)
        BY <1>1, <1>3, <1>5, <1>6, <1>8, <3>2
      <4>3. QED
        BY <2>3, <2>4, <2>5, <2>6, <2>7, <3>2, <4>1, <4>2
    <3>3. QED
      BY <1>4, <3>1, <3>2
<1>12. QED
  BY <1>9, <1>10, <1>11 DEF x

\* A number has the sign before it, or none.
Prefix(f, prefix, q) ==
  prefix = "none" \/ \E p \in 1..(q - 1) : f[p] = prefix /\ prefix \in Signs /\ skip(f, p + 1) = q

\* A match is that of a number, with the sign before it.
LEMMA MatchAt ==
  ASSUME NEW f, Len(f) \in Nat, NEW i \in 1..Len(f), signed(f, i) \/ bare(f, i)
  PROVE  \E q \in i..Len(f), prefix \in Signs \cup {"none"} :
           /\ f[q] \in Digits
           /\ match_at(f, i) = weight_match(f, prefix, q)
           /\ Prefix(f, prefix, q)
           /\ \A k \in i..(q - 1) : f[k] \notin Digits
           /\ Clean(f, i) => q \in NumbersOf(f)
<1>1. CASE signed(f, i)
  <2> DEFINE q == skip(f, i + 1)
  <2>1. i + 1 \in 1..(Len(f) + 1)
    OBVIOUS
  <2>2. q \in (i + 1)..(Len(f) + 1) /\ \A k \in (i + 1)..(q - 1) : TokenAt(f, k) = "SP"
    BY <2>1, SkipFound
  <2>3. TokenAt(f, i) \in Signs /\ TokenAt(f, q) \in Digits
    BY <1>1 DEF signed
  <2>4. match_at(f, i) = weight_match(f, TokenAt(f, i), q)
    BY <1>1 DEF match_at
  <2> HIDE DEF q
  <2>5. TokenAt(f, i) = f[i]
    BY DEF TokenAt
  <2>6. q \in 1..Len(f) /\ TokenAt(f, q) = f[q]
    BY <2>2, <2>3 DEF TokenAt, Digits
  <2>7. q \in i..Len(f) /\ i \in 1..(q - 1)
    BY <2>2, <2>6
  <2>8. \A k \in i..(q - 1) : f[k] \notin Digits /\ TokenAt(f, k) \notin Digits
    <3> SUFFICES ASSUME NEW k \in i..(q - 1)
                 PROVE  TokenAt(f, k) = f[k] /\ TokenAt(f, k) \notin Digits
      OBVIOUS
    <3>1. TokenAt(f, k) = f[k]
      BY <2>7 DEF TokenAt
    <3>2. CASE k = i
      BY <2>3, <3>1, <3>2 DEF Signs, Digits
    <3>3. CASE k # i
      <4>1. k \in (i + 1)..(q - 1)
        BY <2>7, <3>3
      <4>2. QED
        BY <2>2, <3>1, <4>1 DEF Digits
    <3>4. QED
      BY <3>2, <3>3
  <2>9. q - 1 \in i..(q - 1)
    BY <2>7
  <2>10. q \in NumbersOf(f)
    BY <2>3, <2>6, <2>8, <2>9 DEF NumbersOf
  <2>11. Prefix(f, f[i], q)
    BY <2>3, <2>5, <2>7 DEF Prefix, q
  <2>12. QED
    BY <2>3, <2>4, <2>5, <2>6, <2>7, <2>8, <2>10, <2>11
<1>2. CASE ~signed(f, i) /\ bare(f, i)
  <2> DEFINE q == skip(f, i)
  <2>1. i \in 1..(Len(f) + 1)
    OBVIOUS
  <2>2. q \in i..(Len(f) + 1) /\ \A k \in i..(q - 1) : TokenAt(f, k) = "SP"
    BY <2>1, SkipFound
  <2>3. TokenAt(f, q) \in Digits
    BY <1>2 DEF bare
  <2>4. match_at(f, i) = weight_match(f, "none", q)
    BY <1>2 DEF match_at
  <2> HIDE DEF q
  <2>5. q \in i..Len(f) /\ q \in 1..Len(f) /\ TokenAt(f, q) = f[q]
    BY <2>2, <2>3 DEF TokenAt, Digits
  <2>6. \A k \in i..(q - 1) : f[k] \notin Digits
    <3> SUFFICES ASSUME NEW k \in i..(q - 1) PROVE f[k] \notin Digits
      OBVIOUS
    <3>1. TokenAt(f, k) = f[k]
      BY <2>5 DEF TokenAt
    <3>2. QED
      BY <2>2, <3>1 DEF Digits
  <2>7. Clean(f, i) => TokenAt(f, q - 1) \notin Digits
    <3>1. CASE q = i
      BY <2>3, <3>1 DEF Clean
    <3>2. CASE q # i
      <4>1. q - 1 \in i..(q - 1)
        BY <2>5, <3>2
      <4>2. QED
        BY <2>2, <4>1 DEF Digits
    <3>3. QED
      BY <3>1, <3>2
  <2>8. QED
    BY <2>3, <2>4, <2>5, <2>6, <2>7 DEF NumbersOf, Prefix
<1>3. QED
  BY <1>1, <1>2

-------------------------------------------------------------------------------
(* What the search finds from each position on.                            *)

Scan(f, from, i) ==
  IF i > Len(f) THEN {}
  ELSE IF signed(f, i) \/ bare(f, i)
  THEN {match_at(f, i).candidate} \cup from[match_at(f, i).next]
  ELSE from[i + 1]

\* The search moves on with each match, which is why it ends.
LEMMA ScanGoesOn ==
  ASSUME NEW f, Len(f) \in Nat, NEW i \in 1..Len(f), signed(f, i) \/ bare(f, i)
  PROVE  match_at(f, i).next \in (i + 1)..(Len(f) + 1)
<1>1. PICK q \in i..Len(f), prefix \in Signs \cup {"none"} :
        f[q] \in Digits /\ match_at(f, i) = weight_match(f, prefix, q)
  BY MatchAt
<1>2. match_at(f, i).next = NextAt(f, q)
  BY <1>1, MatchNext
<1>3. q \in 1..Len(f)
  OBVIOUS
<1>4. NextAt(f, q) \in (q + 1)..(Len(f) + 1)
  BY <1>1, <1>3, NextIsClean
<1>5. QED
  BY <1>2, <1>3, <1>4

\* captures is defined by recursion; the positions to go are the rank.
LEMMA CapturesFound ==
  ASSUME NEW f, Len(f) \in Nat
  PROVE  \E from : /\ captures(f) = from[1]
                   /\ \A i \in 1..(Len(f) + 1) : from[i] = Scan(f, from, i)
<1> DEFINE n == Len(f)
           D == 1..(n + 1)
           C == {match_at(f, i).candidate : i \in 1..n}
           V == SUBSET C
           from == CHOOSE g : g = [i \in D |-> Scan(f, g, i)]
           r == [i \in D |-> n + 1 - i]
           G == [g \in [D -> V] |-> [i \in D |-> Scan(f, g, i)]]
<1>1. captures(f) = from[1]
  BY Zenon DEF captures, Scan
<1>2. V # {} /\ n \in Nat /\ r \in [D -> 0..n]
  <2>1. n \in Nat
    OBVIOUS
  <2> HIDE DEF n, C
  <2>2. QED
    BY <2>1
<1>3. \A i \in 1..n : signed(f, i) \/ bare(f, i) =>
        match_at(f, i).next \in D /\ r[match_at(f, i).next] < r[i]
  <2> SUFFICES ASSUME NEW i \in 1..n, signed(f, i) \/ bare(f, i)
               PROVE  match_at(f, i).next \in D /\ r[match_at(f, i).next] < r[i]
    OBVIOUS
  <2> DEFINE x == match_at(f, i).next
  <2>1. x \in (i + 1)..(n + 1)
    BY ScanGoesOn
  <2> HIDE DEF x, n
  <2>2. x \in D /\ r[x] < r[i]
    BY <1>2, <2>1
  <2>3. QED
    BY <2>2 DEF x
<1>4. \A i \in D : ~(i > n) => i \in 1..n /\ i + 1 \in D /\ r[i + 1] < r[i]
  BY <1>2
<1>5. \A i \in 1..n : match_at(f, i).candidate \in C
  OBVIOUS
<1>6. \A g \in [D -> V], i \in D : Scan(f, g, i) \in V
  <2> SUFFICES ASSUME NEW g \in [D -> V], NEW i \in D PROVE Scan(f, g, i) \in V
    OBVIOUS
  <2> HIDE DEF D, C, r
  <2>1. CASE i > n
    BY <2>1 DEF Scan
  <2>2. CASE ~(i > n) /\ (signed(f, i) \/ bare(f, i))
    <3>1. g[match_at(f, i).next] \in V /\ match_at(f, i).candidate \in C
      BY <1>3, <1>4, <1>5, <2>2
    <3>2. Scan(f, g, i) = {match_at(f, i).candidate} \cup g[match_at(f, i).next]
      BY <2>2 DEF Scan
    <3>3. QED
      BY <3>1, <3>2
  <2>3. CASE ~(i > n) /\ ~(signed(f, i) \/ bare(f, i))
    <3>1. g[i + 1] \in V
      BY <1>4, <2>3
    <3>2. QED
      BY <2>3, <3>1 DEF Scan
  <2>4. QED
    BY <2>1, <2>2, <2>3
<1>7. ASSUME NEW i \in D, NEW g \in [D -> V], NEW h \in [D -> V],
             \A k \in D : r[k] < r[i] => g[k] = h[k]
      PROVE  Scan(f, g, i) = Scan(f, h, i)
  <2> HIDE DEF D, V, r
  <2>1. CASE i > n
    BY <2>1 DEF Scan
  <2>2. CASE ~(i > n) /\ (signed(f, i) \/ bare(f, i))
    <3>1. g[match_at(f, i).next] = h[match_at(f, i).next]
      BY <1>3, <1>4, <1>7, <2>2
    <3>2. QED
      BY <2>2, <3>1 DEF Scan
  <2>3. CASE ~(i > n) /\ ~(signed(f, i) \/ bare(f, i))
    <3>1. g[i + 1] = h[i + 1]
      BY <1>4, <1>7, <2>3
    <3>2. QED
      BY <2>3, <3>1 DEF Scan
  <2>4. QED
    BY <2>1, <2>2, <2>3
<1>8. Descends(D, V, n, r, G)
  <2>1. G \in [[D -> V] -> [D -> V]]
    <3> HIDE DEF D, V
    <3> QED
      BY <1>6
  <2>2. \A g \in [D -> V], i \in D : G[g][i] = Scan(f, g, i)
    <3> HIDE DEF D, V
    <3> QED
      OBVIOUS
  <2> HIDE DEF D, V, r, G, n
  <2>3. ASSUME NEW i \in D, NEW g \in [D -> V], NEW h \in [D -> V],
               \A k \in D : r[k] < r[i] => g[k] = h[k]
        PROVE  G[g][i] = G[h][i]
    BY <1>7, <2>2, <2>3
  <2>4. QED
    BY <1>2, <2>1, <2>3, Zenon DEF Descends
<1>9. PICK g \in [D -> V] : g = [i \in D |-> Scan(f, g, i)]
  <2>1. PICK g \in [D -> V] : g = G[g]
    <3> HIDE DEF D, V, r, G, n
    <3> QED
      BY <1>8, RecursionExists
  <2> HIDE DEF D, V
  <2>2. QED
    BY <2>1
<1>10. from = [i \in D |-> Scan(f, from, i)]
  <2> HIDE DEF D
  <2> QED
    BY <1>9
<1> HIDE DEF from
<1>11. \A i \in D : from[i] = Scan(f, from, i)
  <2> HIDE DEF D
  <2> QED
    BY <1>10
<1>12. QED
  BY <1>1, <1>11

\* The candidate of a number: its value, its unit and the sign that it has.
CandidateOf(f, c, q, prefix) ==
  /\ q \in NumbersOf(f) /\ prefix \in Signs \cup {"none"} /\ Prefix(f, prefix, q)
  /\ c = weight_match(f, prefix, q).candidate

LEMMA CandidateAt ==
  ASSUME NEW f, Len(f) \in Nat, NEW c, NEW q, NEW prefix, CandidateOf(f, c, q, prefix)
  PROVE  c.at = q /\ q \in NumbersOf(f) /\ q \in 1..Len(f) /\ q \in Nat /\ f[q] \in Digits
<1>1. q \in NumbersOf(f) /\ c = weight_match(f, prefix, q).candidate
  BY DEF CandidateOf
<1>2. q \in 1..Len(f) /\ q \in Nat /\ f[q] \in Digits
  BY <1>1 DEF NumbersOf
<1>3. QED
  BY <1>1, <1>2, MatchNext

\* From position i on the search finds all numbers of the frame and nothing else.
FindsAll(f, from, i) ==
  /\ \A c \in from[i] : c.at >= i /\ \E q, prefix : CandidateOf(f, c, q, prefix)
  /\ \A q \in NumbersOf(f) : q >= i => \E c \in from[i] : c.at = q

\* By induction from the end of the frame, for positions outside of a number.
LEMMA ScanFindsAll ==
  ASSUME NEW f, Len(f) \in Nat, NEW from,
         \A i \in 1..(Len(f) + 1) : from[i] = Scan(f, from, i)
  PROVE  \A i \in 1..(Len(f) + 1) : Clean(f, i) => FindsAll(f, from, i)
<1> DEFINE n == Len(f)
           T == {k \in 0..n : Clean(f, n + 1 - k) /\ ~FindsAll(f, from, n + 1 - k)}
<1> SUFFICES ASSUME T # {} PROVE FALSE
  <2> SUFFICES ASSUME NEW i \in 1..(n + 1), Clean(f, i), ~FindsAll(f, from, i) PROVE T # {}
    OBVIOUS
  <2>1. n + 1 - i \in 0..n /\ n + 1 - (n + 1 - i) = i
    OBVIOUS
  <2>2. n + 1 - i \in T
    BY <2>1
  <2>3. QED
    BY <2>2
<1>1. PICK x \in T : \A y \in T : ~(y < x)
  <2>1. T \subseteq Nat
    OBVIOUS
  <2> HIDE DEF T
  <2>2. QED
    BY <2>1, LeastNumber
<1> DEFINE i == n + 1 - x
<1>2. x \in 0..n /\ i \in 1..(n + 1) /\ n \in Nat /\ Clean(f, i) /\ ~FindsAll(f, from, i)
  OBVIOUS
<1>3. ASSUME NEW k \in (i + 1)..(n + 1), Clean(f, k) PROVE FindsAll(f, from, k)
  <2>1. n + 1 - k \in 0..n /\ n + 1 - (n + 1 - k) = k /\ n + 1 - k < x
    BY <1>2
  <2>2. n + 1 - k \notin T
    <3> HIDE DEF T
    <3> QED
      BY <1>1, <2>1
  <2>3. QED
    BY <1>3, <2>1, <2>2
<1> HIDE DEF i, T
<1>4. from[i] = Scan(f, from, i)
  BY <1>2
<1>5. \A q \in NumbersOf(f) : q \in 1..n /\ f[q] \in Digits
  BY DEF NumbersOf
<1>6. CASE i > n
  <2>1. from[i] = {}
    BY <1>4, <1>6 DEF Scan
  <2>2. \A q \in NumbersOf(f) : ~(q >= i)
    BY <1>2, <1>5, <1>6
  <2>3. QED
    BY <1>2, <2>1, <2>2 DEF FindsAll
<1>7. CASE ~(i > n) /\ (signed(f, i) \/ bare(f, i))
  <2>1. i \in 1..n
    BY <1>2, <1>7
  <2>2. PICK q \in i..n, prefix \in Signs \cup {"none"} :
          /\ f[q] \in Digits
          /\ match_at(f, i) = weight_match(f, prefix, q)
          /\ Prefix(f, prefix, q)
          /\ \A k \in i..(q - 1) : f[k] \notin Digits
          /\ Clean(f, i) => q \in NumbersOf(f)
    BY <1>7, <2>1, MatchAt
  <2>2a. q \in Nat
    BY <2>1
  <2> DEFINE c == weight_match(f, prefix, q).candidate
             x2 == NextAt(f, q)
  <2>3. from[i] = {c} \cup from[x2]
    <3>1. from[i] = {match_at(f, i).candidate} \cup from[match_at(f, i).next]
      BY <1>4, <1>7 DEF Scan
    <3>2. weight_match(f, prefix, q).next = x2
      BY <2>2a, MatchNext
    <3>3. QED
      BY <2>2, <3>1, <3>2
  <2>4. c.at = q
    BY <2>2a, MatchNext
  <2>5. q \in NumbersOf(f) /\ CandidateOf(f, c, q, prefix)
    BY <1>2, <2>2 DEF CandidateOf
  <2>6. /\ x2 \in (q + 1)..(n + 1)
        /\ Clean(f, x2)
        /\ \A k \in (q + 1)..(x2 - 1) : k \notin NumbersOf(f)
    <3>1. q \in 1..n
      BY <2>1
    <3>2. QED
      BY <2>2, <3>1, NextIsClean
  <2> HIDE DEF c, x2, n
  <2>7. FindsAll(f, from, x2)
    <3>1. x2 \in (i + 1)..(n + 1)
      BY <1>2, <2>1, <2>6
    <3>2. QED
      BY <1>3, <2>6, <3>1
  <2>8. ASSUME NEW d \in from[i] PROVE d.at >= i /\ \E p, pre : CandidateOf(f, d, p, pre)
    <3>1. CASE d = c
      BY <1>2, <2>1, <2>4, <2>5, <3>1
    <3>2. CASE d \in from[x2]
      <4>1. d.at >= x2 /\ \E p, pre : CandidateOf(f, d, p, pre)
        BY <2>7, <3>2 DEF FindsAll
      <4>2. PICK p, pre : CandidateOf(f, d, p, pre)
        BY <4>1
      <4>3. d.at \in Nat
        <5>1. d.at = p /\ p \in NumbersOf(f)
          BY <4>2, CandidateAt
        <5>2. QED
          BY <1>2, <1>5, <5>1
      <4>4. d.at >= i
        BY <1>2, <2>1, <2>6, <4>1, <4>3
      <4>5. QED
        BY <4>1, <4>4
    <3>3. QED
      BY <2>3, <3>1, <3>2
  <2>9. ASSUME NEW p \in NumbersOf(f), p >= i PROVE \E d \in from[i] : d.at = p
    <3>1. p \in 1..n /\ f[p] \in Digits
      BY <1>5
    <3>2. p \notin i..(q - 1) /\ p \notin (q + 1)..(x2 - 1)
      BY <2>2, <2>6, <2>9, <3>1
    <3>3. p = q \/ p >= x2
      BY <1>2, <2>1, <2>6, <2>9, <3>1, <3>2
    <3>4. QED
      BY <2>3, <2>4, <2>7, <2>9, <3>3 DEF FindsAll
  <2>10. QED
    BY <1>2, <2>8, <2>9 DEF FindsAll
<1>8. CASE ~(i > n) /\ ~(signed(f, i) \/ bare(f, i))
  <2>1. i \in 1..n /\ i + 1 \in (i + 1)..(n + 1)
    BY <1>2, <1>8
  <2>2. from[i] = from[i + 1]
    BY <1>4, <1>8 DEF Scan
  <2>3. f[i] \notin Digits
    <3> SUFFICES ASSUME f[i] \in Digits PROVE FALSE
      OBVIOUS
    <3>1. TokenAt(f, i) = f[i]
      BY <2>1 DEF TokenAt
    <3>2. i \in 1..(n + 1)
      BY <1>2
    <3>3. skip(f, i) = i
      <4>1. skip(f, i) \in i..(n + 1) /\ \A k \in i..(skip(f, i) - 1) : TokenAt(f, k) = "SP"
        BY <3>2, SkipFound
      <4>2. TokenAt(f, i) # "SP"
        BY <3>1 DEF Digits
      <4>3. ~(i \in i..(skip(f, i) - 1))
        BY <4>1, <4>2
      <4>4. QED
        BY <1>2, <4>1, <4>3
    <3>4. QED
      BY <1>8, <3>1, <3>3 DEF bare
  <2>4. Clean(f, i + 1)
    <3> DEFINE y == i + 1
    <3>1. y - 1 = i
      BY <1>2
    <3>2. TokenAt(f, i) \notin Digits
      BY <2>1, <2>3 DEF TokenAt
    <3> HIDE DEF y
    <3>3. Clean(f, y)
      BY <3>1, <3>2 DEF Clean
    <3>4. QED
      BY <3>3 DEF y
  <2>5. FindsAll(f, from, i + 1)
    BY <1>3, <2>1, <2>4
  <2>6. ASSUME NEW d \in from[i] PROVE d.at >= i /\ \E p, pre : CandidateOf(f, d, p, pre)
    <3>1. d.at >= i + 1 /\ \E p, pre : CandidateOf(f, d, p, pre)
      BY <2>2, <2>5 DEF FindsAll
    <3>2. PICK p, pre : CandidateOf(f, d, p, pre)
      BY <3>1
    <3>3. d.at = p /\ p \in NumbersOf(f)
      BY <3>2, CandidateAt
    <3>4. d.at \in Nat
      BY <1>2, <1>5, <3>3
    <3>5. d.at >= i
      BY <1>2, <3>1, <3>4
    <3>6. QED
      BY <3>1, <3>5
  <2>7. ASSUME NEW p \in NumbersOf(f), p >= i PROVE \E d \in from[i] : d.at = p
    <3>1. p \in 1..n /\ p # i
      BY <1>5, <2>3
    <3>2. p >= i + 1
      BY <1>2, <2>7, <3>1
    <3>3. QED
      BY <2>2, <2>5, <3>2 DEF FindsAll
  <2>8. QED
    BY <1>2, <2>6, <2>7 DEF FindsAll
<1>9. QED
  BY <1>6, <1>7, <1>8

\* The start of the frame is such a position.
LEMMA CapturesFindAll ==
  ASSUME NEW f, Len(f) \in Nat
  PROVE  /\ \A c \in captures(f) : \E q, prefix : CandidateOf(f, c, q, prefix)
         /\ \A q \in NumbersOf(f) : \E c \in captures(f) : c.at = q
<1>1. PICK from : /\ captures(f) = from[1]
                  /\ \A i \in 1..(Len(f) + 1) : from[i] = Scan(f, from, i)
  BY CapturesFound
<1>2. Clean(f, 1) /\ 1 \in 1..(Len(f) + 1)
  BY DEF Clean, TokenAt, Digits
<1>3. FindsAll(f, from, 1)
  BY <1>1, <1>2, ScanFindsAll
<1>4. \A q \in NumbersOf(f) : q >= 1
  BY DEF NumbersOf
<1>5. QED
  BY <1>1, <1>3, <1>4 DEF FindsAll

-------------------------------------------------------------------------------
(* The candidates and the best of them.                                    *)

\* The range is the same for both signs.
LEMMA CandidateRange ==
  ASSUME NEW f, Len(f) \in Nat, NEW c, NEW q, NEW prefix, CandidateOf(f, c, q, prefix)
  PROVE  InRange(c) <=> q \in InRangeOf(f)
<1>1. q \in NumbersOf(f) /\ q \in 1..Len(f) /\ q \in Nat /\ f[q] \in Digits
  BY CandidateAt
<1>2. number(f, q) \in Nat /\ number(f, q) > 0
  BY <1>1, NumberPositive
<1>3. c = weight_match(f, prefix, q).candidate
  BY DEF CandidateOf
<1>4. c.weight = -number(f, q) \/ c.weight = number(f, q)
  BY <1>1, <1>3, MatchSign
<1> DEFINE v == number(f, q)  w == c.weight
<1>5. v \in Nat /\ (w = -v \/ w = v)
  BY <1>2, <1>4
<1>6. q \in InRangeOf(f) <=> v <= Limit
  BY <1>1 DEF InRangeOf
<1>7. InRange(c) <=> w \in (-Limit)..Limit
  BY DEF InRange
<1> HIDE DEF v, w
<1>8. w \in (-Limit)..Limit <=> v <= Limit
  BY <1>5, ParserAssumption
<1>9. QED
  BY <1>6, <1>7, <1>8

\* The candidates are those of the numbers in range.
LEMMA CandidatesFound ==
  ASSUME NEW f, Len(f) \in Nat
  PROVE  /\ \A c \in candidates(f) :
              \E q, prefix : CandidateOf(f, c, q, prefix) /\ q \in InRangeOf(f)
         /\ \A q \in InRangeOf(f) : \E c \in candidates(f) : c.at = q
<1>1. ASSUME NEW c \in candidates(f)
      PROVE  \E q, prefix : CandidateOf(f, c, q, prefix) /\ q \in InRangeOf(f)
  <2>1. c \in captures(f) /\ InRange(c)
    BY DEF candidates
  <2>2. PICK q, prefix : CandidateOf(f, c, q, prefix)
    BY <2>1, CapturesFindAll
  <2>3. q \in InRangeOf(f)
    BY <2>1, <2>2, CandidateRange
  <2>4. QED
    BY <2>2, <2>3
<1>2. ASSUME NEW q \in InRangeOf(f)
      PROVE  \E c \in candidates(f) : c.at = q
  <2>1. q \in NumbersOf(f)
    BY DEF InRangeOf
  <2>2. PICK c \in captures(f) : c.at = q
    BY <2>1, CapturesFindAll
  <2>3. PICK p, prefix : CandidateOf(f, c, p, prefix)
    BY CapturesFindAll
  <2>4. p = q
    BY <2>2, <2>3, CandidateAt
  <2>5. InRange(c)
    BY <2>3, <2>4, CandidateRange
  <2>6. QED
    BY <2>2, <2>5 DEF candidates
<1>3. QED
  BY <1>1, <1>2

LEMMA ScoreIsNat ==
  ASSUME NEW c
  PROVE  score_candidate(c) \in 0..240
  BY DEF score_candidate

Best(cs, c) ==
  /\ c \in cs
  /\ \A o \in cs :
       \/ score_candidate(o) < score_candidate(c)
       \/ score_candidate(o) = score_candidate(c) /\ o.at <= c.at

\* One of several candidates is the best.
LEMMA BestFound ==
  ASSUME NEW cs, cs # {}, NEW n \in Nat, \A c \in cs : c.at \in 1..n
  PROVE  Best(cs, best_candidate(cs))
<1> DEFINE S == {240 - score_candidate(c) : c \in cs}
<1>1. PICK x \in S : \A y \in S : ~(y < x)
  <2>1. S \subseteq Nat /\ S # {}
    BY ScoreIsNat
  <2> HIDE DEF S
  <2>2. QED
    BY <2>1, LeastNumber
<1>2. PICK t \in cs : x = 240 - score_candidate(t)
  OBVIOUS
<1>3. ASSUME NEW o \in cs PROVE score_candidate(o) <= score_candidate(t)
  <2> DEFINE a == score_candidate(o)  b == score_candidate(t)
  <2>1. a \in 0..240 /\ b \in 0..240
    BY ScoreIsNat
  <2>2. 240 - a \in S /\ x = 240 - b
    BY <1>2
  <2> HIDE DEF S, a, b
  <2>3. ~(240 - a < 240 - b)
    BY <1>1, <2>2
  <2>4. a <= b
    BY <2>1, <2>3
  <2>5. QED
    BY <2>4 DEF a, b
<1> DEFINE Top == {c \in cs : score_candidate(c) = score_candidate(t)}
           L == {n - c.at : c \in Top}
<1>4. PICK z \in L : \A y \in L : ~(y < z)
  <2>1. L \subseteq Nat /\ L # {}
    OBVIOUS
  <2> HIDE DEF L
  <2>2. QED
    BY <2>1, LeastNumber
<1>5. PICK b \in Top : z = n - b.at
  OBVIOUS
<1>6. b \in cs /\ score_candidate(b) = score_candidate(t)
  OBVIOUS
<1>7. ASSUME NEW o \in cs
      PROVE  \/ score_candidate(o) < score_candidate(b)
             \/ score_candidate(o) = score_candidate(b) /\ o.at <= b.at
  <2> DEFINE mine == score_candidate(o)  its == score_candidate(b)
  <2>1. mine \in 0..240 /\ its \in 0..240
    BY ScoreIsNat
  <2>2. mine <= its
    BY <1>3, <1>6
  <2>3. CASE mine = its
    <3>1. n - o.at \in L
      BY <1>6, <2>3
    <3>2. ~(n - o.at < n - b.at)
      <4> HIDE DEF L
      <4> QED
        BY <1>4, <1>5, <3>1
    <3>3. o.at \in 1..n /\ b.at \in 1..n
      BY <1>6
    <3> DEFINE oa == o.at  ba == b.at
    <3> HIDE DEF oa, ba
    <3>4. oa <= ba
      BY <3>2, <3>3 DEF oa, ba
    <3>5. QED
      BY <2>3, <3>4 DEF oa, ba
  <2> HIDE DEF mine, its, S, Top, L
  <2>4. mine = its \/ mine < its
    BY <2>1, <2>2
  <2>5. QED
    BY <2>3, <2>4 DEF mine, its
<1>8. Best(cs, b)
  BY <1>6, <1>7 DEF Best
<1>9. QED
  BY <1>8, Zenon DEF Best, best_candidate

LEMMA BestCandidate ==
  ASSUME NEW f, Len(f) \in Nat, Parses(f)
  PROVE  Best(candidates(f), best_candidate(candidates(f)))
<1>1. candidates(f) # {}
  BY DEF Parses
<1>2. \A c \in candidates(f) : c.at \in 1..Len(f)
  BY CandidatesFound, CandidateAt
<1>3. QED
  BY <1>1, <1>2, BestFound

\* What parse_weight returns is the best candidate.
LEMMA WeightIs ==
  ASSUME NEW f, NEW best, best = best_candidate(candidates(f))
  PROVE  /\ parse_weight(f).at = best.at
         /\ parse_weight(f).weight = best.weight
         /\ parse_weight(f).unit = IF best.has_unit THEN Unit ELSE default_unit
  BY DEF parse_weight

\* NumbersKept for one text.
LEMMA KeepsNumbers ==
  ASSUME NEW f, Len(f) \in Nat
  PROVE  /\ Parses(f) <=> InRangeOf(f) # {}
         /\ Parses(f) => parse_weight(f).at \in InRangeOf(f)
<1>1. Parses(f) <=> InRangeOf(f) # {}
  BY CandidatesFound DEF Parses
<1>2. ASSUME Parses(f) PROVE parse_weight(f).at \in InRangeOf(f)
  <2> DEFINE best == best_candidate(candidates(f))
  <2>1. best \in candidates(f)
    BY <1>2, BestCandidate DEF Best
  <2>2. parse_weight(f).at = best.at
    BY WeightIs
  <2> HIDE DEF best
  <2>3. PICK q, prefix : CandidateOf(f, best, q, prefix) /\ q \in InRangeOf(f)
    BY <2>1, CandidatesFound
  <2>4. best.at = q
    BY <2>3, CandidateAt
  <2>5. QED
    BY <2>2, <2>3, <2>4
<1>3. QED
  BY <1>1, <1>2

-------------------------------------------------------------------------------
(* Units and signs.                                                        *)

\* A minus on either side, or an N before, and nothing else makes a minus.
LEMMA ResolveSign ==
  ASSUME NEW prefix \in Signs \cup {"none"}, NEW suffix \in {"-", "+", "none"}
  PROVE  /\ resolve_sign(prefix, suffix) = "-" <=> prefix \in {"-", "N"} \/ suffix = "-"
         /\ prefix = "none" /\ suffix = "none" => resolve_sign(prefix, suffix) = "none"
  BY DEF resolve_sign, Signs

LEMMA SuffixIs ==
  ASSUME NEW f, NEW q
  PROVE  /\ Suffix(f, q) \in {"-", "+", "none"}
         /\ Suffix(f, q) = "-" <=> TokenAt(f, SuffixAt(f, q)) = "-"
         /\ Suffix(f, q) # "none" => TokenAt(f, SuffixAt(f, q)) \in {"-", "+"}
  BY DEF Suffix

\* Without a sign in the frame the unit alone decides the score.
LEMMA UnsignedScore ==
  ASSUME NEW f, Len(f) \in Nat, NEW c, NEW q, NEW prefix, CandidateOf(f, c, q, prefix),
         \A i \in 1..Len(f) : f[i] \notin Signs, q \in InRangeOf(f)
  PROVE  /\ c.has_unit <=> q \in WithUnit(f)
         /\ score_candidate(c) = IF q \in WithUnit(f) THEN 80 ELSE 0
<1>1. q \in NumbersOf(f) /\ q \in 1..Len(f) /\ q \in Nat /\ f[q] \in Digits
  BY CandidateAt
<1>2. /\ c = weight_match(f, prefix, q).candidate
      /\ prefix \in Signs \cup {"none"} /\ Prefix(f, prefix, q)
  BY DEF CandidateOf
<1>3. c.has_unit <=> q \in WithUnit(f)
  <2>1. c.has_unit <=> TokenAt(f, UnitAt(f, q)) = Unit
    BY <1>1, <1>2, MatchUnit
  <2>2. QED
    BY <2>1 DEF WithUnit, UnitAt
<1>4. prefix = "none"
  <2> SUFFICES ASSUME prefix # "none" PROVE FALSE
    OBVIOUS
  <2>1. PICK p \in 1..(q - 1) : f[p] = prefix /\ prefix \in Signs
    BY <1>2 DEF Prefix
  <2>2. p \in 1..Len(f)
    BY <1>1
  <2>3. QED
    BY <2>1, <2>2
<1>5. Suffix(f, q) = "none"
  <2> SUFFICES ASSUME Suffix(f, q) # "none" PROVE FALSE
    OBVIOUS
  <2>1. TokenAt(f, SuffixAt(f, q)) \in {"-", "+"}
    BY SuffixIs
  <2>2. SuffixAt(f, q) \in 1..Len(f) /\ f[SuffixAt(f, q)] \in {"-", "+"}
    BY <2>1 DEF TokenAt
  <2>3. QED
    BY <2>2 DEF Signs
<1>6. c.sign = "none"
  <2>1. resolve_sign("none", "none") = "none"
    BY DEF resolve_sign
  <2>2. QED
    BY <1>1, <1>2, <1>4, <1>5, <2>1, MatchSign
<1>7. score_candidate(c) = IF c.has_unit THEN 80 ELSE 0
  BY <1>6 DEF score_candidate
<1>8. QED
  BY <1>3, <1>7

\* UnitsDecide for one text.
LEMMA DecidesUnit ==
  ASSUME NEW f, Len(f) \in Nat, UnitIsClear(f)
  PROVE  Parses(f) /\ parse_weight(f).at \in WithUnit(f) /\ parse_weight(f).unit = Unit
<1>1. (\A i \in 1..Len(f) : f[i] \notin Signs) /\ WithUnit(f) # {}
  <2>1. (\A i \in 1..Len(f) : f[i] \notin Signs) /\ Cardinality(WithUnit(f)) = 1
    BY Zenon DEF UnitIsClear
  <2>2. Cardinality({}) = 0
    BY FS_EmptySet
  <2>3. WithUnit(f) # {}
    <3> DEFINE n == Cardinality(WithUnit(f))
    <3>1. WithUnit(f) = {} => n = 0
      BY <2>2, Zenon
    <3>2. n = 1
      BY <2>1
    <3> HIDE DEF n
    <3>3. QED
      BY <3>1, <3>2
  <2>4. QED
    BY <2>1, <2>3
<1>2. PICK w \in WithUnit(f) : w \in InRangeOf(f)
  BY <1>1 DEF WithUnit
<1>3. Parses(f)
  BY <1>2, KeepsNumbers
<1> DEFINE best == best_candidate(candidates(f))
<1>4. Best(candidates(f), best)
  BY <1>3, BestCandidate
<1>5. parse_weight(f).at = best.at /\ (best.has_unit => parse_weight(f).unit = Unit)
  BY WeightIs
<1> HIDE DEF best
<1>6. PICK q, prefix : CandidateOf(f, best, q, prefix) /\ q \in InRangeOf(f)
  BY <1>4, CandidatesFound DEF Best
<1>7. PICK c \in candidates(f) : c.at = w
  BY <1>2, CandidatesFound
<1>8. PICK p, pre : CandidateOf(f, c, p, pre) /\ p \in InRangeOf(f)
  BY CandidatesFound
<1>9. p = w
  BY <1>7, <1>8, CandidateAt
<1>10. score_candidate(c) = 80
  BY <1>1, <1>8, <1>9, UnsignedScore
<1>11. q \in WithUnit(f)
  <2> SUFFICES ASSUME q \notin WithUnit(f) PROVE FALSE
    OBVIOUS
  <2>1. score_candidate(best) = 0
    BY <1>1, <1>6, UnsignedScore
  <2>2. QED
    BY <1>4, <1>10, <2>1 DEF Best
<1>12. best.has_unit /\ best.at = q
  BY <1>1, <1>6, <1>11, UnsignedScore, CandidateAt
<1>13. QED
  BY <1>3, <1>5, <1>11, <1>12

\* A frame with one number in which a minus stands before it: nothing but that
\* sign starts a match.
LEMMA OneSigned ==
  ASSUME NEW f, Len(f) \in Nat, NEW i, NumbersOf(f) = {i}, NEW j \in 1..(i - 1),
         f[j] \in {"-", "N"}, skip(f, j + 1) = i
  PROVE  captures(f) \subseteq {weight_match(f, f[j], i).candidate}
<1>1. i \in 1..Len(f) /\ i \in Nat /\ f[i] \in Digits
  BY DEF NumbersOf
<1>2. j \in 1..Len(f) /\ j \in Nat /\ j < i
  BY <1>1
<1>3. PICK from : /\ captures(f) = from[1]
                  /\ \A k \in 1..(Len(f) + 1) : from[k] = Scan(f, from, k)
  BY CapturesFound
<1>4. ASSUME NEW q \in 1..Len(f), f[q] \in Digits PROVE i <= q
  BY <1>4, NumberStartFound
<1>5. TokenAt(f, j) = f[j] /\ TokenAt(f, i) = f[i]
  BY <1>1, <1>2 DEF TokenAt
<1>6. ASSUME NEW p \in 1..(j - 1) PROVE from[p] = from[p + 1]
  <2>1. p \in 1..Len(f) /\ p \in 1..(Len(f) + 1) /\ p + 1 \in 1..(Len(f) + 1)
    BY <1>2
  <2>2. ASSUME NEW q \in 1..(Len(f) + 1), TokenAt(f, q) \in Digits,
               \A k \in (p + 1)..(q - 1) : TokenAt(f, k) = "SP"
        PROVE  FALSE
    <3>1. q \in 1..Len(f) /\ f[q] \in Digits
      BY <2>2 DEF TokenAt, Digits
    <3>2. i <= q
      BY <1>4, <3>1
    <3>3. j \in (p + 1)..(q - 1)
      BY <1>1, <1>2, <3>1, <3>2
    <3>4. QED
      BY <1>5, <2>2, <3>3
  <2>3. ~signed(f, p)
    <3> DEFINE q == skip(f, p + 1)
    <3>1. q \in (p + 1)..(Len(f) + 1) /\ \A k \in (p + 1)..(q - 1) : TokenAt(f, k) = "SP"
      BY <2>1, SkipFound
    <3> HIDE DEF q
    <3>2. q \in 1..(Len(f) + 1)
      BY <3>1
    <3>3. TokenAt(f, q) \notin Digits
      BY <2>2, <3>1, <3>2
    <3>4. QED
      BY <3>3 DEF signed, q
  <2>4. ~bare(f, p)
    <3> DEFINE q == skip(f, p)
    <3>1. q \in p..(Len(f) + 1) /\ \A k \in p..(q - 1) : TokenAt(f, k) = "SP"
      BY <2>1, SkipFound
    <3> HIDE DEF q
    <3>2. q \in 1..(Len(f) + 1) /\ \A k \in (p + 1)..(q - 1) : k \in p..(q - 1)
      BY <3>1
    <3>3. TokenAt(f, q) \notin Digits
      BY <2>2, <3>1, <3>2
    <3>4. QED
      BY <3>3 DEF bare, q
  <2>5. from[p] = Scan(f, from, p) /\ ~(p > Len(f))
    BY <1>3, <2>1
  <2>6. QED
    BY <2>3, <2>4, <2>5 DEF Scan
<1>7. from[1] = from[j]
  <2> DEFINE T == {p \in 1..j : from[p] = from[j]}
  <2>1. T \subseteq Nat /\ j \in T
    BY <1>2
  <2>2. PICK x \in T : \A y \in T : ~(y < x)
    <3> HIDE DEF T
    <3> QED
      BY <2>1, LeastNumber
  <2>3. x \in 1..j /\ from[x] = from[j]
    OBVIOUS
  <2>4. x = 1
    <3> SUFFICES ASSUME x # 1 PROVE FALSE
      OBVIOUS
    <3> DEFINE y == x - 1
    <3>1. y \in 1..(j - 1) /\ y \in 1..j /\ y < x /\ y + 1 = x
      BY <1>2, <2>3
    <3> HIDE DEF y
    <3>2. from[y] = from[j]
      BY <1>6, <2>3, <3>1
    <3>3. y \in T
      BY <3>1, <3>2
    <3> HIDE DEF T
    <3>4. QED
      BY <2>2, <3>1, <3>3
  <2>5. QED
    BY <2>3, <2>4
<1>8. signed(f, j) /\ match_at(f, j) = weight_match(f, f[j], i)
  <2>1. signed(f, j)
    BY <1>1, <1>5 DEF signed, Signs
  <2>2. QED
    BY <1>5, <2>1 DEF match_at
<1> DEFINE c == weight_match(f, f[j], i).candidate
           x == NextAt(f, i)
<1>9. from[j] = {c} \cup from[x]
  <2>1. from[j] = Scan(f, from, j) /\ ~(j > Len(f))
    BY <1>2, <1>3
  <2>2. from[j] = {match_at(f, j).candidate} \cup from[match_at(f, j).next]
    BY <1>8, <2>1 DEF Scan
  <2>3. weight_match(f, f[j], i).next = x
    BY <1>1, MatchNext
  <2>4. QED
    BY <1>8, <2>2, <2>3
<1>10. x \in (i + 1)..(Len(f) + 1) /\ Clean(f, x)
  BY <1>1, NextIsClean
<1> HIDE DEF x, c
<1>11. FindsAll(f, from, x)
  <2>1. x \in 1..(Len(f) + 1)
    BY <1>1, <1>10
  <2>2. QED
    BY <1>3, <1>10, <2>1, ScanFindsAll
<1>12. from[x] = {}
  <2> SUFFICES ASSUME NEW d \in from[x] PROVE FALSE
    OBVIOUS
  <2>1. PICK q, prefix : CandidateOf(f, d, q, prefix)
    BY <1>11 DEF FindsAll
  <2>2. d.at = i
    BY <2>1, CandidateAt
  <2>3. d.at >= x
    BY <1>11 DEF FindsAll
  <2>4. QED
    BY <1>1, <1>10, <2>2, <2>3
<1>13. QED
  BY <1>3, <1>7, <1>9, <1>12 DEF c

\* MinusesSeen for one text.
LEMMA SeesMinus ==
  ASSUME NEW f, Len(f) \in Nat, OneNumber(f)
  PROVE  Parses(f) /\ (parse_weight(f).weight < 0 <=> Negative(f))
<1>1. PICK i : NumbersOf(f) = {i}
  <2>1. IsFiniteSet(1..Len(f))
    BY FS_Interval
  <2>2. NumbersOf(f) \in SUBSET (1..Len(f))
    BY DEF NumbersOf
  <2>3. IsFiniteSet(NumbersOf(f))
    BY <2>1, <2>2, FS_Subset
  <2>4. QED
    BY <2>3, FS_Singleton DEF OneNumber
<1>2. Parses(f)
  BY KeepsNumbers DEF OneNumber
<1> DEFINE best == best_candidate(candidates(f))
<1>3. best \in candidates(f) /\ best \in captures(f)
  BY <1>2, BestCandidate DEF Best, candidates
<1>4. parse_weight(f).weight = best.weight
  BY WeightIs
<1> HIDE DEF best
<1>5. PICK q, prefix : CandidateOf(f, best, q, prefix)
  BY <1>3, CandidatesFound
<1>6. q = i /\ i \in 1..Len(f) /\ i \in Nat /\ f[i] \in Digits
  BY <1>1, <1>5, CandidateAt
<1>7. /\ best = weight_match(f, prefix, i).candidate
      /\ prefix \in Signs \cup {"none"} /\ Prefix(f, prefix, i)
  BY <1>5, <1>6 DEF CandidateOf
<1>8. number(f, i) \in Nat /\ number(f, i) > 0
  BY <1>6, NumberPositive
<1> DEFINE suffix == Suffix(f, i)
           sign == resolve_sign(prefix, suffix)
<1>9. best.weight = IF sign = "-" THEN -number(f, i) ELSE number(f, i)
  BY <1>6, <1>7, MatchSign
<1>10. sign = "-" <=> prefix \in {"-", "N"} \/ suffix = "-"
  BY <1>7, SuffixIs, ResolveSign
<1> HIDE DEF sign
<1>11. best.weight < 0 <=> sign = "-"
  BY <1>8, <1>9
<1>12. Negative(f) <=> \/ \E j \in 1..(i - 1) : f[j] \in {"-", "N"} /\ skip(f, j + 1) = i
                       \/ suffix = "-"
  <2> DEFINE e == IF TokenAt(f, UnitAt(f, i)) = Unit THEN UnitAt(f, i) ELSE number_end(f, i)
  <2>1. Negative(f) <=> \/ \E j \in 1..(i - 1) : f[j] \in {"-", "N"} /\ skip(f, j + 1) = i
                        \/ TokenAt(f, skip(f, e + 1)) = "-"
    BY <1>1, Zenon DEF Negative, UnitAt
  <2>2. e + 1 = End(f, i)
    BY DEF End
  <2>3. TokenAt(f, skip(f, e + 1)) = "-" <=> suffix = "-"
    BY <2>2, SuffixIs DEF SuffixAt
  <2>4. QED
    BY <2>1, <2>3
<1>13. ASSUME sign = "-" PROVE Negative(f)
  <2>1. CASE suffix = "-"
    BY <1>12, <2>1
  <2>2. CASE prefix \in {"-", "N"}
    <3>1. PICK j \in 1..(i - 1) : f[j] = prefix /\ skip(f, j + 1) = i
      BY <1>7, <2>2 DEF Prefix
    <3>2. QED
      BY <1>12, <2>2, <3>1
  <2>3. QED
    BY <1>10, <1>13, <2>1, <2>2
<1>14. ASSUME Negative(f) PROVE sign = "-"
  <2>1. CASE suffix = "-"
    BY <1>10, <2>1
  <2>2. CASE \E j \in 1..(i - 1) : f[j] \in {"-", "N"} /\ skip(f, j + 1) = i
    <3>1. PICK j \in 1..(i - 1) : f[j] \in {"-", "N"} /\ skip(f, j + 1) = i
      BY <2>2
    <3>2. best = weight_match(f, f[j], i).candidate
      BY <1>1, <1>3, <3>1, OneSigned
    <3> DEFINE other == resolve_sign(f[j], suffix)
    <3>3. best.sign = other
      BY <1>6, <3>2, MatchSign
    <3>3a. best.sign = sign
      BY <1>6, <1>7, MatchSign DEF sign
    <3>4. f[j] \in Signs \cup {"none"}
      BY <3>1 DEF Signs
    <3>5. other = "-"
      BY <3>1, <3>4, SuffixIs, ResolveSign
    <3>6. QED
      BY <3>3, <3>3a, <3>5
  <2>3. QED
    BY <1>12, <1>14, <2>1, <2>2
<1>15. QED
  BY <1>2, <1>4, <1>11, <1>13, <1>14

-------------------------------------------------------------------------------
(* The readings of the stream.                                             *)

\* What frame_to_reading makes of a frame.
ReadingOf(reading, text) ==
  /\ reading.text = text
  /\ \/ reading.kind = "zero" /\ text = <<>>
     \/ reading.kind = "raw" /\ ~Parses(text)
     \/ /\ reading.kind = "weight" /\ Parses(text)
        /\ reading.weight = parse_weight(text).weight
        /\ reading.unit = parse_weight(text).unit

ReadingsInv ==
  /\ pending \in Seq(Chars)
  /\ \E S : out \in Seq(S)
  /\ \A k \in 1..Len(out) : \E text \in Seq(Chars) : ReadingOf(out[k], text)

\* A slice of a text: a text, its length and its characters.
LEMMA SliceIsText ==
  ASSUME NEW S, NEW text \in Seq(S), NEW i \in 1..(Len(text) + 1), NEW j \in (i - 1)..Len(text)
  PROVE  SubSeq(text, i, j) \in Seq(S)
  BY SubSeqProperties

LEMMA SliceIs ==
  ASSUME NEW S, NEW text \in Seq(S), NEW i \in 1..(Len(text) + 1), NEW j \in (i - 1)..Len(text)
  PROVE  /\ Len(SubSeq(text, i, j)) = j - i + 1
         /\ \A k \in 1..(j - i + 1) : SubSeq(text, i, j)[k] = text[i + k - 1]
<1>1. \A k \in i..j : text[k] \in S
  OBVIOUS
<1>2. i \in Int /\ j \in Int
  OBVIOUS
<1>3. /\ Len(SubSeq(text, i, j)) = IF i <= j THEN j - i + 1 ELSE 0
      /\ \A k \in 1..(j - i + 1) : SubSeq(text, i, j)[k] = text[i + k - 1]
  BY <1>1, <1>2, SubSeqProperties
<1>4. QED
  BY <1>3

\* Two texts of the same length with the same characters are one text.
LEMMA SameText ==
  ASSUME NEW S, NEW s \in Seq(S), NEW t \in Seq(S), Len(s) = Len(t),
         \A k \in 1..Len(s) : s[k] = t[k]
  PROVE  s = t
  BY SeqEqual

\* A slice of a slice is a slice of the whole.
LEMMA SliceOfSlice ==
  ASSUME NEW S, NEW text \in Seq(S), NEW i \in 1..(Len(text) + 1), NEW j \in (i - 1)..Len(text),
         NEW m \in 1..(j - i + 2), NEW n \in (m - 1)..(j - i + 1)
  PROVE  SubSeq(SubSeq(text, i, j), m, n) = SubSeq(text, i + m - 1, i + n - 1)
<1> DEFINE part == SubSeq(text, i, j)
           s == SubSeq(part, m, n)
           a == i + m - 1
           b == i + n - 1
           t == SubSeq(text, a, b)
<1>1. part \in Seq(S) /\ Len(part) = j - i + 1
      /\ \A k \in 1..(j - i + 1) : part[k] = text[i + k - 1]
  BY SliceIsText, SliceIs
<1> HIDE DEF part
<1>2. m \in 1..(Len(part) + 1) /\ n \in (m - 1)..Len(part)
  BY <1>1
<1>3. s \in Seq(S) /\ Len(s) = n - m + 1 /\ \A k \in 1..(n - m + 1) : s[k] = part[m + k - 1]
  BY <1>1, <1>2, SliceIsText, SliceIs
<1>4. a \in 1..(Len(text) + 1) /\ b \in (a - 1)..Len(text) /\ b - a + 1 = n - m + 1
  OBVIOUS
<1> HIDE DEF a, b
<1>5. t \in Seq(S) /\ Len(t) = n - m + 1 /\ \A k \in 1..(n - m + 1) : t[k] = text[a + k - 1]
  BY <1>4, SliceIsText, SliceIs
<1>6. ASSUME NEW k \in 1..(n - m + 1) PROVE s[k] = t[k]
  <2>1. m + k - 1 \in 1..(j - i + 1) /\ i + (m + k - 1) - 1 = a + k - 1
    BY DEF a
  <2>2. part[m + k - 1] = text[i + (m + k - 1) - 1]
    BY <1>1, <2>1
  <2>3. QED
    BY <1>3, <1>5, <2>1, <2>2
<1> HIDE DEF s, t
<1>7. s = t
  BY <1>3, <1>5, <1>6, SameText
<1>8. QED
  BY <1>7 DEF s, t, a, b, part

\* What starts later and ends at the same place is a suffix.
LEMMA SuffixSlice ==
  ASSUME NEW S, NEW text \in Seq(S), NEW i \in 1..(Len(text) + 1), NEW j \in (i - 1)..Len(text),
         NEW h \in i..(j + 1)
  PROVE  IsSuffix(SubSeq(text, h, j), SubSeq(text, i, j))
<1> DEFINE s == SubSeq(text, h, j)
           t == SubSeq(text, i, j)
           n == j - h + 1
           m == j - i + 1
<1>1. h \in 1..(Len(text) + 1) /\ j \in (h - 1)..Len(text) /\ n \in Nat /\ m \in Nat /\ n <= m
  OBVIOUS
<1>2. /\ s \in Seq(S) /\ Len(s) = n /\ \A k \in 1..n : s[k] = text[h + k - 1]
      /\ t \in Seq(S) /\ Len(t) = m /\ \A k \in 1..m : t[k] = text[i + k - 1]
  BY <1>1, SliceIsText, SliceIs
<1>3. m - n = h - i
  OBVIOUS
<1> HIDE DEF s, t, n, m
<1> DEFINE rs == Reverse(s)
           rt == Reverse(t)
<1>4. /\ rs \in Seq(S) /\ Len(rs) = n /\ \A k \in 1..n : rs[k] = s[n - k + 1]
      /\ rt \in Seq(S) /\ Len(rt) = m /\ \A k \in 1..m : rt[k] = t[m - k + 1]
  <2>1. rs = [k \in 1..n |-> s[(n - k) + 1]] /\ rt = [k \in 1..m |-> t[(m - k) + 1]]
    BY <1>2 DEF Reverse
  <2>2. \A k \in 1..n : s[(n - k) + 1] \in S
    BY <1>1, <1>2
  <2>3. \A k \in 1..m : t[(m - k) + 1] \in S
    BY <1>1, <1>2
  <2>4. rs \in [1..n -> S] /\ rt \in [1..m -> S]
    BY <2>1, <2>2, <2>3
  <2> HIDE DEF rs, rt
  <2>5. rs \in Seq(S) /\ Len(rs) = n /\ rt \in Seq(S) /\ Len(rt) = m
    BY <1>1, <2>4
  <2>6. QED
    BY <2>1, <2>5
<1> HIDE DEF rs, rt
<1>5. ASSUME NEW k \in 1..n PROVE rs[k] = rt[k]
  <2> DEFINE p == n - k + 1  q == m - k + 1
  <2>1. p \in 1..n /\ q \in 1..m /\ k \in 1..m
    BY <1>1
  <2>2. h + p - 1 = i + q - 1
    BY <1>1, <1>3
  <2>3. rs[k] = s[p] /\ rt[k] = t[q]
    BY <1>4, <2>1
  <2> HIDE DEF p, q
  <2>4. s[p] = text[h + p - 1] /\ t[q] = text[i + q - 1]
    BY <1>2, <2>1
  <2>5. QED
    BY <2>2, <2>3, <2>4, Zenon
<1>6. 1 \in 1..(n + 1) /\ n \in (1 - 1)..n /\ 1 \in 1..(m + 1) /\ n \in (1 - 1)..m
  BY <1>1
<1> DEFINE ps == SubSeq(rs, 1, n)
           pt == SubSeq(rt, 1, n)
<1>7. /\ ps \in Seq(S) /\ Len(ps) = n - 1 + 1 /\ \A k \in 1..(n - 1 + 1) : ps[k] = rs[1 + k - 1]
      /\ pt \in Seq(S) /\ Len(pt) = n - 1 + 1 /\ \A k \in 1..(n - 1 + 1) : pt[k] = rt[1 + k - 1]
  BY <1>4, <1>6, SliceIsText, SliceIs
<1> HIDE DEF ps, pt
<1>8. Len(ps) = n /\ Len(pt) = n /\ \A k \in 1..n : ps[k] = pt[k]
  BY <1>1, <1>5, <1>7
<1>9. ps = pt
  BY <1>7, <1>8, SameText
<1>10. IsPrefix(rs, rt)
  BY <1>1, <1>4, <1>9 DEF IsPrefix, ps, pt
<1>11. QED
  BY <1>10 DEF IsSuffix, rs, rt, s, t

\* The first and the last of some places in a text.
LEMMA EndsFound ==
  ASSUME NEW n \in Nat, NEW P \in SUBSET (1..n), P # {}
  PROVE  \E a, b \in P : \A p \in P : a <= p /\ p <= b
<1>1. P \subseteq Nat
  OBVIOUS
<1>2. PICK a \in P : \A p \in P : ~(p < a)
  BY <1>1, LeastNumber
<1> DEFINE L == {n - p : p \in P}
<1>3. L \subseteq Nat /\ L # {}
  <2>1. \A p \in P : p \in Nat /\ p <= n
    OBVIOUS
  <2>2. \A p \in P : n - p \in Nat
    BY <2>1
  <2>3. QED
    BY <2>2
<1>4. PICK x \in L : \A y \in L : ~(y < x)
  <2> HIDE DEF L
  <2> QED
    BY <1>3, LeastNumber
<1>5. PICK b \in P : x = n - b
  OBVIOUS
<1>6. \A p \in P : n - p \in L
  OBVIOUS
<1> HIDE DEF L
<1>7. ASSUME NEW p \in P PROVE a <= p /\ p <= b
  <2>1. ~(n - p < n - b) /\ ~(p < a)
    BY <1>2, <1>4, <1>5, <1>6
  <2>2. p \in 1..n /\ b \in 1..n /\ a \in 1..n
    BY <1>5, <1>2
  <2>3. QED
    BY <2>1, <2>2
<1>8. QED
  BY <1>2, <1>5, <1>7

\* The places of a slice that are not blank.
Solid(text, i, j) == {p \in i..j : text[p] # "SP"}

\* trim keeps of a slice what stands from its first to its last solid place.
LEMMA TrimSlice ==
  ASSUME NEW S, NEW text \in Seq(S), NEW i \in 1..(Len(text) + 1), NEW j \in (i - 1)..Len(text)
  PROVE  /\ Solid(text, i, j) = {} => trim(SubSeq(text, i, j)) = <<>>
         /\ \A a, b \in Solid(text, i, j) :
              (\A p \in Solid(text, i, j) : a <= p /\ p <= b)
                => trim(SubSeq(text, i, j)) = SubSeq(text, a, b)
<1> DEFINE t == SubSeq(text, i, j)
           m == j - i + 1
           solid == {k \in DOMAIN t : t[k] # "SP"}
           first == CHOOSE k \in solid : \A l \in solid : k <= l
           final == CHOOSE k \in solid : \A l \in solid : l <= k
<1>1. /\ m \in Nat /\ DOMAIN t = 1..m /\ Len(t) = m
      /\ \A k \in 1..m : t[k] = text[i + k - 1]
  <2>1. t \in Seq(S) /\ Len(t) = m /\ \A k \in 1..m : t[k] = text[i + k - 1]
    BY SliceIsText, SliceIs
  <2>2. m \in Nat
    OBVIOUS
  <2> HIDE DEF t, m
  <2>3. DOMAIN t = 1..m
    BY <2>1
  <2>4. QED
    BY <2>1, <2>2, <2>3, Zenon
<1>2. trim(t) = IF solid = {} THEN <<>> ELSE SubSeq(t, first, final)
  BY Zenon DEF trim
<1>3. \A k \in 1..m : k \in solid <=> i + k - 1 \in Solid(text, i, j)
  BY <1>1 DEF Solid
<1>4. \A p \in Solid(text, i, j) : p - i + 1 \in 1..m /\ i + (p - i + 1) - 1 = p
  BY DEF Solid
<1>5. solid \subseteq 1..m
  BY <1>1
<1>6. Solid(text, i, j) \subseteq i..j
  BY DEF Solid
<1> HIDE DEF solid, t
<1>7. ASSUME Solid(text, i, j) = {} PROVE trim(t) = <<>>
  <2>1. solid = {}
    BY <1>3, <1>5, <1>7
  <2>2. QED
    BY <1>2, <2>1
<1>8. ASSUME NEW a \in Solid(text, i, j), NEW b \in Solid(text, i, j),
             \A p \in Solid(text, i, j) : a <= p /\ p <= b
      PROVE  trim(t) = SubSeq(text, a, b)
  <2> DEFINE a1 == a - i + 1
             b1 == b - i + 1
  <2>1. a1 \in solid /\ b1 \in solid /\ a1 \in 1..m /\ b1 \in 1..m
    BY <1>3, <1>4
  <2>2. ASSUME NEW k \in solid PROVE a1 <= k /\ k <= b1
    <3>1. k \in 1..m /\ i + k - 1 \in Solid(text, i, j)
      BY <1>3, <1>5, <2>2
    <3>2. a <= i + k - 1 /\ i + k - 1 <= b
      BY <1>8, <3>1
    <3>3. QED
      BY <1>6, <3>1, <3>2
  <2>3. i + a1 - 1 = a /\ i + b1 - 1 = b
    BY <1>6
  <2> HIDE DEF a1, b1
  <2>4. first \in solid /\ \A k \in solid : first <= k
    BY <2>1, <2>2
  <2>5. final \in solid /\ \A k \in solid : k <= final
    BY <2>1, <2>2
  <2> HIDE DEF first, final
  <2>6. first = a1 /\ final = b1
    BY <1>5, <2>1, <2>2, <2>4, <2>5
  <2>7. a1 <= b1
    BY <2>1, <2>2
  <2>8. a1 \in 1..(j - i + 2) /\ b1 \in (a1 - 1)..(j - i + 1)
    BY <2>1, <2>7
  <2>9. SubSeq(t, a1, b1) = SubSeq(text, i + a1 - 1, i + b1 - 1)
    BY <2>8, SliceOfSlice DEF t
  <2>10. QED
    BY <1>2, <2>1, <2>3, <2>6, <2>9
<1>9. QED
  BY <1>7, <1>8 DEF t

LEMMA TrimIsText ==
  ASSUME NEW S, NEW text \in Seq(S)
  PROVE  trim(text) \in Seq(S)
<1> DEFINE n == Len(text)
<1>1. n \in Nat /\ 1 \in 1..(n + 1) /\ n \in (1 - 1)..n /\ SubSeq(text, 1, n) = text
  BY SubSeqFull
<1> HIDE DEF n
<1>2. Solid(text, 1, n) \in SUBSET (1..n)
  BY DEF Solid
<1>3. CASE Solid(text, 1, n) = {}
  <2>1. trim(SubSeq(text, 1, n)) = <<>>
    <3>1. 1 \in 1..(Len(text) + 1) /\ n \in (1 - 1)..Len(text)
      BY <1>1 DEF n
    <3>2. QED
      BY <1>3, <3>1, TrimSlice
  <2>2. trim(text) = <<>>
    BY <1>1, <2>1, Zenon
  <2>3. QED
    BY <2>2
<1>4. CASE Solid(text, 1, n) # {}
  <2>1. PICK a, b \in Solid(text, 1, n) : \A p \in Solid(text, 1, n) : a <= p /\ p <= b
    BY <1>1, <1>2, <1>4, EndsFound
  <2>2. trim(SubSeq(text, 1, n)) = SubSeq(text, a, b)
    <3>1. 1 \in 1..(Len(text) + 1) /\ n \in (1 - 1)..Len(text)
      BY <1>1 DEF n
    <3>2. QED
      BY <2>1, <3>1, TrimSlice
  <2>3. a \in 1..(n + 1) /\ b \in (a - 1)..n
    BY <1>1, <1>2, <2>1
  <2>4. QED
    BY <1>1, <2>2, <2>3, SliceIsText DEF n
<1>5. QED
  BY <1>3, <1>4

LEMMA EmptySuffix ==
  ASSUME NEW S, NEW t \in Seq(S)
  PROVE  IsSuffix(<<>>, t)
<1> DEFINE n == Len(t)
           rt == Reverse(t)
<1>1. n \in Nat
  OBVIOUS
<1>2. rt = [k \in 1..n |-> t[(n - k) + 1]]
  BY DEF Reverse
<1>3. \A k \in 1..n : t[(n - k) + 1] \in S
  BY <1>1
<1>4. Len(Reverse(<<>>)) = 0
  BY DEF Reverse
<1> HIDE DEF rt, n
<1>5. rt \in [1..n -> S]
  BY <1>2, <1>3
<1>6. Len(rt) = n
  BY <1>1, <1>5
<1>7. SubSeq(Reverse(<<>>), 1, 0) = <<>> /\ SubSeq(rt, 1, 0) = <<>>
  BY SubSeqEmpty
<1>8. QED
  BY <1>1, <1>4, <1>6, <1>7 DEF IsSuffix, IsPrefix, rt

\* What trim leaves of a suffix is a suffix of what it leaves of the whole.
LEMMA TrimSuffix ==
  ASSUME NEW S, NEW text \in Seq(S), NEW i \in 1..(Len(text) + 1), NEW j \in (i - 1)..Len(text),
         NEW h \in i..(j + 1)
  PROVE  IsSuffix(trim(SubSeq(text, h, j)), trim(SubSeq(text, i, j)))
<1> DEFINE n == Len(text)
<1>1. n \in Nat /\ h \in 1..(n + 1) /\ j \in (h - 1)..n /\ h \in Nat /\ i \in Nat /\ j \in Int
  OBVIOUS
<1>2. Solid(text, h, j) \subseteq Solid(text, i, j)
  BY <1>1 DEF Solid
<1>3. /\ Solid(text, i, j) \in SUBSET (1..n) /\ Solid(text, h, j) \in SUBSET (1..n)
      /\ Solid(text, h, j) \subseteq h..j /\ Solid(text, i, j) \subseteq i..j
  BY <1>1 DEF Solid
<1>4. SubSeq(text, i, j) \in Seq(S)
  BY SliceIsText
<1>5. CASE Solid(text, h, j) = {}
  <2>1. trim(SubSeq(text, h, j)) = <<>>
    BY <1>1, <1>5, TrimSlice
  <2>2. trim(SubSeq(text, i, j)) \in Seq(S)
    BY <1>4, TrimIsText
  <2>3. QED
    BY <2>1, <2>2, EmptySuffix
<1>6. CASE Solid(text, h, j) # {}
  <2>1. PICK a, b \in Solid(text, h, j) : \A p \in Solid(text, h, j) : a <= p /\ p <= b
    BY <1>1, <1>3, <1>6, EndsFound
  <2>2. PICK c, d \in Solid(text, i, j) : \A p \in Solid(text, i, j) : c <= p /\ p <= d
    BY <1>1, <1>2, <1>3, <1>6, EndsFound
  <2>3. a \in h..j /\ b \in h..j /\ c \in i..j /\ d \in i..j /\ c <= a /\ b <= d
    BY <1>2, <1>3, <2>1, <2>2
  <2>4. d \in Solid(text, h, j)
    BY <1>1, <2>2, <2>3 DEF Solid
  <2>5. b = d /\ a <= b
    BY <2>1, <2>3, <2>4
  <2>6. trim(SubSeq(text, h, j)) = SubSeq(text, a, b)
    BY <1>1, <2>1, TrimSlice
  <2>7. trim(SubSeq(text, i, j)) = SubSeq(text, c, b)
    BY <2>2, <2>5, TrimSlice
  <2>8. c \in 1..(n + 1) /\ b \in (c - 1)..n /\ a \in c..(b + 1)
    BY <1>1, <2>3, <2>5
  <2>9. IsSuffix(SubSeq(text, a, b), SubSeq(text, c, b))
    BY <2>8, SuffixSlice
  <2>10. QED
    BY <2>6, <2>7, <2>9
<1>7. QED
  BY <1>5, <1>6

\* The first delimiter of a buffer, the run of delimiters behind it, and what is
\* before and after them.
LEMMA PoppedIs ==
  ASSUME NEW S, NEW buffer \in Seq(S), HasFrame(buffer)
  PROVE  \E index \in 1..Len(buffer) : \E rest_index \in (index + 1)..(Len(buffer) + 1) :
           /\ buffer[index] \in Delims /\ \A j \in 1..(index - 1) : buffer[j] \notin Delims
           /\ \A j \in index..(rest_index - 1) : buffer[j] \in Delims
           /\ pop_serial_frame(buffer).frame = SubSeq(buffer, 1, index - 1)
           /\ pop_serial_frame(buffer).rest = SubSeq(buffer, rest_index, Len(buffer))
<1> DEFINE n == Len(buffer)
           T == {i \in 1..n : buffer[i] \in Delims}
           First(i) == buffer[i] \in Delims /\ \A j \in 1..(i - 1) : buffer[j] \notin Delims
           index == CHOOSE i \in DOMAIN buffer : First(i)
           Rest(k) == /\ \A j \in index..(k - 1) : buffer[j] \in Delims
                      /\ k <= Len(buffer) => buffer[k] \notin Delims
           rest_index == CHOOSE k \in (index + 1)..(Len(buffer) + 1) : Rest(k)
<1>1. n \in Nat /\ DOMAIN buffer = 1..n
  OBVIOUS
<1>2. PICK x \in T : \A y \in T : ~(y < x)
  <2>1. T \subseteq Nat /\ T # {}
    BY <1>1 DEF HasFrame
  <2> HIDE DEF T
  <2>2. QED
    BY <2>1, LeastNumber
<1>3. x \in DOMAIN buffer /\ First(x)
  <2>1. x \in 1..n /\ buffer[x] \in Delims
    OBVIOUS
  <2>2. ASSUME NEW j \in 1..(x - 1), buffer[j] \in Delims PROVE FALSE
    <3>1. j \in 1..n /\ j < x
      BY <1>1, <2>1
    <3>2. j \in T
      BY <2>2, <3>1
    <3> HIDE DEF T
    <3>3. QED
      BY <1>2, <3>1, <3>2
  <2>3. QED
    BY <1>1, <2>1, <2>2
<1>4. index \in 1..n /\ First(index)
  <2> HIDE DEF First
  <2> QED
    BY <1>1, <1>3
<1>5. /\ pop_serial_frame(buffer).frame = SubSeq(buffer, 1, index - 1)
      /\ pop_serial_frame(buffer).rest = SubSeq(buffer, rest_index, n)
  BY DEF pop_serial_frame
<1>6. buffer[index] \in Delims
  BY <1>4
<1> HIDE DEF index
<1> DEFINE U == {k \in (index + 1)..(n + 1) : k <= n => buffer[k] \notin Delims}
<1>7. PICK r \in U : \A y \in U : ~(y < r)
  <2>1. U \subseteq Nat /\ n + 1 \in U
    BY <1>1, <1>4
  <2> HIDE DEF U
  <2>2. QED
    BY <2>1, LeastNumber
<1>8. r \in (index + 1)..(n + 1) /\ Rest(r)
  <2>1. r \in (index + 1)..(n + 1) /\ (r <= n => buffer[r] \notin Delims)
    OBVIOUS
  <2>2. ASSUME NEW j \in index..(r - 1), buffer[j] \notin Delims PROVE FALSE
    <3>1. j # index
      BY <1>6, <2>2
    <3>2. j \in (index + 1)..(n + 1) /\ j < r
      BY <1>1, <1>4, <2>1, <2>2, <3>1
    <3>3. j \in U
      BY <2>2, <3>2
    <3> HIDE DEF U
    <3>4. QED
      BY <1>7, <3>2, <3>3
  <2>3. QED
    BY <2>1, <2>2
<1>9. rest_index \in (index + 1)..(n + 1) /\ Rest(rest_index)
  <2> HIDE DEF Rest
  <2> QED
    BY <1>8
<1>10. \A j \in index..(rest_index - 1) : buffer[j] \in Delims
  BY <1>9
<1>11. buffer[index] \in Delims /\ \A j \in 1..(index - 1) : buffer[j] \notin Delims
  BY <1>4
<1> HIDE DEF rest_index, Rest, First
<1>12. QED
  BY <1>4, <1>5, <1>9, <1>10, <1>11

\* The frame and the rest are parts of the buffer.
LEMMA PoppedIsText ==
  ASSUME NEW S, NEW buffer \in Seq(S), HasFrame(buffer)
  PROVE  pop_serial_frame(buffer).frame \in Seq(S) /\ pop_serial_frame(buffer).rest \in Seq(S)
<1>0. PICK index \in 1..Len(buffer) : \E rest_index \in (index + 1)..(Len(buffer) + 1) :
        /\ pop_serial_frame(buffer).frame = SubSeq(buffer, 1, index - 1)
        /\ pop_serial_frame(buffer).rest = SubSeq(buffer, rest_index, Len(buffer))
  BY PoppedIs
<1>1. PICK rest_index \in (index + 1)..(Len(buffer) + 1) :
        /\ pop_serial_frame(buffer).frame = SubSeq(buffer, 1, index - 1)
        /\ pop_serial_frame(buffer).rest = SubSeq(buffer, rest_index, Len(buffer))
  BY <1>0
<1> DEFINE n == Len(buffer)
<1>2. n \in Nat
  OBVIOUS
<1> HIDE DEF n
<1>3. /\ 1 \in 1..(n + 1) /\ index - 1 \in (1 - 1)..n
      /\ rest_index \in 1..(n + 1) /\ n \in (rest_index - 1)..n
  BY <1>1, <1>2 DEF n
<1>4. QED
  BY <1>1, <1>3, SliceIsText DEF n

\* What is kept of the buffer and a chunk is a text.
LEMMA AppendedIsText ==
  ASSUME NEW S, NEW existing \in Seq(S), NEW chunk \in Seq(S), ~SlicePanics(existing, chunk)
  PROVE  append_raw(existing, chunk) \in Seq(S)
<1> DEFINE combined == existing \o chunk
           n == Len(combined)
           tail(i) == SubSeq(combined, i, n)
           x == CHOOSE i \in DOMAIN combined : Bytes(tail(i)) = MaxPending
<1>1. combined \in Seq(S)
  OBVIOUS
<1>2. append_raw(existing, chunk) = IF Bytes(combined) <= MaxPending THEN combined ELSE tail(x)
  BY Zenon DEF append_raw
<1>3. ~(Bytes(combined) > MaxPending) \/ x \in DOMAIN combined
  <2>1. \/ ~(Bytes(combined) > MaxPending)
        \/ \E i \in DOMAIN combined : Bytes(tail(i)) = MaxPending
    BY DEF SlicePanics
  <2> HIDE DEF combined, tail
  <2>2. QED
    BY <2>1
<1> HIDE DEF combined, x
<1>4. n \in Nat /\ DOMAIN combined = 1..n
  BY <1>1
<1>5. ASSUME x \in 1..n PROVE tail(x) \in Seq(S)
  <2>1. x \in 1..(n + 1) /\ n \in (x - 1)..n
    BY <1>4, <1>5
  <2>2. QED
    BY <1>1, <2>1, SliceIsText
<1>6. Bytes(combined) <= MaxPending \/ Bytes(combined) > MaxPending
  <2> DEFINE Wide == {i \in DOMAIN combined : combined[i] = "?"}
  <2>1. IsFiniteSet(1..n)
    BY <1>4, FS_Interval
  <2>2. Wide \in SUBSET (1..n)
    BY <1>4
  <2>3. IsFiniteSet(Wide)
    BY <2>1, <2>2, FS_Subset
  <2>4. Cardinality(Wide) \in Nat
    BY <2>3, FS_CardinalityType
  <2>5. Bytes(combined) = n + 2 * Cardinality(Wide)
    BY DEF Bytes
  <2> HIDE DEF Wide, n
  <2>6. Bytes(combined) \in Nat
    BY <1>4, <2>4, <2>5
  <2>7. QED
    BY <2>6, StreamAssumption
<1>7. QED
  BY <1>1, <1>2, <1>3, <1>4, <1>5, <1>6

\* A reading of a text is added.
LEMMA AddParsed ==
  ASSUME ReadingsInv, NEW reading, NEW text \in Seq(Chars), ReadingOf(reading, text),
         out' = Append(out, reading), pending' \in Seq(Chars)
  PROVE  ReadingsInv'
<1> PICK S : out \in Seq(S)
  BY DEF ReadingsInv
<1> DEFINE n == Len(out)  T == S \cup {reading}
<1>1. out \in Seq(T) /\ reading \in T
  OBVIOUS
<1>2. /\ out' \in Seq(T) /\ Len(out') = n + 1 /\ n \in Nat
      /\ out'[n + 1] = reading /\ \A i \in 1..n : out'[i] = out[i]
  BY <1>1
<1>3. \A k \in 1..n : \E t \in Seq(Chars) : ReadingOf(out[k], t)
  BY DEF ReadingsInv
<1> HIDE DEF n, T
<1>4. ASSUME NEW k \in 1..(n + 1) PROVE \E t \in Seq(Chars) : ReadingOf(out'[k], t)
  <2>1. CASE k \in 1..n
    BY <1>2, <1>3, <2>1
  <2>2. CASE k = n + 1
    BY <1>2, <2>2
  <2>3. QED
    BY <1>2, <2>1, <2>2
<1>5. QED
  BY <1>2, <1>4 DEF ReadingsInv, ReadingOf

LEMMA ParsedStep ==
  ASSUME ReadingsInv, NEW text \in Seq(Chars), frame_to_reading(text), pending' \in Seq(Chars)
  PROVE  ReadingsInv'
<1> DEFINE R(kind, weight, unit) ==
      [kind |-> kind, text |-> text, weight |-> weight, unit |-> unit]
<1>1. CASE UNCHANGED out
  BY <1>1 DEF ReadingsInv, ReadingOf
<1>2. CASE text = <<>> /\ seen_parsed_value /\ ~UNCHANGED out
  <2>1. out' = Append(out, R("zero", 0, last_unit))
    BY <1>2 DEF frame_to_reading, Emit
  <2>2. ReadingOf(R("zero", 0, last_unit), text)
    BY <1>2 DEF ReadingOf
  <2> HIDE DEF R
  <2>3. QED
    BY <2>1, <2>2, AddParsed
<1>3. CASE text # <<>> /\ ~Parses(text)
  <2>1. out' = Append(out, R("raw", 0, last_unit))
    BY <1>3 DEF frame_to_reading, Emit
  <2>2. ReadingOf(R("raw", 0, last_unit), text)
    BY <1>3 DEF ReadingOf
  <2> HIDE DEF R
  <2>3. QED
    BY <2>1, <2>2, AddParsed
<1>4. CASE text # <<>> /\ Parses(text)
  <2>1. out' = Append(out, R("weight", parse_weight(text).weight, parse_weight(text).unit))
    BY <1>4 DEF frame_to_reading, Emit
  <2>2. ReadingOf(R("weight", parse_weight(text).weight, parse_weight(text).unit), text)
    BY <1>4 DEF ReadingOf
  <2> HIDE DEF R
  <2>3. QED
    BY <2>1, <2>2, AddParsed
<1>5. QED
  BY <1>1, <1>2, <1>3, <1>4 DEF frame_to_reading

LEMMA NextReadings == ReadingsInv /\ [Next]_vars => ReadingsInv'
<1> SUFFICES ASSUME ReadingsInv, [Next]_vars PROVE ReadingsInv'
  OBVIOUS
<1>0. pending \in Seq(Chars)
  BY DEF ReadingsInv
<1>1. CASE next_frame
  <2> DEFINE popped == pop_serial_frame(pending)
  <2>1. HasFrame(pending) /\ pending' = popped.rest /\ frame_to_reading(trim(popped.frame))
    BY <1>1 DEF next_frame
  <2>2. popped.frame \in Seq(Chars) /\ popped.rest \in Seq(Chars)
    BY <1>0, <2>1, PoppedIsText
  <2>3. trim(popped.frame) \in Seq(Chars)
    BY <2>2, TrimIsText
  <2> HIDE DEF popped
  <2>4. QED
    BY <2>1, <2>2, <2>3, ParsedStep
<1>2. ASSUME NEW chunk \in Chunks, push_chunk(chunk) PROVE ReadingsInv'
  <2>1. chunk \in Seq(Chars)
    <3>1. PICK n \in 1..MaxChunk : chunk \in [1..n -> Chars]
      BY DEF Chunks
    <3>2. n \in Nat
      BY StreamAssumption
    <3>3. QED
      BY <3>1, <3>2
  <2>2. pending' \in Seq(Chars)
    <3>1. CASE SlicePanics(pending, chunk)
      BY <1>0, <1>2, <3>1 DEF push_chunk
    <3>2. CASE ~SlicePanics(pending, chunk)
      <4>1. pending' = append_raw(pending, chunk)
        BY <1>2, <3>2 DEF push_chunk
      <4>2. QED
        BY <1>0, <2>1, <3>2, <4>1, AppendedIsText
    <3>3. QED
      BY <3>1, <3>2
  <2>3. UNCHANGED out
    BY <1>2 DEF push_chunk
  <2>4. QED
    BY <2>2, <2>3 DEF ReadingsInv, ReadingOf
<1>3. CASE UNCHANGED vars
  BY <1>3 DEF vars, ReadingsInv, ReadingOf
<1>4. QED
  BY <1>1, <1>2, <1>3 DEF Next

LEMMA ReadingsInvariant == Spec => []ReadingsInv
<1>1. Init => ReadingsInv
  <2> SUFFICES ASSUME Init PROVE ReadingsInv
    OBVIOUS
  <2>1. out = <<>> /\ pending = <<>>
    BY DEF Init
  <2>2. out \in Seq({}) /\ Len(out) = 0 /\ pending \in Seq(Chars)
    BY <2>1
  <2>3. QED
    BY <2>2 DEF ReadingsInv
<1>2. QED
  BY <1>1, NextReadings, PTL DEF Spec

\* A frame of Frames is a text.
LEMMA FramesAreTexts ==
  ASSUME NEW f \in Frames
  PROVE  Len(f) \in Nat
<1>1. PICK n \in 0..MaxFrame : f \in [1..n -> FrameTokens]
  BY DEF Frames
<1>2. n \in Nat
  BY ParserAssumption
<1>3. f \in Seq(FrameTokens)
  BY <1>1, <1>2
<1>4. QED
  BY <1>3

LEMMA EmptyHasNoNumber == InRangeOf(<<>>) = {}
  BY DEF InRangeOf, NumbersOf

\* The text of a reading, with what it was made of.
LEMMA ReadingText ==
  ASSUME ReadingsInv, NEW k \in DOMAIN out
  PROVE  Len(out[k].text) \in Nat /\ ReadingOf(out[k], out[k].text)
<1>1. k \in 1..Len(out)
  BY DEF ReadingsInv
<1>2. PICK text \in Seq(Chars) : ReadingOf(out[k], text)
  BY <1>1 DEF ReadingsInv
<1>3. out[k].text = text
  BY <1>2 DEF ReadingOf
<1>4. Len(text) \in Nat
  OBVIOUS
<1>5. QED
  BY <1>2, <1>3, <1>4

\* Every number in range gives a weight and no other number is taken, in every
\* frame and whatever the scale sends (parser.rs parse_weight).
THEOREM NumbersCorrect == Spec => []NoNumberIsLost
<1>1. NumbersKept
  BY FramesAreTexts, KeepsNumbers DEF NumbersKept
<1>2. ReadingsInv => NoNumberIsLost
  <2> SUFFICES ASSUME ReadingsInv, NEW k \in DOMAIN out, out[k].kind # "zero"
               PROVE  out[k].kind = "weight" <=> InRangeOf(out[k].text) # {}
    BY <1>1 DEF NoNumberIsLost
  <2>1. Len(out[k].text) \in Nat /\ ReadingOf(out[k], out[k].text)
    BY ReadingText
  <2>2. Parses(out[k].text) <=> InRangeOf(out[k].text) # {}
    BY <2>1, KeepsNumbers
  <2>3. out[k].kind = "weight" <=> Parses(out[k].text)
    BY <2>1 DEF ReadingOf
  <2>4. QED
    BY <2>2, <2>3
<1>3. QED
  BY <1>2, ReadingsInvariant, PTL

\* Without a sign in a frame its only number with a unit is the weight, whatever
\* other numbers stand in it (parser.rs score_candidate).
THEOREM UnitsCorrect == Spec => []UnitDecides
<1>1. UnitsDecide
  BY FramesAreTexts, DecidesUnit DEF UnitsDecide
<1>2. ReadingsInv => UnitDecides
  <2> SUFFICES ASSUME ReadingsInv, NEW k \in DOMAIN out, UnitIsClear(out[k].text)
               PROVE  out[k].unit = Unit
    BY <1>1 DEF UnitDecides
  <2>1. Len(out[k].text) \in Nat /\ ReadingOf(out[k], out[k].text)
    BY ReadingText
  <2>2. Parses(out[k].text) /\ parse_weight(out[k].text).unit = Unit
    BY <2>1, DecidesUnit
  <2>3. out[k].text # <<>>
    BY <2>1, <2>2, KeepsNumbers, EmptyHasNoNumber
  <2>4. QED
    BY <2>1, <2>2, <2>3 DEF ReadingOf
<1>3. QED
  BY <1>2, ReadingsInvariant, PTL

\* The only number of a frame is negative exactly when a minus stands next to it
\* or an N before it (parser.rs resolve_sign).
THEOREM MinusCorrect == Spec => []MinusIsSeen
<1>1. MinusesSeen
  BY FramesAreTexts, SeesMinus DEF MinusesSeen
<1>2. ReadingsInv => MinusIsSeen
  <2> SUFFICES ASSUME ReadingsInv, NEW k \in DOMAIN out, OneNumber(out[k].text)
               PROVE  out[k].weight < 0 <=> Negative(out[k].text)
    BY <1>1 DEF MinusIsSeen
  <2>1. Len(out[k].text) \in Nat /\ ReadingOf(out[k], out[k].text)
    BY ReadingText
  <2>2. /\ Parses(out[k].text)
        /\ parse_weight(out[k].text).weight < 0 <=> Negative(out[k].text)
    BY <2>1, SeesMinus
  <2>3. out[k].text # <<>>
    BY <2>1, <2>2, KeepsNumbers, EmptyHasNoNumber
  <2>4. out[k].weight = parse_weight(out[k].text).weight
    BY <2>1, <2>2, <2>3 DEF ReadingOf
  <2>5. QED
    BY <2>2, <2>4
<1>3. QED
  BY <1>2, ReadingsInvariant, PTL

-------------------------------------------------------------------------------
(* Frames: what the decoder makes of a text without noise, however it comes.   *)

\* The first delimiter from i on.
LEMMA FirstDelim ==
  ASSUME NEW text, NEW i \in Nat, NEW k \in Nat, i <= k, text[k] \in Delims
  PROVE  \E m \in i..k : text[m] \in Delims /\ \A j \in i..(m - 1) : text[j] \notin Delims
<1> DEFINE T == {m \in i..k : text[m] \in Delims}
<1>1. T \subseteq Nat /\ T # {}
  <2>1. k \in T
    OBVIOUS
  <2>2. QED
    BY <2>1
<1>2. PICK m \in T : \A l \in T : ~(l < m)
  <2> HIDE DEF T
  <2> QED
    BY <1>1, LeastNumber
<1>3. m \in i..k /\ text[m] \in Delims
  OBVIOUS
<1>4. ASSUME NEW j \in i..(m - 1), text[j] \in Delims PROVE FALSE
  <2>1. j \in i..k /\ j < m
    BY <1>3
  <2>2. j \in T
    BY <1>4, <2>1
  <2> HIDE DEF T
  <2>3. QED
    BY <1>2, <2>1, <2>2
<1>5. QED
  BY <1>3, <1>4

\* A frame reaches to the first delimiter behind its start.
LEMMA FrameIs ==
  ASSUME NEW text, Len(text) \in Nat, NEW i \in Nat, NEW k \in i..Len(text), text[k] \in Delims,
         \A j \in i..(k - 1) : text[j] \notin Delims
  PROVE  FrameAt(text, i) = SubSeq(text, i, k - 1)
<1> DEFINE Closes(m) == text[m] \in Delims /\ \A j \in i..(m - 1) : text[j] \notin Delims
           e == CHOOSE m \in i..Len(text) : Closes(m)
<1>1. Closes(k)
  OBVIOUS
<1>2. e \in i..Len(text) /\ Closes(e)
  <2> HIDE DEF Closes
  <2> QED
    BY <1>1
<1>3. FrameEnd(text, i) = e
  BY Zenon DEF FrameEnd
<1>4. /\ text[e] \in Delims
      /\ \A j \in i..(e - 1) : text[j] \notin Delims
  BY <1>2
<1> HIDE DEF e, Closes
<1>5. e = k
  BY <1>2, <1>4
<1>6. QED
  BY <1>3, <1>5 DEF FrameAt

\* What is safe of a frame is a suffix of what trim leaves of it, and of what trim
\* leaves when its head is lost but as much as is kept at least is there.
LEMMA SafeSlice ==
  ASSUME NEW S, NEW text \in Seq(S), NEW i \in 1..(Len(text) + 1), NEW j \in (i - 1)..Len(text),
         NEW h \in i..(j + 1), h > i => h + (MaxPending - MaxChunk) <= j + 1
  PROVE  IsSuffix(Safe(SubSeq(text, i, j)), trim(SubSeq(text, h, j)))
<1> DEFINE frame == SubSeq(text, i, j)
           n == j - i + 1
           w == MaxPending - MaxChunk
           a == j - w + 1
<1>1. /\ n \in Nat /\ w \in Nat \ {0} /\ i \in Nat \ {0} /\ h \in Nat /\ j \in Nat
      /\ h <= j + 1 /\ i <= h /\ (h > i => h + w <= j + 1)
  BY StreamAssumption
<1>2. Len(frame) = n
  BY SliceIs
<1>3. h \in 1..(Len(text) + 1) /\ j \in (h - 1)..Len(text)
  OBVIOUS
<1>4. Len(frame) + MaxChunk <= MaxPending <=> n <= w
  BY <1>1, <1>2, StreamAssumption
<1>5. CASE n <= w
  <2>1. h = i
    BY <1>1, <1>5
  <2>2. Safe(frame) = trim(frame)
    BY <1>4, <1>5 DEF Safe
  <2>3. h \in h..(j + 1)
    BY <1>1
  <2>4. QED
    BY <1>3, <2>1, <2>2, <2>3, TrimSuffix
<1>6. CASE ~(n <= w)
  <2>1. a \in h..(j + 1) /\ a \in i..(j + 1)
    <3> HIDE DEF w
    <3> QED
      BY <1>1, <1>6
  <2>2. Safe(frame) = trim(Kept(frame))
    BY <1>4, <1>6 DEF Safe
  <2>3. Kept(frame) = SubSeq(frame, n - w + 1, n)
    BY <1>2 DEF Kept
  <2>4. /\ n - w + 1 \in 1..(j - i + 2) /\ n \in ((n - w + 1) - 1)..(j - i + 1)
        /\ i + (n - w + 1) - 1 = a /\ i + n - 1 = j
    <3> HIDE DEF w
    <3> QED
      BY <1>1, <1>6
  <2> HIDE DEF n, w, a
  <2>5. SubSeq(frame, n - w + 1, n) = SubSeq(text, a, j)
    <3> DEFINE m == n - w + 1
    <3>1. m \in 1..(j - i + 2) /\ n \in (m - 1)..(j - i + 1) /\ i + m - 1 = a
      BY <2>4
    <3> HIDE DEF m
    <3>2. SubSeq(frame, m, n) = SubSeq(text, i + m - 1, i + n - 1)
      BY <3>1, SliceOfSlice
    <3>3. QED
      BY <2>4, <3>1, <3>2 DEF m
  <2>6. IsSuffix(trim(SubSeq(text, a, j)), trim(SubSeq(text, h, j)))
    BY <1>3, <2>1, TrimSuffix
  <2>7. QED
    BY <2>2, <2>3, <2>5, <2>6
<1>7. QED
  BY <1>5, <1>6

\* The frames that start at c or before.
StartsTo(text, c) == {i \in FrameStarts(text) : i <= c}

\* Texts that are alike up to a delimiter have the same frames up to it.
LEMMA FramesAlike ==
  ASSUME NEW S, NEW s \in Seq(S), NEW t \in Seq(S), NEW c \in 0..Len(s), c <= Len(t),
         c = 0 \/ s[c] \in Delims, \A j \in 1..c : s[j] = t[j], NEW i \in StartsTo(s, c)
  PROVE  i \in StartsTo(t, c) /\ FrameAt(s, i) = FrameAt(t, i)
<1> DEFINE n == Len(s)  m == Len(t)
<1>1. /\ n \in Nat /\ m \in Nat /\ DOMAIN s = 1..n /\ DOMAIN t = 1..m
      /\ c \in Nat /\ c <= n /\ c <= m
  OBVIOUS
<1>2. i \in 1..c /\ (i = 1 \/ s[i - 1] \in Delims) /\ trim(FrameAt(s, i)) # <<>>
  BY <1>1 DEF StartsTo, FrameStarts
<1>3. i \in Nat /\ i <= c /\ s[c] \in Delims
  BY <1>1, <1>2
<1>4. PICK k \in i..c : s[k] \in Delims /\ \A j \in i..(k - 1) : s[j] \notin Delims
  BY <1>1, <1>3, FirstDelim
<1>5. k \in i..n /\ k \in i..m /\ k \in 1..c
  BY <1>1, <1>2, <1>4
<1>6. t[k] \in Delims /\ \A j \in i..(k - 1) : t[j] \notin Delims
  <2>1. \A j \in i..(k - 1) : j \in 1..c
    BY <1>2, <1>4
  <2>2. QED
    BY <1>4, <1>5, <2>1
<1>7. FrameAt(s, i) = SubSeq(s, i, k - 1) /\ FrameAt(t, i) = SubSeq(t, i, k - 1)
  BY <1>1, <1>3, <1>4, <1>5, <1>6, FrameIs
<1>8. SubSeq(s, i, k - 1) = SubSeq(t, i, k - 1)
  <2> DEFINE e == k - 1
             a == SubSeq(s, i, e)
             b == SubSeq(t, i, e)
  <2>1. /\ i \in 1..(n + 1) /\ e \in (i - 1)..n /\ i \in 1..(m + 1) /\ e \in (i - 1)..m
        /\ \A l \in 1..(e - i + 1) : i + l - 1 \in 1..c
    BY <1>1, <1>2, <1>5
  <2> HIDE DEF e
  <2>2. /\ a \in Seq(S) /\ Len(a) = e - i + 1 /\ \A l \in 1..(e - i + 1) : a[l] = s[i + l - 1]
        /\ b \in Seq(S) /\ Len(b) = e - i + 1 /\ \A l \in 1..(e - i + 1) : b[l] = t[i + l - 1]
    BY <2>1, SliceIsText, SliceIs
  <2> HIDE DEF a, b
  <2>3. ASSUME NEW l \in 1..(e - i + 1) PROVE a[l] = b[l]
    <3>1. a[l] = s[i + l - 1] /\ b[l] = t[i + l - 1] /\ i + l - 1 \in 1..c
      BY <2>1, <2>2
    <3>2. QED
      BY <3>1, Zenon
  <2>4. a = b
    BY <2>2, <2>3, SameText
  <2>5. QED
    BY <2>4 DEF a, b, e
<1>9. i = 1 \/ t[i - 1] \in Delims
  <2>1. i = 1 \/ i - 1 \in 1..c
    BY <1>2
  <2>2. QED
    BY <1>2, <2>1
<1>10. i \in DOMAIN t /\ \E l \in i..m : t[l] \in Delims
  BY <1>1, <1>2, <1>5, <1>6
<1>11. trim(FrameAt(t, i)) # <<>>
  BY <1>2, <1>7, <1>8
<1>12. i \in FrameStarts(t)
  BY <1>9, <1>10, <1>11 DEF FrameStarts
<1>13. QED
  BY <1>3, <1>7, <1>8, <1>12 DEF StartsTo

\* A text that goes on has the frames it had.
LEMMA FramesStay ==
  ASSUME NEW S, NEW s \in Seq(S), NEW t \in Seq(S), NEW c \in 0..Len(s), c <= Len(t),
         c = 0 \/ s[c] \in Delims, \A j \in 1..c : s[j] = t[j]
  PROVE  StartsTo(s, c) = StartsTo(t, c) /\ \A i \in StartsTo(s, c) : FrameAt(s, i) = FrameAt(t, i)
<1>1. \A i \in StartsTo(s, c) : i \in StartsTo(t, c) /\ FrameAt(s, i) = FrameAt(t, i)
  BY FramesAlike
<1>2. c \in 0..Len(t) /\ c <= Len(s) /\ (c = 0 \/ t[c] \in Delims) /\ \A j \in 1..c : t[j] = s[j]
  OBVIOUS
<1>3. \A i \in StartsTo(t, c) : i \in StartsTo(s, c)
  BY <1>2, FramesAlike
<1>4. QED
  BY <1>1, <1>3

\* Behind a delimiter at c, up to the next run of delimiters, from k to e, there is
\* one more frame at most.
LEMMA OneMoreFrame ==
  ASSUME NEW S, NEW text \in Seq(S), NEW c \in Nat, c = 0 \/ text[c] \in Delims,
         NEW k \in (c + 1)..Len(text), NEW e \in k..Len(text),
         \A j \in (c + 1)..(k - 1) : text[j] \notin Delims,
         \A j \in k..e : text[j] \in Delims
  PROVE  /\ FrameAt(text, c + 1) = SubSeq(text, c + 1, k - 1)
         /\ StartsTo(text, e) = StartsTo(text, c)
              \cup (IF trim(SubSeq(text, c + 1, k - 1)) = <<>> THEN {} ELSE {c + 1})
<1> DEFINE n == Len(text)  x == c + 1
<1>1. /\ n \in Nat /\ DOMAIN text = 1..n /\ k \in Nat /\ e \in Nat /\ x \in Nat
      /\ k \in x..n /\ e \in k..n /\ text[k] \in Delims /\ x \in 1..n /\ x - 1 = c
      /\ \A j \in x..(k - 1) : text[j] \notin Delims
  OBVIOUS
<1> HIDE DEF n, x
<1>2. FrameAt(text, x) = SubSeq(text, x, k - 1)
  BY <1>1, FrameIs DEF n
<1>3. c + 1 = x
  BY DEF x
<1>4. x \in FrameStarts(text) <=> trim(SubSeq(text, x, k - 1)) # <<>>
  <2>1. x = 1 \/ text[x - 1] \in Delims
    BY <1>1, <1>3
  <2>2. x \in DOMAIN text /\ \E j \in x..Len(text) : text[j] \in Delims
    BY <1>1 DEF n
  <2>3. QED
    BY <1>2, <2>1, <2>2 DEF FrameStarts
<1>5. ASSUME NEW i \in StartsTo(text, e), ~(i <= c) PROVE i = x
  <2>1. /\ i \in 1..n /\ i <= e /\ (i = 1 \/ text[i - 1] \in Delims)
        /\ trim(FrameAt(text, i)) # <<>>
    BY <1>1 DEF StartsTo, FrameStarts
  <2>2. i \in Nat /\ x <= i
    BY <1>1, <1>5, <2>1
  <2>3. ASSUME x < i, i <= k PROVE FALSE
    <3>1. i - 1 \in x..(k - 1) /\ i # 1
      BY <1>1, <2>1, <2>2, <2>3
    <3>2. QED
      BY <1>1, <2>1, <3>1
  <2>4. ASSUME k < i PROVE FALSE
    <3>1. i \in k..e /\ i \in i..n
      BY <1>1, <2>1, <2>4
    <3>2. text[i] \in Delims /\ \A j \in i..(i - 1) : text[j] \notin Delims
      BY <2>2, <3>1
    <3>3. FrameAt(text, i) = SubSeq(text, i, i - 1)
      BY <1>1, <2>2, <3>1, <3>2, FrameIs DEF n
    <3>4. FrameAt(text, i) = <<>>
      BY <2>2, <3>3, SubSeqEmpty
    <3>5. trim(<<>>) = <<>>
      BY DEF trim
    <3>6. QED
      BY <2>1, <3>4, <3>5
  <2>5. QED
    BY <1>1, <2>2, <2>3, <2>4
<1>6. \A i \in StartsTo(text, c) : i \in StartsTo(text, e)
  BY <1>1 DEF StartsTo, FrameStarts
<1>7. x \in StartsTo(text, e) <=> x \in FrameStarts(text)
  BY <1>1 DEF StartsTo
<1>8. \A i \in StartsTo(text, e) : i <= c => i \in StartsTo(text, c)
  BY DEF StartsTo
<1>9. StartsTo(text, e) = StartsTo(text, c)
        \cup (IF trim(SubSeq(text, x, k - 1)) = <<>> THEN {} ELSE {x})
  <2>1. CASE trim(SubSeq(text, x, k - 1)) = <<>>
    BY <1>4, <1>5, <1>6, <1>7, <1>8, <2>1
  <2>2. CASE trim(SubSeq(text, x, k - 1)) # <<>>
    BY <1>4, <1>5, <1>6, <1>7, <1>8, <2>2
  <2>3. QED
    BY <2>1, <2>2
<1>10. QED
  BY <1>2, <1>3, <1>9

\* Without noise a character is a byte.
LEMMA BytesIs ==
  ASSUME NEW S, NEW text \in Seq(S), \A i \in 1..Len(text) : text[i] # "?"
  PROVE  Bytes(text) = Len(text)
<1>1. {i \in DOMAIN text : text[i] = "?"} = {}
  OBVIOUS
<1>2. Cardinality({}) = 0
  BY FS_EmptySet
<1>3. Bytes(text) = Len(text) + 2 * Cardinality({})
  BY <1>1, Zenon DEF Bytes
<1>4. QED
  BY <1>2, <1>3

\* Without noise the buffer is never cut inside a character, and what is left of it
\* is its last MaxPending characters.
LEMMA AppendedIs ==
  ASSUME NEW S, NEW existing \in Seq(S), NEW chunk \in Seq(S),
         \A i \in 1..Len(existing) : existing[i] # "?", \A i \in 1..Len(chunk) : chunk[i] # "?"
  PROVE  LET combined == existing \o chunk
             n == Len(combined)
         IN  /\ ~SlicePanics(existing, chunk)
             /\ append_raw(existing, chunk) =
                  SubSeq(combined, IF n <= MaxPending THEN 1 ELSE n - MaxPending + 1, n)
<1> DEFINE combined == existing \o chunk
           n == Len(combined)
           tail(i) == SubSeq(combined, i, n)
           x == CHOOSE i \in DOMAIN combined : Bytes(tail(i)) = MaxPending
           y == n - MaxPending + 1
<1>1. /\ combined \in Seq(S) /\ n \in Nat /\ DOMAIN combined = 1..n
      /\ \A i \in 1..n : combined[i] # "?"
  OBVIOUS
<1>2. append_raw(existing, chunk) = IF Bytes(combined) <= MaxPending THEN combined ELSE tail(x)
  BY Zenon DEF append_raw
<1>3. SlicePanics(existing, chunk) <=>
        Bytes(combined) > MaxPending /\ \A i \in DOMAIN combined : Bytes(tail(i)) # MaxPending
  BY DEF SlicePanics
<1>4. SubSeq(combined, 1, n) = combined
  BY <1>1, SubSeqFull
<1> HIDE DEF combined
<1>5. Bytes(combined) = n
  BY <1>1, BytesIs
<1>6. ASSUME NEW i \in 1..n PROVE Bytes(tail(i)) = n - i + 1
  <2> DEFINE t == tail(i)
  <2>1. i \in 1..(n + 1) /\ n \in (i - 1)..n /\ n - i + 1 \in Nat
    BY <1>1
  <2>2. t \in Seq(S) /\ Len(t) = n - i + 1 /\ \A k \in 1..(n - i + 1) : t[k] = combined[i + k - 1]
    BY <1>1, <2>1, SliceIsText, SliceIs
  <2> HIDE DEF t
  <2>3. \A k \in 1..(n - i + 1) : i + k - 1 \in 1..n
    BY <1>1
  <2>4. \A k \in 1..Len(t) : t[k] # "?"
    BY <1>1, <2>2, <2>3
  <2>5. Bytes(t) = n - i + 1
    BY <2>2, <2>4, BytesIs
  <2>6. QED
    BY <2>5 DEF t
<1> HIDE DEF n, tail
<1>7. CASE n <= MaxPending
  <2>1. ~(Bytes(combined) > MaxPending)
    BY <1>1, <1>5, <1>7, StreamAssumption
  <2>2. append_raw(existing, chunk) = combined
    BY <1>2, <1>5, <1>7
  <2>3. QED
    BY <1>3, <1>4, <1>7, <2>1, <2>2 DEF combined, n
<1>8. CASE ~(n <= MaxPending)
  <2>1. y \in 1..n /\ n - y + 1 = MaxPending
    BY <1>1, <1>8, StreamAssumption
  <2> HIDE DEF y
  <2>2. Bytes(tail(y)) = MaxPending
    BY <1>6, <2>1
  <2>3. x \in 1..n /\ Bytes(tail(x)) = MaxPending
    BY <1>1, <2>1, <2>2
  <2> HIDE DEF x
  <2>4. x = y
    <3>1. n - x + 1 = n - y + 1
      BY <1>6, <2>1, <2>3
    <3>2. QED
      BY <1>1, <2>1, <2>3, <3>1
  <2>5. ~SlicePanics(existing, chunk)
    BY <1>1, <1>3, <2>3
  <2>6. append_raw(existing, chunk) = tail(y)
    BY <1>2, <1>5, <1>8, <2>4
  <2>7. QED
    BY <1>8, <2>5, <2>6 DEF tail, n, y, combined
<1>9. QED
  BY <1>7, <1>8

\* The readings made of frames, those of a sequence of readings.
FramedOf(readings) == {k \in DOMAIN readings : readings[k].kind # "zero"}

\* The text of a reading is what is to be expected of a frame.
Stands(got, frame) == IsSuffix(got, trim(frame)) /\ IsSuffix(Safe(frame), got)

\* The readings stand for the frames that start at some places of a text, one for
\* one and in order.
Decodes(starts, text, readings) ==
  \E reading \in [starts -> FramedOf(readings)] :
    /\ \A i, j \in starts : i < j => reading[i] < reading[j]
    /\ \A k \in FramedOf(readings) : \E i \in starts : reading[i] = k
    /\ \A i \in starts : Stands(readings[reading[i]].text, FrameAt(text, i))

LEMMA DecodesStay ==
  ASSUME NEW starts, NEW s, NEW t, NEW o, NEW p, Decodes(starts, s, o),
         FramedOf(p) = FramedOf(o), \A k \in FramedOf(o) : p[k] = o[k],
         \A i \in starts : FrameAt(s, i) = FrameAt(t, i)
  PROVE  Decodes(starts, t, p)
<1>1. PICK reading \in [starts -> FramedOf(o)] :
        /\ \A i, j \in starts : i < j => reading[i] < reading[j]
        /\ \A k \in FramedOf(o) : \E i \in starts : reading[i] = k
        /\ \A i \in starts : Stands(o[reading[i]].text, FrameAt(s, i))
  BY Zenon DEF Decodes
<1>2. \A i \in starts : Stands(p[reading[i]].text, FrameAt(t, i))
  <2> TAKE i \in starts
  <2>1. reading[i] \in FramedOf(o)
    BY <1>1
  <2>2. p[reading[i]] = o[reading[i]] /\ FrameAt(s, i) = FrameAt(t, i)
    BY <2>1
  <2>3. Stands(o[reading[i]].text, FrameAt(s, i))
    BY <1>1
  <2>4. QED
    BY <2>2, <2>3
<1>3. reading \in [starts -> FramedOf(p)]
  BY <1>1
<1>4. \A k \in FramedOf(p) : \E i \in starts : reading[i] = k
  BY <1>1
<1>5. QED
  BY <1>1, <1>2, <1>3, <1>4, Zenon DEF Decodes

LEMMA AppendedReading ==
  ASSUME NEW T, NEW o \in Seq(T), NEW r
  PROVE  /\ \E S : Append(o, r) \in Seq(S)
         /\ \A k \in DOMAIN o : Append(o, r)[k] = o[k]
         /\ Append(o, r)[Len(o) + 1] = r
         /\ DOMAIN Append(o, r) = 1..(Len(o) + 1)
<1>1. o \in Seq(T \cup {r}) /\ r \in T \cup {r}
  OBVIOUS
<1>2. QED
  BY <1>1

\* A zero made up for an empty frame changes nothing.
LEMMA DecodesZero ==
  ASSUME NEW starts, NEW text, NEW T, NEW o \in Seq(T), NEW r, r.kind = "zero",
         Decodes(starts, text, o)
  PROVE  Decodes(starts, text, Append(o, r))
<1> DEFINE p == Append(o, r)  n == Len(o)
<1>1. /\ n \in Nat /\ DOMAIN o = 1..n /\ DOMAIN p = 1..(n + 1) /\ p[n + 1] = r
      /\ \A k \in 1..n : p[k] = o[k]
  BY AppendedReading
<1> HIDE DEF p, n
<1>2. FramedOf(p) = FramedOf(o) /\ \A k \in FramedOf(o) : p[k] = o[k]
  BY <1>1 DEF FramedOf
<1>3. Decodes(starts, text, p)
  BY <1>2, DecodesStay
<1>4. QED
  BY <1>3 DEF p

\* The reading of the next frame is the next one.
LEMMA DecodesFrame ==
  ASSUME NEW starts \in SUBSET Nat, NEW text, NEW T, NEW o \in Seq(T), NEW r, r.kind # "zero",
         Decodes(starts, text, o), NEW x \in Nat, \A i \in starts : i < x,
         Stands(r.text, FrameAt(text, x))
  PROVE  Decodes(starts \cup {x}, text, Append(o, r))
<1> DEFINE p == Append(o, r)  n == Len(o)
<1>1. /\ n \in Nat /\ DOMAIN o = 1..n /\ DOMAIN p = 1..(n + 1) /\ p[n + 1] = r
      /\ \A k \in 1..n : p[k] = o[k]
  BY AppendedReading
<1>2. PICK reading \in [starts -> FramedOf(o)] :
        /\ \A i, j \in starts : i < j => reading[i] < reading[j]
        /\ \A k \in FramedOf(o) : \E i \in starts : reading[i] = k
        /\ \A i \in starts : Stands(o[reading[i]].text, FrameAt(text, i))
  BY Zenon DEF Decodes
<1> HIDE DEF p, n
<1> DEFINE more == [i \in starts \cup {x} |-> IF i = x THEN n + 1 ELSE reading[i]]
<1>3. FramedOf(p) = FramedOf(o) \cup {n + 1} /\ FramedOf(o) \subseteq 1..n
  BY <1>1 DEF FramedOf
<1>4. x \notin starts
  OBVIOUS
<1>5. \A i \in starts : more[i] = reading[i] /\ reading[i] \in FramedOf(o) /\ reading[i] \in 1..n
  BY <1>2, <1>3, <1>4
<1>6. more[x] = n + 1 /\ more \in [starts \cup {x} -> FramedOf(p)]
  BY <1>2, <1>3
<1> HIDE DEF more
<1>7. ASSUME NEW i \in starts \cup {x}, NEW j \in starts \cup {x}, i < j PROVE more[i] < more[j]
  <2>1. CASE i \in starts /\ j \in starts
    BY <1>2, <1>5, <1>7, <2>1
  <2>2. CASE i \in starts /\ j = x
    BY <1>1, <1>5, <1>6, <2>2
  <2>3. CASE i = x
    <3>1. j = x \/ j < x
      BY <1>7
    <3>2. i \in Nat /\ j \in Nat
      BY <2>3
    <3>3. QED
      BY <1>7, <2>3, <3>1, <3>2
  <2>4. QED
    BY <2>1, <2>2, <2>3
<1>8. ASSUME NEW k \in FramedOf(p) PROVE \E i \in starts \cup {x} : more[i] = k
  <2>1. CASE k = n + 1
    BY <1>6, <2>1
  <2>2. CASE k \in FramedOf(o)
    BY <1>2, <1>5, <2>2
  <2>3. QED
    BY <1>3, <2>1, <2>2
<1>9. ASSUME NEW i \in starts \cup {x} PROVE Stands(p[more[i]].text, FrameAt(text, i))
  <2>1. CASE i = x
    BY <1>1, <1>6, <2>1
  <2>2. CASE i \in starts
    <3>1. p[more[i]] = o[reading[i]]
      BY <1>1, <1>5, <2>2
    <3>2. QED
      BY <1>2, <2>2, <3>1
  <2>3. QED
    BY <2>1, <2>2
<1>10. Decodes(starts \cup {x}, text, p)
  BY <1>6, <1>7, <1>8, <1>9, Zenon DEF Decodes
<1>11. QED
  BY <1>10 DEF p

Quiet(text) == \A i \in DOMAIN text : text[i] # "?"

\* Decoded so far: the text up to the delimiter at c. What came behind it is in the
\* buffer, or all of it from d on, when the buffer had no room for more; a frame
\* that has lost its head is not at its end, and the buffer has kept as much of it
\* as it had room for beside the chunk that cut it.
Cut(c, d) ==
  /\ c \in Nat /\ d \in Nat /\ c <= d /\ d <= Len(sent)
  /\ c = 0 \/ sent[c] \in Delims
  /\ pending = SubSeq(sent, d + 1, Len(sent))
  /\ \A j \in (c + 1)..d : sent[j] \notin Delims
  /\ d > c => /\ d + (MaxPending - MaxChunk) <= Len(sent)
              /\ \A j \in (d + 1)..(d + (MaxPending - MaxChunk)) : sent[j] \notin Delims

DecodedTo(c) ==
  (\A i \in StartsTo(sent, c) : Safe(FrameAt(sent, i)) # <<>>)
    => Decodes(StartsTo(sent, c), sent, out)

FramesInv ==
  /\ sent \in Seq(Chars)
  /\ \E T : out \in Seq(T)
  /\ Quiet(sent) => \E c, d \in Nat : Cut(c, d) /\ DecodedTo(c)

\* Without a frame in the buffer the text that is in it has no delimiter.
LEMMA NoFrameLeft ==
  ASSUME NEW S, NEW text \in Seq(S), NEW d \in 0..Len(text),
         ~HasFrame(SubSeq(text, d + 1, Len(text)))
  PROVE  \A j \in (d + 1)..Len(text) : text[j] \notin Delims
<1> DEFINE n == Len(text)  b == d + 1  part == SubSeq(text, b, n)
<1>1. /\ n \in Nat /\ b \in 1..(n + 1) /\ n \in (b - 1)..n /\ b - 1 = d
      /\ ~HasFrame(part)
  OBVIOUS
<1> HIDE DEF b, n
<1>2. /\ part \in Seq(S) /\ Len(part) = n - b + 1
      /\ \A k \in 1..(n - b + 1) : part[k] = text[b + k - 1]
  BY <1>1, SliceIsText, SliceIs DEF n
<1> HIDE DEF part
<1>3. DOMAIN part = 1..(n - b + 1)
  BY <1>2
<1>4. ASSUME NEW j \in b..n PROVE text[j] \notin Delims
  <2> DEFINE x == j - b + 1
  <2>1. x \in 1..(n - b + 1) /\ b + x - 1 = j
    BY <1>1
  <2> HIDE DEF x
  <2>2. part[x] = text[b + x - 1]
    BY <1>2, <2>1
  <2>3. part[x] = text[j]
    BY <2>1, <2>2, Zenon
  <2>4. QED
    BY <1>1, <1>3, <2>1, <2>3 DEF HasFrame
<1>5. QED
  BY <1>4 DEF b, n

\* At the end of the loop every frame has been decoded.
LEMMA FramesDecoded ==
  ASSUME FramesInv
  PROVE  FramesSurvive
<1> SUFFICES ASSUME ~HasFrame(pending), Quiet(sent),
                    \A i \in FrameStarts(sent) : Safe(FrameAt(sent, i)) # <<>>
             PROVE  Decodes(FrameStarts(sent), sent, out)
  <2>1. (/\ ~HasFrame(pending) /\ Quiet(sent)
         /\ \A i \in FrameStarts(sent) : Safe(FrameAt(sent, i)) # <<>>)
           => Decodes(FrameStarts(sent), sent, out)
    OBVIOUS
  <2>2. Framed = FramedOf(out)
    BY DEF Framed, FramedOf
  <2>3. QED
    BY <2>1, <2>2, Zenon DEF FramesSurvive, Decodes, Stands, Quiet
<1> DEFINE n == Len(sent)
<1>1. PICK c \in Nat, d \in Nat : Cut(c, d) /\ DecodedTo(c)
  BY DEF FramesInv
<1>2. sent \in Seq(Chars) /\ n \in Nat /\ DOMAIN sent = 1..n
  BY DEF FramesInv
<1>3. \A j \in (d + 1)..n : sent[j] \notin Delims
  BY <1>1, <1>2, NoFrameLeft DEF Cut
<1>4. \A j \in (c + 1)..n : sent[j] \notin Delims
  BY <1>1, <1>3 DEF Cut
<1>5. ASSUME NEW i \in FrameStarts(sent), ~(i <= c) PROVE FALSE
  <2>1. i \in 1..n /\ \E k \in i..n : sent[k] \in Delims
    BY <1>2 DEF FrameStarts
  <2>2. QED
    BY <1>1, <1>4, <1>5, <2>1
<1>6. StartsTo(sent, c) = FrameStarts(sent)
  BY <1>5 DEF StartsTo
<1>7. QED
  BY <1>1, <1>6 DEF DecodedTo

\* A text cut in two, and the part of it that begins in the first one.
LEMMA SliceGoesOn ==
  ASSUME NEW S, NEW text \in Seq(S), NEW chunk \in Seq(S), NEW d \in 0..Len(text)
  PROVE  SubSeq(text, d + 1, Len(text)) \o chunk
           = SubSeq(text \o chunk, d + 1, Len(text) + Len(chunk))
<1> DEFINE n == Len(text)  l == Len(chunk)  b == d + 1
           part == SubSeq(text, b, n)
           whole == text \o chunk
           s == part \o chunk
           t == SubSeq(whole, b, n + l)
<1>1. /\ n \in Nat /\ l \in Nat /\ whole \in Seq(S) /\ Len(whole) = n + l
      /\ \A k \in 1..(n + l) : whole[k] = IF k <= n THEN text[k] ELSE chunk[k - n]
  OBVIOUS
<1>2. b \in 1..(n + 1) /\ b - 1 <= n
  OBVIOUS
<1> HIDE DEF whole, b
<1>3. /\ part \in Seq(S) /\ Len(part) = n - b + 1
      /\ \A k \in 1..(n - b + 1) : part[k] = text[b + k - 1]
  <2>1. b \in 1..(Len(text) + 1) /\ n \in (b - 1)..Len(text)
    BY <1>1, <1>2
  <2> HIDE DEF n
  <2>2. QED
    BY <2>1, SliceIsText, SliceIs
<1>4. /\ s \in Seq(S) /\ Len(s) = (n - b + 1) + l
      /\ \A k \in 1..((n - b + 1) + l) :
           s[k] = IF k <= n - b + 1 THEN part[k] ELSE chunk[k - (n - b + 1)]
  <2>1. /\ s \in Seq(S) /\ Len(s) = Len(part) + l
        /\ \A k \in 1..(Len(part) + l) :
             s[k] = IF k <= Len(part) THEN part[k] ELSE chunk[k - Len(part)]
    <3>1. part \in Seq(S)
      BY <1>3
    <3> HIDE DEF part
    <3>2. QED
      BY <3>1
  <2> HIDE DEF part, n, l, s
  <2>2. QED
    BY <1>3, <2>1, Zenon
<1>5. b \in 1..(Len(whole) + 1) /\ n + l \in (b - 1)..Len(whole) /\ n + l \in Int
  BY <1>1, <1>2
<1> HIDE DEF s, part, n, l
<1>6. /\ t \in Seq(S) /\ Len(t) = (n + l) - b + 1
      /\ \A k \in 1..((n + l) - b + 1) : t[k] = whole[b + k - 1]
  BY <1>1, <1>5, SliceIsText, SliceIs
<1> HIDE DEF t
<1>7. Len(s) = Len(t)
  BY <1>1, <1>2, <1>4, <1>6
<1>8. ASSUME NEW k \in 1..((n - b + 1) + l) PROVE s[k] = t[k]
  <2>1. k \in 1..((n + l) - b + 1) /\ b + k - 1 \in 1..(n + l)
    BY <1>1, <1>2
  <2>2. t[k] = whole[b + k - 1]
    BY <1>6, <2>1
  <2>3. CASE k <= n - b + 1
    <3>1. s[k] = text[b + k - 1]
      BY <1>1, <1>2, <1>3, <1>4, <2>3
    <3>2. b + k - 1 <= n
      BY <1>1, <1>2, <2>3
    <3>3. whole[b + k - 1] = text[b + k - 1]
      BY <1>1, <2>1, <3>2
    <3>4. QED
      BY <2>2, <3>1, <3>3
  <2>4. CASE ~(k <= n - b + 1)
    <3>1. s[k] = chunk[k - (n - b + 1)]
      BY <1>4, <2>4
    <3>2. ~(b + k - 1 <= n) /\ (b + k - 1) - n = k - (n - b + 1)
      BY <1>1, <1>2, <2>4
    <3>3. whole[b + k - 1] = chunk[(b + k - 1) - n]
      BY <1>1, <2>1, <3>2
    <3>4. QED
      BY <2>2, <3>1, <3>2, <3>3
  <2>5. QED
    BY <2>3, <2>4
<1>9. s = t
  BY <1>4, <1>6, <1>7, <1>8, SameText
<1>10. QED
  BY <1>9 DEF s, t, part, whole, n, l, b

\* A chunk goes into the buffer, and what the buffer has no room for goes out.
LEMMA PushedIs ==
  ASSUME NEW S, NEW text \in Seq(S), NEW chunk \in Seq(S), NEW d \in 0..Len(text),
         Quiet(text \o chunk), Len(chunk) <= MaxChunk
  PROVE  LET buffer == SubSeq(text, d + 1, Len(text))
             m == Len(text) + Len(chunk)
         IN  /\ ~SlicePanics(buffer, chunk)
             /\ append_raw(buffer, chunk) =
                  SubSeq(text \o chunk, (IF m - d <= MaxPending THEN d ELSE m - MaxPending) + 1, m)
<1> DEFINE n == Len(text)  l == Len(chunk)  b == d + 1  m == n + l  q == m - b + 1
           buffer == SubSeq(text, b, n)
           whole == text \o chunk
           combined == buffer \o chunk
           x == IF q <= MaxPending THEN 1 ELSE q - MaxPending + 1
<1>1. /\ n \in Nat /\ l \in Nat /\ whole \in Seq(S) /\ Len(whole) = m /\ DOMAIN whole = 1..m
      /\ \A k \in 1..n : whole[k] = text[k]
      /\ \A k \in 1..l : whole[k + n] = chunk[k]
  OBVIOUS
<1>2. /\ b \in 1..(n + 1) /\ n \in (b - 1)..n /\ b - 1 = d /\ m \in (b - 1)..m /\ b \in 1..(m + 1)
      /\ m \in Nat /\ q \in Nat /\ q = m - d
  OBVIOUS
<1>3. \A k \in 1..m : whole[k] # "?"
  BY <1>1 DEF Quiet
<1>4. combined = SubSeq(whole, b, m)
  BY SliceGoesOn
<1> HIDE DEF whole, b
<1>5. buffer \in Seq(S) /\ Len(buffer) = n - b + 1
      /\ \A k \in 1..(n - b + 1) : buffer[k] = text[b + k - 1]
  BY <1>2, SliceIsText, SliceIs
<1> HIDE DEF buffer, combined, q
<1>6. /\ \A k \in 1..Len(buffer) : buffer[k] # "?"
      /\ \A k \in 1..Len(chunk) : chunk[k] # "?"
  <2>1. ASSUME NEW k \in 1..(n - b + 1) PROVE buffer[k] # "?"
    <3>1. b + k - 1 \in 1..n /\ b + k - 1 \in 1..m
      BY <1>1, <1>2
    <3>2. buffer[k] = whole[b + k - 1]
      BY <1>1, <1>5, <3>1
    <3>3. QED
      BY <1>3, <3>1, <3>2
  <2>2. ASSUME NEW k \in 1..l PROVE chunk[k] # "?"
    <3>1. k + n \in 1..m
      BY <1>1
    <3>2. QED
      BY <1>1, <1>3, <3>1
  <2>3. QED
    BY <1>5, <2>1, <2>2
<1> HIDE DEF m, n, l
<1>7. combined \in Seq(S) /\ Len(combined) = q
  BY <1>1, <1>2, <1>4, SliceIsText, SliceIs DEF q
<1>8. /\ ~SlicePanics(buffer, chunk)
      /\ append_raw(buffer, chunk) = SubSeq(combined, x, q)
  <2>1. LET c == buffer \o chunk
            k == Len(c)
        IN  /\ ~SlicePanics(buffer, chunk)
            /\ append_raw(buffer, chunk) = SubSeq(c, IF k <= MaxPending THEN 1 ELSE k - MaxPending + 1, k)
    BY <1>5, <1>6, AppendedIs
  <2>2. QED
    BY <1>7, <2>1 DEF combined
<1>9. /\ x \in 1..(m - b + 2) /\ q \in (x - 1)..(m - b + 1)
      /\ b + x - 1 = (IF m - d <= MaxPending THEN d ELSE m - MaxPending) + 1 /\ b + q - 1 = m
  BY <1>2, StreamAssumption DEF q
<1> HIDE DEF x
<1>10. SubSeq(combined, x, q) = SubSeq(whole, b + x - 1, b + q - 1)
  BY <1>1, <1>2, <1>4, <1>9, SliceOfSlice
<1>11. QED
  BY <1>8, <1>9, <1>10 DEF buffer, whole, m, n, l, b

\* A chunk joins the buffer: what had been decoded stays so, and the head of a frame
\* goes only when the buffer has no room for it and the chunk.
LEMMA PushFrames ==
  ASSUME FramesInv, NEW chunk \in Seq(Chars), Len(chunk) <= MaxChunk, push_chunk(chunk)
  PROVE  FramesInv'
<1> DEFINE n == Len(sent)  l == Len(chunk)  m == n + l
<1>1. sent \in Seq(Chars) /\ sent' = sent \o chunk /\ out' = out /\ ~HasFrame(pending)
  BY DEF FramesInv, push_chunk
<1>2. /\ n \in Nat /\ l \in Nat /\ l <= MaxChunk /\ DOMAIN sent = 1..n
      /\ sent' \in Seq(Chars) /\ Len(sent') = m /\ DOMAIN sent' = 1..m
      /\ \A j \in 1..n : sent'[j] = sent[j]
  BY <1>1
<1> SUFFICES ASSUME Quiet(sent') PROVE \E c, d \in Nat : Cut(c, d)' /\ DecodedTo(c)'
  BY <1>1, <1>2 DEF FramesInv
<1>3. Quiet(sent)
  <2>1. \A j \in 1..n : j \in 1..m
    BY <1>2
  <2> HIDE DEF n, m
  <2>2. QED
    BY <1>2, <2>1 DEF Quiet
<1>4. PICK c \in Nat, d \in Nat : Cut(c, d) /\ DecodedTo(c)
  BY <1>3 DEF FramesInv
<1>5. /\ c <= d /\ d <= n /\ (c = 0 \/ sent[c] \in Delims)
      /\ pending = SubSeq(sent, d + 1, n)
      /\ \A j \in (c + 1)..d : sent[j] \notin Delims
      /\ d > c => /\ d + (MaxPending - MaxChunk) <= n
                  /\ \A j \in (d + 1)..(d + (MaxPending - MaxChunk)) : sent[j] \notin Delims
  BY <1>4 DEF Cut
<1>6. \A j \in (d + 1)..n : sent[j] \notin Delims
  BY <1>1, <1>2, <1>5, NoFrameLeft
<1> DEFINE lost == IF m - d <= MaxPending THEN d ELSE m - MaxPending
<1>7. PICK e \in Nat : e = lost
  <2>1. m - d \in Nat /\ m \in Nat /\ d \in Nat
    BY <1>2, <1>5
  <2> HIDE DEF m
  <2>2. lost \in Nat
    BY <2>1, StreamAssumption
  <2>3. QED
    BY <2>2
<1>8. pending' = SubSeq(sent', e + 1, m)
  <2>1. d \in 0..Len(sent) /\ Quiet(sent \o chunk)
    BY <1>1, <1>2, <1>5
  <2>2. /\ ~SlicePanics(SubSeq(sent, d + 1, n), chunk)
        /\ append_raw(SubSeq(sent, d + 1, n), chunk) = SubSeq(sent \o chunk, lost + 1, m)
    BY <1>1, <1>2, <2>1, PushedIs
  <2> HIDE DEF lost, n, m
  <2>3. pending' = append_raw(pending, chunk)
    BY <1>5, <2>2 DEF push_chunk
  <2>4. QED
    BY <1>1, <1>5, <1>7, <2>2, <2>3
<1> HIDE DEF n, l
<1>9. d <= e /\ e <= m /\ (e > d => e + (MaxPending - MaxChunk) <= n)
  BY <1>2, <1>5, <1>7, StreamAssumption
<1> HIDE DEF lost
<1>10. \A j \in (c + 1)..n : sent'[j] \notin Delims
  <2>1. \A j \in (c + 1)..n : j \in 1..n /\ (j \in (c + 1)..d \/ j \in (d + 1)..n)
    BY <1>2, <1>5
  <2>2. QED
    BY <1>2, <1>5, <1>6, <2>1
<1>11. c = 0 \/ sent'[c] \in Delims
  BY <1>2, <1>5
<1>12. e > c => /\ e + (MaxPending - MaxChunk) <= n
                /\ \A j \in (c + 1)..(e + (MaxPending - MaxChunk)) : sent'[j] \notin Delims
  <2> DEFINE w == MaxPending - MaxChunk
  <2>1. w \in Nat
    BY StreamAssumption
  <2>2. e > d => e + w <= n
    BY <1>9
  <2>3. d > c => d + w <= n
    BY <1>5
  <2> HIDE DEF w, m
  <2>4. e > c => e + w <= n
    BY <1>2, <1>5, <1>9, <2>1, <2>2, <2>3
  <2>5. e > c => \A j \in (c + 1)..(e + w) : sent'[j] \notin Delims
    BY <1>2, <1>9, <1>10, <2>1, <2>4
  <2>6. QED
    BY <2>4, <2>5 DEF w
<1> HIDE DEF m
<1>13. Cut(c, e)'
  <2> DEFINE w == MaxPending - MaxChunk
  <2>1. w \in Nat
    BY StreamAssumption
  <2>2. e > c => e + w <= n /\ \A j \in (c + 1)..(e + w) : sent'[j] \notin Delims
    BY <1>12
  <2>3. n <= m
    BY <1>2 DEF m
  <2> HIDE DEF w
  <2>4. c \in Nat /\ e \in Nat /\ c <= e /\ e <= Len(sent')
    BY <1>2, <1>5, <1>9
  <2>5. \A j \in (c + 1)..e : sent'[j] \notin Delims
    BY <1>2, <1>9, <2>1, <2>2, <2>4
  <2>6. e > c => e + w <= Len(sent') /\ \A j \in (e + 1)..(e + w) : sent'[j] \notin Delims
    BY <1>2, <2>1, <2>2, <2>3, <2>4
  <2>7. pending' = SubSeq(sent', e + 1, Len(sent'))
    BY <1>2, <1>8
  <2>8. QED
    BY <1>11, <2>4, <2>5, <2>6, <2>7 DEF Cut, w
<1>14. DecodedTo(c)'
  <2>1. /\ sent \in Seq(Chars) /\ sent' \in Seq(Chars) /\ c \in 0..Len(sent) /\ c <= Len(sent')
        /\ c = 0 \/ sent[c] \in Delims
        /\ \A j \in 1..c : sent[j] = sent'[j]
    BY <1>1, <1>2, <1>5 DEF m, n
  <2>2. /\ StartsTo(sent, c) = StartsTo(sent', c)
        /\ \A i \in StartsTo(sent, c) : FrameAt(sent, i) = FrameAt(sent', i)
    BY <2>1, FramesStay
  <2> SUFFICES ASSUME \A i \in StartsTo(sent', c) : Safe(FrameAt(sent', i)) # <<>>
               PROVE  Decodes(StartsTo(sent', c), sent', out)
    BY <1>1 DEF DecodedTo
  <2>3. Decodes(StartsTo(sent, c), sent, out)
    BY <1>4, <2>2 DEF DecodedTo
  <2>4. Decodes(StartsTo(sent, c), sent', out)
    BY <2>2, <2>3, DecodesStay
  <2>5. QED
    BY <2>2, <2>4
<1>15. QED
  BY <1>4, <1>9, <1>13, <1>14

LEMMA SafeIsText ==
  ASSUME NEW S, NEW frame \in Seq(S)
  PROVE  Safe(frame) \in Seq(S)
<1> DEFINE n == Len(frame)  a == n - (MaxPending - MaxChunk) + 1
<1>1. n \in Nat
  OBVIOUS
<1>2. CASE n + MaxChunk <= MaxPending
  BY <1>2, TrimIsText DEF Safe
<1>3. CASE ~(n + MaxChunk <= MaxPending)
  <2>1. a \in 1..(n + 1) /\ n \in (a - 1)..n
    BY <1>1, <1>3, StreamAssumption
  <2> HIDE DEF a
  <2>2. SubSeq(frame, a, n) \in Seq(S)
    BY <2>1, SliceIsText
  <2>3. Kept(frame) \in Seq(S)
    BY <2>2 DEF Kept, a
  <2>4. QED
    BY <1>3, <2>3, TrimIsText DEF Safe
<1>4. QED
  BY <1>2, <1>3

LEMMA SuffixOfEmpty ==
  ASSUME NEW S, NEW s \in Seq(S), IsSuffix(s, <<>>)
  PROVE  s = <<>>
<1>1. Len(Reverse(s)) <= Len(Reverse(<<>>))
  BY DEF IsSuffix, IsPrefix
<1>2. Len(Reverse(<<>>)) = 0
  BY DEF Reverse
<1> DEFINE n == Len(s)
<1>3. n \in Nat
  OBVIOUS
<1>4. Reverse(s) = [k \in 1..n |-> s[(n - k) + 1]]
  BY DEF Reverse
<1>5. \A k \in 1..n : s[(n - k) + 1] \in S
  BY <1>3
<1> HIDE DEF n
<1>6. Reverse(s) \in [1..n -> S]
  BY <1>4, <1>5
<1>7. Len(Reverse(s)) = n
  BY <1>3, <1>6
<1>8. Len(s) = 0
  BY <1>1, <1>2, <1>3, <1>7 DEF n
<1>9. QED
  BY <1>8

\* An iteration decodes the frame that begins behind c, or what is left of it, and
\* gives a reading for it unless it is blank.
LEMMA NextFrames ==
  ASSUME FramesInv, next_frame
  PROVE  FramesInv'
<1> DEFINE n == Len(sent)
           got == trim(pop_serial_frame(pending).frame)
<1>1. sent \in Seq(Chars) /\ n \in Nat /\ DOMAIN sent = 1..n
  BY DEF FramesInv
<1>2. /\ HasFrame(pending) /\ sent' = sent
      /\ pending' = pop_serial_frame(pending).rest /\ frame_to_reading(got)
  BY DEF next_frame
<1>3. PICK T : out \in Seq(T)
  BY DEF FramesInv
<1> DEFINE R(kind, weight, unit) ==
      [kind |-> kind, text |-> got, weight |-> weight, unit |-> unit]
           Zero(o) == \E r : r.kind = "zero" /\ o = Append(out, r)
           Reading(o) == \E r : r.kind # "zero" /\ r.text = got /\ o = Append(out, r)
<1>4. (got = <<>> /\ (out' = out \/ Zero(out'))) \/ (got # <<>> /\ Reading(out'))
  <2> HIDE DEF got
  <2>1. R("zero", 0, last_unit).kind = "zero"
    OBVIOUS
  <2>2. \A kind, weight, unit : R(kind, weight, unit).kind = kind /\ R(kind, weight, unit).text = got
    OBVIOUS
  <2>3. \/ got = <<>> /\ out' = out
        \/ got = <<>> /\ out' = Append(out, R("zero", 0, last_unit))
        \/ got # <<>> /\ out' = Append(out, R("raw", 0, last_unit))
        \/ got # <<>> /\ out' = Append(out, R("weight", parse_weight(got).weight, last_unit'))
    BY <1>2 DEF frame_to_reading, Emit
  <2> HIDE DEF R
  <2>4. "raw" # "zero" /\ "weight" # "zero"
    OBVIOUS
  <2>5. QED
    BY <2>2, <2>3, <2>4
<1>5. \E U : out' \in Seq(U)
  <2> HIDE DEF got
  <2>1. out' = out \/ \E r : out' = Append(out, r)
    BY <1>4
  <2>2. QED
    BY <1>3, <2>1, AppendedReading
<1> SUFFICES ASSUME Quiet(sent) PROVE \E c, d \in Nat : Cut(c, d)' /\ DecodedTo(c)'
  BY <1>1, <1>2, <1>5 DEF FramesInv
<1> HIDE DEF R, Zero, Reading
<1>6. PICK c \in Nat, d \in Nat : Cut(c, d) /\ DecodedTo(c)
  BY DEF FramesInv
<1>7. /\ c <= d /\ d <= n /\ (c = 0 \/ sent[c] \in Delims)
      /\ pending = SubSeq(sent, d + 1, n)
      /\ \A j \in (c + 1)..d : sent[j] \notin Delims
      /\ d > c => /\ d + (MaxPending - MaxChunk) <= n
                  /\ \A j \in (d + 1)..(d + (MaxPending - MaxChunk)) : sent[j] \notin Delims
  BY <1>6 DEF Cut
<1> DEFINE b == d + 1  m == n - b + 1
<1>8. b \in 1..(n + 1) /\ n \in (b - 1)..n /\ m \in Nat /\ b - 1 = d /\ b \in Nat
  BY <1>1, <1>7
<1> HIDE DEF n, b
<1>9. /\ pending = SubSeq(sent, b, n) /\ pending \in Seq(Chars) /\ Len(pending) = m
      /\ \A k \in 1..m : pending[k] = sent[b + k - 1]
  <2>1. pending = SubSeq(sent, b, n)
    BY <1>7 DEF b
  <2>2. QED
    BY <1>1, <1>8, <2>1, SliceIsText, SliceIs DEF n
<1> HIDE DEF m
<1>10. PICK index \in 1..m : \E rest_index \in (index + 1)..(m + 1) :
         /\ pending[index] \in Delims /\ \A j \in 1..(index - 1) : pending[j] \notin Delims
         /\ \A j \in index..(rest_index - 1) : pending[j] \in Delims
         /\ pop_serial_frame(pending).frame = SubSeq(pending, 1, index - 1)
         /\ pop_serial_frame(pending).rest = SubSeq(pending, rest_index, m)
  BY <1>2, <1>9, PoppedIs
<1>11. PICK rest_index \in (index + 1)..(m + 1) :
         /\ pending[index] \in Delims /\ \A j \in 1..(index - 1) : pending[j] \notin Delims
         /\ \A j \in index..(rest_index - 1) : pending[j] \in Delims
         /\ pop_serial_frame(pending).frame = SubSeq(pending, 1, index - 1)
         /\ pop_serial_frame(pending).rest = SubSeq(pending, rest_index, m)
  BY <1>10
<1> DEFINE k == b + index - 1
           e == b + rest_index - 2
<1>12. k \in b..n /\ e \in k..n /\ k - 1 \in (b - 1)..n /\ k \in (c + 1)..n
       /\ k \in Nat /\ e \in Nat
  BY <1>1, <1>7, <1>8, <1>10, <1>11 DEF m
<1>13. /\ \A j \in b..(k - 1) : sent[j] \notin Delims
       /\ \A j \in k..e : sent[j] \in Delims
  <2>1. ASSUME NEW j \in b..e PROVE LET x == j - b + 1 IN x \in 1..m /\ pending[x] = sent[j]
    <3> DEFINE x == j - b + 1
    <3>1. x \in 1..m /\ b + x - 1 = j
      <4>1. j \in b..n
        BY <1>1, <1>12
      <4> HIDE DEF e, k
      <4>2. QED
        BY <1>1, <1>8, <4>1 DEF m
    <3> HIDE DEF x
    <3>2. pending[x] = sent[b + x - 1]
      BY <1>9, <3>1
    <3>3. pending[x] = sent[j]
      BY <3>1, <3>2, Zenon
    <3>4. QED
      BY <3>1, <3>3 DEF x
  <2>2. ASSUME NEW j \in b..(k - 1) PROVE sent[j] \notin Delims
    <3>1. j \in b..e /\ j - b + 1 \in 1..(index - 1)
      BY <1>8, <1>12
    <3>2. QED
      BY <1>11, <2>1, <3>1
  <2>3. ASSUME NEW j \in k..e PROVE sent[j] \in Delims
    <3>1. j \in b..e /\ j - b + 1 \in index..(rest_index - 1)
      BY <1>8, <1>12
    <3>2. QED
      BY <1>11, <2>1, <3>1
  <2>4. QED
    BY <2>2, <2>3
<1>14. pop_serial_frame(pending).frame = SubSeq(sent, b, k - 1)
  <2>1. 1 \in 1..(n - b + 2) /\ index - 1 \in (1 - 1)..(n - b + 1)
        /\ b + 1 - 1 = b /\ b + (index - 1) - 1 = k - 1
    BY <1>8 DEF m
  <2> DEFINE f == index - 1
  <2>2. f \in (1 - 1)..(n - b + 1) /\ b + f - 1 = k - 1
    BY <2>1
  <2> HIDE DEF f, k
  <2>3. SubSeq(pending, 1, f) = SubSeq(sent, b + 1 - 1, b + f - 1)
    BY <1>1, <1>8, <1>9, <2>1, <2>2, SliceOfSlice DEF n
  <2>4. QED
    BY <1>11, <2>1, <2>2, <2>3 DEF f
<1>15. pending' = SubSeq(sent, e + 1, n)
  <2>1. rest_index \in 1..(n - b + 2) /\ m \in (rest_index - 1)..(n - b + 1)
        /\ b + rest_index - 1 = e + 1 /\ b + m - 1 = n
    BY <1>1, <1>8, <1>11 DEF m
  <2> HIDE DEF e, k
  <2>2. SubSeq(pending, rest_index, m) = SubSeq(sent, b + rest_index - 1, b + m - 1)
    BY <1>1, <1>8, <1>9, <2>1, SliceOfSlice DEF n
  <2>3. QED
    BY <1>2, <1>11, <2>1, <2>2
<1> HIDE DEF k, e
<1>16. \A j \in (c + 1)..(k - 1) : sent[j] \notin Delims
  <2>1. \A j \in (c + 1)..(k - 1) : j \in (c + 1)..d \/ j \in b..(k - 1)
    BY <1>7, <1>8, <1>12
  <2>2. QED
    BY <1>7, <1>13, <2>1
<1>17. Cut(e, e)'
  <2>1. e <= Len(sent') /\ sent'[e] \in Delims
    BY <1>2, <1>12, <1>13 DEF n
  <2>2. pending' = SubSeq(sent', e + 1, Len(sent'))
    BY <1>2, <1>15 DEF n
  <2>3. \A j \in (e + 1)..e : FALSE
    BY <1>12
  <2>4. e <= e /\ ~(e > e)
    BY <1>12
  <2>5. QED
    BY <1>12, <2>1, <2>2, <2>3, <2>4 DEF Cut
<1> DEFINE x == c + 1
           frame == SubSeq(sent, x, k - 1)
<1>18. /\ x \in 1..(n + 1) /\ k - 1 \in (x - 1)..n /\ b \in x..((k - 1) + 1) /\ x \in Nat
       /\ b > x => b + (MaxPending - MaxChunk) <= (k - 1) + 1
  <2> DEFINE w == MaxPending - MaxChunk
  <2>1. w \in Nat
    BY StreamAssumption
  <2>2. d > c => \A j \in (d + 1)..(d + w) : sent[j] \notin Delims
    BY <1>7
  <2>3. sent[k] \in Delims
    BY <1>12, <1>13
  <2> HIDE DEF w
  <2>4. d > c => d + w < k
    BY <1>8, <1>12, <2>1, <2>2, <2>3
  <2>5. QED
    BY <1>7, <1>8, <1>12, <2>1, <2>4 DEF w
<1>19. /\ FrameAt(sent, x) = frame
       /\ StartsTo(sent, e) = StartsTo(sent, c) \cup (IF trim(frame) = <<>> THEN {} ELSE {x})
  BY <1>1, <1>7, <1>12, <1>13, <1>16, OneMoreFrame DEF n
<1>20. got = trim(SubSeq(sent, b, k - 1))
  BY <1>14
<1> HIDE DEF x, got
<1>21. IsSuffix(got, trim(frame)) /\ IsSuffix(Safe(frame), got)
  <2> DEFINE j == k - 1
  <2>1. /\ x \in 1..(Len(sent) + 1) /\ j \in (x - 1)..Len(sent) /\ b \in x..(j + 1)
        /\ b > x => b + (MaxPending - MaxChunk) <= j + 1
    BY <1>18 DEF n
  <2> HIDE DEF j
  <2>2. /\ IsSuffix(trim(SubSeq(sent, b, j)), trim(SubSeq(sent, x, j)))
        /\ IsSuffix(Safe(SubSeq(sent, x, j)), trim(SubSeq(sent, b, j)))
    BY <1>1, <2>1, TrimSuffix, SafeSlice
  <2>3. QED
    BY <1>20, <2>2 DEF j
<1>22. frame \in Seq(Chars) /\ SubSeq(sent, b, k - 1) \in Seq(Chars)
  BY <1>1, <1>8, <1>12, <1>18, SliceIsText DEF n
<1> HIDE DEF frame
<1>23. got \in Seq(Chars) /\ Safe(frame) \in Seq(Chars)
  BY <1>20, <1>22, TrimIsText, SafeIsText
<1>24. DecodedTo(e)'
  <2> SUFFICES ASSUME \A i \in StartsTo(sent, e) : Safe(FrameAt(sent, i)) # <<>>
               PROVE  Decodes(StartsTo(sent, e), sent, out')
    BY <1>2 DEF DecodedTo
  <2>1. Decodes(StartsTo(sent, c), sent, out)
    BY <1>6, <1>19 DEF DecodedTo
  <2>2. CASE trim(frame) = <<>>
    <3>1. got = <<>>
      BY <1>21, <1>23, <2>2, SuffixOfEmpty
    <3>2. StartsTo(sent, e) = StartsTo(sent, c)
      BY <1>19, <2>2
    <3>3. out' = out \/ \E r : r.kind = "zero" /\ out' = Append(out, r)
      BY <1>4, <3>1 DEF Zero
    <3>4. QED
      BY <1>3, <2>1, <3>2, <3>3, DecodesZero
  <2>3. CASE trim(frame) # <<>>
    <3>1. StartsTo(sent, e) = StartsTo(sent, c) \cup {x} /\ Safe(frame) # <<>>
      BY <1>19, <2>3
    <3>2. got # <<>>
      BY <1>21, <1>23, <3>1, SuffixOfEmpty
    <3>3. PICK r : r.kind # "zero" /\ r.text = got /\ out' = Append(out, r)
      BY <1>4, <3>2 DEF Reading
    <3>4. Stands(r.text, FrameAt(sent, x))
      BY <1>19, <1>21, <3>3 DEF Stands
    <3>5. StartsTo(sent, c) \in SUBSET Nat /\ \A i \in StartsTo(sent, c) : i < x
      BY <1>1 DEF StartsTo, FrameStarts, x
    <3> DEFINE starts == StartsTo(sent, c)
    <3>6. starts \in SUBSET Nat /\ Decodes(starts, sent, out) /\ x \in Nat
          /\ \A i \in starts : i < x
      BY <1>18, <2>1, <3>5
    <3> HIDE DEF starts
    <3>7. Decodes(starts \cup {x}, sent, Append(out, r))
      BY <1>3, <3>3, <3>4, <3>6, DecodesFrame
    <3>8. QED
      BY <3>1, <3>3, <3>7 DEF starts
  <2>4. QED
    BY <2>2, <2>3
<1>25. QED
  BY <1>12, <1>17, <1>24

\* However a text without noise is cut into chunks, and whatever the buffer had no
\* room for, each frame gives its reading and there is no other (append_raw,
\* pop_serial_frame).
THEOREM FramesCorrect == Spec => []FramesSurvive
<1>1. Init => FramesInv
  <2> SUFFICES ASSUME Init PROVE FramesInv
    OBVIOUS
  <2>1. out = <<>> /\ pending = <<>> /\ sent = <<>>
    BY DEF Init
  <2>2. out \in Seq({}) /\ sent \in Seq(Chars) /\ Len(sent) = 0 /\ DOMAIN sent = {} /\ DOMAIN out = {}
    BY <2>1
  <2>3. Cut(0, 0)
    <3>1. pending = SubSeq(sent, 0 + 1, Len(sent))
      BY <2>1, <2>2, SubSeqEmpty
    <3>2. QED
      BY <2>2, <3>1 DEF Cut
  <2>4. DecodedTo(0)
    <3>1. StartsTo(sent, 0) = {} /\ FramedOf(out) = {}
      BY <2>2 DEF StartsTo, FrameStarts, FramedOf
    <3>2. Decodes({}, sent, out)
      <4> DEFINE reading == [i \in {} |-> 0]
      <4>1. reading \in [{} -> FramedOf(out)]
        OBVIOUS
      <4> HIDE DEF reading
      <4>2. QED
        BY <3>1, <4>1 DEF Decodes
    <3>3. QED
      BY <3>1, <3>2 DEF DecodedTo
  <2>5. QED
    BY <2>2, <2>3, <2>4 DEF FramesInv
<1>2. FramesInv /\ [Next]_vars => FramesInv'
  <2> SUFFICES ASSUME FramesInv, [Next]_vars PROVE FramesInv'
    OBVIOUS
  <2>1. CASE next_frame
    BY <2>1, NextFrames
  <2>2. ASSUME NEW chunk \in Chunks, push_chunk(chunk) PROVE FramesInv'
    <3>1. PICK n \in 1..MaxChunk : chunk \in [1..n -> Chars]
      BY DEF Chunks
    <3>2. n \in Nat /\ n <= MaxChunk
      BY StreamAssumption
    <3>3. chunk \in Seq(Chars) /\ Len(chunk) = n
      BY <3>1, <3>2
    <3>4. QED
      BY <2>2, <3>2, <3>3, PushFrames
  <2>3. CASE UNCHANGED vars
    BY <2>3 DEF vars, FramesInv, Cut, DecodedTo
  <2>4. QED
    BY <2>1, <2>2, <2>3 DEF Next
<1>3. QED
  BY <1>1, <1>2, FramesDecoded, PTL DEF Spec
===============================================================================
