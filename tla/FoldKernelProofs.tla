-------------------------- MODULE FoldKernelProofs ---------------------------
(* For every chunk width, every mask register that holds whole lanes and    *)
(* every input: count_matches counts each match once, find_last returns the *)
(* last one, and both stay inside their slice.                              *)
EXTENDS FoldKernel, KernelLemmas, FiniteSetTheorems

-----------------------------------------------------------------------------
(* From mask words to lanes.                                                *)

\* A bijection keeps the number of elements.
LEMMA SameSize ==
  ASSUME NEW A, NEW B, IsFiniteSet(A), NEW f \in [A -> B],
         \A x, y \in A : f[x] = f[y] => x = y,
         \A y \in B : \E x \in A : f[x] = y
  PROVE  IsFiniteSet(B) /\ Cardinality(B) = Cardinality(A)
<1>1. f \in Bijection(A, B)
  BY DEF Bijection, Injection, Surjection, IsInjective
<1>2. ExistsBijection(A, B)
  BY <1>1 DEF ExistsBijection
<1> QED BY <1>2, FS_Bijection

\* Sets of positions are finite, and not larger than their bound.
LEMMA PositionsFinite ==
  ASSUME NEW n \in Nat, NEW A, A \subseteq 0 .. n - 1
  PROVE  IsFiniteSet(A) /\ Cardinality(A) \in 0 .. n
<1>1. IsFiniteSet(0 .. n - 1) /\ Cardinality(0 .. n - 1) = n
  BY FS_Interval
<1>2. IsFiniteSet(A) /\ Cardinality(A) <= n
  BY <1>1, FS_Subset
<1> QED BY <1>2, FS_CardinalityType

\* A bit is a lane and a place within the lane.
LEMMA BitSplits ==
  ASSUME NEW d \in Nat \ {0}, NEW l \in Nat, NEW j \in 0 .. d - 1
  PROVE  /\ l * d + j \in Nat
         /\ (l * d + j) \div d = l
         /\ (l * d + j) - l * d = j
<1>1. l * d \in Nat /\ (l + 1) * d = l * d + d
  OBVIOUS
<1> DEFINE b == l * d + j
<1>2. b \in Nat /\ l * d <= b /\ b < (l + 1) * d
  BY <1>1
<1>3. l <= b \div d /\ ~(l + 1 <= b \div d)
  BY <1>1, <1>2, LaneOrder
<1>4. b \div d \in Nat
  BY <1>2, LaneOfBit
<1> QED BY <1>1, <1>2, <1>3, <1>4

\* Every lane set contributes Bpl bits to the mask word, so that count_ones()
\* divided by them counts the lanes.
LEMMA CountOnesLanes ==
  ASSUME WellFormed(backend), NEW lanes, lanes \subseteq Lanes
  PROVE  CountOnes(Extract(lanes)) \div Bpl = Cardinality(lanes)
<1> DEFINE places == 0 .. Bpl - 1
           pairs == lanes \X places
           f == [p \in pairs |-> p[1] * Bpl + p[2]]
           w == Extract(lanes)
<1>1. Bpl \in Nat \ {0} /\ Chunk \in Nat \ {0} /\ Chunk * Bpl \in Nat /\ lanes \subseteq Nat
  BY Widths DEF Lanes
<1>2. IsFiniteSet(lanes) /\ Cardinality(lanes) \in Nat
  <2>1. lanes \subseteq 0 .. Chunk - 1 /\ Chunk \in Nat
    BY <1>1 DEF Lanes
  <2>2. IsFiniteSet(lanes) /\ Cardinality(lanes) \in 0 .. Chunk
    BY <2>1, PositionsFinite
  <2> QED BY <2>2
<1>3. IsFiniteSet(places) /\ Cardinality(places) = Bpl
  BY <1>1, FS_Interval
<1>4. IsFiniteSet(pairs) /\ Cardinality(pairs) = Cardinality(lanes) * Bpl
  BY <1>2, <1>3, FS_Product
<1>5. ASSUME NEW l \in lanes, NEW j \in places
      PROVE  /\ l * Bpl + j \in w
             /\ (l * Bpl + j) \div Bpl = l
             /\ (l * Bpl + j) - l * Bpl = j
  <2>1. l \in Nat /\ l + 1 <= Chunk
    BY <1>1 DEF Lanes
  <2>2. (l + 1) * Bpl <= Chunk * Bpl /\ (l + 1) * Bpl = l * Bpl + Bpl /\ l * Bpl \in Nat
    BY <1>1, <2>1, TimesMonotonic
  <2>3. /\ l * Bpl + j \in Nat /\ (l * Bpl + j) \div Bpl = l
        /\ (l * Bpl + j) - l * Bpl = j
    BY <1>1, <2>1, BitSplits
  <2>4. l * Bpl + j \in 0 .. Chunk * Bpl - 1
    BY <1>1, <2>2, <2>3
  <2> QED BY <2>3, <2>4 DEF Extract
<1>6. f \in [pairs -> w]
  BY <1>5
<1>7. ASSUME NEW x \in pairs, NEW y \in pairs, f[x] = f[y] PROVE x = y
  <2>1. PICK l \in lanes, j \in places : x = <<l, j>>
    OBVIOUS
  <2>2. PICK m \in lanes, k \in places : y = <<m, k>>
    OBVIOUS
  <2>3. l * Bpl + j = m * Bpl + k
    BY <1>7, <2>1, <2>2
  <2>4. l = m
    BY <1>5, <2>3
  <2>5. j = k
    BY <1>5, <2>3, <2>4
  <2> QED BY <2>1, <2>2, <2>4, <2>5
<1>8. ASSUME NEW b \in w PROVE \E x \in pairs : f[x] = b
  <2>1. b \in Nat /\ b \div Bpl \in lanes
    BY <1>1 DEF Extract
  <2> DEFINE q == b \div Bpl
  <2>2. q \in Nat /\ q * Bpl <= b /\ b < (q + 1) * Bpl
    BY <1>1, <2>1, LaneOfBit
  <2>3. q \in lanes
    BY <2>1
  <2> HIDE DEF q
  <2>4. q * Bpl \in Nat /\ (q + 1) * Bpl = q * Bpl + Bpl
    BY <1>1, <2>2
  <2>5. b - q * Bpl \in places
    BY <1>1, <2>1, <2>2, <2>4
  <2>6. <<q, b - q * Bpl>> \in pairs /\ f[<<q, b - q * Bpl>>] = b
    BY <2>1, <2>3, <2>4, <2>5
  <2> QED BY <2>6
<1> HIDE DEF f, pairs, w
<1>9. Cardinality(w) = Cardinality(lanes) * Bpl
  <2>1. Cardinality(w) = Cardinality(pairs)
    BY <1>4, <1>6, <1>7, <1>8, SameSize
  <2> QED BY <1>4, <2>1
<1>10. (Cardinality(lanes) * Bpl) \div Bpl = Cardinality(lanes)
  BY <1>1, <1>2, FirstBitOfLane
<1> QED BY <1>9, <1>10 DEF CountOnes, w

\* The lane that leading_zeros() gives is the last lane set, whether the word is
\* as wide as the chunk's lanes or wider.
LEMMA LastLaneIsLast ==
  ASSUME WellFormed(backend), NEW lanes, lanes \subseteq Lanes, lanes # {}
  PROVE  /\ LastLane(Extract(lanes)) \in lanes
         /\ \A l \in lanes : l <= LastLane(Extract(lanes))
<1> DEFINE w == Extract(lanes)
           m == Max(w)
<1>1. Bpl \in Nat \ {0} /\ WordBits \in Nat /\ lanes \subseteq Nat
  BY Widths DEF Lanes
<1>2. w # {} /\ w \subseteq 0 .. WordBits - 1
  BY ExtractBits
<1>3. m \in w /\ \A b \in w : b <= m
  <2>1. w \subseteq 0 .. WordBits
    BY <1>1, <1>2
  <2> QED BY <1>1, <1>2, <2>1, MaxProperty
<1>4. LastLane(w) = WordBits \div Bpl - 1 - (WordBits - 1 - m) \div Bpl
  <2>1. LeadingZeros(WordBits, w) = WordBits - 1 - m
    BY <1>2 DEF LeadingZeros
  <2> QED BY <2>1 DEF LastLane
<1> HIDE DEF m
<1> DEFINE q == m \div Bpl
           n == WordBits \div Bpl
<1>5. m \in Nat /\ m < WordBits /\ q \in lanes
  <2>1. \A b \in w : b \div Bpl \in lanes
    BY ExtractBits
  <2>2. m \in 0 .. WordBits - 1
    BY <1>2, <1>3
  <2> QED BY <1>1, <1>3, <2>1, <2>2
<1>6. q \in Nat /\ q * Bpl <= m /\ m < (q + 1) * Bpl
  BY <1>1, <1>5, LaneOfBit
<1>7. n \in Nat /\ WordBits = n * Bpl
  <2>1. WordBits = Bpl * (WordBits \div Bpl) + (WordBits % Bpl)
    BY <1>1
  <2>2. WordBits \div Bpl \in Nat
    BY <1>1, LaneOfBit
  <2> QED BY <1>1, <2>1, <2>2, Widths
<1> HIDE DEF q, n
<1>8. q + 1 <= n
  <2>1. ASSUME n <= q PROVE FALSE
    <3>1. n * Bpl <= q * Bpl /\ q * Bpl \in Nat
      BY <1>1, <1>6, <1>7, <2>1, TimesMonotonic
    <3> QED BY <1>5, <1>6, <1>7, <3>1
  <2> QED BY <1>6, <1>7, <2>1
<1> DEFINE z == WordBits - 1 - m
           k == n - 1 - q
<1>9. z \in Nat /\ k \in Nat
  BY <1>1, <1>5, <1>6, <1>7, <1>8
<1>10. k * Bpl <= z /\ z < (k + 1) * Bpl
  <2>1. /\ k * Bpl = n * Bpl - (q + 1) * Bpl
        /\ (k + 1) * Bpl = n * Bpl - q * Bpl
    BY <1>1, <1>6, <1>7
  <2>2. /\ n * Bpl \in Nat /\ q * Bpl \in Nat /\ (q + 1) * Bpl \in Nat
    BY <1>1, <1>6, <1>7
  <2> QED BY <1>5, <1>6, <1>7, <2>1, <2>2
<1> HIDE DEF z, k
<1>11. z \div Bpl = k
  <2>1. k <= z \div Bpl
    BY <1>1, <1>9, <1>10, LaneOrder
  <2>2. ~(k + 1 <= z \div Bpl)
    <3>1. (k + 1) * Bpl \in Nat
      BY <1>1, <1>9
    <3> QED BY <1>1, <1>9, <1>10, <3>1, LaneOrder
  <2>3. z \div Bpl \in Nat
    BY <1>1, <1>9, LaneOfBit
  <2> QED BY <1>9, <2>1, <2>2, <2>3
<1>12. LastLane(w) = q
  BY <1>4, <1>6, <1>7, <1>11 DEF z, k, n
<1>13. ASSUME NEW l \in lanes PROVE l <= q
  <2>1. l \in Nat /\ l * Bpl \in w /\ l * Bpl \in Nat
    <3>1. \A x \in lanes : x * Bpl \in w
      BY ExtractBits
    <3>2. l \in Nat
      BY <1>1
    <3> QED BY <1>1, <3>1, <3>2
  <2>2. l * Bpl <= m
    BY <1>3, <2>1
  <2> QED BY <1>1, <1>5, <2>1, <2>2, LaneOrder DEF q
<1> QED BY <1>5, <1>12, <1>13

-----------------------------------------------------------------------------
(* From lanes to positions.                                                 *)

\* the types of the input, all that the lemmas need of the state
FoldInput == /\ WellFormed(backend)
             /\ op \in FoldOps
             /\ len \in Nat
             /\ match \subseteq 0 .. len - 1

\* the matches among the positions lo .. hi - 1
Matches(lo, hi) == match \cap (lo .. hi - 1)

\* the result acc with the positions s, which all lie after those of acc, added
Joined(acc, s) == IF op = "count" THEN acc + Cardinality(s)
                  ELSE IF s = {} THEN acc ELSE Max(s)

\* the result of the first n bytes
FoldTo(n) == Joined(Empty, Matches(0, n))

\* Matches are finite sets of positions.
LEMMA MatchesType ==
  ASSUME FoldInput, NEW lo \in Nat, NEW hi \in Int
  PROVE  /\ Matches(lo, hi) \subseteq 0 .. len - 1
         /\ IsFiniteSet(Matches(lo, hi))
         /\ Cardinality(Matches(lo, hi)) \in 0 .. len
<1>1. Matches(lo, hi) \subseteq 0 .. len - 1 /\ len \in Nat
  BY DEF Matches, FoldInput
<1> QED BY <1>1, PositionsFinite

\* A non-empty set of matches has a last one.
LEMMA LastMatch ==
  ASSUME FoldInput, NEW A, A \subseteq 0 .. len - 1, A # {}
  PROVE  Max(A) \in A /\ \A x \in A : x <= Max(A)
<1>1. len \in Nat /\ A \subseteq 0 .. len
  BY DEF FoldInput
<1> QED BY <1>1, MaxProperty

\* What the result of the first n bytes says of them.
LEMMA FoldToMeaning ==
  ASSUME FoldInput, NEW n \in Nat
  PROVE  /\ op = "count" => /\ FoldTo(n) = Cardinality(Matches(0, n))
                            /\ FoldTo(n) \in 0 .. len
         /\ op = "last" => /\ Matches(0, n) = {} => FoldTo(n) = None
                           /\ Matches(0, n) # {} =>
                                /\ FoldTo(n) \in Matches(0, n)
                                /\ \A i \in Matches(0, n) : i <= FoldTo(n)
                           /\ FoldTo(n) \in match \cup {None}
<1>1. /\ Matches(0, n) \subseteq 0 .. len - 1
      /\ Cardinality(Matches(0, n)) \in 0 .. len
      /\ Matches(0, n) \subseteq match
  <2>1. Matches(0, n) \subseteq match
    BY DEF Matches
  <2>2. n \in Int /\ 0 \in Nat
    OBVIOUS
  <2> QED BY <2>1, <2>2, MatchesType
<1>2. CASE op = "count"
  <2>1. FoldTo(n) = 0 + Cardinality(Matches(0, n))
    BY <1>2 DEF FoldTo, Joined, Empty
  <2> QED BY <1>1, <1>2, <2>1
<1>3. CASE op = "last"
  <2>1. FoldTo(n) = IF Matches(0, n) = {} THEN None ELSE Max(Matches(0, n))
    BY <1>3 DEF FoldTo, Joined, Empty
  <2>2. Matches(0, n) # {} => /\ Max(Matches(0, n)) \in Matches(0, n)
                              /\ \A i \in Matches(0, n) : i <= Max(Matches(0, n))
    BY <1>1, LastMatch
  <2> QED BY <1>1, <1>3, <2>1, <2>2
<1> QED BY <1>2, <1>3 DEF FoldInput, FoldOps

\* Nothing has been folded at the beginning, everything at the end.
LEMMA FoldToEnds ==
  ASSUME FoldInput
  PROVE  FoldTo(0) = Empty /\ Matches(0, len) = match
<1>1. Matches(0, 0) = {} /\ Matches(0, len) = match
  <2>1. match \subseteq 0 .. len - 1 /\ 0 .. 0 - 1 = {}
    BY DEF FoldInput
  <2> QED BY <2>1 DEF Matches
<1>2. Cardinality({}) = 0
  BY FS_EmptySet
<1> QED BY <1>1, <1>2 DEF FoldTo, Joined, Empty, FoldInput, FoldOps

\* Folding the first lo bytes and then those up to hi is folding the first hi.
LEMMA FoldJoin ==
  ASSUME FoldInput, NEW lo \in Nat, NEW hi \in Nat, lo <= hi
  PROVE  Joined(FoldTo(lo), Matches(lo, hi)) = FoldTo(hi)
<1> DEFINE a == Matches(0, lo)
           b == Matches(lo, hi)
           c == Matches(0, hi)
<1>1. c = a \cup b /\ a \cap b = {} /\ \A x \in a, y \in b : x < y
  BY DEF Matches, FoldInput
<1>2. /\ a \subseteq 0 .. len - 1 /\ b \subseteq 0 .. len - 1 /\ c \subseteq 0 .. len - 1
      /\ IsFiniteSet(a) /\ IsFiniteSet(b)
      /\ Cardinality(a) \in Nat /\ Cardinality(b) \in Nat
  <2>1. 0 \in Nat /\ lo \in Int /\ hi \in Int /\ len \in Nat
    BY DEF FoldInput
  <2>2. /\ a \subseteq 0 .. len - 1 /\ b \subseteq 0 .. len - 1 /\ c \subseteq 0 .. len - 1
        /\ IsFiniteSet(a) /\ IsFiniteSet(b)
        /\ Cardinality(a) \in 0 .. len /\ Cardinality(b) \in 0 .. len
    BY <2>1, MatchesType
  <2> HIDE DEF a, b, c
  <2> QED BY <2>1, <2>2
<1>3. CASE op = "count"
  <2>1. FoldTo(lo) = Cardinality(a) /\ FoldTo(hi) = Cardinality(c)
    BY <1>3, FoldToMeaning
  <2>2. Cardinality(c) = Cardinality(a) + Cardinality(b) - Cardinality(a \cap b)
    BY <1>1, <1>2, FS_Union
  <2>3. Cardinality(a \cap b) = 0
    BY <1>1, FS_EmptySet
  <2>4. Joined(FoldTo(lo), b) = Cardinality(a) + Cardinality(b)
    BY <1>3, <2>1 DEF Joined
  <2> QED BY <1>2, <2>1, <2>2, <2>3, <2>4
<1>4. CASE op = "last"
  <2>1. CASE b = {}
    <3>1. c = a
      BY <1>1, <2>1
    <3>2. Joined(FoldTo(lo), b) = FoldTo(lo)
      BY <1>4, <2>1 DEF Joined
    <3> QED BY <3>1, <3>2 DEF FoldTo
  <2>2. CASE b # {}
    <3>1. Joined(FoldTo(lo), b) = Max(b)
      BY <1>4, <2>2 DEF Joined
    <3>2. Max(b) \in b /\ \A x \in b : x <= Max(b)
      BY <1>2, <2>2, LastMatch
    <3>3. c # {} /\ FoldTo(hi) \in c /\ \A x \in c : x <= FoldTo(hi)
      <4>1. c # {}
        BY <1>1, <2>2
      <4> QED BY <1>4, <4>1, FoldToMeaning
    <3> HIDE DEF a, b, c
    <3>4. FoldTo(hi) \in b
      <4>1. ASSUME FoldTo(hi) \in a PROVE FALSE
        <5>1. FoldTo(hi) < Max(b)
          BY <1>1, <3>2, <4>1
        <5>2. Max(b) <= FoldTo(hi)
          BY <1>1, <3>2, <3>3
        <5>3. FoldTo(hi) \in 0 .. len - 1 /\ Max(b) \in 0 .. len - 1
          BY <1>2, <3>2, <3>3
        <5> QED BY <5>1, <5>2, <5>3
      <4> QED BY <1>1, <3>3, <4>1
    <3>5. FoldTo(hi) <= Max(b) /\ Max(b) <= FoldTo(hi)
      BY <1>1, <3>2, <3>3, <3>4
    <3>6. FoldTo(hi) \in 0 .. len - 1 /\ Max(b) \in 0 .. len - 1
      BY <1>2, <3>2, <3>4
    <3>7. FoldTo(hi) = Max(b)
      BY <3>5, <3>6
    <3> QED BY <3>1, <3>7 DEF b
  <2> QED BY <2>1, <2>2
<1> QED BY <1>3, <1>4 DEF FoldInput, FoldOps

\* Absorbing a mask word is adding the positions of its lanes.
LEMMA AbsorbLanes ==
  ASSUME FoldInput, NEW start \in Nat, NEW lanes, lanes \subseteq Lanes, NEW acc
  PROVE  Absorb(acc, start, Extract(lanes)) = Joined(acc, {start + l : l \in lanes})
<1>0. WellFormed(backend)
  BY DEF FoldInput
<1> USE <1>0
<1> DEFINE s == {start + l : l \in lanes}
<1>1. Chunk \in Nat \ {0} /\ lanes \subseteq 0 .. Chunk - 1 /\ lanes \subseteq Nat
  BY Widths DEF Lanes
<1>2. CASE op = "count"
  <2>1. IsFiniteSet(lanes)
    BY <1>1, PositionsFinite
  <2> DEFINE f == [l \in lanes |-> start + l]
  <2>2. f \in [lanes -> s]
    OBVIOUS
  <2>3. \A x, y \in lanes : f[x] = f[y] => x = y
    BY <1>1
  <2>4. \A y \in s : \E x \in lanes : f[x] = y
    OBVIOUS
  <2> HIDE DEF f, s
  <2>5. Cardinality(s) = Cardinality(lanes)
    BY <2>1, <2>2, <2>3, <2>4, SameSize
  <2>6. CountOnes(Extract(lanes)) \div Bpl = Cardinality(lanes)
    BY CountOnesLanes
  <2> QED BY <1>2, <2>5, <2>6 DEF Absorb, Joined, s
<1>3. CASE op = "last"
  <2>1. CASE lanes = {}
    <3>1. Extract(lanes) = {} /\ s = {}
      BY <2>1, ExtractEmpty
    <3> QED BY <1>3, <3>1 DEF Absorb, Joined
  <2>2. CASE lanes # {}
    <3> DEFINE f == LastLane(Extract(lanes))
    <3>1. Extract(lanes) # {} /\ s # {}
      BY <2>2, ExtractEmpty
    <3>2. f \in lanes /\ \A l \in lanes : l <= f
      BY <2>2, LastLaneIsLast
    <3>3. Absorb(acc, start, Extract(lanes)) = start + f /\ Joined(acc, s) = Max(s)
      BY <1>3, <3>1 DEF Absorb, Joined
    <3> HIDE DEF f
    <3>4. Max(s) \in s /\ \A x \in s : x <= Max(s)
      <4>1. s \subseteq 0 .. start + Chunk /\ start + Chunk \in Nat
        BY <1>1
      <4> HIDE DEF s
      <4> QED BY <3>1, <4>1, MaxProperty
    <3>5. PICK x \in lanes : Max(s) = start + x
      BY <3>4
    <3>6. start + f <= Max(s)
      BY <3>2, <3>4
    <3>7. x <= f /\ x \in Nat /\ f \in Nat
      BY <1>1, <3>2
    <3>8. start + f = Max(s)
      BY <3>5, <3>6, <3>7
    <3> QED BY <3>3, <3>8
  <2> QED BY <2>1, <2>2
<1> QED BY <1>2, <1>3 DEF FoldInput, FoldOps

\* Absorbing a chunk moves the fold over it.
LEMMA AbsorbChunk ==
  ASSUME FoldInput, NEW start \in 0 .. len - Chunk
  PROVE  Absorb(FoldTo(start), start, Extract(Compare(start))) = FoldTo(start + Chunk)
<1>0. WellFormed(backend)
  BY DEF FoldInput
<1> USE <1>0
<1>1. Chunk \in Nat \ {0} /\ len \in Nat /\ start \in Nat /\ match \subseteq Nat
  BY Widths DEF FoldInput
<1>2. Compare(start) \subseteq Lanes
  BY DEF Compare
<1>3. {start + l : l \in Compare(start)} = Matches(start, start + Chunk)
  <2>1. ASSUME NEW i \in Matches(start, start + Chunk)
        PROVE  i - start \in Compare(start) /\ i = start + (i - start)
    BY <1>1 DEF Matches, Compare, Lanes
  <2>2. ASSUME NEW l \in Compare(start) PROVE start + l \in Matches(start, start + Chunk)
    BY <1>1 DEF Matches, Compare, Lanes
  <2> QED BY <2>1, <2>2
<1>4. Joined(FoldTo(start), Matches(start, start + Chunk)) = FoldTo(start + Chunk)
  BY <1>1, FoldJoin
<1>5. Absorb(FoldTo(start), start, Extract(Compare(start)))
        = Joined(FoldTo(start), {start + l : l \in Compare(start)})
  BY <1>1, <1>2, AbsorbLanes
<1> QED BY <1>3, <1>4, <1>5

\* The masked tail chunk holds exactly the matches that the loops have not folded.
LEMMA AbsorbTail ==
  ASSUME FoldInput, Chunk <= len, cur \in 0 .. len - 1, cur + Chunk > len
  PROVE  Absorb(FoldTo(cur), overlapStart, Extract(Compare(overlapStart)) \cap ScanMask)
           = FoldTo(len)
<1>0. WellFormed(backend)
  BY DEF FoldInput
<1> USE <1>0
<1> DEFINE o == overlapStart
           fresh == {l \in Compare(o) : l >= cur - o}
<1>1. Chunk \in Nat \ {0} /\ len \in Nat /\ cur \in Nat /\ match \subseteq 0 .. len - 1
  BY Widths DEF FoldInput
<1>2. o \in Nat /\ o + Chunk = len /\ cur - o \in 0 .. Chunk - 1
  BY <1>1 DEF overlapStart
<1>3. Compare(o) \subseteq Lanes /\ fresh \subseteq Lanes
  BY DEF Compare
<1>4. Extract(Compare(o)) \cap ScanMask = Extract(fresh)
  BY <1>2, <1>3, ScanMaskLanes
<1> HIDE DEF o
<1>5. {o + l : l \in fresh} = Matches(cur, len)
  <2>1. ASSUME NEW i \in Matches(cur, len)
        PROVE  i - o \in fresh /\ i = o + (i - o)
    BY <1>1, <1>2 DEF Matches, Compare, Lanes
  <2>2. ASSUME NEW l \in fresh PROVE o + l \in Matches(cur, len)
    BY <1>1, <1>2 DEF Matches, Compare, Lanes
  <2> QED BY <2>1, <2>2
<1> HIDE DEF fresh
<1>6. Absorb(FoldTo(cur), o, Extract(fresh)) = Joined(FoldTo(cur), {o + l : l \in fresh})
  BY <1>2, <1>3, AbsorbLanes
<1>7. Joined(FoldTo(cur), Matches(cur, len)) = FoldTo(len)
  BY <1>1, FoldJoin
<1> QED BY <1>4, <1>5, <1>6, <1>7 DEF o

-----------------------------------------------------------------------------
(* The inductive invariant.  CountsEachMatchOnce and ReturnsLastMatch say   *)
(* nothing of a running call; what a running call keeps is that the result  *)
(* is the fold of the bytes before the frontier, and that the chunks loaded *)
(* tile these bytes.                                                        *)

FoldShape == /\ FoldInput
             /\ pc \in {"entry", "loop", "done"}
             /\ cur \in 0 .. len
             /\ pc = "entry" => cur = 0 /\ loads = {}
             /\ pc = "loop" => Chunk <= len

Folded == res = IF pc = "entry" THEN None ELSE FoldTo(FoldFront)

\* the chunks at starts lie side by side and cover the first n bytes
Tiles(starts, n) == /\ \A s \in starts : s \in Nat /\ s + Chunk <= n
                    /\ \A i \in 0 .. n - 1 : \E s \in starts : i \in s .. s + Chunk - 1
                    /\ \A s, t \in starts : s < t => s + Chunk <= t

Tiled == Tiles(loads, cur)

FoldInv == /\ FoldShape /\ Folded
           /\ pc = "loop" => Tiled
           /\ loads \subseteq Int /\ LoadsInBounds
           /\ CoversOnce

\* A call that has not begun has folded nothing.
LEMMA FoldInvInit == FoldInit => FoldInv
<1> SUFFICES ASSUME FoldInit PROVE FoldInv
  OBVIOUS
<1>1. PICK i \in Inputs : len = i.len /\ match = i.match
  BY DEF FoldInit, Start
<1>2. WellFormed(backend) /\ len \in Nat /\ match \subseteq 0 .. len - 1
  BY <1>1, InputAssumption, BackendAssumption DEF FoldInit, Start
<1>3. op \in FoldOps /\ pc = "entry" /\ cur = 0 /\ loads = {} /\ res = None
  BY DEF FoldInit, Start
<1> QED BY <1>2, <1>3
        DEF FoldInv, FoldShape, FoldInput, Folded, LoadsInBounds, CoversOnce

\* The invariant speaks of an input that no step changes.
LEMMA FoldInputKept ==
  ASSUME UNCHANGED input
  PROVE  /\ op' = op /\ len' = len /\ match' = match
         /\ FoldInput' <=> FoldInput
         /\ \A n : FoldTo(n)' = FoldTo(n)
         /\ overlapStart' = overlapStart
         /\ Chunk' = Chunk
BY DEF input, FoldInput, FoldTo, Joined, Empty, Matches, overlapStart, WellFormed, Chunk

\* The conjuncts of the invariant after a step that goes on at n.
LEMMA GoesOn ==
  ASSUME FoldInv, UNCHANGED input, NEW n \in 0 .. len, cur' = n, pc' = "loop",
         Chunk <= len, res' = FoldTo(n), Tiled'
  PROVE  FoldInv'
<1>1. /\ op' = op /\ len' = len /\ match' = match /\ FoldInput'
      /\ Chunk' = Chunk /\ \A k : FoldTo(k)' = FoldTo(k)
  BY FoldInputKept DEF FoldInv, FoldShape
<1>2. FoldShape'
  BY <1>1 DEF FoldShape
<1>3. FoldFront' = n
  BY DEF FoldFront
<1>4. Folded'
  <2>1. FoldTo(FoldFront)' = FoldTo(n)
    BY <1>1, <1>3 DEF FoldTo, Matches, Joined, Empty
  <2> QED BY <2>1 DEF Folded
<1>5. loads' \subseteq Int /\ LoadsInBounds'
  <2>1. len \in Nat /\ Chunk \in Nat /\ n \in Nat /\ n <= len
    BY Widths DEF FoldInv, FoldShape, FoldInput
  <2>2. \A s \in loads' : s \in Nat /\ s + Chunk <= n
    BY <1>1 DEF Tiled, Tiles
  <2> QED BY <1>1, <2>1, <2>2 DEF LoadsInBounds
<1>6. CoversOnce'
  BY DEF CoversOnce
<1> QED BY <1>2, <1>4, <1>5, <1>6 DEF FoldInv

\* The conjuncts of the invariant after a step that returns.
LEMMA Returns ==
  ASSUME FoldInv, UNCHANGED input, cur' = cur, pc' = "done", res' = FoldTo(len),
         loads' \subseteq Int, LoadsInBounds', CoversOnce'
  PROVE  FoldInv'
<1>1. /\ op' = op /\ len' = len /\ match' = match /\ FoldInput'
      /\ Chunk' = Chunk /\ \A k : FoldTo(k)' = FoldTo(k)
  BY FoldInputKept DEF FoldInv, FoldShape
<1>2. FoldShape'
  BY <1>1 DEF FoldInv, FoldShape
<1>3. Folded'
  <2>1. FoldTo(FoldFront)' = FoldTo(len)
    BY <1>1 DEF FoldFront, FoldTo, Matches, Joined, Empty
  <2> QED BY <2>1 DEF Folded
<1> QED BY <1>2, <1>3 DEF FoldInv

\* One more chunk at the end of the tiles.
LEMMA TileOne ==
  ASSUME WellFormed(backend), NEW c \in Nat, NEW old, Tiles(old, c)
  PROVE  Tiles(old \cup {c}, c + Chunk)
<1>0. /\ Chunk \in Nat \ {0}
      /\ \A s \in old : s \in Nat /\ s + Chunk <= c
      /\ \A i \in 0 .. c - 1 : \E s \in old : i \in s .. s + Chunk - 1
      /\ \A s, t \in old : s < t => s + Chunk <= t
  BY Widths DEF Tiles
<1>1. \A s \in old \cup {c} : s \in Nat /\ s + Chunk <= c + Chunk
  BY <1>0
<1>2. \A i \in 0 .. (c + Chunk) - 1 : \E s \in old \cup {c} : i \in s .. s + Chunk - 1
  <2> TAKE i \in 0 .. (c + Chunk) - 1
  <2>1. CASE i < c
    <3>1. i \in 0 .. c - 1
      BY <1>0, <2>1
    <3>2. PICK s \in old : i \in s .. s + Chunk - 1
      BY <1>0, <3>1
    <3> QED BY <3>2
  <2>2. CASE c <= i
    <3>1. i \in c .. c + Chunk - 1
      BY <1>0, <2>2
    <3> QED BY <3>1
  <2> QED BY <1>0, <2>1, <2>2
<1>3. ASSUME NEW s \in old \cup {c}, NEW t \in old \cup {c}, s < t
      PROVE  s + Chunk <= t
  <2>1. CASE s \in old /\ t \in old
    BY <1>0, <1>3, <2>1
  <2>2. CASE s \in old /\ t = c
    BY <1>0, <2>2
  <2>3. CASE s = c
    <3>1. t = c \/ t + Chunk <= c
      BY <1>0
    <3>2. t \in Nat
      BY <1>0
    <3> QED BY <1>0, <1>3, <2>3, <3>1, <3>2
  <2> QED BY <2>1, <2>2, <2>3
<1>4. \A s, t \in old \cup {c} : s < t => s + Chunk <= t
  BY <1>3
<1> QED BY <1>1, <1>2, <1>4, Zenon DEF Tiles

\* Every step of a fold preserves the invariant: one case per action.
LEMMA FoldInvStep == FoldInv /\ [FoldNext]_kernelVars => FoldInv'
<1> SUFFICES ASSUME FoldInv, [FoldNext]_kernelVars PROVE FoldInv'
  OBVIOUS
<1>1. /\ Chunk \in Nat \ {0} /\ FoldInput /\ len \in Nat /\ cur \in 0 .. len /\ cur \in Nat
      /\ WellFormed(backend) /\ (pc # "entry" => res = FoldTo(FoldFront))
      /\ loads \subseteq Int /\ LoadsInBounds
      /\ pc \in {"entry", "loop", "done"}
  BY Widths DEF FoldInv, FoldShape, FoldInput, Folded
<1>2. CASE UNCHANGED kernelVars
  <2>1. UNCHANGED input /\ pc' = pc /\ cur' = cur /\ res' = res /\ loads' = loads
    BY <1>2 DEF kernelVars, input
  <2>2. /\ op' = op /\ len' = len /\ match' = match /\ FoldInput'
        /\ overlapStart' = overlapStart /\ Chunk' = Chunk
    BY <1>1, <2>1, FoldInputKept
  <2>3. FoldTo(FoldFront)' = FoldTo(FoldFront)
    BY <2>1, <2>2 DEF FoldFront, FoldTo, Joined, Empty, Matches
  <2> QED BY <2>1, <2>2, <2>3
             DEF FoldInv, FoldShape, Folded, Tiled, Tiles, LoadsInBounds, CoversOnce
<1>3. CASE FoldShort
  <2>1. /\ UNCHANGED input /\ pc = "entry" /\ len < Chunk /\ pc' = "done"
        /\ res' = ScalarFold /\ cur' = cur /\ loads' = loads
    BY <1>3 DEF FoldShort
  <2>2. len' = len /\ overlapStart' = overlapStart /\ Chunk' = Chunk
    BY <2>1, FoldInputKept
  <2>3. ScalarFold = FoldTo(len)
    <3>1. Matches(0, len) = match
      BY <1>1, FoldToEnds
    <3>2. op = "count" => FoldTo(len) = Cardinality(match)
      BY <1>1, <3>1, FoldToMeaning
    <3>3. op = "last" => FoldTo(len) = IF match = {} THEN None ELSE Max(match)
      BY <3>1 DEF FoldTo, Joined, Empty
    <3> QED BY <1>1, <3>2, <3>3 DEF ScalarFold, FoldInput, FoldOps
  <2>4. LoadsInBounds' /\ CoversOnce'
    BY <1>1, <2>1, <2>2 DEF LoadsInBounds, CoversOnce
  <2> QED BY <1>1, <2>1, <2>3, <2>4, Returns
<1>4. CASE FoldBegin
  <2>1. /\ UNCHANGED input /\ pc = "entry" /\ Chunk <= len /\ pc' = "loop"
        /\ cur' = 0 /\ res' = Empty /\ loads' = loads /\ loads = {}
    BY <1>1, <1>4 DEF FoldBegin, FoldInv, FoldShape
  <2>2. res' = FoldTo(0) /\ 0 \in 0 .. len
    BY <1>1, <2>1, FoldToEnds
  <2>3. Tiled'
    BY <2>1 DEF Tiled, Tiles
  <2> QED BY <2>1, <2>2, <2>3, GoesOn
<1>5. CASE FoldPair
  <2>1. /\ UNCHANGED input /\ pc = "loop" /\ cur + 2 * Chunk <= len /\ pc' = pc
        /\ loads' = loads \cup {cur, cur + Chunk}
        /\ res' = Absorb(Absorb(res, cur, Extract(Compare(cur))),
                         cur + Chunk, Extract(Compare(cur + Chunk)))
        /\ cur' = cur + 2 * Chunk
    BY <1>5 DEF FoldPair, InPairLoop, Load
  <2>2. /\ cur \in 0 .. len - Chunk /\ cur + Chunk \in 0 .. len - Chunk
        /\ cur + Chunk \in Nat /\ cur + 2 * Chunk \in 0 .. len
        /\ cur + 2 * Chunk = (cur + Chunk) + Chunk
    BY <1>1, <2>1
  <2>3. res' = FoldTo(cur + 2 * Chunk)
    <3>1. res = FoldTo(cur)
      BY <1>1, <2>1 DEF FoldFront
    <3>2. Absorb(res, cur, Extract(Compare(cur))) = FoldTo(cur + Chunk)
      BY <1>1, <2>2, <3>1, AbsorbChunk
    <3>3. Absorb(FoldTo(cur + Chunk), cur + Chunk, Extract(Compare(cur + Chunk)))
            = FoldTo((cur + Chunk) + Chunk)
      BY <1>1, <2>2, AbsorbChunk
    <3> QED BY <2>1, <2>2, <3>2, <3>3
  <2>4. Tiled'
    <3>1. Tiled
      BY <2>1 DEF FoldInv
    <3>2. Tiles(loads \cup {cur}, cur + Chunk)
      BY <1>1, <3>1, TileOne DEF Tiled
    <3>3. Tiles((loads \cup {cur}) \cup {cur + Chunk}, (cur + Chunk) + Chunk)
      BY <1>1, <2>2, <3>2, TileOne
    <3>4. /\ loads' = (loads \cup {cur}) \cup {cur + Chunk}
          /\ cur' = (cur + Chunk) + Chunk /\ Chunk' = Chunk
      BY <2>1, <2>2, FoldInputKept
    <3> QED BY <3>3, <3>4 DEF Tiled, Tiles
  <2>5. pc' = "loop" /\ Chunk <= len
    BY <1>1, <2>1, <2>2
  <2> QED BY <2>1, <2>2, <2>3, <2>4, <2>5, GoesOn
<1>6. CASE FoldSingle
  <2>1. /\ UNCHANGED input /\ pc = "loop" /\ cur + Chunk <= len /\ pc' = pc
        /\ loads' = loads \cup {cur}
        /\ res' = Absorb(res, cur, Extract(Compare(cur)))
        /\ cur' = cur + Chunk
    BY <1>6 DEF FoldSingle, InSingleLoop, Load
  <2>2. cur \in 0 .. len - Chunk /\ cur + Chunk \in 0 .. len
    BY <1>1, <2>1
  <2>3. res' = FoldTo(cur + Chunk)
    <3>1. res = FoldTo(cur)
      BY <1>1, <2>1 DEF FoldFront
    <3> QED BY <1>1, <2>1, <2>2, <3>1, AbsorbChunk
  <2>4. Tiled'
    <3>1. Tiled
      BY <2>1 DEF FoldInv
    <3>2. Tiles(loads \cup {cur}, cur + Chunk)
      BY <1>1, <3>1, TileOne DEF Tiled
    <3>3. Chunk' = Chunk
      BY <2>1, FoldInputKept
    <3> QED BY <2>1, <3>2, <3>3 DEF Tiled, Tiles
  <2>5. pc' = "loop" /\ Chunk <= len
    BY <1>1, <2>1, <2>2
  <2> QED BY <2>1, <2>2, <2>3, <2>4, <2>5, GoesOn
<1>7. CASE FoldTail
  <2>1. /\ UNCHANGED input /\ pc = "loop" /\ cur + Chunk > len /\ cur < len /\ pc' = "done"
        /\ loads' = loads \cup {overlapStart}
        /\ res' = Absorb(res, overlapStart, Extract(Compare(overlapStart)) \cap ScanMask)
        /\ cur' = cur
    BY <1>7 DEF FoldTail, AfterLoops, Load
  <2>2. Chunk <= len /\ Tiled /\ res = FoldTo(cur) /\ cur \in 0 .. len - 1
    BY <1>1, <2>1 DEF FoldInv, FoldShape, FoldFront
  <2>3. res' = FoldTo(len)
    BY <1>1, <2>1, <2>2, AbsorbTail
  <2>4. len' = len /\ overlapStart' = overlapStart /\ Chunk' = Chunk
    BY <2>1, FoldInputKept
  <2>5. overlapStart \in Nat /\ overlapStart + Chunk = len /\ overlapStart <= cur
    BY <1>1, <2>1, <2>2 DEF overlapStart
  <2>6. loads' \subseteq Int /\ LoadsInBounds'
    BY <1>1, <2>1, <2>4, <2>5 DEF LoadsInBounds
  <2>7. \A i \in 0 .. len - 1 : \E s \in loads' : i \in s .. s + Chunk - 1
    <3>1. TAKE i \in 0 .. len - 1
    <3>2. CASE i < cur
      <4>1. i \in 0 .. cur - 1
        BY <1>1, <3>2
      <4> QED BY <2>1, <2>2, <4>1 DEF Tiled, Tiles
    <3>3. CASE cur <= i
      <4>1. i \in overlapStart .. overlapStart + Chunk - 1
        BY <1>1, <2>5, <3>3
      <4> QED BY <2>1, <4>1
    <3> QED BY <1>1, <3>2, <3>3
  <2>8. CoversOnce'
    BY <2>1, <2>2, <2>4, <2>7 DEF CoversOnce, Tiled, Tiles
  <2> QED BY <2>1, <2>3, <2>6, <2>8, Returns
<1>8. CASE FoldNoTail
  <2>1. /\ UNCHANGED input /\ pc = "loop" /\ cur = len /\ pc' = "done"
        /\ cur' = cur /\ res' = res /\ loads' = loads
    BY <1>1, <1>8 DEF FoldNoTail, AfterLoops
  <2>2. Tiled /\ res = FoldTo(len)
    BY <1>1, <2>1 DEF FoldInv, FoldFront
  <2>3. len' = len /\ overlapStart' = overlapStart /\ Chunk' = Chunk
    BY <2>1, FoldInputKept
  <2>4. loads' \subseteq Int /\ LoadsInBounds' /\ CoversOnce'
    BY <1>1, <2>1, <2>2, <2>3 DEF LoadsInBounds, CoversOnce, Tiled, Tiles
  <2> QED BY <2>1, <2>2, <2>4, Returns
<1> QED BY <1>2, <1>3, <1>4, <1>5, <1>6, <1>7, <1>8 DEF FoldNext, FoldStep, Returned

\* The invariant holds of every call.
LEMMA FoldInvAlways == FoldSpec => []FoldInv
BY FoldInvInit, FoldInvStep, PTL DEF FoldSpec

\* What the invariant says of the result: it has its type, and a finished one is the
\* answer.
LEMMA FoldInvResult ==
  ASSUME FoldInv
  PROVE  FoldTypeOK /\ CountsEachMatchOnce /\ ReturnsLastMatch
<1>1. FoldInput /\ op \in {"count", "last"} /\ len \in Nat /\ FoldFront \in Nat
  BY DEF FoldInv, FoldShape, FoldInput, FoldOps, FoldFront
<1>2. pc # "entry" => res = FoldTo(FoldFront)
  BY DEF FoldInv, Folded
<1>3. FoldTypeOK
  <2>1. pc # "entry" => res \in IF op = "count" THEN 0 .. len ELSE match \cup {None}
    <3>1. /\ op = "count" => FoldTo(FoldFront) \in 0 .. len
          /\ op = "last" => FoldTo(FoldFront) \in match \cup {None}
      BY <1>1, FoldToMeaning
    <3> QED BY <1>1, <1>2, <3>1
  <2> QED BY <1>1, <2>1 DEF FoldInv, FoldShape, Folded, FoldInput, FoldTypeOK
<1>4. pc = "done" => res = FoldTo(len)
  BY <1>2 DEF FoldFront
<1>5. CountsEachMatchOnce
  BY <1>1, <1>4, FoldToMeaning, FoldToEnds DEF CountsEachMatchOnce
<1>6. ReturnsLastMatch
  BY <1>1, <1>4, FoldToMeaning, FoldToEnds DEF ReturnsLastMatch
<1> QED BY <1>3, <1>5, <1>6

\* A count never exceeds the length, and a last position is one of the matches.
THEOREM FoldTypes == FoldSpec => []FoldTypeOK
<1>1. FoldInv => FoldTypeOK
  BY FoldInvResult
<1> QED BY <1>1, FoldInvAlways, PTL

\* count_matches counts every matching byte exactly once, for every width, word and
\* input.
THEOREM CountsOnce == FoldSpec => []CountsEachMatchOnce
<1>1. FoldInv => CountsEachMatchOnce
  BY FoldInvResult
<1> QED BY <1>1, FoldInvAlways, PTL

\* find_last returns the right-most match, for every width, word and input.
THEOREM LastWins == FoldSpec => []ReturnsLastMatch
<1>1. FoldInv => ReturnsLastMatch
  BY FoldInvResult
<1> QED BY <1>1, FoldInvAlways, PTL

\* Every byte is in a chunk, and only the tail overlaps another chunk.
THEOREM TilesInput == FoldSpec => []CoversOnce
<1>1. FoldInv => CoversOnce
  BY DEF FoldInv
<1> QED BY <1>1, FoldInvAlways, PTL

\* No vector load of a fold leaves the slice.
THEOREM FoldMemorySafe == FoldSpec => []LoadsInBounds
<1>1. FoldInv => LoadsInBounds
  BY DEF FoldInv
<1> QED BY <1>1, FoldInvAlways, PTL

-----------------------------------------------------------------------------
(* The refinement.                                                          *)

\* A step never moves the frontier left, and only the last one returns.
LEMMA FrontierMoves ==
  ASSUME FoldInv, FoldStep
  PROVE  /\ UNCHANGED input /\ pc # "done"
         /\ cur \in 0 .. len
         /\ pc' = "done" \/ (pc' = "loop" /\ cur <= cur')
<1>1. Chunk \in Nat /\ cur \in 0 .. len /\ len \in Nat /\ (pc = "entry" => cur = 0)
  BY Widths DEF FoldInv, FoldShape, FoldInput
<1>2. CASE FoldPair
  BY <1>1, <1>2 DEF FoldPair, InPairLoop
<1>3. CASE FoldSingle
  BY <1>1, <1>3 DEF FoldSingle, InSingleLoop
<1>4. CASE FoldShort \/ FoldBegin \/ FoldTail \/ FoldNoTail
  BY <1>1, <1>4 DEF FoldShort, FoldBegin, FoldTail, FoldNoTail, AfterLoops
<1> QED BY <1>2, <1>3, <1>4 DEF FoldStep

\* Every step of a fold adds to the accumulator the matches from the old frontier
\* to the new one.
LEMMA FoldAbsorbs ==
  ASSUME FoldInv, FoldInv', FoldStep
  PROVE  /\ UNCHANGED input /\ pc # "done" /\ pc' \in {"loop", "done"}
         /\ FoldInput /\ cur \in Nat /\ FoldFront' \in cur .. len
         /\ res' = Joined(Acc, Matches(cur, FoldFront'))
<1>1. /\ UNCHANGED input /\ pc # "done" /\ cur \in 0 .. len
      /\ pc' = "done" \/ (pc' = "loop" /\ cur <= cur')
  BY FrontierMoves
<1>2. op' = op /\ len' = len /\ match' = match /\ (\A n : FoldTo(n)' = FoldTo(n))
  BY <1>1, FoldInputKept
<1>3. FoldInput /\ len \in Nat /\ cur \in Nat /\ (pc = "entry" => cur = 0)
  BY <1>1 DEF FoldInv, FoldShape, FoldInput
<1>4. FoldFront' \in cur .. len
  <2>1. cur' \in 0 .. len
    BY <1>2 DEF FoldInv, FoldShape
  <2> QED BY <1>1, <1>2, <1>3, <2>1 DEF FoldFront
<1>5. Acc = FoldTo(cur)
  <2>1. pc = "entry" => FoldTo(cur) = Empty
    BY <1>3, FoldToEnds
  <2> QED BY <1>1, <2>1 DEF Acc, FoldInv, FoldShape, Folded, FoldFront
<1>6. PICK n \in cur .. len : n = FoldFront'
  BY <1>4
<1>7. res' = FoldTo(n)
  <2>1. FoldTo(FoldFront)' = FoldTo(n)
    BY <1>2, <1>6 DEF FoldTo, Matches, Joined, Empty
  <2> QED BY <1>1, <2>1 DEF FoldInv, Folded
<1>8. res' = Joined(Acc, Matches(cur, n))
  BY <1>3, <1>5, <1>7, FoldJoin
<1> QED BY <1>1, <1>3, <1>4, <1>6, <1>8

\* So every step of a fold is a step of the abstract one.
LEMMA FoldStepRefines ==
  FoldInv /\ FoldInv' /\ [FoldNext]_kernelVars => [FoldTally!Next]_(FoldTally!vars)
<1> SUFFICES ASSUME FoldInv, FoldInv', [FoldNext]_kernelVars
             PROVE  [FoldTally!Next]_(FoldTally!vars)
  OBVIOUS
<1>1. CASE UNCHANGED kernelVars
  BY <1>1 DEF kernelVars, FoldTally!vars, FoldFront, Acc, Empty
<1>2. CASE FoldStep
  <2>1. /\ UNCHANGED input /\ pc # "done" /\ pc' \in {"loop", "done"}
        /\ FoldInput /\ cur \in Nat /\ FoldFront' \in cur .. len
        /\ res' = Joined(Acc, Matches(cur, FoldFront'))
    BY <1>2, FoldAbsorbs
  <2>2. op' = op /\ len' = len /\ match' = match
    BY <2>1, FoldInputKept
  <2>3. PICK n \in cur .. len : n = FoldFront'
    BY <2>1
  <2>4. Joined(Acc, Matches(cur, n)) = FoldTally!Absorbed(cur, n)
    <3>1. CASE op = "count"
      <4>1. Cardinality(Matches(cur, n)) = FoldTally!Cardinality(Matches(cur, n))
        BY Zenon DEF Cardinality, FoldTally!Cardinality
      <4> QED BY <3>1, <4>1 DEF Acc, Joined, Matches, FoldTally!Absorbed
    <3>2. CASE op = "last"
      <4>1. op # "count"
        BY <3>2
      <4> QED BY <3>2, <4>1
              DEF Acc, Joined, Matches, FoldTally!Absorbed, Max, FoldTally!Max
    <3> QED BY <2>1, <3>1, <3>2 DEF FoldInput, FoldOps
  <2>5. FoldTally!Absorb
    BY <2>1, <2>2, <2>3, <2>4 DEF FoldTally!Absorb, FoldTally!Absorbed, FoldFront, Acc
  <2> QED BY <2>5 DEF FoldTally!Next
<1> QED BY <1>1, <1>2 DEF FoldNext, Returned

\* Every fold kernel implements the abstract left-to-right fold.
THEOREM ImplementsTally == FoldSpec => TallySpec
<1>1. FoldInit => FoldTally!Init
  <2> SUFFICES ASSUME FoldInit PROVE FoldTally!Init
    OBVIOUS
  <2>1. FoldInv /\ pc = "entry" /\ cur = 0
    BY FoldInvInit DEF FoldInit, Start
  <2> QED BY <2>1 DEF FoldTally!Init, FoldInv, FoldShape, FoldInput, FoldOps, Empty, FoldFront, Acc
<1>2. FoldInv /\ FoldInv' /\ [FoldNext]_kernelVars => [FoldTally!Next]_(FoldTally!vars)
  BY FoldStepRefines
<1> QED BY <1>1, <1>2, FoldInvAlways, PTL DEF FoldSpec, TallySpec, FoldTally!Spec
=============================================================================
