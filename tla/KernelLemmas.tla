---------------------------- MODULE KernelLemmas ----------------------------
(* What the mask arithmetic of the kernels computes, for every chunk width, *)
(* every number of mask bits per lane and every word they fit in.  The      *)
(* proofs about the two kernels need nothing else of words and shifts.      *)
EXTENDS Kernel, MinLemmas, TLAPS

-----------------------------------------------------------------------------
(* Division by the bits per lane.                                           *)

\* Products are monotonic.
LEMMA TimesMonotonic ==
  ASSUME NEW d \in Nat, NEW m \in Int, NEW n \in Int, m <= n
  PROVE  m * d <= n * d
<1>1. PICK k \in Nat : n = m + k
  BY n - m \in Nat
<1>2. k * d \in Nat
  OBVIOUS
<1>3. n * d = m * d + k * d
  BY <1>1
<1> QED BY <1>2, <1>3

\* The quotient of a bit number is the lane that owns the bit.
LEMMA LaneOfBit ==
  ASSUME NEW d \in Nat \ {0}, NEW b \in Nat
  PROVE  /\ b \div d \in Nat
         /\ (b \div d) * d <= b
         /\ b < (b \div d + 1) * d
<1> DEFINE q == b \div d
<1>1. q \in Int /\ b % d \in 0 .. d - 1 /\ b = d * q + (b % d)
  OBVIOUS
<1> HIDE DEF q
<1>2. q * d <= b /\ b < (q + 1) * d
  BY <1>1
<1>3. q >= 0
  <2> SUFFICES ASSUME q <= -1 PROVE FALSE
    BY <1>1
  <2>1. (q + 1) * d <= 0 * d
    BY <1>1, TimesMonotonic
  <2>2. 0 * d = 0
    OBVIOUS
  <2>3. (q + 1) * d \in Int
    BY <1>1
  <2> QED BY <2>1, <2>2, <2>3, <1>2
<1> QED BY <1>1, <1>2, <1>3 DEF q

\* A bit belongs to a lane at or after k exactly when it is at or after k * d.
LEMMA LaneOrder ==
  ASSUME NEW d \in Nat \ {0}, NEW b \in Nat, NEW k \in Int
  PROVE  k <= b \div d <=> k * d <= b
<1> DEFINE q == b \div d
<1>1. q \in Nat /\ q * d <= b /\ b < (q + 1) * d
  BY LaneOfBit
<1> HIDE DEF q
<1>2. ASSUME k <= q PROVE k * d <= b
  <2>1. k * d <= q * d
    BY <1>1, <1>2, TimesMonotonic
  <2> QED BY <2>1, <1>1
<1>3. ASSUME ~(k <= q) PROVE ~(k * d <= b)
  <2>1. (q + 1) * d <= k * d
    BY <1>1, <1>3, TimesMonotonic
  <2> QED BY <2>1, <1>1
<1> QED BY <1>2, <1>3 DEF q

\* The lowest bit of a lane is in it.
LEMMA FirstBitOfLane ==
  ASSUME NEW d \in Nat \ {0}, NEW k \in Nat
  PROVE  (k * d) \div d = k
<1>1. k * d \in Nat
  OBVIOUS
<1>2. k <= (k * d) \div d
  BY <1>1, LaneOrder
<1>3. ~(k + 1 <= (k * d) \div d)
  BY <1>1, LaneOrder
<1> QED BY <1>1, <1>2, <1>3, LaneOfBit

-----------------------------------------------------------------------------
(* The widths of a backend.                                                 *)

\* What a well-formed backend says of the widths the kernels use.
LEMMA Widths ==
  ASSUME WellFormed(backend)
  PROVE  /\ Chunk \in Nat \ {0} /\ Bpl \in Nat \ {0} /\ WordBits \in Nat
         /\ Chunk * Bpl <= WordBits /\ Chunk * Bpl \in Nat
         /\ WordBits % Bpl = 0
BY DEF WellFormed, Chunk, Bpl, WordBits

\* A step that keeps the input keeps the backend and all that it fixes.
LEMMA WidthsKept ==
  ASSUME UNCHANGED input
  PROVE  /\ backend' = backend /\ op' = op /\ len' = len /\ match' = match
         /\ Chunk' = Chunk /\ overlapStart' = overlapStart
BY DEF input, Chunk, overlapStart

-----------------------------------------------------------------------------
(* The mask words.                                                          *)

\* The bits of an extracted mask are exactly the bits of its lanes.
LEMMA ExtractBits ==
  ASSUME WellFormed(backend), NEW lanes, lanes \subseteq Lanes
  PROVE  /\ Extract(lanes) \subseteq 0 .. WordBits - 1
         /\ \A b \in Extract(lanes) : b \div Bpl \in lanes
         /\ \A l \in lanes : l * Bpl \in Extract(lanes)
<1>1. Bpl \in Nat \ {0} /\ Chunk \in Nat \ {0} /\ WordBits \in Nat
      /\ Chunk * Bpl <= WordBits /\ Chunk * Bpl \in Nat
  BY Widths
<1>2. Extract(lanes) \subseteq 0 .. WordBits - 1
  BY <1>1 DEF Extract
<1>3. ASSUME NEW l \in lanes PROVE l * Bpl \in Extract(lanes)
  <2>1. l \in Nat /\ l + 1 <= Chunk
    BY <1>1 DEF Lanes
  <2>2. (l + 1) * Bpl <= Chunk * Bpl /\ 0 * Bpl <= l * Bpl
    BY <1>1, <2>1, TimesMonotonic
  <2>3. l * Bpl \in 0 .. Chunk * Bpl - 1
    BY <1>1, <2>1, <2>2
  <2>4. (l * Bpl) \div Bpl = l
    BY <1>1, <2>1, FirstBitOfLane
  <2> QED BY <2>3, <2>4 DEF Extract
<1> QED BY <1>2, <1>3 DEF Extract

\* A mask word is zero exactly when no lane is set.
LEMMA ExtractEmpty ==
  ASSUME WellFormed(backend), NEW lanes, lanes \subseteq Lanes
  PROVE  Extract(lanes) = {} <=> lanes = {}
BY ExtractBits

\* trailing_zeros() divided by the bits per lane is the first lane set.
LEMMA FirstLaneIsFirst ==
  ASSUME WellFormed(backend), NEW lanes, lanes \subseteq Lanes, lanes # {}
  PROVE  /\ FirstLane(Extract(lanes)) \in lanes
         /\ \A l \in lanes : FirstLane(Extract(lanes)) <= l
<1> DEFINE w == Extract(lanes)
<1> DEFINE m == Min(w)
<1>1. Bpl \in Nat \ {0} /\ lanes \subseteq Nat
  BY Widths DEF Lanes
<1>2. w # {} /\ w \subseteq Nat
  BY ExtractBits, Widths
<1>3. m \in w /\ \A b \in w : m <= b
  BY <1>2, MinProperty
<1>4. FirstLane(w) = m \div Bpl
  BY <1>2 DEF FirstLane, TrailingZeros
<1> HIDE DEF m
<1>5. m \div Bpl \in lanes
  BY <1>3, ExtractBits
<1>6. ASSUME NEW l \in lanes PROVE m \div Bpl <= l
  <2>1. l \in Nat /\ l * Bpl \in w /\ l * Bpl \in Nat
    BY <1>1, <1>2, ExtractBits
  <2>2. m <= l * Bpl
    BY <2>1, <1>3
  <2>3. m \in Nat /\ m \div Bpl \in Nat /\ (m \div Bpl) * Bpl <= m
    BY <1>1, <1>2, <1>3, LaneOfBit
  <2>4. (m \div Bpl) * Bpl <= l * Bpl
    BY <1>1, <2>1, <2>2, <2>3
  <2>5. m \div Bpl <= (l * Bpl) \div Bpl
    BY <1>1, <2>1, <2>3, <2>4, LaneOrder
  <2> QED BY <1>1, <2>1, <2>5, FirstBitOfLane
<1> QED BY <1>4, <1>5, <1>6

\* The shift that builds scan_mask stays inside the word as long as the loops
\* have covered less than the whole tail chunk.
LEMMA ShiftInWord ==
  ASSUME WellFormed(backend), NEW k \in 0 .. Chunk - 1
  PROVE  k * Bpl \in 0 .. WordBits - 1
<1>1. Bpl \in Nat \ {0} /\ Chunk \in Nat \ {0} /\ WordBits \in Nat
      /\ Chunk * Bpl <= WordBits /\ Chunk * Bpl \in Nat
  BY Widths
<1>2. 0 * Bpl <= k * Bpl /\ (k + 1) * Bpl <= Chunk * Bpl
  BY <1>1, TimesMonotonic
<1> QED BY <1>1, <1>2

\* scan_mask clears the lanes before cur - overlap_start and no others.
LEMMA ScanMaskLanes ==
  ASSUME WellFormed(backend), NEW lanes, lanes \subseteq Lanes,
         cur - overlapStart \in 0 .. Chunk - 1
  PROVE  Extract(lanes) \cap ScanMask
           = Extract({l \in lanes : l >= cur - overlapStart})
<1> DEFINE k == cur - overlapStart
<1>1. Bpl \in Nat \ {0} /\ WordBits \in Nat /\ k \in Nat
  BY Widths
<1>2. k * Bpl \in 0 .. WordBits - 1
  BY ShiftInWord
<1>3. (k * Bpl) % WordBits = k * Bpl
  BY <1>1, <1>2
<1>4. ScanMask = {i \in Ones(WordBits) : i - ((k * Bpl) % WordBits) \in Ones(WordBits)}
  BY DEF ScanMask, Shl
<1> HIDE DEF k
<1>5. ScanMask = {i \in 0 .. WordBits - 1 : k * Bpl <= i}
  BY <1>1, <1>2, <1>3, <1>4 DEF Ones
<1>6. ASSUME NEW b \in Extract(lanes)
      PROVE  b \in ScanMask <=> b \div Bpl >= k
  <2>1. b \in 0 .. WordBits - 1 /\ b \div Bpl \in lanes
    BY ExtractBits
  <2>2. b \in Nat /\ b \div Bpl \in Nat
    BY <1>1, <2>1, LaneOfBit
  <2>3. k <= b \div Bpl <=> k * Bpl <= b
    BY <1>1, <2>2, LaneOrder
  <2> QED BY <1>5, <2>1, <2>2, <2>3, <1>1
<1>7. Extract({l \in lanes : l >= k}) = {b \in Extract(lanes) : b \div Bpl >= k}
  BY DEF Extract
<1> QED BY <1>6, <1>7 DEF k
=============================================================================
