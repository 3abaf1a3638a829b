------------------------- MODULE PrefixKernelProofs -------------------------
(* For every chunk width, every mask register the chunk fits in, every probe *)
(* and every input: a prefix kernel stays inside its slice, never shifts by *)
(* the width of the word, returns the first byte that stops the scan, reads *)
(* nothing twice but the tail, and stops soon after its answer.             *)
EXTENDS PrefixKernel, KernelLemmas

-----------------------------------------------------------------------------
(* From mask words to positions.                                            *)

\* the lanes of the chunk at start at which the scan stops
StopLanes(start) == {l \in Lanes : start + l \in StopSet}

\* the types of the input, all that the lemmas need of the state
PrefixInput == /\ WellFormed(backend)
               /\ op \in PrefixOps
               /\ len \in Nat
               /\ match \subseteq 0 .. len - 1

\* The probe of a well-formed backend is no longer than a chunk.
LEMMA ProbeBounds ==
  ASSUME WellFormed(backend)
  PROVE  Probe \in 1 .. Chunk /\ Credit \in BOOLEAN
BY DEF WellFormed, Probe, Credit, Chunk

\* Only positions of the input stop a scan.
LEMMA StopSetType ==
  ASSUME PrefixInput
  PROVE  StopSet \subseteq 0 .. len - 1
BY DEF PrefixInput, StopSet

\* The scalar scan of the first n bytes returns the first stop among them.
LEMMA ScalarScanFirst ==
  ASSUME PrefixInput, NEW n \in 0 .. len
  PROVE  /\ ScalarScan(n) \in 0 .. n
         /\ \A i \in StopSet : ScalarScan(n) <= i
         /\ ScalarScan(n) # n => ScalarScan(n) \in StopSet
<1> DEFINE s == StopSet \cap 0 .. n - 1
<1>1. StopSet \subseteq 0 .. len - 1 /\ len \in Nat
  BY StopSetType DEF PrefixInput
<1>2. CASE s = {}
  <2>1. ScalarScan(n) = n
    BY <1>2 DEF ScalarScan
  <2>2. \A i \in StopSet : n <= i
    BY <1>1, <1>2
  <2> QED BY <2>1, <2>2
<1>3. CASE s # {}
  <2>1. ScalarScan(n) = Min(s)
    BY <1>3 DEF ScalarScan
  <2>2. Min(s) \in s /\ \A x \in s : Min(s) <= x
    BY <1>1, <1>3, MinProperty
  <2>3. ASSUME NEW i \in StopSet PROVE Min(s) <= i
    <3>1. CASE i \in s
      BY <2>2, <3>1
    <3>2. CASE i \notin s
      BY <1>1, <2>2, <3>2
    <3> QED BY <3>1, <3>2
  <2> QED BY <2>1, <2>2, <2>3
<1> QED BY <1>2, <1>3

\* The stop bits of a match mask are the bits of the other lanes, for a scan that
\* stops at a miss, and the mask itself for skip_until.
LEMMA StopsBits ==
  ASSUME WellFormed(backend), NEW lanes, lanes \subseteq Lanes
  PROVE  Stops(lanes) = IF op = "until" THEN Extract(lanes)
                                        ELSE Extract(Lanes \ lanes)
<1>1. Extract(Lanes) \subseteq 0 .. WordBits - 1
  BY ExtractBits
<1>2. Not(WordBits, Extract(lanes)) \cap Extract(Lanes) = Extract(Lanes \ lanes)
  BY <1>1 DEF Not, Ones, Extract
<1> QED BY <1>2 DEF Stops

\* The stop bits of a chunk inside the input are the bits of its stop lanes.
LEMMA ChunkStops ==
  ASSUME PrefixInput, NEW start \in 0 .. len - Chunk
  PROVE  Stops(Compare(start)) = Extract(StopLanes(start))
<1>0. WellFormed(backend)
  BY DEF PrefixInput
<1> USE <1>0
<1>1. Chunk \in Nat \ {0} /\ len \in Nat
  BY Widths DEF PrefixInput
<1>2. Compare(start) \subseteq Lanes
  BY DEF Compare
<1>3. CASE op = "until"
  <2>1. StopLanes(start) = Compare(start)
    BY <1>3 DEF StopLanes, Compare, StopSet
  <2> QED BY <1>2, <1>3, <2>1, StopsBits
<1>4. CASE op # "until"
  <2>1. ASSUME NEW l \in Lanes PROVE start + l \in 0 .. len - 1
    BY <1>1 DEF Lanes
  <2>2. StopLanes(start) = Lanes \ Compare(start)
    BY <1>4, <2>1 DEF StopLanes, Compare, StopSet
  <2> QED BY <1>2, <1>4, <2>2, StopsBits
<1> QED BY <1>3, <1>4

\* The combined stop bits of two chunks are the bits of the lanes at which either
\* stops: an OR of hits, or the complement of an AND of matches.
LEMMA PairStopsBits ==
  ASSUME PrefixInput, cur \in Nat, cur + 2 * Chunk <= len
  PROVE  PairStops = Extract(StopLanes(cur) \cup StopLanes(cur + Chunk))
<1>0. WellFormed(backend)
  BY DEF PrefixInput
<1> USE <1>0
<1>1. Chunk \in Nat \ {0} /\ len \in Nat
  BY Widths DEF PrefixInput
<1>2. Compare(cur) \subseteq Lanes /\ Compare(cur + Chunk) \subseteq Lanes
  BY DEF Compare
<1>3. CASE op = "until"
  <2>1. StopLanes(cur) \cup StopLanes(cur + Chunk) = Compare(cur) \cup Compare(cur + Chunk)
    BY <1>3 DEF StopLanes, Compare, StopSet
  <2> QED BY <1>2, <1>3, <2>1, StopsBits DEF PairStops
<1>4. CASE op # "until"
  <2>1. ASSUME NEW l \in Lanes
        PROVE  cur + l \in 0 .. len - 1 /\ cur + Chunk + l \in 0 .. len - 1
    BY <1>1 DEF Lanes
  <2>2. StopLanes(cur) \cup StopLanes(cur + Chunk)
          = Lanes \ (Compare(cur) \cap Compare(cur + Chunk))
    BY <1>4, <2>1 DEF StopLanes, Compare, StopSet
  <2>3. Compare(cur) \cap Compare(cur + Chunk) \subseteq Lanes
    BY <1>2
  <2> QED BY <1>4, <2>2, <2>3, StopsBits DEF PairStops
<1> QED BY <1>3, <1>4

\* A chunk without stop bits holds no stop; otherwise its first set lane is the
\* first stop at or after the beginning of the chunk.
LEMMA ChunkFirst ==
  ASSUME PrefixInput, NEW start \in 0 .. len - Chunk
  PROVE  LET stops == Stops(Compare(start))
             first == start + FirstLane(stops)
         IN  /\ stops = {} => \A i \in StopSet : i \notin start .. start + Chunk - 1
             /\ stops # {} => /\ first \in StopSet
                              /\ first \in start .. start + Chunk - 1
                              /\ \A i \in StopSet : start <= i => first <= i
<1>0. WellFormed(backend)
  BY DEF PrefixInput
<1> USE <1>0
<1> DEFINE stops == Stops(Compare(start))
<1>1. Chunk \in Nat \ {0} /\ len \in Nat /\ start \in Nat
  BY Widths DEF PrefixInput
<1>2. stops = Extract(StopLanes(start)) /\ StopLanes(start) \subseteq Lanes
  BY ChunkStops DEF StopLanes
<1>3. StopSet \subseteq Nat
  BY StopSetType DEF PrefixInput
<1> HIDE DEF stops
<1>4. ASSUME NEW i \in StopSet, i \in start .. start + Chunk - 1
      PROVE  i - start \in StopLanes(start)
  BY <1>1, <1>4 DEF StopLanes, Lanes
<1>5. CASE stops = {}
  <2>1. StopLanes(start) = {}
    BY <1>2, <1>5, ExtractEmpty
  <2> QED BY <1>4, <1>5, <2>1 DEF stops
<1>6. CASE stops # {}
  <2>1. StopLanes(start) # {}
    BY <1>2, <1>6, ExtractEmpty
  <2> DEFINE f == FirstLane(stops)
  <2>2. f \in StopLanes(start) /\ \A l \in StopLanes(start) : f <= l
    BY <1>2, <2>1, FirstLaneIsFirst
  <2>3. f \in Lanes /\ start + f \in StopSet
    BY <2>2 DEF StopLanes
  <2> HIDE DEF f
  <2>4. start + f \in start .. start + Chunk - 1
    BY <1>1, <2>3 DEF Lanes
  <2>5. ASSUME NEW i \in StopSet, start <= i PROVE start + f <= i
    <3>1. CASE i <= start + Chunk - 1
      <4>1. i - start \in StopLanes(start)
        BY <1>1, <1>3, <1>4, <2>5, <3>1
      <4> QED BY <1>1, <1>3, <2>2, <2>3, <4>1 DEF Lanes
    <3>2. CASE ~(i <= start + Chunk - 1)
      BY <1>1, <1>3, <2>4, <3>2
    <3> QED BY <3>1, <3>2
  <2> QED BY <1>6, <2>3, <2>4, <2>5 DEF stops, f
<1> QED BY <1>5, <1>6

\* The masked tail chunk shows the stops that the loops have not passed, and the
\* first of its set lanes is the first of those.
LEMMA TailFirst ==
  ASSUME PrefixInput, Chunk <= len, cur \in 0 .. len, cur # len, cur + Chunk > len
  PROVE  LET first == overlapStart + FirstLane(TailStops)
         IN  /\ TailStops = {} => \A i \in StopSet : i < cur
             /\ TailStops # {} => /\ first \in StopSet
                                  /\ cur <= first
                                  /\ \A i \in StopSet : cur <= i => first <= i
<1>0. WellFormed(backend)
  BY DEF PrefixInput
<1> USE <1>0
<1> DEFINE o == overlapStart
<1> DEFINE fresh == {l \in StopLanes(o) : l >= cur - o}
<1>1. Chunk \in Nat \ {0} /\ len \in Nat /\ cur \in Nat
  BY Widths DEF PrefixInput
<1>2. o \in 0 .. len - Chunk /\ o + Chunk = len /\ cur - o \in 0 .. Chunk - 1
  BY <1>1 DEF overlapStart
<1>3. TailStops = Extract(fresh) /\ fresh \subseteq Lanes
  <2>1. Stops(Compare(o)) = Extract(StopLanes(o)) /\ StopLanes(o) \subseteq Lanes
    BY <1>2, ChunkStops DEF StopLanes
  <2>2. Extract(StopLanes(o)) \cap ScanMask = Extract(fresh)
    BY <1>2, <2>1, ScanMaskLanes
  <2> QED BY <2>1, <2>2 DEF TailStops
<1>4. StopSet \subseteq 0 .. len - 1
  BY StopSetType
<1> HIDE DEF o
<1>5. ASSUME NEW i \in StopSet, cur <= i PROVE i - o \in fresh
  BY <1>1, <1>2, <1>4, <1>5 DEF StopLanes, Lanes
<1>6. CASE TailStops = {}
  <2>1. fresh = {}
    BY <1>3, <1>6, ExtractEmpty
  <2> QED BY <1>1, <1>4, <1>5, <1>6, <2>1
<1>7. CASE TailStops # {}
  <2>1. fresh # {}
    BY <1>3, <1>7, ExtractEmpty
  <2> DEFINE f == FirstLane(TailStops)
  <2>2. f \in fresh /\ \A l \in fresh : f <= l
    BY <1>3, <2>1, FirstLaneIsFirst
  <2>3. f \in Nat /\ o + f \in StopSet /\ cur <= o + f
    BY <1>1, <1>2, <2>2 DEF StopLanes, Lanes
  <2> HIDE DEF f
  <2>4. ASSUME NEW i \in StopSet, cur <= i PROVE o + f <= i
    BY <1>1, <1>2, <1>4, <1>5, <2>2, <2>3, <2>4
  <2> QED BY <1>7, <2>3, <2>4 DEF f, o
<1> QED BY <1>6, <1>7

-----------------------------------------------------------------------------
(* The inductive invariant.  What the safety properties say of a finished   *)
(* call follows from one fact about the running loops: the frontier cur has *)
(* passed no stop, and the input holds at least one chunk.                  *)

LoopInv == /\ pc = "entry" => cur = 0
           /\ pc = "loop" => /\ Chunk <= len
                             /\ \A i \in StopSet : cur <= i

PrefixInv == PrefixTypeOK /\ LoopInv /\ LoadsInBounds /\ ReturnsFirstStop

\* A call that has not begun satisfies the invariant.
LEMMA PrefixInvInit == PrefixInit => PrefixInv
<1> SUFFICES ASSUME PrefixInit PROVE PrefixInv
  OBVIOUS
<1>1. PICK i \in Inputs : len = i.len /\ match = i.match
  BY DEF PrefixInit, Start
<1>2. WellFormed(backend)
  BY BackendAssumption DEF PrefixInit, Start
<1>3. op \in PrefixOps /\ pc = "entry" /\ cur = 0 /\ res = None /\ loads = {}
  BY DEF PrefixInit, Start
<1> QED BY <1>1, <1>2, <1>3, InputAssumption
  DEF PrefixInv, PrefixTypeOK, LoopInv, LoadsInBounds, ReturnsFirstStop

\* The invariant speaks of a stop set that no step changes.
LEMMA PrefixInputKept ==
  ASSUME UNCHANGED input
  PROVE  /\ UNCHANGED <<op, len, match>>
         /\ StopSet' = StopSet
         /\ Exhausted' = Exhausted
         /\ PrefixInput' <=> PrefixInput
         /\ WellFormed(backend)' <=> WellFormed(backend)
         /\ Chunk' = Chunk
BY DEF input, StopSet, Exhausted, PrefixInput, WellFormed, Chunk

\* A returned position that is the first stop satisfies the invariant.
LEMMA ReturnStop ==
  ASSUME PrefixTypeOK, UNCHANGED input, NEW r,
         Return(r), r \in StopSet, \A i \in StopSet : r <= i
  PROVE  /\ pc' \in {"entry", "loop", "done"} /\ cur' \in 0 .. len'
         /\ res' \in Nat \cup {None} /\ LoopInv' /\ ReturnsFirstStop'
<1>1. PrefixInput /\ StopSet' = StopSet /\ len' = len /\ StopSet \subseteq Nat
  BY PrefixInputKept, StopSetType DEF PrefixTypeOK, PrefixInput
<1> QED BY <1>1 DEF Return, PrefixTypeOK, LoopInv, ReturnsFirstStop

\* So does the exhausted result when there is no stop at all.
LEMMA ReturnExhausted ==
  ASSUME PrefixTypeOK, UNCHANGED input, Return(Exhausted), StopSet = {}
  PROVE  /\ pc' \in {"entry", "loop", "done"} /\ cur' \in 0 .. len'
         /\ res' \in Nat \cup {None} /\ LoopInv' /\ ReturnsFirstStop'
<1>1. StopSet' = StopSet /\ len' = len /\ Exhausted' = Exhausted
  BY PrefixInputKept
<1>2. Exhausted \in Nat \cup {None}
  BY DEF PrefixTypeOK, Exhausted
<1> QED BY <1>1, <1>2 DEF Return, PrefixTypeOK, LoopInv, ReturnsFirstStop

\* So does a frontier that moves on without passing a stop.
LEMMA AdvanceFrontier ==
  ASSUME PrefixTypeOK, UNCHANGED input, NEW n \in 0 .. len, Advance(n), Chunk <= len,
         \A i \in StopSet : n <= i
  PROVE  /\ pc' \in {"entry", "loop", "done"} /\ cur' \in 0 .. len'
         /\ res' \in Nat \cup {None} /\ LoopInv' /\ ReturnsFirstStop'
<1>1. StopSet' = StopSet /\ len' = len /\ Chunk' = Chunk
  BY PrefixInputKept
<1> QED BY <1>1 DEF Advance, PrefixTypeOK, LoopInv, ReturnsFirstStop

\* Loads of whole chunks inside the input keep LoadsInBounds.
LEMMA LoadInside ==
  ASSUME LoadsInBounds, UNCHANGED input, PrefixTypeOK,
         NEW starts, starts \subseteq Int, Load(starts),
         \A s \in starts : 0 <= s /\ s + Chunk <= len
  PROVE  loads' \subseteq Int /\ LoadsInBounds'
<1>1. len' = len /\ Chunk' = Chunk
  BY PrefixInputKept
<1> QED BY <1>1 DEF LoadsInBounds, Load, PrefixTypeOK

\* The conjuncts of the invariant after a step, from what the lemmas above say.
LEMMA Reassemble ==
  ASSUME PrefixTypeOK, UNCHANGED input, loads' \subseteq Int, LoadsInBounds',
         pc' \in {"entry", "loop", "done"}, cur' \in 0 .. len',
         res' \in Nat \cup {None}, LoopInv', ReturnsFirstStop'
  PROVE  PrefixInv'
<1>1. /\ op' = op /\ len' = len /\ match' = match
      /\ WellFormed(backend)' <=> WellFormed(backend)
  BY PrefixInputKept
<1> QED BY <1>1 DEF PrefixTypeOK, PrefixInv

\* A step that loads nothing keeps the loads where they were.
LEMMA LoadsKept ==
  ASSUME PrefixTypeOK, LoadsInBounds, UNCHANGED <<input, loads>>
  PROVE  loads' \subseteq Int /\ LoadsInBounds'
<1>1. UNCHANGED input /\ loads' = loads
  OBVIOUS
<1>2. len' = len /\ Chunk' = Chunk
  BY <1>1, PrefixInputKept
<1> QED BY <1>1, <1>2 DEF PrefixTypeOK, LoadsInBounds

\* Every step of a kernel preserves the invariant: one case per action.
LEMMA PrefixInvStep == PrefixInv /\ [PrefixNext]_kernelVars => PrefixInv'
<1> SUFFICES ASSUME PrefixInv, [PrefixNext]_kernelVars PROVE PrefixInv'
  OBVIOUS
<1>1. /\ PrefixTypeOK /\ PrefixInput /\ LoadsInBounds /\ LoopInv /\ ReturnsFirstStop
      /\ WellFormed(backend)
  BY DEF PrefixInv, PrefixTypeOK, PrefixInput
<1>2. Chunk \in Nat \ {0} /\ len \in Nat /\ cur \in 0 .. len /\ StopSet \subseteq 0 .. len - 1
  BY <1>1, Widths, StopSetType DEF PrefixTypeOK
<1>3. CASE PrefixShort
  <2>1. /\ ScalarScan(len) \in 0 .. len
        /\ \A i \in StopSet : ScalarScan(len) <= i
        /\ ScalarScan(len) # len => ScalarScan(len) \in StopSet
    BY <1>1, <1>2, ScalarScanFirst
  <2>2. UNCHANGED input /\ UNCHANGED <<input, loads>> /\ Return(ScalarPrefix)
    BY <1>3 DEF PrefixShort
  <2>3. CASE ScalarScan(len) = len
    <3>1. StopSet = {}
      BY <1>2, <2>1, <2>3
    <3>2. Return(Exhausted)
      BY <2>2, <2>3 DEF ScalarPrefix
    <3> QED BY <1>1, <2>2, <3>1, <3>2, ReturnExhausted, LoadsKept, Reassemble
  <2>4. CASE ScalarScan(len) # len
    <3>1. Return(ScalarScan(len))
      BY <2>2, <2>4 DEF ScalarPrefix
    <3> QED BY <1>1, <2>1, <2>2, <2>4, <3>1, ReturnStop, LoadsKept, Reassemble
  <2> QED BY <2>3, <2>4
<1>4. ASSUME ProbeHit \/ ProbeMiss
      PROVE  /\ Chunk <= len /\ ProbeLen \in 1 .. Chunk
             /\ UNCHANGED input /\ UNCHANGED <<input, loads>>
             /\ ScalarScan(ProbeLen) \in 0 .. ProbeLen
             /\ \A i \in StopSet : ScalarScan(ProbeLen) <= i
             /\ ScalarScan(ProbeLen) # ProbeLen => ScalarScan(ProbeLen) \in StopSet
  <2>1. Chunk <= len /\ UNCHANGED input /\ UNCHANGED <<input, loads>>
    BY <1>2, <1>4 DEF ProbeHit, ProbeMiss
  <2>2. ProbeLen \in 1 .. Chunk
    BY <1>1, <1>2, ProbeBounds DEF ProbeLen
  <2>3. ProbeLen \in 0 .. len
    BY <1>2, <2>1, <2>2
  <2> QED BY <1>1, <2>1, <2>2, <2>3, ScalarScanFirst
<1>5. CASE ProbeHit
  <2>1. Return(ScalarScan(ProbeLen)) /\ ScalarScan(ProbeLen) # ProbeLen
    BY <1>5 DEF ProbeHit
  <2> QED BY <1>1, <1>4, <1>5, <2>1, ReturnStop, LoadsKept, Reassemble
<1>6. CASE ProbeMiss
  <2>1. Advance(LoopStart) /\ ScalarScan(ProbeLen) = ProbeLen
    BY <1>6 DEF ProbeMiss
  <2>2. LoopStart \in 0 .. Chunk /\ LoopStart \in {0, ProbeLen}
    BY <1>2 DEF LoopStart, ProbeLen
  <2>3. LoopStart \in 0 .. len /\ \A i \in StopSet : LoopStart <= i
    BY <1>2, <1>4, <1>6, <2>1, <2>2
  <2> QED BY <1>1, <1>4, <1>6, <2>1, <2>3, AdvanceFrontier, LoadsKept, Reassemble
<1>7. ASSUME InPairLoop, UNCHANGED input, Load({cur, cur + Chunk})
      PROVE  /\ cur \in 0 .. len - Chunk /\ cur + Chunk \in 0 .. len - Chunk
             /\ cur + 2 * Chunk \in 0 .. len /\ Chunk <= len
             /\ \A i \in StopSet : cur <= i
             /\ PairStops = {} <=> /\ Stops(Compare(cur)) = {}
                                   /\ Stops(Compare(cur + Chunk)) = {}
             /\ loads' \subseteq Int /\ LoadsInBounds'
  <2>1. pc = "loop" /\ cur + 2 * Chunk <= len
    BY <1>7 DEF InPairLoop
  <2>2. /\ cur \in 0 .. len - Chunk /\ cur + Chunk \in 0 .. len - Chunk
        /\ cur + 2 * Chunk \in 0 .. len /\ Chunk <= len
    BY <1>2, <2>1
  <2>3. \A i \in StopSet : cur <= i
    BY <1>1, <2>1 DEF LoopInv
  <2>4. PairStops = Extract(StopLanes(cur) \cup StopLanes(cur + Chunk))
    BY <1>1, <1>2, <2>1, PairStopsBits
  <2>5. /\ Stops(Compare(cur)) = Extract(StopLanes(cur))
        /\ Stops(Compare(cur + Chunk)) = Extract(StopLanes(cur + Chunk))
    BY <1>1, <2>2, ChunkStops
  <2>6. StopLanes(cur) \subseteq Lanes /\ StopLanes(cur + Chunk) \subseteq Lanes
    BY DEF StopLanes
  <2>7. PairStops = {} <=> /\ Stops(Compare(cur)) = {}
                           /\ Stops(Compare(cur + Chunk)) = {}
    BY <1>1, <2>4, <2>5, <2>6, ExtractEmpty
  <2>8. loads' \subseteq Int /\ LoadsInBounds'
    <3>1. len' = len
      BY <1>7, PrefixInputKept
    <3>2. {cur, cur + Chunk} \subseteq Int
          /\ \A s \in {cur, cur + Chunk} : 0 <= s /\ s + Chunk <= len
      BY <1>2, <2>2
    <3> QED BY <1>1, <1>7, <3>1, <3>2, LoadInside
  <2> QED BY <2>2, <2>3, <2>7, <2>8
<1>8. CASE PairClean
  <2>1. /\ InPairLoop /\ UNCHANGED input /\ Load({cur, cur + Chunk})
        /\ PairStops = {} /\ Advance(cur + 2 * Chunk)
    BY <1>8 DEF PairClean
  <2>2. \A i \in StopSet : /\ i \notin cur .. cur + Chunk - 1
                           /\ i \notin cur + Chunk .. cur + Chunk + Chunk - 1
    BY <1>1, <1>7, <2>1, ChunkFirst
  <2>3. \A i \in StopSet : cur + 2 * Chunk <= i
    BY <1>2, <1>7, <2>1, <2>2
  <2> QED BY <1>1, <1>7, <2>1, <2>3, AdvanceFrontier, Reassemble
<1>9. CASE PairHit
  <2> DEFINE b0 == Stops(Compare(cur))
             b1 == Stops(Compare(cur + Chunk))
             r  == IF b0 # {} THEN cur + FirstLane(b0) ELSE cur + Chunk + FirstLane(b1)
  <2>1. /\ InPairLoop /\ UNCHANGED input /\ Load({cur, cur + Chunk})
        /\ PairStops # {} /\ Return(r)
    BY <1>9 DEF PairHit
  <2>2. /\ b0 = {} => \A i \in StopSet : i \notin cur .. cur + Chunk - 1
        /\ b0 # {} => /\ cur + FirstLane(b0) \in StopSet
                      /\ \A i \in StopSet : cur <= i => cur + FirstLane(b0) <= i
    BY <1>1, <1>7, <2>1, ChunkFirst
  <2>3. b1 # {} => /\ cur + Chunk + FirstLane(b1) \in StopSet
                   /\ \A i \in StopSet :
                        cur + Chunk <= i => cur + Chunk + FirstLane(b1) <= i
    BY <1>1, <1>7, <2>1, ChunkFirst
  <2>4. b0 # {} \/ b1 # {}
    BY <1>7, <2>1
  <2>5. r \in StopSet /\ \A i \in StopSet : r <= i
    <3>1. CASE b0 # {}
      BY <1>7, <2>1, <2>2, <3>1
    <3>2. CASE b0 = {}
      <4>1. \A i \in StopSet : cur + Chunk <= i
        BY <1>2, <1>7, <2>1, <2>2, <3>2
      <4> QED BY <2>3, <2>4, <3>2, <4>1
    <3> QED BY <3>1, <3>2
  <2> QED BY <1>1, <1>7, <2>1, <2>5, ReturnStop, Reassemble
<1>10. ASSUME InSingleLoop, UNCHANGED input, Load({cur})
       PROVE  /\ cur \in 0 .. len - Chunk /\ cur + Chunk \in 0 .. len /\ Chunk <= len
              /\ \A i \in StopSet : cur <= i
              /\ loads' \subseteq Int /\ LoadsInBounds'
  <2>1. pc = "loop" /\ cur + Chunk <= len
    BY <1>10 DEF InSingleLoop
  <2>2. cur \in 0 .. len - Chunk /\ cur + Chunk \in 0 .. len /\ Chunk <= len
    BY <1>2, <2>1
  <2>3. \A i \in StopSet : cur <= i
    BY <1>1, <2>1 DEF LoopInv
  <2>4. len' = len /\ {cur} \subseteq Int /\ \A s \in {cur} : 0 <= s /\ s + Chunk <= len
    BY <1>2, <1>10, <2>2, PrefixInputKept
  <2>5. loads' \subseteq Int /\ LoadsInBounds'
    BY <1>1, <1>10, <2>4, LoadInside
  <2> QED BY <2>2, <2>3, <2>5
<1>11. CASE SingleClean
  <2>1. /\ InSingleLoop /\ UNCHANGED input /\ Load({cur})
        /\ Stops(Compare(cur)) = {} /\ Advance(cur + Chunk)
    BY <1>11 DEF SingleClean
  <2>2. \A i \in StopSet : i \notin cur .. cur + Chunk - 1
    BY <1>1, <1>10, <2>1, ChunkFirst
  <2>3. \A i \in StopSet : cur + Chunk <= i
    BY <1>2, <1>10, <2>1, <2>2
  <2> QED BY <1>1, <1>10, <2>1, <2>3, AdvanceFrontier, Reassemble
<1>12. CASE SingleHit
  <2> DEFINE r == cur + FirstLane(Stops(Compare(cur)))
  <2>1. /\ InSingleLoop /\ UNCHANGED input /\ Load({cur})
        /\ Stops(Compare(cur)) # {} /\ Return(r)
    BY <1>12 DEF SingleHit
  <2>2. r \in StopSet /\ \A i \in StopSet : cur <= i => r <= i
    BY <1>1, <1>10, <2>1, ChunkFirst
  <2>3. \A i \in StopSet : r <= i
    BY <1>10, <2>1, <2>2
  <2> HIDE DEF r
  <2> QED BY <1>1, <1>10, <2>1, <2>2, <2>3, ReturnStop, Reassemble
<1>13. CASE PrefixNoTail
  <2>1. pc = "loop" /\ cur = len /\ Return(Exhausted) /\ UNCHANGED input
        /\ UNCHANGED <<input, loads>>
    BY <1>13 DEF PrefixNoTail, AfterLoops
  <2>2. StopSet = {}
    BY <1>1, <1>2, <2>1 DEF LoopInv
  <2> QED BY <1>1, <2>1, <2>2, ReturnExhausted, LoadsKept, Reassemble
<1>14. CASE PrefixTail
  <2> DEFINE r == overlapStart + FirstLane(TailStops)
  <2>1. /\ pc = "loop" /\ cur + Chunk > len /\ cur # len
        /\ UNCHANGED input /\ Load({overlapStart})
        /\ Return(IF TailStops # {} THEN r ELSE Exhausted)
    BY <1>14 DEF PrefixTail, AfterLoops
  <2>2. Chunk <= len /\ \A i \in StopSet : cur <= i
    BY <1>1, <2>1 DEF LoopInv
  <2>3. /\ TailStops = {} => \A i \in StopSet : i < cur
        /\ TailStops # {} => r \in StopSet /\ \A i \in StopSet : cur <= i => r <= i
    BY <1>1, <1>2, <2>1, <2>2, TailFirst
  <2>4. loads' \subseteq Int /\ LoadsInBounds'
    <3>1. len' = len /\ {overlapStart} \subseteq Int
          /\ \A s \in {overlapStart} : 0 <= s /\ s + Chunk <= len
      BY <1>2, <2>1, <2>2, PrefixInputKept DEF overlapStart
    <3> QED BY <1>1, <2>1, <3>1, LoadInside
  <2>5. CASE TailStops = {}
    <3>1. StopSet = {} /\ Return(Exhausted)
      BY <1>2, <2>1, <2>2, <2>3, <2>5
    <3> QED BY <1>1, <2>1, <2>4, <3>1, ReturnExhausted, Reassemble
  <2>6. CASE TailStops # {}
    <3>1. r \in StopSet /\ (\A i \in StopSet : r <= i) /\ Return(r)
      BY <2>1, <2>2, <2>3, <2>6
    <3> HIDE DEF r
    <3> QED BY <1>1, <2>1, <2>4, <3>1, ReturnStop, Reassemble
  <2> QED BY <2>5, <2>6
<1>15. CASE UNCHANGED kernelVars
  <2>1. UNCHANGED <<op, len, match, pc, cur, res, loads>> /\ UNCHANGED input
    BY <1>15 DEF kernelVars, input
  <2>2. Chunk' = Chunk /\ WellFormed(backend)'
    BY <1>1, <2>1, PrefixInputKept
  <2> QED BY <1>1, <2>1, <2>2
    DEF PrefixInv, PrefixTypeOK, LoopInv, LoadsInBounds, ReturnsFirstStop, StopSet, Exhausted
<1> QED
  BY <1>3, <1>5, <1>6, <1>8, <1>9, <1>11, <1>12, <1>13, <1>14, <1>15
  DEF PrefixNext, PrefixStep, Returned

-----------------------------------------------------------------------------
(* Theorems.                                                                *)

\* The invariant holds throughout every call.
LEMMA PrefixInvAlways == PrefixSpec => []PrefixInv
<1>1. PrefixInit => PrefixInv
  BY PrefixInvInit
<1>2. PrefixInv /\ [PrefixNext]_kernelVars => PrefixInv'
  BY PrefixInvStep
<1> QED BY <1>1, <1>2, PTL DEF PrefixSpec

\* Whatever the widths, the variables of a call keep their types: in particular
\* the cursor never passes the end of the input.
THEOREM PrefixTypes == PrefixSpec => []PrefixTypeOK
<1>1. PrefixInv => PrefixTypeOK
  BY DEF PrefixInv
<1> QED BY <1>1, PrefixInvAlways, PTL

\* Every call of every prefix kernel returns the first byte that stops the scan.
THEOREM PrefixCorrect == PrefixSpec => []ReturnsFirstStop
<1>1. PrefixInv => ReturnsFirstStop
  BY DEF PrefixInv
<1> QED BY <1>1, PrefixInvAlways, PTL

\* No load of any prefix kernel reads outside the slice.
THEOREM PrefixMemorySafe == PrefixSpec => []LoadsInBounds
<1>1. PrefixInv => LoadsInBounds
  BY DEF PrefixInv
<1> QED BY <1>1, PrefixInvAlways, PTL

\* The lane-mask shift of the tail is always smaller than the word, so that a
\* debug build does not panic and a release build does not mask every lane.
THEOREM NoFullWidthShift == PrefixSpec => []ShiftFits
<1>1. PrefixInv => ShiftFits
  <2> SUFFICES ASSUME PrefixInv, AfterLoops, cur # len
               PROVE  (cur - overlapStart) * Bpl \in 0 .. WordBits - 1
    BY DEF ShiftFits
  <2>1. len \in Nat /\ cur \in 0 .. len /\ Chunk <= len /\ cur + Chunk > len
        /\ Chunk \in Nat
    BY Widths DEF PrefixInv, PrefixTypeOK, LoopInv, AfterLoops
  <2>2. cur - overlapStart \in 0 .. Chunk - 1
    BY <2>1 DEF overlapStart
  <2>3. WellFormed(backend)
    BY DEF PrefixInv, PrefixTypeOK
  <2> QED BY <2>2, <2>3, ShiftInWord
<1> QED BY <1>1, PrefixInvAlways, PTL

-----------------------------------------------------------------------------
(* Refinement of the abstract scan.                                         *)

\* A step belongs to a call that has not returned, and moves its cursor right.
LEMMA PrefixStepShape ==
  ASSUME PrefixInv, PrefixStep
  PROVE  /\ UNCHANGED input
         /\ pc # "done"
         /\ pc = "entry" \/ pc = "loop"
         /\ pc' \in {"loop", "done"}
         /\ pc' = "loop" => cur <= cur'
<1>1. Chunk \in Nat /\ cur \in Nat /\ (pc = "entry" => cur = 0)
  BY Widths DEF PrefixInv, PrefixTypeOK, LoopInv
<1>2. LoopStart \in Nat
  BY <1>1 DEF LoopStart
<1> QED
  BY <1>1, <1>2 DEF PrefixStep, PrefixShort, ProbeHit, ProbeMiss, PairClean, PairHit, SingleClean,
    SingleHit, PrefixNoTail, PrefixTail, Return, Advance, InPairLoop, InSingleLoop, AfterLoops

\* Every step of a kernel is a step of the abstract scan: it passes bytes that do
\* not stop it, or it answers.
LEMMA PrefixStepRefines ==
  PrefixInv /\ PrefixInv' /\ [PrefixNext]_kernelVars => [PrefixScan!Next]_(PrefixScan!vars)
<1> SUFFICES ASSUME PrefixInv, PrefixInv', [PrefixNext]_kernelVars
             PROVE  [PrefixScan!Next]_(PrefixScan!vars)
  OBVIOUS
<1>1. CASE UNCHANGED kernelVars
  <2>1. UNCHANGED <<op, len, match, pc, cur, res, loads>>
    BY <1>1 DEF kernelVars
  <2> QED BY <2>1 DEF PrefixScan!vars, ScanFront, StopSet
<1>2. CASE PrefixStep
  <2>1. /\ UNCHANGED input /\ pc # "done" /\ pc' \in {"loop", "done"}
        /\ pc' = "loop" => cur <= cur'
    BY <1>2, PrefixStepShape
  <2>2. /\ len \in Nat /\ len' = len /\ StopSet' = StopSet /\ Exhausted' = Exhausted
        /\ StopSet \subseteq 0 .. len - 1 /\ cur \in 0 .. len /\ cur' \in 0 .. len
    BY <2>1, PrefixInputKept, StopSetType DEF PrefixInv, PrefixTypeOK, PrefixInput
  <2>3. \A i \in StopSet : cur <= i
    BY <2>1, <2>2 DEF PrefixInv, PrefixTypeOK, LoopInv
  <2>4. CASE pc' = "loop"
    <3>1. \A i \in StopSet : cur' <= i
      BY <2>2, <2>4 DEF PrefixInv, LoopInv
    <3>2. cur' \in cur .. len
      BY <2>1, <2>2, <2>4
    <3>3. \A i \in cur .. cur' - 1 : i \notin StopSet
      <4>1. PICK n \in 0 .. len : n = cur'
        BY <2>2
      <4>2. \A i \in StopSet : n <= i
        BY <3>1, <4>1
      <4>3. \A i \in cur .. n - 1 : i \notin StopSet
        BY <2>2, <4>2
      <4> QED BY <4>1, <4>3
    <3>4. PrefixScan!Advance
      BY <2>1, <2>2, <2>4, <3>2, <3>3 DEF PrefixScan!Advance, PrefixScan!Clear, ScanFront
    <3> QED BY <3>4 DEF PrefixScan!Next
  <2>5. CASE pc' = "done"
    <3> DEFINE f == IF res' = None THEN len' ELSE res'
    <3>1. IF StopSet = {} THEN res' = Exhausted
          ELSE res' \in StopSet /\ \A i \in StopSet : res' <= i
      BY <2>2, <2>5 DEF PrefixInv, ReturnsFirstStop
    <3>2. f \in cur .. len /\ (f = len \/ f \in StopSet) /\ \A i \in StopSet : f <= i
      <4>1. CASE StopSet = {}
        BY <2>2, <3>1, <4>1 DEF Exhausted
      <4>2. CASE StopSet # {}
        <5>1. res' \in StopSet /\ (\A i \in StopSet : res' <= i)
          BY <3>1, <4>2
        <5>2. res' \in 0 .. len - 1
          BY <2>2, <5>1
        <5>3. f = res'
          BY <2>2, <5>2, NoneAssumption
        <5> QED BY <2>2, <2>3, <5>1, <5>2, <5>3
      <4> QED BY <4>1, <4>2
    <3>3. PrefixScan!Clear(cur, f)
      BY <2>2, <3>2 DEF PrefixScan!Clear
    <3>4. PrefixScan!Answer
      BY <2>1, <2>2, <2>5, <3>2, <3>3 DEF PrefixScan!Answer, PrefixScan!Clear, ScanFront
    <3> QED BY <3>4 DEF PrefixScan!Next
  <2> QED BY <2>1, <2>4, <2>5
<1> QED BY <1>1, <1>2 DEF PrefixNext, Returned

\* Every prefix kernel implements the abstract left-to-right scan.
THEOREM ImplementsScan == PrefixSpec => ScanSpec
<1>1. PrefixInit => PrefixScan!Init
  <2> SUFFICES ASSUME PrefixInit PROVE PrefixScan!Init
    OBVIOUS
  <2>1. PrefixInv /\ pc = "entry" /\ cur = 0
    BY PrefixInvInit DEF PrefixInit, Start
  <2>2. len \in Nat /\ StopSet \subseteq 0 .. len - 1
    BY <2>1, StopSetType DEF PrefixInv, PrefixTypeOK, PrefixInput
  <2> QED BY <2>1, <2>2 DEF PrefixScan!Init, ScanFront
<1>2. PrefixInv /\ PrefixInv' /\ [PrefixNext]_kernelVars => [PrefixScan!Next]_(PrefixScan!vars)
  BY PrefixStepRefines
<1> QED BY <1>1, <1>2, PrefixInvAlways, PTL DEF PrefixSpec, ScanSpec, PrefixScan!Spec

-----------------------------------------------------------------------------
(* The work of a call, by the chunks it loads.                              *)

\* the probe counts as the first chunk of the loop
Credited == op # "class" \/ (Credit /\ Probe = Chunk)

\* Whether it does is fixed by the input and the backend.
LEMMA CreditedKept == UNCHANGED input => Credited' = Credited
BY DEF Credited, Credit, Probe, Chunk, input

\* While the loops run, every chunk loaded lies before the cursor.
WorkInv == /\ pc = "entry" => loads = {}
           /\ pc = "loop" => /\ \A s \in loads : s + Chunk <= cur
                             /\ Credited => Chunk <= cur
           /\ NoDuplicateWork
           /\ StopsEarly

\* Each step loads nothing, or chunks that begin at the cursor, or the tail.
LEMMA LoadShape ==
  ASSUME PrefixInv, PrefixStep
  PROVE  /\ UNCHANGED input
         /\ pc = "entry" => loads' = loads /\ (pc' = "loop" => cur' = LoopStart)
         /\ pc = "loop" =>
              \/ loads' = loads /\ pc' = "done"
              \/ /\ loads' = loads \cup {overlapStart}
                 /\ pc' = "done" /\ overlapStart <= cur
              \/ /\ loads' = loads \cup {cur}
                 /\ pc' = "done" \/ (pc' = "loop" /\ cur' = cur + Chunk)
              \/ /\ loads' = loads \cup {cur, cur + Chunk}
                 /\ pc' = "done" \/ (pc' = "loop" /\ cur' = cur + 2 * Chunk)
<1>1. Chunk \in Nat /\ cur \in Nat /\ len \in Nat /\ cur <= len
  BY Widths DEF PrefixInv, PrefixTypeOK
<1>2. CASE PrefixShort
  BY <1>2 DEF PrefixShort, Return
<1>3. CASE ProbeHit
  BY <1>3 DEF ProbeHit, Return
<1>4. CASE ProbeMiss
  BY <1>4 DEF ProbeMiss, Advance
<1>5. CASE PairClean
  BY <1>5 DEF PairClean, InPairLoop, Load, Advance
<1>6. CASE PairHit
  BY <1>6 DEF PairHit, InPairLoop, Load, Return
<1>7. CASE SingleClean
  BY <1>7 DEF SingleClean, InSingleLoop, Load, Advance
<1>8. CASE SingleHit
  BY <1>8 DEF SingleHit, InSingleLoop, Load, Return
<1>9. CASE PrefixNoTail
  BY <1>9 DEF PrefixNoTail, AfterLoops, Return
<1>10. CASE PrefixTail
  BY <1>1, <1>10 DEF PrefixTail, AfterLoops, Load, Return, overlapStart
<1> QED BY <1>2, <1>3, <1>4, <1>5, <1>6, <1>7, <1>8, <1>9, <1>10 DEF PrefixStep

\* Every step keeps the chunks apart, and the step that answers has loaded nothing
\* beyond the pair at the cursor, which no stop lies before.
LEMMA WorkInvStep == PrefixInv /\ PrefixInv' /\ WorkInv /\ [PrefixNext]_kernelVars => WorkInv'
<1> SUFFICES ASSUME PrefixInv, PrefixInv', WorkInv, [PrefixNext]_kernelVars PROVE WorkInv'
  OBVIOUS
<1>1. /\ Chunk \in Nat \ {0} /\ cur \in Nat /\ len \in Nat /\ loads \subseteq Int
      /\ pc \in {"entry", "loop", "done"} /\ Probe \in 1 .. Chunk
  BY Widths, ProbeBounds DEF PrefixInv, PrefixTypeOK
<1>2. CASE UNCHANGED kernelVars
  <2>1. UNCHANGED <<op, len, match, pc, cur, res, loads>> /\ UNCHANGED input
    BY <1>2 DEF kernelVars, input
  <2>2. Chunk' = Chunk /\ overlapStart' = overlapStart /\ Credited' = Credited
    BY <2>1, WidthsKept, CreditedKept
  <2> QED BY <2>1, <2>2
    DEF WorkInv, NoDuplicateWork, StopsEarly, Credited, Exhausted
<1>3. CASE PrefixStep
  <2>1. /\ UNCHANGED input /\ pc # "done" /\ pc' \in {"loop", "done"}
    BY <1>3, PrefixStepShape
  <2>2. /\ op' = op /\ len' = len /\ Exhausted' = Exhausted /\ StopSet' = StopSet
        /\ overlapStart' = overlapStart /\ Credited' = Credited /\ Chunk' = Chunk
    BY <2>1, PrefixInputKept, WidthsKept, CreditedKept
  <2>3. CASE pc = "entry"
    <3>1. loads' = {} /\ (pc' = "loop" => cur' = LoopStart)
      BY <1>3, <2>3, LoadShape DEF WorkInv
    <3>2. Credited => LoopStart = Chunk
      BY DEF Credited, LoopStart
    <3> QED BY <1>1, <2>1, <2>2, <3>1, <3>2 DEF WorkInv, NoDuplicateWork, StopsEarly
  <2>4. CASE pc = "loop"
    <3> DEFINE old == loads \ {overlapStart}
               new == loads' \ {overlapStart}
    <3>1. /\ \A s \in loads : s + Chunk <= cur
          /\ Credited => Chunk <= cur
          /\ \A s, t \in old : s < t => s + Chunk <= t
          /\ Credited => \A s \in old : s >= Chunk
      BY <2>4 DEF WorkInv, NoDuplicateWork, Credited
    <3>2. \/ loads' = loads /\ pc' = "done"
          \/ /\ loads' = loads \cup {overlapStart}
             /\ pc' = "done" /\ overlapStart <= cur
          \/ /\ loads' = loads \cup {cur}
             /\ pc' = "done" \/ (pc' = "loop" /\ cur' = cur + Chunk)
          \/ /\ loads' = loads \cup {cur, cur + Chunk}
             /\ pc' = "done" \/ (pc' = "loop" /\ cur' = cur + 2 * Chunk)
      BY <1>3, <2>4, LoadShape
    <3>3. overlapStart \in Int
      BY <1>1 DEF overlapStart
    <3>4. new \subseteq old \cup {cur, cur + Chunk}
      BY <3>2
    <3>5. /\ \A s \in loads : s \in Int
          /\ \A s \in new : s \in Int
          /\ \A s \in new : s \in old \/ s = cur \/ s = cur + Chunk
      <4>1. \A s \in loads : s \in Int
        BY <1>1
      <4>2. cur \in Int /\ cur + Chunk \in Int
        BY <1>1
      <4> QED BY <3>4, <4>1, <4>2
    <3>6. \A s, t \in new : s < t => s + Chunk <= t
      <4>1. TAKE s, t \in new
      <4>2. HAVE s < t
      <4>3. s \in Int /\ t \in Int
        BY <3>5
      <4>4. CASE s \in old /\ t \in old
        BY <3>1, <4>2, <4>4
      <4>5. CASE s \in old /\ t \in {cur, cur + Chunk}
        <5>1. s + Chunk <= cur
          BY <3>1, <4>5
        <5> QED BY <1>1, <4>3, <4>5, <5>1
      <4>6. CASE s \in {cur, cur + Chunk} /\ t \in old
        <5>1. t + Chunk <= cur
          BY <3>1, <4>6
        <5> QED BY <1>1, <4>2, <4>3, <4>6, <5>1
      <4>7. CASE s \in {cur, cur + Chunk} /\ t \in {cur, cur + Chunk}
        BY <1>1, <4>2, <4>7
      <4> QED BY <3>4, <4>4, <4>5, <4>6, <4>7
    <3>7. Credited => \A s \in new : s >= Chunk
      <4> SUFFICES ASSUME Credited, NEW s \in new PROVE s >= Chunk
        OBVIOUS
      <4>1. CASE s \in old
        BY <3>1, <4>1
      <4>2. CASE s = cur \/ s = cur + Chunk
        BY <1>1, <3>1, <4>2
      <4> QED BY <3>5, <4>1, <4>2
    <3>8. pc' = "loop" => /\ \A s \in loads' : s + Chunk <= cur'
                          /\ Credited => Chunk <= cur'
      <4>1. CASE loads' = loads \cup {cur} /\ cur' = cur + Chunk
        BY <1>1, <3>1, <4>1
      <4>2. CASE loads' = loads \cup {cur, cur + Chunk} /\ cur' = cur + 2 * Chunk
        BY <1>1, <3>1, <4>2
      <4> QED BY <3>2, <4>1, <4>2
    <3>9. NoDuplicateWork'
      BY <2>2, <3>6, <3>7, <3>8 DEF NoDuplicateWork, Credited
    <3>10. StopsEarly'
      <4> SUFFICES ASSUME pc' = "done", res' # Exhausted
                   PROVE  \A s \in loads' : s <= res' + Chunk
        BY <2>2 DEF StopsEarly
      <4>1. res' \in StopSet
        BY <2>2 DEF PrefixInv, ReturnsFirstStop
      <4>2. cur <= res' /\ res' \in Nat
        <5>1. StopSet \subseteq 0 .. len - 1
          BY StopSetType DEF PrefixInv, PrefixTypeOK, PrefixInput
        <5> QED BY <2>4, <4>1, <5>1 DEF PrefixInv, LoopInv
      <4>3. \A s \in loads' : s <= cur + Chunk
        <5>1. TAKE s \in loads'
        <5>2. s \in loads \/ s = cur \/ s = cur + Chunk \/ (s = overlapStart /\ overlapStart <= cur)
          BY <3>2
        <5>3. CASE s \in loads
          BY <1>1, <3>1, <3>5, <5>3
        <5> QED BY <1>1, <3>3, <5>2, <5>3
      <4>4. \A s \in loads' : s \in Int
        BY DEF PrefixInv, PrefixTypeOK
      <4> QED BY <1>1, <4>2, <4>3, <4>4
    <3> QED BY <2>1, <2>2, <3>8, <3>9, <3>10 DEF WorkInv
  <2> QED BY <1>1, <2>1, <2>3, <2>4
<1> QED BY <1>2, <1>3 DEF PrefixNext, Returned

\* The chunks of a call stay apart and within reach of its answer throughout.
LEMMA WorkAlways == PrefixSpec => []WorkInv
<1>1. PrefixInit => WorkInv
  BY DEF PrefixInit, Start, WorkInv, NoDuplicateWork, StopsEarly
<1>2. PrefixInv /\ PrefixInv' /\ WorkInv /\ [PrefixNext]_kernelVars => WorkInv'
  BY WorkInvStep
<1> QED BY <1>1, <1>2, PrefixInvAlways, PTL DEF PrefixSpec

\* No byte is loaded twice except by the tail, none after a probe that was credited
\* with it, for every width, probe and input.
THEOREM NoWorkTwice == PrefixSpec => []NoDuplicateWork
<1>1. WorkInv => NoDuplicateWork
  BY DEF WorkInv
<1> QED BY <1>1, WorkAlways, PTL

\* A scan that has its answer has loaded nothing beyond the chunk after it.
THEOREM StopsSoon == PrefixSpec => []StopsEarly
<1>1. WorkInv => StopsEarly
  BY DEF WorkInv
<1> QED BY <1>1, WorkAlways, PTL
=============================================================================
