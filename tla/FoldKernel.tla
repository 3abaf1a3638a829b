----------------------------- MODULE FoldKernel -----------------------------
(* One call of a backend's count_matches ("count") or find_last ("last"):   *)
(* no probe and no early exit, every chunk of the input is folded into the  *)
(* result, and the overlapping tail must not fold a byte a second time.     *)
EXTENDS Kernel

Empty == IF op = "count" THEN 0 ELSE None

\* Mutant: counts bits, not lanes.
AbsorbBits(acc, start, word) ==
  CASE op = "count" -> acc + CountOnes(word)
    [] op = "last"  -> IF word = {} THEN acc ELSE start + LastLane(word)

\* count += word.count_ones() per lane, or last = the top lane of a non-zero word
Absorb(acc, start, word) ==
  CASE op = "count" -> acc + CountOnes(word) \div Bpl
    [] op = "last"  -> IF word = {} THEN acc ELSE start + LastLane(word)

-----------------------------------------------------------------------------

FoldInit == \E o \in FoldOps : Start(o)

\* len < CHUNK: the byte loop over tail_find of one-byte slices
FoldShort == /\ pc = "entry"
             /\ len < Chunk
             /\ pc' = "done"
             /\ res' = ScalarFold
             /\ UNCHANGED <<input, cur, loads>>

FoldBegin == /\ pc = "entry"
             /\ len >= Chunk
             /\ pc' = "loop"
             /\ cur' = 0
             /\ res' = Empty
             /\ UNCHANGED <<input, loads>>

\* Mutant: the first chunk of the pair is absorbed over the second.
FoldPairReversed == /\ InPairLoop
                    /\ Load({cur, cur + Chunk})
                    /\ res' = Absorb(Absorb(res, cur + Chunk, Extract(Compare(cur + Chunk))),
                                     cur, Extract(Compare(cur)))
                    /\ cur' = cur + 2 * Chunk
                    /\ UNCHANGED <<input, pc>>

\* two chunks per round, the second absorbed over the first
FoldPair == /\ InPairLoop
            /\ Load({cur, cur + Chunk})
            /\ res' = Absorb(Absorb(res, cur, Extract(Compare(cur))),
                             cur + Chunk, Extract(Compare(cur + Chunk)))
            /\ cur' = cur + 2 * Chunk
            /\ UNCHANGED <<input, pc>>

\* Mutant: an empty chunk goes round the loop before the cursor has moved.
FoldSingleStuck == /\ InSingleLoop
                   /\ Load({cur})
                   /\ res' = Absorb(res, cur, Extract(Compare(cur)))
                   /\ cur' = IF Extract(Compare(cur)) = {} THEN cur ELSE cur + Chunk
                   /\ UNCHANGED <<input, pc>>

FoldSingle == /\ InSingleLoop
              /\ Load({cur})
              /\ res' = Absorb(res, cur, Extract(Compare(cur)))
              /\ cur' = cur + Chunk
              /\ UNCHANGED <<input, pc>>

\* Mutant: folds every lane of the tail chunk.
FoldTailUnmasked == /\ AfterLoops
                    /\ cur < len
                    /\ Load({overlapStart})
                    /\ res' = Absorb(res, overlapStart, Extract(Compare(overlapStart)))
                    /\ pc' = "done"
                    /\ UNCHANGED <<input, cur>>

\* if cur < len: reload the last Chunk bytes, fold only the lanes not yet seen
FoldTail == /\ AfterLoops
            /\ cur < len
            /\ Load({overlapStart})
            /\ res' = Absorb(res, overlapStart,
                             Extract(Compare(overlapStart)) \cap ScanMask)
            /\ pc' = "done"
            /\ UNCHANGED <<input, cur>>

\* Mutant: returns with a partial chunk left.
FoldNoTailEarly == /\ AfterLoops
                   /\ pc' = "done"
                   /\ UNCHANGED <<input, cur, res, loads>>

FoldNoTail == /\ AfterLoops
              /\ cur >= len
              /\ pc' = "done"
              /\ UNCHANGED <<input, cur, res, loads>>

FoldStep == FoldShort \/ FoldBegin \/ FoldPair \/ FoldSingle \/ FoldTail \/ FoldNoTail

FoldNext == FoldStep \/ Returned

FoldSpec == FoldInit /\ [][FoldNext]_kernelVars

-----------------------------------------------------------------------------

\* Types of the call's variables: a count is bounded by the length, a last
\* position is one of the matches.
FoldTypeOK == /\ WellFormed(backend)
              /\ op \in FoldOps
              /\ len \in Nat
              /\ match \subseteq 0 .. len - 1
              /\ pc \in {"entry", "loop", "done"}
              /\ cur \in 0 .. len
              /\ pc = "entry" => res = None
              /\ pc # "entry" => res \in IF op = "count" THEN 0 .. len
                                         ELSE match \cup {None}
              /\ loads \subseteq Int

\* count_matches counts every matching byte exactly once, although the tail
\* chunk overlaps bytes that the loops have already counted.
CountsEachMatchOnce == pc = "done" /\ op = "count" => res = Cardinality(match)

\* find_last returns the right-most match: a later chunk overrides an earlier
\* one, the second of a pair the first, and the tail never reports a lane that
\* an earlier chunk owned.
ReturnsLastMatch ==
  pc = "done" /\ op = "last" =>
    IF match = {} THEN res = None
    ELSE res \in match /\ \A i \in match : i <= res

\* Chunks are disjoint except for the tail, and every byte is in one of them.
CoversOnce ==
  pc = "done" /\ len >= Chunk =>
    /\ \A i \in 0 .. len - 1 : \E s \in loads : i \in s .. s + Chunk - 1
    /\ \A s, t \in loads \ {overlapStart} : s < t => s + Chunk <= t

\* every byte before it has been folded into the result
FoldFront == IF pc = "done" THEN len ELSE cur

\* the accumulator, which is set up when the loops begin
Acc == IF pc \in {"loop", "done"} THEN res ELSE Empty

\* The kernel implements the abstract left-to-right fold.
FoldTally == INSTANCE Tally WITH
  front <- FoldFront,
  acc <- Acc,
  answered <- (pc = "done")

TallySpec == FoldTally!Spec
=============================================================================
