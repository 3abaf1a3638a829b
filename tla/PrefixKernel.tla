---------------------------- MODULE PrefixKernel ----------------------------
(* One call of a vector prefix kernel: skip_ascii_class!, skip_while or     *)
(* skip_until of one backend.  "class" and "while" stop at the first byte   *)
(* that does not match, "until" at the first that does.                     *)
EXTENDS Kernel

Probe == backend.probe
Credit == backend.credit

-----------------------------------------------------------------------------
(* The vector and mask operations.                                          *)

\* Mutant: a complement that keeps the bits above the lanes.
StopsUncut(lanes) ==
  IF op = "until" THEN Extract(lanes) ELSE Not(WordBits, Extract(lanes))

\* the bits of the word at which the scan must stop; the complement of a
\* 16-lane mask held in 32 bits is cut back to the lanes
Stops(lanes) == IF op = "until"
                  THEN Extract(lanes)
                  ELSE Not(WordBits, Extract(lanes)) \cap Extract(Lanes)

\* the stop bits of two chunks at once: OR of the hits, AND of the matches
PairStops == Stops(IF op = "until"
                     THEN Compare(cur) \cup Compare(cur + Chunk)
                     ELSE Compare(cur) \cap Compare(cur + Chunk))

TailStops == Stops(Compare(overlapStart)) \cap ScanMask

ProbeLen == IF op = "class" THEN Probe ELSE Chunk

-----------------------------------------------------------------------------

PrefixInit == \E o \in PrefixOps : Start(o)

Return(r) == pc' = "done" /\ res' = r /\ UNCHANGED cur

Advance(n) == pc' = "loop" /\ cur' = n /\ UNCHANGED res

\* len < CHUNK: the scalar fallback
PrefixShort == /\ pc = "entry"
               /\ len < Chunk
               /\ Return(ScalarPrefix)
               /\ UNCHANGED <<input, loads>>

\* the scalar probe of the first bytes answers
ProbeHit == /\ pc = "entry"
            /\ len >= Chunk
            /\ ScalarScan(ProbeLen) # ProbeLen
            /\ Return(ScalarScan(ProbeLen))
            /\ UNCHANGED <<input, loads>>

\* Mutants: every probe is credited with a whole chunk, or none is.
LoopStartCredited == Chunk
LoopStartZero == 0

\* where the vector loops start after a probe without a stop: a class probe is
\* credited only when it covered a whole chunk
LoopStart == IF op # "class" \/ (Credit /\ Probe = Chunk) THEN Chunk ELSE 0

\* Mutant: the load of the tail is hoisted in front of the loops.
ProbeMissPreload == /\ pc = "entry"
                    /\ len >= Chunk
                    /\ ScalarScan(ProbeLen) = ProbeLen
                    /\ Load({overlapStart})
                    /\ Advance(LoopStart)
                    /\ UNCHANGED input

ProbeMiss == /\ pc = "entry"
             /\ len >= Chunk
             /\ ScalarScan(ProbeLen) = ProbeLen
             /\ Advance(LoopStart)
             /\ UNCHANGED <<input, loads>>

\* Mutants: the cursor moves one chunk after two, or not at all.
PairCleanHalf == /\ InPairLoop
                 /\ Load({cur, cur + Chunk})
                 /\ PairStops = {}
                 /\ Advance(cur + Chunk)
                 /\ UNCHANGED input

PairCleanStuck == /\ InPairLoop
                  /\ Load({cur, cur + Chunk})
                  /\ PairStops = {}
                  /\ Advance(cur)
                  /\ UNCHANGED input

PairClean == /\ InPairLoop
             /\ Load({cur, cur + Chunk})
             /\ PairStops = {}
             /\ Advance(cur + 2 * Chunk)
             /\ UNCHANGED input

\* Mutant: the second chunk of the pair is looked at first.
PairHitSecondFirst ==
  /\ InPairLoop
  /\ Load({cur, cur + Chunk})
  /\ PairStops # {}
  /\ LET b0 == Stops(Compare(cur))
         b1 == Stops(Compare(cur + Chunk))
     IN  Return(IF b1 # {} THEN cur + Chunk + FirstLane(b1) ELSE cur + FirstLane(b0))
  /\ UNCHANGED input

PairHit == /\ InPairLoop
           /\ Load({cur, cur + Chunk})
           /\ PairStops # {}
           /\ LET b0 == Stops(Compare(cur))
                  b1 == Stops(Compare(cur + Chunk))
              IN  Return(IF b0 # {} THEN cur + FirstLane(b0)
                                    ELSE cur + Chunk + FirstLane(b1))
           /\ UNCHANGED input

\* Mutant: the cursor moves two chunks after one.
SingleCleanTwice == /\ InSingleLoop
                    /\ Load({cur})
                    /\ Stops(Compare(cur)) = {}
                    /\ Advance(cur + 2 * Chunk)
                    /\ UNCHANGED input

SingleClean == /\ InSingleLoop
               /\ Load({cur})
               /\ Stops(Compare(cur)) = {}
               /\ Advance(cur + Chunk)
               /\ UNCHANGED input

SingleHit == /\ InSingleLoop
             /\ Load({cur})
             /\ Stops(Compare(cur)) # {}
             /\ Return(cur + FirstLane(Stops(Compare(cur))))
             /\ UNCHANGED input

\* if cur == len { return }
PrefixNoTail == /\ AfterLoops
                /\ cur = len
                /\ Return(Exhausted)
                /\ UNCHANGED <<input, loads>>

\* reload the last Chunk bytes and mask off the lanes already covered
PrefixTail == /\ AfterLoops
              /\ cur # len
              /\ Load({overlapStart})
              /\ Return(IF TailStops # {} THEN overlapStart + FirstLane(TailStops)
                                          ELSE Exhausted)
              /\ UNCHANGED input

PrefixStep == \/ PrefixShort \/ ProbeHit \/ ProbeMiss
              \/ PairClean \/ PairHit
              \/ SingleClean \/ SingleHit
              \/ PrefixNoTail \/ PrefixTail

PrefixNext == PrefixStep \/ Returned

PrefixSpec == PrefixInit /\ [][PrefixNext]_kernelVars

\* a call runs until it returns: there is nothing it waits for
FairPrefixSpec == PrefixSpec /\ WF_kernelVars(PrefixStep)

-----------------------------------------------------------------------------

\* Types of the call's variables; a result is an index, the length, or None.
PrefixTypeOK == /\ WellFormed(backend)
                /\ op \in PrefixOps
                /\ len \in Nat
                /\ match \subseteq 0 .. len - 1
                /\ pc \in {"entry", "loop", "done"}
                /\ cur \in 0 .. len
                /\ res \in Nat \cup {None}
                /\ loads \subseteq Int

\* The call returns the first byte that stops the scan, and len (None from
\* skip_until) only when no byte does: no lane is missed between the probe, the
\* pair loop, the single chunk and the overlapping tail, none is reported twice
\* or out of order.
ReturnsFirstStop ==
  pc = "done" =>
    IF StopSet = {} THEN res = Exhausted
    ELSE res \in StopSet /\ \A i \in StopSet : res <= i

\* "no duplicate work": while the loops run, every chunk loaded lies behind the
\* cursor, so that none is loaded again; chunks do not overlap, except for the
\* tail; and no byte is loaded after the probe has been credited with it.
NoDuplicateWork ==
  /\ pc = "loop" => \A s \in loads : s + Chunk <= cur
  /\ \A s, t \in loads \ {overlapStart} : s < t => s + Chunk <= t
  /\ op # "class" \/ (Credit /\ Probe = Chunk) =>
       \A s \in loads \ {overlapStart} : s >= Chunk

\* The scan stops early: once it has its answer it has loaded nothing beyond
\* the chunk that follows the one holding the answer.
StopsEarly == pc = "done" /\ res # Exhausted =>
                \A s \in loads : s <= res + Chunk

\* every byte before it continues the run
ScanFront == IF pc = "done" THEN (IF res = None THEN len ELSE res) ELSE cur

\* The kernel implements the abstract scan.
PrefixScan == INSTANCE Scan WITH
  stop <- StopSet,
  front <- ScanFront,
  answered <- (pc = "done")

ScanSpec == PrefixScan!Spec
=============================================================================
