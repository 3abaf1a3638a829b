------------------------------- MODULE Kernel -------------------------------
(* What the vector kernels of all backends share: the input, the cursor of  *)
(* the chunk loops, the extraction of a compare result to a machine word,   *)
(* and the overlapping tail chunk.  PrefixKernel and FoldKernel extend it.  *)
EXTENDS BitWord, Scalar

CONSTANTS
  Backends,   \* the backends a kernel may be started on: records as below
  Inputs      \* records [len, match]: the inputs considered

\* What a backend fixes of the control flow that all of them share:
\*   chunk      bytes per vector register
\*   bpl        mask bits per lane: 4 for NEON's nibble mask, 1 elsewhere
\*   word       width of the integer the mask is extracted to
\*   unrolled   whether two chunks are tested per round
\*   probe      CLASS_PROBE
\*   credit     whether a class probe of a full chunk starts the loop at chunk
\* The word holds the mask of a chunk and a whole number of lanes, since
\* find_last counts lanes from its top; no probe is longer than a chunk.
WellFormed(b) == /\ b.chunk \in Nat \ {0}
                 /\ b.bpl \in Nat \ {0}
                 /\ b.word \in Nat
                 /\ b.chunk * b.bpl <= b.word
                 /\ b.word % b.bpl = 0
                 /\ b.unrolled \in BOOLEAN
                 /\ b.probe \in 1 .. b.chunk
                 /\ b.credit \in BOOLEAN

ASSUME BackendAssumption == \A b \in Backends : WellFormed(b)

ASSUME InputAssumption ==
  \A i \in Inputs : i.len \in Nat /\ i.match \subseteq 0 .. i.len - 1

VARIABLES
  backend, \* the backend that runs the call; no step changes it
  pc,      \* "entry", "loop" (the vector loops and the tail) or "done"
  cur,     \* the cursor of the vector loops
  res,     \* the result: an accumulator while a fold runs
  loads    \* history: the offsets at which a full chunk was loaded

input == <<backend, op, len, match>>
kernelVars == <<backend, op, len, match, pc, cur, res, loads>>

Chunk == backend.chunk
Bpl == backend.bpl
WordBits == backend.word
Unrolled == backend.unrolled

-----------------------------------------------------------------------------

Lanes == 0 .. Chunk - 1

\* compare the chunk loaded at start: the lanes that match
Compare(start) == {i \in Lanes : start + i \in match}

\* nibble_mask / movemask / bitmask: every lane becomes Bpl bits of a word
Extract(lanes) == {b \in 0 .. Chunk * Bpl - 1 : b \div Bpl \in lanes}

\* trailing_zeros() as a lane number
FirstLane(word) == TrailingZeros(WordBits, word) \div Bpl

\* Mutant: counts from the top lane of the chunk, although a word may be wider.
LastLaneOfChunk(word) == Chunk - 1 - LeadingZeros(WordBits, word) \div Bpl

\* leading_zeros() as a lane number, counted from the top of the word
LastLane(word) == WordBits \div Bpl - 1 - LeadingZeros(WordBits, word) \div Bpl

\* Mutants: the tail chunk starts at the cursor, or one byte early.
cursorStart == cur
overlapOneEarly == len - Chunk - 1

overlapStart == len - Chunk

\* Mutant: also masks off the first lane that is still to be scanned.
ScanMaskOneMore == Shl(WordBits, Ones(WordBits), (cur - overlapStart + 1) * Bpl)

\* the lanes of the overlapping tail chunk that the loops have not covered
ScanMask == Shl(WordBits, Ones(WordBits), (cur - overlapStart) * Bpl)

-----------------------------------------------------------------------------

Start(o) == /\ backend \in Backends
            /\ op = o
            /\ \E i \in Inputs : len = i.len /\ match = i.match
            /\ pc = "entry"
            /\ cur = 0
            /\ res = None
            /\ loads = {}

Load(starts) == loads' = loads \cup starts

\* the guards of the 2x unrolled loop, of the single-chunk loop (cur only
\* grows, so the first is never re-entered from the second) and of what follows
InPairLoop == pc = "loop" /\ Unrolled /\ cur + 2 * Chunk <= len
InSingleLoop == pc = "loop" /\ ~InPairLoop /\ cur + Chunk <= len
AfterLoops == pc = "loop" /\ cur + Chunk > len

Returned == pc = "done" /\ UNCHANGED kernelVars

-----------------------------------------------------------------------------

\* Every vector load reads Chunk bytes inside the input, the overlapping tail
\* load included (its offset is an unsigned subtraction).
LoadsInBounds == \A s \in loads : 0 <= s /\ s + Chunk <= len

\* When the tail runs, its lane-mask shift is an amount the word allows: the
\* unsigned subtraction cur - overlap_start does not wrap, and no full-width
\* shift (a panic in debug, a mask that covers every lane in release) occurs.
ShiftFits == AfterLoops /\ cur # len =>
               (cur - overlapStart) * Bpl \in 0 .. WordBits - 1

\* Every call returns.
Terminates == <>(pc = "done")
=============================================================================
