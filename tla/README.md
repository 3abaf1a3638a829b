# memspan in TLA+

A verification development for memspan, a Rust crate of byte-scanning functions:
skip a run of a byte class, find the first or last byte of a set, count bytes.
Each function exists as a scalar loop and as a kernel for five vector
instruction sets. Nothing runs concurrently and nothing is persisted; what makes
the code hard is that one answer is computed by five tiers, four loops each, and
that the bytes of one input are tested partly by scalar predicates and partly by
vector masks. A wrong lane shows only for some lengths, at some positions, on
some processors.

## Inventory

| Component | Code | State | Operations |
|---|---|---|---|
| Prefix kernels, five backends | `src/skip/{neon,sse42,avx2,avx512,simd128}.rs` | the cursor of the chunk loops | `skip_until`, `skip_while`, fifteen class functions from `skip_ascii_class!` |
| Fold kernels, five backends | the same | cursor and accumulator | `count_matches`, `find_last` |
| Byte tests | `src/skip/mod.rs`, the masks of each backend, `src/needles/arch/` | none | predicates, class masks, `range_mask`, `eq_any_mask`, `high_bit_mask` |
| Needle sets | `src/needles.rs` | none | `needle_count`, `tail_find`, `prefix_len`, the mask methods |
| `OrNonAscii` | `src/needles.rs` | an index, a pending hit | the same methods, composed from those of the inner set |
| Availability and dispatch | `src/utils.rs`, `src/skip/mod.rs` | none; build cfgs and processor features | `*_available`, `class_probe`, the `dispatch_*_x86` helpers, the public functions |
| `skip_class!` | `src/lib.rs` | as a prefix kernel | a dispatcher and four vector paths per generated function |
| Doc example `string_body_len` | `src/skip/mod.rs` | a position | a caller's loop over two scans |

A public function asks its dispatcher for a tier; the dispatcher looks at the
availability functions, the length and `needle_count`, and calls a kernel or the
scalar loop. A kernel first calls the scalar code for a probe of the first bytes
(the prefix kernels only), then loads chunks, asks the needle set or the class
for a mask, extracts it to a machine word, and finishes with one chunk that
overlaps what it has read. `skip_until_or_non_ascii` wraps the caller's needles
in `OrNonAscii`; `skip_until_newline` and `contains_any` adapt the result of
`skip_until`.

What has to be right, per component:

- prefix kernels: the first stop is returned, no load leaves the slice, no shift
  is as wide as the word, no byte is read twice except in the tail, and the scan
  stops soon after the answer;
- fold kernels: each match is counted once although the tail overlaps, and the
  last match wins across pairs, chunks and tail;
- byte tests: masks and predicates agree on every byte;
- `OrNonAscii`: the composition of two partial searches is exact and its loop ends;
- `string_body_len`: validating the non-ASCII runs one by one is validating the
  body, and every round of the loop moves;
- dispatch: no function runs on a processor without its feature, no kernel is
  entered with less than a chunk where its guard is meant as a precaution only,
  the documented order of tiers is kept;
- the whole call: the caller cannot tell from the answer which tier ran.

`PROJECT.json` lists the hazards behind these at their lines.

## Modules

| Module | Models |
|---|---|
| `BitWord` | `u32` and `u64` as the kernels use them; a word is the set of its one bits |
| `Scalar` | the scalar loops, as functions of the positions that match |
| `Kernel` | what all kernels share: the record of a backend, compare, mask extraction, lane of the first or last bit, the loop guards, the overlap and its lane mask |
| `PrefixKernel` | one call of `skip_until` ("until"), `skip_while` ("while") or a class function ("class") of one backend |
| `FoldKernel` | one call of `count_matches` or `find_last` of one backend |
| `Scan`, `Tally` | what a prefix scan and a fold promise, with no chunks in it; implemented by the kernels and by the whole calls |
| `Dispatch` | builds, processors, availability, probe widths, and the tier of each call |
| `Memspan` | one public call end to end: it extends `Dispatch`, `PrefixKernel` and `FoldKernel`; the dispatcher sets the kernel's `backend` to that of the tier, and each function of the five backends is an action |
| `NeedleSet` | the mask of a needle set: constant or dynamic shape, the OR trees and the loop, the groups of AVX-512, the high-bit mask of `OrNonAscii`; the scalar `contains` |
| `ByteClass` | one lane and one byte: each backend's masks against the predicates |
| `OrNonAscii` | the scalar methods of `OrNonAscii` |
| `StringBody` | `string_body_len`: a loop over two `Scan`s, the caller's side of the crate |
| `Body` | what that loop promises: the body is validated from its beginning |
| `Utf8` | `from_utf8` as the loop uses it (external), over kinds of bytes |
| `MinLemmas`, `KernelLemmas` | lemmas on least and greatest elements, and on the operators all kernels share |
| `PrefixKernelProofs`, `FoldKernelProofs`, `ByteClassProofs`, `OrNonAsciiProofs`, `StringBodyProofs`, `MemspanProofs` | the theorems of the module each is named after |
| `MC*` | inputs and builds for TLC |

The control flow of the five backends is the same text with other intrinsics, so
it is modelled once. What differs is the record `backend`, which is fixed when the
kernel is entered and which no step changes. The kernel modules choose it from
`Backends`; in a whole call the tier decides it (`KernelOf` of `Memspan`), and the runs
of `Memspan` leave `Backends` empty:

| | NEON | SSE4.2 | AVX2 | AVX-512BW | SIMD128 |
|---|---|---|---|---|---|
| `chunk` (bytes) | 16 | 16 | 32 | 64 | 16 |
| `bpl` (mask bits per lane) | 4 | 1 | 1 | 1 | 1 |
| `word` (bits) | 64 | 32 | 32 | 64 | 32 |
| `probe` (class functions) | 8 | 8 | 8 | 64 | 16 |
| `credit` (a probe of a whole chunk starts the loop at `chunk`) | no | yes | yes | yes | yes |

`skip_class!` paths are "while" calls of the same kernels (their probe is one
chunk); NEON's has no pair loop (`unrolled` is FALSE) and there is none for
AVX-512BW.

The modules chain. A kernel implements `Scan` (`ScanSpec` of `PrefixKernel`);
a whole call, scalar tier and dispatch included, implements it too (`CallScan` of
`Memspan`, and `CallTally` for the folds); `StringBody` assumes nothing of its two
calls but `Scan`, and implements `Body` (`BodySpec`). Its `front` is where the
scan in hand has come to, its `pos` what the loop has accepted.

An input is its length and the set of positions that match; what a byte is, and
why it matches, is `ByteClass`'s matter. A step is one round of a loop, one
probe, or one early return. `loads` is a history variable: the offsets of the
vector loads so far.

Comparisons in the code against an all-ones word (`bits != 0xFFFF`) are stated
as "the complement, cut to the lanes, is not empty", which is the value the code
goes on to use. A shift amount is taken modulo the width, as a release build
does, so that a full-width shift is visible as a wrong mask and as a violation of
`ShiftFits`.

## What is checked

Bounds. A membership test gives one bit per byte, so the kernel runs take *every*
subset of positions of *every* length up to four chunks (of 2, 3 or 4 lanes):
that is enough for two rounds of the pair loop or a pair, a single chunk and a
tail of every overlap, with and without a credited probe. The lanes are scaled
down and the relation of chunk, bits per lane and word is kept: equal to the
word, or half of it. `memspan_real` uses the real widths with inputs in which at
most one byte differs from the others, at lengths chosen around one to twelve
chunks. Every property below has a mutant of the code that breaks it.

| Run | Shows |
|---|---|
| `prefix_nibble` | NEON's shape: `ReturnsFirstStop`, `LoadsInBounds`, `ShiftFits`, `NoDuplicateWork`, `StopsEarly`, termination, and the refinement of `Scan` |
| `prefix_wideword` | SIMD128's shape, where the upper half of the complemented word must be cut off and a probe of a whole chunk is credited to the loop: `ReturnsFirstStop`, `NoDuplicateWork` |
| `fold_nibble` | `CountsEachMatchOnce`, `ReturnsLastMatch`, `CoversOnce`, `LoadsInBounds`, and the refinement of `Tally`; that folds end is a matter of `memspan_tiers` |
| `memspan_tiers` | every function on every tier with a 2-byte unit (registers of 2, 4, 8 bytes), every length to 26, zero to two needles: `CallCorrect`, termination, and the refinements `CallScan` and `CallTally` |
| `memspan_dispatch` | every build on every processor at the real thresholds: `FeatureSafe`, `GuardsAreDefensive`, `DispatchOrder` |
| `memspan_real` | the real widths: `CallCorrect`, `LoadsInBounds`; among others the lane of `leading_zeros` where the word is wider than the chunk |
| `memspan_sweep` | `memspan_class_probe` set: the probe never slices past the input, the answers stay the same |
| `ornonascii_exact` | every arrangement of needles and non-ASCII bytes up to 6 bytes: `TailFindExact`, `PrefixLenExact`, and progress in every round |
| `byteclass_bytes` | 256 bytes against 15 classes (`ClassesAgree`), custom lists with bounds at the edges of the byte (`CustomsAgree`), needle sets of zero to ten members, repeated ones too, in every shape, with and without non-ASCII (`NeedlesAgree`), on five backends |
| `stringbody_sources` | every source of up to 6 bytes, valid or not: `BodyExact`, `RoundsMove`, termination, and the refinement of `Body` |

Some bounds deserve a word. In `memspan_dispatch` no byte matches: the tier does
not depend on the input's content. x86 features come in a chain (a processor
with AVX-512BW has AVX2, one with AVX2 has SSE4.2) but the cfgs that disable a
tier are free, so AVX-512BW without AVX2 occurs. In `byteclass_bytes` ten needles
lie beyond the eight for which the trees are written out, and beyond a second
group of four of AVX-512. In `stringbody_sources` six bytes hold two runs of a
sequence each, a byte between them and a quote behind them; a byte is its kind
(the quote, other ASCII, a lead of two or of three, a continuation), for what the
loop risks is to cut a sequence or to let a broken one pass, and neither the
leads of four nor the lead bytes' limits on the byte that follows change where a
sequence may be cut.

`byteclass_bytes` switches the deadlock check off: its behaviours are one step
long. Everywhere else a finished call stutters
explicitly and a deadlock would be a call that neither returns nor moves.

Fairness. `FairSpec` (`FairPrefixSpec` of a kernel alone) is weak fairness of the call's own steps. A call waits for
nothing: it is a loop in one thread, and if a step is enabled the processor
takes it. `string_body_len` waits only for its scans, and these return
(`Terminates` of `memspan_tiers`). `OrNonAscii` has no fairness: its loop is
bounded by `Progresses`, as the comment in the code argues.

### Disagreements between text and code

Each is a run in which TLC finds the text's statement false.

- `memspan_threshold`: `SCALAR_THRESHOLD` of `skip_class!` is said to match the
  threshold of `skip_while` and of the built-in classes. That holds on aarch64;
  x86 and wasm32 go to the vector path from 16 bytes.
- `memspan_custom`: the crate's README promises `skip_class!` "the same SIMD
  dispatch as the built-ins"; the generated dispatcher has no AVX-512BW tier.

## What is proved

For every value of the constants, under the assumptions that the modules name:

- `BackendAssumption`: every backend is `WellFormed`, that is, the mask of a chunk
  fits the word it is extracted to, the word holds whole lanes (for `find_last`
  counts them from its top), and the probe is at least one byte and at most a chunk
  (the compile-time assertion of every backend);
- `InputAssumption` of `Kernel`: matches are positions of the input; `OrNonAscii` and
  `StringBody` have an `InputAssumption` of their own;
- `NoneAssumption`: `None` is no number;
- `UnitAssumption` (the unit is even and at least 2), `OverrideAssumption` (the probe
  a build asks for is a number), `CallAssumption` (builds are builds, needle counts are
  numbers) and `BuildAssumption` (a program built for some target features is started
  only on processors that have them), for the whole call.

The whole call needs nothing of `BackendAssumption`: `KernelsWellFormed` proves it of
every tier, for every unit and every override of the probe. `BuildAssumption` is used
by `FeaturesSafe` alone; without it that property is false, for `*_available` is a
compile-time constant without "std".

- `PrefixTypes`, `PrefixCorrect`, `PrefixMemorySafe`, `NoFullWidthShift` (in
  `PrefixKernelProofs`): `PrefixSpec => []PrefixTypeOK`, `[]ReturnsFirstStop`,
  `[]LoadsInBounds`, `[]ShiftFits`;
- `ImplementsScan`: `PrefixSpec => ScanSpec`, the refinement of the abstract scan;
- `ClassesExact`, `CustomsExact`, `NeedlesExact` (in `ByteClassProofs`):
  `Spec => []ClassesAgree`, `[]CustomsAgree`, `[]NeedlesAgree` for any set of
  tests, so for every `skip_class!` list with non-empty ranges and every needle
  set of any size;
- `NoWorkTwice`, `StopsSoon` (in `PrefixKernelProofs`): `PrefixSpec => []NoDuplicateWork`,
  `[]StopsEarly`;
- `FoldTypes`, `CountsOnce`, `LastWins`, `TilesInput`, `FoldMemorySafe` (in
  `FoldKernelProofs`): `FoldSpec => []FoldTypeOK`, `[]CountsEachMatchOnce`,
  `[]ReturnsLastMatch`, `[]CoversOnce`, `[]LoadsInBounds`; and `ImplementsTally`:
  `FoldSpec => TallySpec`;
- `MethodTypes`, `TailFinds`, `PrefixMeasured` (in `OrNonAsciiProofs`):
  `Spec => []TypeOK`, `[]TailFindExact`, `[]PrefixLenExact`; and `RoundsProgress`:
  `Spec => Progresses`, which with the length as a bound is why the loop ends;
- `BodyTypes`, `BodiesExact` (in `StringBodyProofs`): `Spec => []TypeOK`,
  `[]BodyExact`; `RoundsMoveOn`: `Spec => RoundsMove`; and `ImplementsBody`:
  `Spec => BodySpec`;
- `TiersAgree` (in `MemspanProofs`): `Spec => []CallCorrect`, whatever tier the
  dispatcher picks, for every build, unit, probe override, needle count and input;
  with `CallTypes` and `CallMemorySafe`: `Spec => []TypeOK`, `[]LoadsInBounds`;
- `CallImplementsScan`, `CallImplementsTally`: `Spec => CallScan`, `CallTally`, from
  the dispatch to the answer; so the two scans that `StringBody` assumes are what the
  public functions are proved to be;
- `FeaturesSafe`, `GuardsDefensive`, `ProbeFits`, `OrderKept`: `Spec => []FeatureSafe`,
  `[]GuardsAreDefensive`, `[]ProbeInBounds`, `[]DispatchOrder`.

`ReturnsFirstStop` is not inductive: it says nothing of a running call. The
strengthening `PrefixInv` adds that no stop lies before the cursor, and that the loops
are entered with at least one chunk of input. From there each action has one
argument: `ChunkFirst` (an empty stop mask clears a chunk, and `trailing_zeros`
divided by the bits per lane is the first stop of a non-empty one), `PairStopsBits`
(the combined mask is the union of the stops), `TailFirst` (masking the tail
leaves exactly the stops from the cursor on). These rest on `KernelLemmas`: the
least element of a set of naturals by well-founded induction, the lane of a bit
as a quotient (`LaneOrder`), and the effect of `scan_mask` (`ScanMaskLanes`). The
frontier is also what the refinement maps to `front`, so every step of the
kernel is an `Advance` or an `Answer` of `Scan`.

The byte tests rest on `RangesExact`: a wrapping subtraction and one compare
decide membership of `lo .. hi`, in the three forms the backends use; and on
`EqAnyTreeExact` and `EqAnyGroupsExact`: whichever tree, loop or grouping the
number of needles selects, the lane is set exactly for the members. `HighBitExact`
adds the non-ASCII bytes of `OrNonAscii`.

What a prefix scan has loaded is the subject of a second invariant on top of
`PrefixInv`, `WorkInv`: the chunks loaded so far lie before the cursor, which has passed
no stop, and do not overlap. `LoadShape` lists what one step
may load: nothing, one or two chunks from the cursor, or the tail.

The fold kernels keep more, in `FoldInv`: the result so far is the fold of the
bytes before the cursor, and the chunks loaded tile these bytes. The kernels fold
the bits of a mask, not its lanes, so the proof needs a count: bits and pairs (lane,
place in the lane) correspond one to one (`CountOnesLanes`), and dividing
`count_ones` by the bits per lane is exact. `LastLaneIsLast` finds the last lane from
the leading zeros, a quotient from the top of the word; `FoldJoin` joins the folds of two adjacent ranges, and
`AbsorbTail` shows that the lane mask leaves exactly the bytes that no chunk held.

In `OrNonAscii` the pending hit is the first needle from the index on
(`FirstFromExact`), and the run of ASCII found by the probe ends where the first
non-ASCII byte stands (`AsciiRunExact`), so whichever comes first is the answer. In
`StringBody` what the loop has accepted is valid text without a quote. `TextJoin`
puts runs together; the hard direction is `TextBetween`: text may be cut wherever
ASCII meets non-ASCII, so a run that `from_utf8` rejects refutes the whole body
(`InvalidRefutes`). Its rounds move because a run begins at the byte that stopped the
first scan (`RunBegun`), and that byte is none at which the second stops.

The whole call has the inductive invariant `IInv` of `MemspanProofs`. A call that is
dispatched has the tier the dispatcher makes of it and that tier's backend
(`Dispatched`), so long as no step changes what the dispatcher looked at; a kernel
runs only on a vector tier (`Entered`); before it runs, and without it, nothing is
loaded and the cursor has not moved (`Idle`); while it runs, `PrefixInv` or `FoldInv`
holds of the call's own variables (`Running`); a scan has no result before its answer
(`Pending`); and an answer is right (`Answered`). None of the parts is enough alone:
`CallCorrect` says nothing of a running call, and the invariants of the kernels
nothing of a call that no kernel runs for. A step is the dispatch or a step of the one
kernel that the operation asks for (`StepShape`), and each has its argument:

- an answer of the dispatcher itself (`DispatchAnswers`): the scalar loops are the
  definition (`ScalarAnswers`), and an immediate `None` is given only to a call without
  needles, in which nothing matches (`EmptyMeans`; `OrNonAscii` never counts as empty);
- the entry of a kernel (`DispatchEnters`): the backend of the tier is `WellFormed`
  (`KernelsWellFormed`; for a probe of any width, `ProbeRange`), and the kernel's
  invariant holds at its entry;
- a step of the kernel (`KernelKeeps`): the lemma that `PrefixKernelProofs` or
  `FoldKernelProofs` proves of it, used as it stands, since `Memspan` extends both.

TLC checked `IInv` on the configuration of `memspan_tiers` before it was proved. The
refinements lift those of the kernels (`CallScanStep`, `CallTallyStep`); what is new
is that the dispatcher's own answers are an `Answer` of the abstract scan or fold, and
that entering a kernel is a stutter. The four dispatch properties rest on facts on the
dispatchers as functions: `X86Sound`, `ChosenSound`, and `WidestChosen`.

Only model-checked: termination (`Terminates`, in the three runs that check it). It is
liveness under weak fairness, and the prover has neither `ENABLED` nor a rule for it.
Its safety half is proved where a loop could stand still: `NoDuplicateWork` (while the
loops run, what was loaded lies behind the cursor), `Progresses` of `OrNonAscii`, and
`RoundsMove` of `StringBody`. The two statements of the text that the code contradicts are refuted by their runs.
No module declares a RECURSIVE operator.

## Not modelled

- The unrolled scalar loops of `needles.rs` (`tail_find1` to `tail_find8`,
  `prefix_len1` to `prefix_len8`) one by one: each is the one left-to-right pass of
  `Scalar` with the test written out. Their masks are in `NeedleSet`.
- The vendors' intrinsics. They are modelled by their use, lane by lane.
- The insides of `core::str::from_utf8`: `Utf8` says only which slices hold whole
  sequences.
- The syntax of the macros; what they generate is modelled.
- Tests, benchmarks, and the scripts and workflows under `ci/` and `.github/`.

## Plan

1. Done: the kernels and their abstract specifications, dispatch and the whole
   call, byte tests, `OrNonAscii`; the proofs of the prefix kernels and the byte
   tests.
2. Done: `StringBody` over two abstract scans and its refinement of `Body`, the
   masks of every shape and size of needle set, whole calls as implementations of
   `Scan` and `Tally`.
3. Done: the proofs of the fold kernels, of the work of the prefix kernels, of
   `OrNonAscii`, of `StringBody` and of the dispatch.
4. Done: the whole call for every build and unit: its answer, its loads, and that it
   implements `Scan` or `Tally`. For this the backend became a variable of the kernels
   and `Memspan` an extension of them, so that the kernels' lemmas apply to the call.
5. Left: nothing that a run checks and the prover can state; new code of the crate
   (another backend is a row of `KernelOf`, another class a row of `ByteClass`).
