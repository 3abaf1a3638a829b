------------------------------ MODULE Memspan -------------------------------
(* One call of the public API from end to end: the dispatcher picks a tier  *)
(* for the build, the length and the needles, and that backend's kernel     *)
(* runs to its result.  Every function of the five backends is an action,   *)
(* a step of PrefixKernel or of FoldKernel on that backend.                 *)
EXTENDS Dispatch, PrefixKernel, FoldKernel

CONSTANTS
  SomeBuilds, \* the builds considered
  Needles     \* the needle counts considered

ASSUME CallAssumption == SomeBuilds \subseteq Builds /\ Needles \subseteq Nat

\* A program is started only on processors that have what the compiler was told
\* to use: the condition of -C target-feature.
ASSUME BuildAssumption == \A b \in SomeBuilds : b.static \subseteq b.cpu

VARIABLES build, api, count, tier   \* the call and the tier chosen for it

call == <<build, api, count, tier>>
vars == <<call, kernelVars>>

-----------------------------------------------------------------------------
(* The entry points.                                                        *)

\* what each entry point runs
OpOf == [skip_class              |-> "class",
         custom_class            |-> "while",
         skip_while              |-> "while",
         skip_until              |-> "until",
         skip_until_or_non_ascii |-> "until",
         skip_until_newline      |-> "until",
         contains_any            |-> "until",
         count_matches           |-> "count",
         find_last               |-> "last"]

Apis == DOMAIN OpOf

\* the kernels of a tier: the nibble mask of NEON fills a u64, AVX-512BW has a
\* 64-bit mask register, the others movemask to 32 bits; neon_path of skip_class!
\* tests one chunk per round
KernelOf(t, a) ==
  [chunk    |-> Width[t],
   bpl      |-> IF t = "neon" THEN 4 ELSE 1,
   word     |-> IF t \in {"neon", "avx512"} THEN 4 * Unit ELSE 2 * Unit,
   unrolled |-> ~(t = "neon" /\ a = "custom_class"),
   probe    |-> ProbeOf[t],
   credit   |-> t # "neon"]

\* Mutant: OrNonAscii counts the caller's needles only.
NeedleCountInner == IF api = "skip_until_newline" THEN 1 ELSE count

\* needle_count() of the set that the dispatcher sees: OrNonAscii adds one to the
\* caller's, skip_until_newline brings its own
NeedleCount == CASE api = "skip_until_or_non_ascii" -> count + 1
                 [] api = "skip_until_newline"      -> 1
                 [] OTHER                           -> count

\* the tier of the call
Chosen == CASE op = "until"          -> UntilTier(build, len, NeedleCount)
            [] api = "skip_while"    -> WhileTier(build, len, NeedleCount)
            [] api = "skip_class"    -> ClassTier(build, len)
            [] api = "custom_class"  -> CustomTier(build, len)
            [] api = "count_matches" -> CountTier(build)
            [] api = "find_last"     -> LastTier(build, NeedleCount)

\* the caller's needles are all that can match
OnlyNeedles == api \notin {"skip_class", "custom_class", "skip_until_or_non_ascii",
                           "skip_until_newline"}

Init == /\ build \in SomeBuilds
        /\ api \in Apis
        /\ count \in Needles
        /\ op = OpOf[api]
        /\ \E i \in Inputs : len = i.len /\ match = i.match
        /\ OnlyNeedles /\ count = 0 => match = {}
        /\ tier = "none"
        /\ backend = None
        /\ pc = "call"
        /\ cur = 0
        /\ res = None
        /\ loads = {}

DispatchEmpty == /\ pc = "call"
                 /\ Chosen = "empty"
                 /\ tier' = "empty"
                 /\ pc' = "done"
                 /\ res' = None
                 /\ UNCHANGED <<build, api, count, input, cur, loads>>

DispatchScalar == /\ pc = "call"
                  /\ Chosen = "scalar"
                  /\ tier' = "scalar"
                  /\ pc' = "done"
                  /\ res' = IF op \in PrefixOps THEN ScalarPrefix ELSE ScalarFold
                  /\ UNCHANGED <<build, api, count, input, cur, loads>>

DispatchVector == /\ pc = "call"
                  /\ Chosen \in VectorTiers
                  /\ tier' = Chosen
                  /\ backend' = KernelOf(Chosen, api)
                  /\ pc' = "entry"
                  /\ UNCHANGED <<build, api, count, op, len, match, cur, res, loads>>

-----------------------------------------------------------------------------
(* The kernel functions, one action each: a step of the call's kernel.      *)

In(t, o) == tier = t /\ op = o /\ api # "custom_class" /\ UNCHANGED call
InMacro(t) == tier = t /\ api = "custom_class" /\ UNCHANGED call

NeonSkipClass    == In("neon", "class") /\ PrefixStep
NeonSkipWhile    == In("neon", "while") /\ PrefixStep
NeonSkipUntil    == In("neon", "until") /\ PrefixStep
NeonCountMatches == In("neon", "count") /\ FoldStep
NeonFindLast     == In("neon", "last") /\ FoldStep
NeonPath         == InMacro("neon") /\ PrefixStep

Sse42SkipClass    == In("sse42", "class") /\ PrefixStep
Sse42SkipWhile    == In("sse42", "while") /\ PrefixStep
Sse42SkipUntil    == In("sse42", "until") /\ PrefixStep
Sse42CountMatches == In("sse42", "count") /\ FoldStep
Sse42FindLast     == In("sse42", "last") /\ FoldStep
SsePath           == InMacro("sse42") /\ PrefixStep

Avx2SkipClass    == In("avx2", "class") /\ PrefixStep
Avx2SkipWhile    == In("avx2", "while") /\ PrefixStep
Avx2SkipUntil    == In("avx2", "until") /\ PrefixStep
Avx2CountMatches == In("avx2", "count") /\ FoldStep
Avx2FindLast     == In("avx2", "last") /\ FoldStep
Avx2Path         == InMacro("avx2") /\ PrefixStep

Avx512SkipClass    == In("avx512", "class") /\ PrefixStep
Avx512SkipWhile    == In("avx512", "while") /\ PrefixStep
Avx512SkipUntil    == In("avx512", "until") /\ PrefixStep
Avx512CountMatches == In("avx512", "count") /\ FoldStep
Avx512FindLast     == In("avx512", "last") /\ FoldStep

Simd128SkipClass    == In("simd128", "class") /\ PrefixStep
Simd128SkipWhile    == In("simd128", "while") /\ PrefixStep
Simd128SkipUntil    == In("simd128", "until") /\ PrefixStep
Simd128CountMatches == In("simd128", "count") /\ FoldStep
Simd128FindLast     == In("simd128", "last") /\ FoldStep
Simd128Path         == InMacro("simd128") /\ PrefixStep

Step ==
  \/ DispatchEmpty \/ DispatchScalar \/ DispatchVector
  \/ NeonSkipClass \/ NeonSkipWhile \/ NeonSkipUntil
  \/ NeonCountMatches \/ NeonFindLast \/ NeonPath
  \/ Sse42SkipClass \/ Sse42SkipWhile \/ Sse42SkipUntil
  \/ Sse42CountMatches \/ Sse42FindLast \/ SsePath
  \/ Avx2SkipClass \/ Avx2SkipWhile \/ Avx2SkipUntil
  \/ Avx2CountMatches \/ Avx2FindLast \/ Avx2Path
  \/ Avx512SkipClass \/ Avx512SkipWhile \/ Avx512SkipUntil
  \/ Avx512CountMatches \/ Avx512FindLast
  \/ Simd128SkipClass \/ Simd128SkipWhile \/ Simd128SkipUntil
  \/ Simd128CountMatches \/ Simd128FindLast \/ Simd128Path

Next == Step \/ (Returned /\ UNCHANGED call)

Spec == Init /\ [][Next]_vars

\* a call runs until it returns
FairSpec == Spec /\ WF_vars(Step)

\* what the caller gets: skip_until_newline and contains_any are wrappers
Answer == CASE api = "skip_until_newline" -> IF res = None THEN len ELSE res
            [] api = "contains_any"       -> res # None
            [] OTHER                      -> res

-----------------------------------------------------------------------------

\* Types of the call's variables.
TypeOK == /\ build \in SomeBuilds
          /\ api \in Apis
          /\ count \in Needles
          /\ tier \in VectorTiers \cup {"none", "empty", "scalar"}
          /\ backend = IF tier \in VectorTiers THEN KernelOf(tier, api) ELSE None
          /\ op = OpOf[api]
          /\ len \in Nat
          /\ match \subseteq 0 .. len - 1
          /\ pc \in {"call", "entry", "loop", "done"}
          /\ cur \in 0 .. len
          /\ res \in 0 .. len \cup {None}

\* Whatever tier ran, the caller gets the answer that the documentation of the
\* function defines: the tiers cannot be told apart by their results, for any
\* length at or around a threshold, and an empty needle set is no exception.
CallCorrect ==
  pc = "done" =>
    CASE op \in PrefixOps /\ api \notin {"contains_any", "skip_until_newline"} ->
           IF StopSet = {} THEN Answer = Exhausted
           ELSE Answer \in StopSet /\ \A i \in StopSet : Answer <= i
      [] api = "skip_until_newline" ->
           IF match = {} THEN Answer = len
           ELSE Answer \in match /\ \A i \in match : Answer <= i
      [] api = "contains_any" -> Answer = (match # {})
      [] op = "count" -> Answer = Cardinality(match)
      [] op = "last" -> IF match = {} THEN Answer = None
                        ELSE Answer \in match /\ \A i \in match : i <= Answer

\* No function compiled for a target feature runs on a processor without it:
\* the safety condition of every unsafe call in the dispatchers.
FeatureSafe == tier \in VectorTiers => Requires[tier] \in build.cpu

\* The class probe slices the input before any length but the chunk's is known:
\* &input[..CLASS_PROBE] never panics, whatever probe the build asks for.
ProbeInBounds ==
  pc = "entry" /\ op = "class" /\ len >= Width[tier] => ProbeOf[tier] <= len

\* "defensive short-input guards that the public dispatcher never triggers":
\* only SSE4.2, which has no length threshold of its own, can be entered with
\* less than a chunk by a prefix scan.
GuardsAreDefensive ==
  pc = "entry" /\ op \in PrefixOps /\ tier # "sse42" => len >= Width[tier]

\* The dispatch order of the README: a call of a built-in function with at
\* least four units of input and two needles runs on the first tier of its
\* architecture's list that is available.
DispatchOrder ==
  /\ tier \notin {"none", "empty"}
  /\ len >= 4 * Unit
  /\ count >= 2
  /\ api # "custom_class"
  => LET order == CASE build.target = "x86_64"  -> <<"avx512", "avx2", "sse42">>
                    [] build.target = "x86"     -> <<"sse42">>
                    [] build.target = "aarch64" -> <<"neon">>
                    [] build.target = "wasm32"  -> <<"simd128">>
                    [] OTHER                    -> <<>>
         usable == {k \in DOMAIN order : Available(build, Requires[order[k]])}
     IN  tier = IF usable = {} THEN "scalar" ELSE order[Min(usable)]

\* The comment on SCALAR_THRESHOLD, 32: it "matches the threshold used by
\* skip_while and the built-in skip_* fns", so these take no vector load below it.
ThresholdShared ==
  api \in {"skip_while", "skip_class"} /\ len < 2 * Unit => loads = {}

\* The README of skip_class!: "the same SIMD dispatch as the built-ins".
CustomAsBuiltIn ==
  api = "custom_class" /\ tier # "none" /\ len >= 4 * Unit =>
    tier = ClassTier(build, len)

\* whether the call is a prefix scan; the others are folds
IsScan == op \in PrefixOps

\* Whichever tier it runs on, a prefix scan implements the abstract scan from the
\* dispatch to the answer: the caller composes calls, not kernels.
CallOfScan == INSTANCE Scan WITH
  stop <- IF IsScan THEN StopSet ELSE {},
  front <- IF IsScan THEN ScanFront ELSE 0,
  answered <- IsScan /\ pc = "done"

CallScan == CallOfScan!Spec

\* Whichever tier it runs on, count_matches and find_last implement the abstract
\* fold: what is accumulated after every round is the fold of what was passed.
CallOfTally == INSTANCE Tally WITH
  op <- IF IsScan THEN "count" ELSE op,
  match <- IF IsScan THEN {} ELSE match,
  front <- IF IsScan THEN 0 ELSE FoldFront,
  acc <- IF IsScan THEN 0 ELSE Acc,
  answered <- ~IsScan /\ pc = "done"

CallTally == CallOfTally!Spec
=============================================================================
