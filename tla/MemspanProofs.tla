--------------------------- MODULE MemspanProofs ----------------------------
(* The whole call, for every set of builds, every unit, every override of   *)
(* the probe and every input: whatever tier the dispatcher picks, the       *)
(* caller gets the same answer, no load leaves the slice, no function runs  *)
(* without its feature, and the call implements the abstract scan or fold.  *)
(* The dispatcher hands a kernel what its proofs ask for; from then on the  *)
(* invariants of the kernels are those of the call.                         *)
EXTENDS Memspan, PrefixKernelProofs, FoldKernelProofs

-----------------------------------------------------------------------------
(* The tiers.                                                               *)

\* The helpers of x86 return a tier only after having asked for its feature, and
\* a tier wider than a unit only for an input of that width.
LEMMA X86Sound ==
  ASSUME NEW b, NEW n \in Nat, NEW t \in VectorTiers
  PROVE  /\ X86ByLength(b, n) \in {"avx512", "avx2", "sse42", "scalar"}
         /\ X86ByLength(b, n) = t => /\ Available(b, Requires[t])
                                     /\ t # "sse42" => Width[t] <= n
         /\ X86Widest(b) \in {"avx512", "avx2", "sse42", "scalar"}
         /\ X86Widest(b) = t => Available(b, Requires[t])
BY UnitAssumption DEF X86ByLength, X86Widest, Requires, VectorTiers, Width

\* what the dispatchers look at
CallShape == /\ build \in SomeBuilds
             /\ api \in Apis
             /\ op = OpOf[api]
             /\ len \in Nat
             /\ count \in Nat

\* What runs skip_until is none of the other entry points.
LEMMA UntilApis ==
  ASSUME CallShape, op = "until"
  PROVE  api \notin {"skip_while", "skip_class", "custom_class", "count_matches", "find_last"}
<1>1. /\ OpOf["skip_while"] = "while" /\ OpOf["skip_class"] = "class"
      /\ OpOf["custom_class"] = "while" /\ OpOf["count_matches"] = "count"
      /\ OpOf["find_last"] = "last"
  BY DEF OpOf
<1>2. op = OpOf[api]
  BY DEF CallShape
<1> QED BY <1>1, <1>2

\* The chosen tier is one of those there are, and its feature is available.
LEMMA ChosenSound ==
  ASSUME CallShape
  PROVE  /\ Chosen \in VectorTiers \cup {"empty", "scalar"}
         /\ Chosen \in VectorTiers => Available(build, Requires[Chosen])
         /\ Chosen \in VectorTiers \ {"sse42"} /\ op \in PrefixOps => Width[Chosen] <= len
<1> USE UnitAssumption
<1> DEFINE Good(t) == /\ t \in VectorTiers \cup {"empty", "scalar"}
                      /\ t \in VectorTiers => Available(build, Requires[t])
                      /\ t \in VectorTiers \ {"sse42"} /\ op \in PrefixOps => Width[t] <= len
<1>1. len \in Nat /\ NeedleCount \in Nat
  BY DEF CallShape, NeedleCount
<1>2. Good(X86ByLength(build, len))
  BY <1>1, X86Sound DEF VectorTiers
<1>3. op \notin PrefixOps => Good(X86Widest(build))
  BY <1>1, X86Sound DEF VectorTiers
<1>4. /\ Good("scalar") /\ Good("empty")
      /\ (op \in PrefixOps => Unit <= len) => Good(OrScalar(build, "neon", "neon"))
      /\ (op \in PrefixOps => Unit <= len) => Good(OrScalar(build, "simd128", "simd128"))
  BY DEF OrScalar, VectorTiers, Requires, Width
<1>5. CASE op = "until"
  <2>1. Chosen = UntilTier(build, len, NeedleCount)
    <3>1. api \notin {"skip_while", "skip_class", "custom_class", "count_matches", "find_last"}
      BY <1>5, UntilApis
    <3> QED BY <1>5, <3>1 DEF Chosen
  <2>2. len >= Unit => Unit <= len
    BY <1>1
  <2> QED BY <1>1, <1>2, <1>4, <2>1, <2>2 DEF UntilTier
<1>6. CASE api = "skip_while"
  <2>1. Chosen = WhileTier(build, len, NeedleCount)
    BY <1>6 DEF Chosen, CallShape, OpOf, Apis
  <2> QED BY <1>1, <1>2, <1>4, <2>1 DEF WhileTier
<1>7. CASE api = "skip_class"
  <2>1. Chosen = ClassTier(build, len)
    BY <1>7 DEF Chosen, CallShape, OpOf, Apis
  <2> QED BY <1>1, <1>2, <1>4, <2>1 DEF ClassTier
<1>8. CASE api = "custom_class"
  <2>1. Chosen = CustomTier(build, len)
    BY <1>8 DEF Chosen, CallShape, OpOf, Apis
  <2>2. len >= 2 * Unit => Good(CustomTier(build, len))
    BY <1>1 DEF CustomTier, VectorTiers, Requires, Width
  <2> QED BY <1>1, <1>4, <2>1, <2>2 DEF CustomTier
<1>9. CASE api = "count_matches"
  <2>1. Chosen = CountTier(build) /\ op = "count"
    BY <1>9 DEF Chosen, CallShape, OpOf, Apis
  <2> QED BY <1>3, <1>4, <2>1 DEF CountTier, PrefixOps
<1>10. CASE api = "find_last"
  <2>1. Chosen = LastTier(build, NeedleCount) /\ op = "last"
    BY <1>10 DEF Chosen, CallShape, OpOf, Apis
  <2> QED BY <1>3, <1>4, <2>1 DEF LastTier, PrefixOps
<1> QED BY <1>5, <1>6, <1>7, <1>8, <1>9, <1>10 DEF CallShape, OpOf, Apis

-----------------------------------------------------------------------------
(* What a call asks of the kernel it runs on.                               *)

\* What each entry point runs, the other way round.
LEMMA OpsOfApis ==
  ASSUME CallShape
  PROVE  /\ op \in PrefixOps \cup FoldOps
         /\ api = "custom_class" => op = "while"
         /\ api \in {"contains_any", "skip_until_newline"} => op = "until"
         /\ op \in {"until", "last"} => api \notin {"skip_class", "custom_class"}
<1>1. /\ OpOf["skip_class"] = "class" /\ OpOf["custom_class"] = "while"
      /\ OpOf["skip_while"] = "while" /\ OpOf["skip_until"] = "until"
      /\ OpOf["skip_until_or_non_ascii"] = "until"
      /\ OpOf["skip_until_newline"] = "until" /\ OpOf["contains_any"] = "until"
      /\ OpOf["count_matches"] = "count" /\ OpOf["find_last"] = "last"
  BY DEF OpOf
<1>2. api \in {"skip_class", "custom_class", "skip_while", "skip_until",
               "skip_until_or_non_ascii", "skip_until_newline", "contains_any",
               "count_matches", "find_last"} /\ op = OpOf[api]
  BY DEF CallShape, Apis, OpOf
<1> QED BY <1>1, <1>2 DEF PrefixOps, FoldOps

\* Whatever probe a build asks for, a class function probes at least one byte and
\* at most a chunk.
LEMMA ProbeRange ==
  ASSUME NEW t \in VectorTiers
  PROVE  ProbeOf[t] \in 1 .. Width[t]
<1>1. \A d, c \in Nat \ {0} : ClassProbe(d, c) \in 1 .. c
  BY OverrideAssumption DEF ClassProbe
<1>2. Unit \div 2 \in Nat \ {0}
  BY UnitAssumption
<1>3. Width[t] \in Nat \ {0}
  BY UnitAssumption DEF Width, VectorTiers
<1>4. PICK d \in Nat \ {0} : ProbeOf[t] = ClassProbe(d, Width[t])
  BY <1>2, <1>3 DEF ProbeOf, VectorTiers, Width
<1> QED BY <1>1, <1>3, <1>4

\* Every tier hands its kernels widths that their proofs accept: the mask of a chunk
\* fits the word it is extracted to, in whole lanes.
LEMMA KernelsWellFormed ==
  ASSUME NEW t \in VectorTiers, NEW a
  PROVE  WellFormed(KernelOf(t, a))
<1> DEFINE k == KernelOf(t, a)
<1>1. /\ k.chunk = Width[t]
      /\ k.bpl = IF t = "neon" THEN 4 ELSE 1
      /\ k.word = IF t \in {"neon", "avx512"} THEN 4 * Unit ELSE 2 * Unit
      /\ k.unrolled \in BOOLEAN
      /\ k.probe = ProbeOf[t]
      /\ k.credit \in BOOLEAN
  BY DEF KernelOf
<1>2. /\ Width[t] \in Nat \ {0}
      /\ t \in {"neon", "sse42", "simd128"} => Width[t] = Unit
      /\ t = "avx2" => Width[t] = 2 * Unit
      /\ t = "avx512" => Width[t] = 4 * Unit
  BY UnitAssumption DEF Width, VectorTiers
<1>3. /\ k.bpl \in Nat \ {0} /\ k.word \in Nat
      /\ k.chunk * k.bpl <= k.word
      /\ k.word % k.bpl = 0
  <2>1. CASE t = "neon"
    <3>1. (4 * Unit) % 4 = 0
      BY UnitAssumption
    <3> QED BY <1>1, <1>2, <2>1, <3>1, UnitAssumption
  <2>2. CASE t # "neon"
    <3>1. k.bpl = 1 /\ k.chunk = Width[t] /\ k.word \in Nat
      BY <1>1, <2>2, UnitAssumption
    <3>2. k.chunk <= k.word
      BY <1>1, <1>2, <2>2, UnitAssumption DEF VectorTiers
    <3> QED BY <1>2, <3>1, <3>2
  <2> QED BY <2>1, <2>2
<1>4. k.probe \in 1 .. k.chunk
  BY <1>1, ProbeRange
<1> QED BY <1>1, <1>2, <1>3, <1>4 DEF WellFormed

\* The dispatcher returns None at once only when there are no needles, to skip_until
\* and find_last; then nothing matches.
LEMMA EmptyMeans ==
  ASSUME CallShape, OnlyNeedles /\ count = 0 => match = {}, Chosen = "empty"
  PROVE  op \in {"until", "last"} /\ match = {}
<1>1. \A b, n : X86ByLength(b, n) # "empty" /\ X86Widest(b) # "empty"
  BY DEF X86ByLength, X86Widest
<1>2. OrScalar(build, "neon", "neon") # "empty" /\ OrScalar(build, "simd128", "simd128") # "empty"
  BY DEF OrScalar
<1>3. op \in {"until", "last"} /\ NeedleCount = 0
  <2>1. CASE op = "until"
    <3>1. api \notin {"skip_while", "skip_class", "custom_class", "count_matches", "find_last"}
      BY <2>1, UntilApis
    <3>2. Chosen = UntilTier(build, len, NeedleCount)
      BY <2>1, <3>1 DEF Chosen
    <3> QED BY <1>1, <1>2, <2>1, <3>2 DEF UntilTier
  <2>2. CASE api = "skip_while"
    <3>1. Chosen = WhileTier(build, len, NeedleCount)
      BY <2>2 DEF Chosen, CallShape, OpOf, Apis
    <3> QED BY <1>1, <1>2, <3>1 DEF WhileTier
  <2>3. CASE api = "skip_class"
    <3>1. Chosen = ClassTier(build, len)
      BY <2>3 DEF Chosen, CallShape, OpOf, Apis
    <3> QED BY <1>1, <1>2, <3>1 DEF ClassTier
  <2>4. CASE api = "custom_class"
    <3>1. Chosen = CustomTier(build, len)
      BY <2>4 DEF Chosen, CallShape, OpOf, Apis
    <3> QED BY <3>1 DEF CustomTier
  <2>5. CASE api = "count_matches"
    <3>1. Chosen = CountTier(build)
      BY <2>5 DEF Chosen, CallShape, OpOf, Apis
    <3> QED BY <1>1, <1>2, <3>1 DEF CountTier
  <2>6. CASE api = "find_last"
    <3>1. Chosen = LastTier(build, NeedleCount) /\ op = "last"
      BY <2>6 DEF Chosen, CallShape, OpOf, Apis
    <3> QED BY <1>1, <1>2, <3>1 DEF LastTier
  <2> QED BY <2>1, <2>2, <2>3, <2>4, <2>5, <2>6 DEF CallShape, OpOf, Apis
<1>4. count = 0 /\ api \notin {"skip_until_or_non_ascii", "skip_until_newline"}
  BY <1>3 DEF NeedleCount, CallShape
<1>5. OnlyNeedles
  BY <1>3, <1>4, OpsOfApis DEF OnlyNeedles
<1> QED BY <1>3, <1>4, <1>5

\* The scalar loops give the answer of a prefix scan, of the count and of the last
\* match.
LEMMA ScalarAnswers ==
  ASSUME len \in Nat, match \subseteq 0 .. len - 1
  PROVE  /\ op \in PrefixOps => IF StopSet = {} THEN ScalarPrefix = Exhausted
                                ELSE /\ ScalarPrefix \in StopSet
                                     /\ \A i \in StopSet : ScalarPrefix <= i
         /\ op = "count" => ScalarFold = Cardinality(match)
         /\ op = "last" => IF match = {} THEN ScalarFold = None
                           ELSE /\ ScalarFold \in match
                                /\ \A i \in match : i <= ScalarFold
<1>1. StopSet \subseteq 0 .. len - 1
  BY DEF StopSet
<1>2. StopSet \cap (0 .. len - 1) = StopSet
  BY <1>1
<1>3. ASSUME StopSet = {} PROVE ScalarPrefix = Exhausted
  BY <1>2, <1>3 DEF ScalarPrefix, ScalarScan
<1>4. ASSUME StopSet # {}
      PROVE  ScalarPrefix \in StopSet /\ \A i \in StopSet : ScalarPrefix <= i
  <2>1. StopSet \subseteq Nat
    BY <1>1
  <2>2. Min(StopSet) \in StopSet /\ \A i \in StopSet : Min(StopSet) <= i
    BY <1>4, <2>1, MinProperty
  <2>3. Min(StopSet) # len
    BY <1>1, <2>2
  <2> QED BY <1>2, <1>4, <2>2, <2>3 DEF ScalarPrefix, ScalarScan
<1>5. op = "count" => ScalarFold = Cardinality(match)
  BY DEF ScalarFold
<1>6. ASSUME op = "last", match # {}
      PROVE  ScalarFold \in match /\ \A i \in match : i <= ScalarFold
  <2>1. match \subseteq 0 .. len
    OBVIOUS
  <2>2. Max(match) \in match /\ \A x \in match : x <= Max(match)
    BY <1>6, <2>1, MaxProperty
  <2> QED BY <1>6, <2>2 DEF ScalarFold
<1> QED BY <1>3, <1>4, <1>5, <1>6 DEF ScalarFold

-----------------------------------------------------------------------------
(* The inductive invariant: once the call is dispatched, its tier is what   *)
(* the dispatcher makes of a call that no step changes, its backend is that *)
(* tier's, and the kernel keeps the invariant of its own proofs.            *)

Dispatched == /\ tier = IF pc = "call" THEN "none" ELSE Chosen
              /\ backend = IF tier \in VectorTiers THEN KernelOf(tier, api) ELSE None

Entered == pc \in {"entry", "loop"} => tier \in VectorTiers

\* what a call keeps from the beginning: its needles and its input
CallInput == /\ count \in Needles
             /\ match \subseteq 0 .. len - 1
             /\ OnlyNeedles /\ count = 0 => match = {}

\* what has happened before a kernel runs, or without one
Idle == /\ pc \in {"call", "entry"} => cur = 0 /\ res = None /\ loads = {}
        /\ tier \notin VectorTiers => cur = 0 /\ loads = {}

\* the invariant of the kernel that runs
Running == tier \in VectorTiers => /\ op \in PrefixOps => PrefixInv
                                   /\ op \in FoldOps => FoldInv

\* a scan has no result before its answer, and the answer is right
Pending == op \in PrefixOps /\ pc # "done" => res = None

Answered == pc = "done" => /\ op \in PrefixOps => ReturnsFirstStop
                           /\ op \in FoldOps => CountsEachMatchOnce /\ ReturnsLastMatch

IInv == /\ CallShape /\ CallInput
        /\ pc \in {"call", "entry", "loop", "done"}
        /\ Dispatched /\ Entered /\ Idle /\ Running /\ Pending /\ Answered

\* A call that has not been dispatched has no tier.
LEMMA IInvInit == Init => IInv
<1> SUFFICES ASSUME Init PROVE IInv
  OBVIOUS
<1>1. PICK i \in Inputs : len = i.len /\ match = i.match
  BY DEF Init
<1>2. CallShape /\ CallInput
  BY <1>1, InputAssumption, CallAssumption DEF Init, CallShape, CallInput
<1>3. /\ pc = "call" /\ tier = "none" /\ backend = None
      /\ cur = 0 /\ res = None /\ loads = {}
  BY DEF Init
<1> QED BY <1>2, <1>3 DEF IInv, Dispatched, Entered, Idle, Running, Pending, Answered,
                          VectorTiers

\* A call that stays what it is keeps the tier that it should have.
LEMMA ChosenKept ==
  ASSUME UNCHANGED <<build, api, count, op, len>>
  PROVE  Chosen' = Chosen /\ CallShape' = CallShape
BY DEF Chosen, NeedleCount, CallShape

\* So do the needles, the input and the answer that is right for them.
LEMMA CallKept ==
  ASSUME UNCHANGED <<build, api, count, op, len, match>>
  PROVE  /\ CallInput' = CallInput
         /\ StopSet' = StopSet /\ Exhausted' = Exhausted
BY DEF CallInput, OnlyNeedles, StopSet, Exhausted

\* a step of the kernel of a tier
KernelScans == tier \in VectorTiers /\ UNCHANGED call /\ op \in PrefixOps /\ PrefixStep
KernelFolds == tier \in VectorTiers /\ UNCHANGED call /\ op \in FoldOps /\ FoldStep

\* A step is the dispatch, or a step of the kernel that the operation asks for.
LEMMA StepShape ==
  ASSUME CallShape, Next
  PROVE  \/ DispatchEmpty \/ DispatchScalar \/ DispatchVector
         \/ KernelScans \/ KernelFolds
         \/ Returned /\ UNCHANGED call
<1>1. ASSUME NEW t \in VectorTiers, NEW o \in PrefixOps, In(t, o), PrefixStep
      PROVE  KernelScans
  BY <1>1 DEF In, KernelScans
<1>2. ASSUME NEW t \in VectorTiers, InMacro(t), PrefixStep PROVE KernelScans
  BY <1>2, OpsOfApis DEF InMacro, PrefixOps, KernelScans
<1>3. ASSUME NEW t \in VectorTiers, NEW o \in FoldOps, In(t, o), FoldStep
      PROVE  KernelFolds
  BY <1>3 DEF In, KernelFolds
<1>4. /\ {"class", "while", "until"} \subseteq PrefixOps
      /\ {"count", "last"} \subseteq FoldOps
      /\ {"neon", "sse42", "avx2", "avx512", "simd128"} \subseteq VectorTiers
  BY DEF PrefixOps, FoldOps, VectorTiers
<1>5. NeonSkipClass \/ NeonSkipWhile \/ NeonSkipUntil \/ NeonPath => KernelScans
  BY <1>1, <1>2, <1>4 DEF NeonSkipClass, NeonSkipWhile, NeonSkipUntil, NeonPath
<1>6. Sse42SkipClass \/ Sse42SkipWhile \/ Sse42SkipUntil \/ SsePath => KernelScans
  BY <1>1, <1>2, <1>4 DEF Sse42SkipClass, Sse42SkipWhile, Sse42SkipUntil, SsePath
<1>7. Avx2SkipClass \/ Avx2SkipWhile \/ Avx2SkipUntil \/ Avx2Path => KernelScans
  BY <1>1, <1>2, <1>4 DEF Avx2SkipClass, Avx2SkipWhile, Avx2SkipUntil, Avx2Path
<1>8. Avx512SkipClass \/ Avx512SkipWhile \/ Avx512SkipUntil => KernelScans
  BY <1>1, <1>4 DEF Avx512SkipClass, Avx512SkipWhile, Avx512SkipUntil
<1>9. Simd128SkipClass \/ Simd128SkipWhile \/ Simd128SkipUntil \/ Simd128Path => KernelScans
  BY <1>1, <1>2, <1>4 DEF Simd128SkipClass, Simd128SkipWhile, Simd128SkipUntil, Simd128Path
<1>10. \/ NeonCountMatches \/ NeonFindLast \/ Sse42CountMatches \/ Sse42FindLast
       \/ Avx2CountMatches \/ Avx2FindLast \/ Avx512CountMatches \/ Avx512FindLast
       \/ Simd128CountMatches \/ Simd128FindLast
       => KernelFolds
  BY <1>3, <1>4 DEF NeonCountMatches, NeonFindLast, Sse42CountMatches, Sse42FindLast,
     Avx2CountMatches, Avx2FindLast, Avx512CountMatches, Avx512FindLast,
     Simd128CountMatches, Simd128FindLast
<1> QED BY <1>5, <1>6, <1>7, <1>8, <1>9, <1>10 DEF Next, Step

\* A call that the dispatcher answers itself gets the right answer: None when there
\* is no needle, otherwise that of the scalar loops.
LEMMA DispatchAnswers ==
  ASSUME IInv, DispatchEmpty \/ DispatchScalar
  PROVE  IInv'
<1>1. /\ CallShape /\ CallInput /\ len \in Nat /\ match \subseteq 0 .. len - 1
      /\ pc = "call" /\ tier = "none" /\ backend = None
      /\ cur = 0 /\ res = None /\ loads = {}
  BY DEF IInv, CallShape, CallInput, Dispatched, Idle, DispatchEmpty, DispatchScalar,
         VectorTiers
<1>2. /\ UNCHANGED <<build, api, count, op, len, match>> /\ backend' = backend
      /\ cur' = cur /\ loads' = loads /\ pc' = "done"
      /\ tier' = Chosen /\ tier' \in {"empty", "scalar"}
  BY DEF DispatchEmpty, DispatchScalar, input
<1>3. /\ Chosen' = Chosen /\ CallShape' /\ CallInput'
      /\ StopSet' = StopSet /\ Exhausted' = Exhausted
  BY <1>1, <1>2, ChosenKept, CallKept
<1>4. op \in PrefixOps => IF StopSet = {} THEN res' = Exhausted
                          ELSE res' \in StopSet /\ \A i \in StopSet : res' <= i
  <2>1. CASE DispatchEmpty
    <3>1. op \in {"until", "last"} /\ match = {} /\ res' = None
      BY <1>1, <2>1, EmptyMeans DEF CallInput, DispatchEmpty
    <3> QED BY <3>1 DEF StopSet, Exhausted, PrefixOps
  <2>2. CASE DispatchScalar
    BY <1>1, <2>2, ScalarAnswers DEF DispatchScalar
  <2> QED BY <2>1, <2>2
<1>5. op \in FoldOps => /\ op = "count" => res' = Cardinality(match)
                        /\ op = "last" => IF match = {} THEN res' = None
                                          ELSE res' \in match /\ \A i \in match : i <= res'
  <2>1. CASE DispatchEmpty
    <3>1. op \in {"until", "last"} /\ match = {} /\ res' = None
      BY <1>1, <2>1, EmptyMeans DEF CallInput, DispatchEmpty
    <3> QED BY <3>1
  <2>2. CASE DispatchScalar
    <3>1. op \in FoldOps => res' = ScalarFold
      BY <2>2 DEF DispatchScalar, PrefixOps, FoldOps
    <3> QED BY <1>1, <3>1, ScalarAnswers
  <2> QED BY <2>1, <2>2
<1>6. Answered'
  BY <1>2, <1>3, <1>4, <1>5
     DEF Answered, ReturnsFirstStop, CountsEachMatchOnce, ReturnsLastMatch
<1> QED BY <1>1, <1>2, <1>3, <1>6
        DEF IInv, Dispatched, Entered, Idle, Running, Pending, VectorTiers

\* A call handed to a kernel satisfies the invariant of that kernel.
LEMMA DispatchEnters ==
  ASSUME IInv, DispatchVector
  PROVE  IInv'
<1>1. /\ CallShape /\ CallInput /\ len \in Nat /\ match \subseteq 0 .. len - 1
      /\ cur = 0 /\ res = None /\ loads = {}
  BY DEF IInv, CallShape, CallInput, Idle, DispatchVector
<1>2. /\ UNCHANGED <<build, api, count, op, len, match>>
      /\ UNCHANGED <<cur, res, loads>> /\ pc' = "entry"
      /\ tier' = Chosen /\ tier' \in VectorTiers /\ backend' = KernelOf(tier', api)
  BY DEF DispatchVector
<1>3. Chosen' = Chosen /\ CallShape' /\ CallInput'
  BY <1>1, <1>2, ChosenKept, CallKept
<1>4. WellFormed(backend)'
  BY <1>2, KernelsWellFormed DEF WellFormed
<1>5. op \in PrefixOps => PrefixInv'
  BY <1>1, <1>2, <1>4
     DEF PrefixInv, PrefixTypeOK, LoopInv, LoadsInBounds, ReturnsFirstStop
<1>6. op \in FoldOps => FoldInv'
  BY <1>1, <1>2, <1>4 DEF FoldInv, FoldShape, FoldInput, Folded, LoadsInBounds, CoversOnce
<1> QED BY <1>1, <1>2, <1>3, <1>5, <1>6
        DEF IInv, Dispatched, Entered, Idle, Running, Pending, Answered

\* The invariant of the call after a step of its kernel, from what the kernel keeps.
LEMMA KernelKeeps ==
  ASSUME IInv, tier \in VectorTiers, UNCHANGED call, UNCHANGED input,
         pc' \in {"loop", "done"},
         op \in PrefixOps => PrefixInv' /\ (pc' = "loop" => res' = res) /\ pc # "done",
         op \in FoldOps => FoldInv'
  PROVE  IInv'
<1>1. UNCHANGED <<build, api, count, op, len, match>> /\ UNCHANGED <<tier, backend>>
  BY DEF call, input
<1>2. Chosen' = Chosen /\ CallShape' /\ CallInput'
  BY <1>1, ChosenKept, CallKept DEF IInv
<1>3. Dispatched' /\ Entered' /\ Idle' /\ Running'
  <2>1. tier = Chosen
    BY DEF IInv, Dispatched, VectorTiers
  <2> QED BY <1>1, <1>2, <2>1 DEF IInv, Dispatched, Entered, Idle, Running
<1>4. Pending'
  BY <1>1 DEF IInv, Pending
<1>5. Answered'
  <2>1. op \in FoldOps => CountsEachMatchOnce' /\ ReturnsLastMatch'
    BY FoldInvResult, PTL
  <2> QED BY <1>1, <2>1 DEF Answered, PrefixInv
<1> QED BY <1>1, <1>2, <1>3, <1>4, <1>5 DEF IInv

\* Every step of a call preserves the invariant.
LEMMA IInvStep == IInv /\ [Next]_vars => IInv'
<1> SUFFICES ASSUME IInv, [Next]_vars PROVE IInv'
  OBVIOUS
<1>1. CASE UNCHANGED vars
  <2>1. /\ UNCHANGED <<build, api, count, op, len, match>>
        /\ UNCHANGED <<tier, pc, cur, res, loads, backend>>
    BY <1>1 DEF vars, call, kernelVars
  <2>2. Chosen' = Chosen /\ CallShape' = CallShape /\ CallInput' = CallInput
    BY <2>1, ChosenKept, CallKept
  <2>3. PrefixInv' = PrefixInv /\ FoldInv' = FoldInv
    <3>1. UNCHANGED input
      BY <2>1 DEF input
    <3> QED BY <2>1
            DEF PrefixInv, PrefixTypeOK, LoopInv, LoadsInBounds, ReturnsFirstStop, FoldInv,
                FoldShape, FoldInput, Folded, FoldTo, Joined, Matches, FoldFront, Empty,
                Tiled, Tiles, CoversOnce, StopSet, Exhausted, Chunk, WellFormed, overlapStart
  <2>4. Answered' = Answered
    BY <2>1 DEF Answered, ReturnsFirstStop, StopSet, Exhausted, CountsEachMatchOnce,
                ReturnsLastMatch
  <2> QED BY <2>1, <2>2, <2>3, <2>4
          DEF IInv, Dispatched, Entered, Idle, Running, Pending
<1>2. CASE Next
  <2>1. CASE DispatchEmpty \/ DispatchScalar
    BY <2>1, DispatchAnswers
  <2>2. CASE DispatchVector
    BY <2>2, DispatchEnters
  <2>3. CASE KernelScans
    <3> USE <2>3 DEF KernelScans
    <3>1. PrefixInv /\ op \notin FoldOps
      BY <2>3 DEF IInv, Running, PrefixOps, FoldOps
    <3>2. UNCHANGED input /\ pc # "done" /\ pc' \in {"loop", "done"}
      BY <3>1, PrefixStepShape
    <3>3. PrefixInv'
      BY <2>3, <3>1, PrefixInvStep DEF PrefixNext
    <3>4. pc' = "loop" => res' = res
      BY <2>3 DEF PrefixStep, PrefixShort, ProbeHit, ProbeMiss, PairClean, PairHit,
         SingleClean, SingleHit, PrefixNoTail, PrefixTail, Return, Advance
    <3> QED BY <2>3, <3>1, <3>2, <3>3, <3>4, KernelKeeps
  <2>4. CASE KernelFolds
    <3> USE <2>4 DEF KernelFolds
    <3>1. FoldInv /\ op \notin PrefixOps
      BY <2>4 DEF IInv, Running, PrefixOps, FoldOps
    <3>2. UNCHANGED input /\ pc' \in {"loop", "done"}
      BY <2>4, <3>1, FrontierMoves
    <3>3. FoldInv'
      BY <2>4, <3>1, FoldInvStep DEF FoldNext
    <3> QED BY <2>4, <3>1, <3>2, <3>3, KernelKeeps
  <2>5. CASE Returned /\ UNCHANGED call
    BY <1>1, <2>5 DEF Returned, vars
  <2>6. CallShape
    BY DEF IInv
  <2> QED BY <1>2, <2>1, <2>2, <2>3, <2>4, <2>5, <2>6, StepShape
<1> QED BY <1>1, <1>2

\* The invariant holds of every call.
LEMMA IInvAlways == Spec => []IInv
BY IInvInit, IInvStep, PTL DEF Spec

-----------------------------------------------------------------------------
(* The answer.                                                              *)

\* The variables of a call keep their types: the cursor and the answer never pass
\* the end of the input, and the backend is that of the tier.
THEOREM CallTypes == Spec => []TypeOK
<1>1. IInv => TypeOK
  <2> SUFFICES ASSUME IInv PROVE TypeOK
    OBVIOUS
  <2>1. CallShape /\ len \in Nat /\ match \subseteq 0 .. len - 1
    BY DEF IInv, CallShape, CallInput
  <2>2. op \in PrefixOps \/ op \in FoldOps
    BY <2>1, OpsOfApis
  <2>3. cur \in 0 .. len
    BY <2>1, <2>2
       DEF IInv, Idle, Running, PrefixInv, PrefixTypeOK, FoldInv, FoldShape
  <2>4. res \in 0 .. len \cup {None}
    <3>1. CASE pc \in {"call", "entry"}
      BY <3>1 DEF IInv, Idle
    <3>2. CASE pc = "loop" /\ op \in PrefixOps
      BY <3>2 DEF IInv, Pending
    <3>3. CASE pc = "done" /\ op \in PrefixOps
      <4>1. StopSet \subseteq 0 .. len - 1
        BY <2>1 DEF StopSet
      <4>2. /\ StopSet = {} => res = Exhausted
            /\ StopSet # {} => res \in StopSet
        BY <3>3 DEF IInv, Answered, ReturnsFirstStop
      <4>3. StopSet \subseteq 0 .. len
        BY <2>1, <4>1
      <4>4. Exhausted \in 0 .. len \cup {None}
        BY <2>1 DEF Exhausted
      <4> QED BY <4>2, <4>3, <4>4
    <3>4. CASE pc = "loop" /\ op \in FoldOps
      <4>1. FoldInv
        BY <3>4 DEF IInv, Entered, Running
      <4>2. res \in IF op = "count" THEN 0 .. len ELSE match \cup {None}
        BY <3>4, <4>1, FoldInvResult DEF FoldTypeOK
      <4>3. match \subseteq 0 .. len
        BY <2>1
      <4> QED BY <4>2, <4>3
    <3>5. CASE pc = "done" /\ op \in FoldOps
      <4>1. Cardinality(match) \in 0 .. len
        BY <2>1, PositionsFinite
      <4>2. /\ op = "count" => res = Cardinality(match)
            /\ op = "last" => res \in match \cup {None}
        BY <3>5 DEF IInv, Answered, CountsEachMatchOnce, ReturnsLastMatch
      <4>3. match \subseteq 0 .. len
        BY <2>1
      <4> QED BY <3>5, <4>1, <4>2, <4>3 DEF FoldOps
    <3> QED BY <2>2, <3>1, <3>2, <3>3, <3>4, <3>5 DEF IInv
  <2>5. tier \in VectorTiers \cup {"none", "empty", "scalar"}
    BY <2>1, ChosenSound DEF IInv, Dispatched
  <2> QED BY <2>1, <2>3, <2>4, <2>5 DEF IInv, CallShape, CallInput, Dispatched, TypeOK
<1> QED BY <1>1, IInvAlways, PTL

\* Whatever tier runs a call, on whatever build, the caller gets the answer that the
\* function documents: the first stop, the number of matches or the last of them.
THEOREM TiersAgree == Spec => []CallCorrect
<1>1. IInv => CallCorrect
  <2> SUFFICES ASSUME IInv, pc = "done" PROVE CallCorrect
    BY DEF CallCorrect
  <2>1. CallShape /\ len \in Nat /\ match \subseteq 0 .. len - 1
    BY DEF IInv, CallShape, CallInput
  <2>2. /\ op \in PrefixOps => IF StopSet = {} THEN res = Exhausted
                               ELSE res \in StopSet /\ \A i \in StopSet : res <= i
        /\ op = "count" => res = Cardinality(match)
        /\ op = "last" => IF match = {} THEN res = None
                          ELSE res \in match /\ \A i \in match : i <= res
    BY DEF IInv, Answered, ReturnsFirstStop, CountsEachMatchOnce, ReturnsLastMatch, FoldOps
  <2>3. CASE api \in {"contains_any", "skip_until_newline"}
    <3>1. op = "until"
      BY <2>1, <2>3, OpsOfApis
    <3>2. IF match = {} THEN res = None ELSE res \in match /\ \A i \in match : res <= i
      BY <2>2, <3>1 DEF StopSet, Exhausted, PrefixOps
    <3>3. res = None <=> match = {}
      <4>1. match \subseteq Nat
        BY <2>1
      <4>2. match # {} => res \in match
        BY <3>2, Zenon
      <4> QED BY <3>2, <4>1, <4>2, NoneAssumption
    <3>4. CASE api = "skip_until_newline"
      BY <3>1, <3>2, <3>3, <3>4 DEF CallCorrect, Answer, PrefixOps
    <3>5. CASE api = "contains_any"
      <4>1. Answer = (match # {})
        BY <3>3, <3>5 DEF Answer
      <4> QED BY <3>1, <3>5, <4>1 DEF CallCorrect, PrefixOps
    <3> QED BY <2>3, <3>4, <3>5
  <2>4. CASE api \notin {"contains_any", "skip_until_newline"}
    <3>1. Answer = res
      BY <2>4 DEF Answer
    <3>2. CASE op \in PrefixOps
      BY <2>2, <2>4, <3>1, <3>2 DEF CallCorrect
    <3>3. CASE op = "count"
      BY <2>2, <2>4, <3>1, <3>3 DEF CallCorrect, PrefixOps
    <3>4. CASE op = "last"
      BY <2>2, <2>4, <3>1, <3>4 DEF CallCorrect, PrefixOps
    <3> QED BY <2>1, <3>2, <3>3, <3>4, OpsOfApis DEF FoldOps
  <2> QED BY <2>3, <2>4
<1> QED BY <1>1, IInvAlways, PTL

\* No vector load of any call leaves the caller's slice, whatever tier the length and
\* the build select.
THEOREM CallMemorySafe == Spec => []LoadsInBounds
<1>1. IInv => LoadsInBounds
  <2> SUFFICES ASSUME IInv PROVE LoadsInBounds
    OBVIOUS
  <2>1. op \in PrefixOps \/ op \in FoldOps
    BY OpsOfApis DEF IInv
  <2> QED BY <2>1 DEF IInv, Idle, Running, PrefixInv, FoldInv, LoadsInBounds
<1> QED BY <1>1, IInvAlways, PTL

-----------------------------------------------------------------------------
(* The dispatch.                                                            *)

\* No function compiled for a target feature runs on a processor without it, in
\* any build and for any cfgs: what is available is either detected or was given
\* to the compiler.
THEOREM FeaturesSafe == Spec => []FeatureSafe
<1>1. IInv => FeatureSafe
  <2> SUFFICES ASSUME IInv, tier \in VectorTiers PROVE Requires[tier] \in build.cpu
    BY DEF FeatureSafe
  <2>1. CallShape /\ tier = Chosen
    BY DEF IInv, Dispatched, VectorTiers
  <2>2. Available(build, Requires[tier])
    BY <2>1, ChosenSound
  <2>3. build.static \subseteq build.cpu
    BY <2>1, BuildAssumption DEF CallShape
  <2> QED BY <2>2, <2>3 DEF Available
<1> QED BY <1>1, IInvAlways, PTL

\* Only SSE4.2 is ever entered with less than a chunk by a prefix scan.
THEOREM GuardsDefensive == Spec => []GuardsAreDefensive
<1>1. IInv => GuardsAreDefensive
  <2> SUFFICES ASSUME IInv, pc = "entry", op \in PrefixOps, tier # "sse42"
               PROVE  len >= Width[tier]
    BY DEF GuardsAreDefensive
  <2>1. CallShape /\ tier = Chosen /\ tier \in VectorTiers \ {"sse42"}
    BY DEF IInv, Dispatched, Entered
  <2>2. Width[tier] <= len
    BY <2>1, ChosenSound
  <2> QED BY <2>1, <2>2, UnitAssumption DEF CallShape, Width, VectorTiers
<1> QED BY <1>1, IInvAlways, PTL

\* Whatever probe a build asks for, it is never longer than a chunk, so the slice
\* that the class functions probe exists.
THEOREM ProbeFits == Spec => []ProbeInBounds
<1>1. IInv => ProbeInBounds
  <2> SUFFICES ASSUME IInv, pc = "entry", len >= Width[tier] PROVE ProbeOf[tier] <= len
    BY DEF ProbeInBounds
  <2>1. len \in Nat /\ tier \in VectorTiers
    BY DEF IInv, CallShape, Entered
  <2>2. ProbeOf[tier] \in 1 .. Width[tier]
    BY <2>1, ProbeRange
  <2>3. Width[tier] \in Nat
    BY <2>1, UnitAssumption DEF Width, VectorTiers
  <2> QED BY <2>1, <2>2, <2>3
<1> QED BY <1>1, IInvAlways, PTL

-----------------------------------------------------------------------------
(* The order of the tiers.                                                  *)

\* With four units of input and two needles no dispatcher of a built-in function
\* makes an exception: the tier is the widest of the architecture.
LEMMA WidestChosen ==
  ASSUME CallShape, len >= 4 * Unit, count >= 2, api # "custom_class"
  PROVE  /\ build.target = "aarch64" => Chosen = OrScalar(build, "neon", "neon")
         /\ build.target \in {"x86", "x86_64"} => Chosen = X86Widest(build)
         /\ build.target = "wasm32" => Chosen = OrScalar(build, "simd128", "simd128")
         /\ build.target \notin {"aarch64", "x86", "x86_64", "wasm32"} => Chosen = "scalar"
<1> USE UnitAssumption
<1>1. /\ len \in Nat /\ len >= Unit /\ len >= 2 * Unit /\ ~(len < Unit) /\ ~(len < 2 * Unit)
      /\ NeedleCount \in Nat \ {0} /\ (api = "skip_while" => ~(NeedleCount <= 1))
      /\ api = "find_last" => NeedleCount # 0
  BY DEF CallShape, NeedleCount
<1>2. X86ByLength(build, len) = X86Widest(build)
  BY <1>1 DEF X86ByLength, X86Widest
<1>3. CASE op = "until"
  <2>1. Chosen = UntilTier(build, len, NeedleCount)
    <3>1. api \notin {"skip_while", "skip_class", "custom_class", "count_matches", "find_last"}
      BY <1>3, UntilApis
    <3> QED BY <1>3, <3>1 DEF Chosen
  <2> QED BY <1>1, <1>2, <2>1 DEF UntilTier
<1>4. CASE api = "skip_while"
  <2>1. Chosen = WhileTier(build, len, NeedleCount)
    BY <1>4 DEF Chosen, CallShape, OpOf, Apis
  <2> QED BY <1>1, <1>2, <1>4, <2>1 DEF WhileTier
<1>5. CASE api = "skip_class"
  <2>1. Chosen = ClassTier(build, len)
    BY <1>5 DEF Chosen, CallShape, OpOf, Apis
  <2> QED BY <1>1, <1>2, <2>1 DEF ClassTier
<1>6. CASE api = "count_matches"
  <2>1. Chosen = CountTier(build)
    BY <1>6 DEF Chosen, CallShape, OpOf, Apis
  <2> QED BY <2>1 DEF CountTier
<1>7. CASE api = "find_last"
  <2>1. Chosen = LastTier(build, NeedleCount)
    BY <1>7 DEF Chosen, CallShape, OpOf, Apis
  <2> QED BY <1>1, <1>7, <2>1 DEF LastTier
<1> QED BY <1>3, <1>4, <1>5, <1>6, <1>7 DEF CallShape, OpOf, Apis

\* The first of the positions that are usable is the least.
LEMMA FirstUsable ==
  ASSUME NEW U, U \subseteq 1 .. 3, NEW k \in U, \A j \in U : k <= j
  PROVE  Min(U) = k
<1>1. U \subseteq Nat /\ U # {}
  OBVIOUS
<1>2. Min(U) \in U /\ \A x \in U : Min(U) <= x
  BY <1>1, MinProperty
<1>3. Min(U) \in Nat /\ k \in Nat /\ Min(U) <= k /\ k <= Min(U)
  BY <1>1, <1>2
<1> QED BY <1>3

\* The dispatch order of the README holds of every build: a call of a built-in
\* function with at least four units of input and two needles runs on the first
\* tier of its architecture's list that is available.
THEOREM OrderKept == Spec => []DispatchOrder
<1>1. IInv => DispatchOrder
  <2> DEFINE order == CASE build.target = "x86_64"  -> <<"avx512", "avx2", "sse42">>
                        [] build.target = "x86"     -> <<"sse42">>
                        [] build.target = "aarch64" -> <<"neon">>
                        [] build.target = "wasm32"  -> <<"simd128">>
                        [] OTHER                    -> <<>>
             usable == {k \in DOMAIN order : Available(build, Requires[order[k]])}
  <2> SUFFICES ASSUME IInv, tier \notin {"none", "empty"}, len >= 4 * Unit,
                      count >= 2, api # "custom_class"
               PROVE  tier = IF usable = {} THEN "scalar" ELSE order[Min(usable)]
    BY DEF DispatchOrder
  <2>1. CallShape /\ tier = Chosen
    BY DEF IInv, Dispatched
  <2>2. CASE build.target = "x86_64"
    <3>1. order = <<"avx512", "avx2", "sse42">>
      BY <2>2
    <3>2. usable = {k \in 1 .. 3 : Available(build, Requires[order[k]])}
      BY <3>1
    <3>3. /\ 1 \in usable <=> Available(build, "avx512bw")
          /\ 2 \in usable <=> Available(build, "avx2")
          /\ 3 \in usable <=> Available(build, "sse42")
      BY <3>1, <3>2 DEF Requires
    <3>4. tier = X86Widest(build)
      BY <2>1, <2>2, WidestChosen
    <3> HIDE DEF usable
    <3>5. usable \subseteq 1 .. 3
      BY <3>2
    <3>6. CASE 1 \in usable
      <4>1. \A j \in usable : 1 <= j
        BY <3>5, <3>6
      <4>2. Min(usable) = 1
        BY <3>5, <3>6, <4>1, FirstUsable
      <4> QED BY <3>1, <3>3, <3>4, <3>6, <4>2 DEF X86Widest
    <3>7. CASE 1 \notin usable /\ 2 \in usable
      <4>1. \A j \in usable : 2 <= j
        BY <3>5, <3>7
      <4>2. Min(usable) = 2
        BY <3>5, <3>7, <4>1, FirstUsable
      <4> QED BY <3>1, <3>3, <3>4, <3>7, <4>2 DEF X86Widest
    <3>8. CASE 1 \notin usable /\ 2 \notin usable /\ 3 \in usable
      <4>1. \A j \in usable : 3 <= j
        BY <3>5, <3>8
      <4>2. Min(usable) = 3
        BY <3>5, <3>8, <4>1, FirstUsable
      <4> QED BY <3>1, <3>3, <3>4, <3>8, <4>2 DEF X86Widest
    <3>9. CASE 1 \notin usable /\ 2 \notin usable /\ 3 \notin usable
      BY <3>3, <3>4, <3>5, <3>9 DEF X86Widest
    <3> QED BY <3>6, <3>7, <3>8, <3>9
  <2>3. ASSUME NEW f \in Features, NEW t, Requires[t] = f, order = <<t>>,
               tier = OrScalar(build, f, t)
        PROVE  tier = IF usable = {} THEN "scalar" ELSE order[Min(usable)]
    <3>1. usable = IF Available(build, f) THEN {1} ELSE {}
      BY <2>3
    <3> HIDE DEF usable
    <3>2. Min({1}) = 1
      BY FirstUsable
    <3> QED BY <2>3, <3>1, <3>2 DEF OrScalar
  <2>4. CASE build.target = "x86"
    <3>1. X86Widest(build) = OrScalar(build, "sse42", "sse42")
      BY <2>4 DEF X86Widest, OrScalar, Available, Targets
    <3>2. order = <<"sse42">> /\ tier = OrScalar(build, "sse42", "sse42")
      BY <2>1, <2>4, <3>1, WidestChosen
    <3> HIDE DEF order
    <3> QED BY <2>3, <3>2 DEF Requires, Features
  <2>5. CASE build.target = "aarch64"
    <3>1. order = <<"neon">> /\ tier = OrScalar(build, "neon", "neon")
      BY <2>1, <2>5, WidestChosen
    <3> HIDE DEF order
    <3> QED BY <2>3, <3>1 DEF Requires, Features
  <2>6. CASE build.target = "wasm32"
    <3>1. order = <<"simd128">> /\ tier = OrScalar(build, "simd128", "simd128")
      BY <2>1, <2>6, WidestChosen
    <3> HIDE DEF order
    <3> QED BY <2>3, <3>1 DEF Requires, Features
  <2>7. CASE build.target \notin {"aarch64", "x86", "x86_64", "wasm32"}
    <3>1. order = <<>> /\ tier = "scalar"
      BY <2>1, <2>7, WidestChosen
    <3> QED BY <3>1
  <2> QED BY <2>2, <2>4, <2>5, <2>6, <2>7
<1> QED BY <1>1, IInvAlways, PTL

-----------------------------------------------------------------------------
(* The refinements.                                                         *)

\* The operation of a call, and with it the abstraction that the call implements,
\* never changes; neither do the input and the build.
LEMMA InputStays ==
  ASSUME IInv, [Next]_vars
  PROVE  /\ UNCHANGED <<op, len, match>>
         /\ StopSet' = StopSet /\ IsScan' = IsScan
<1>1. UNCHANGED <<op, len, match>>
  <2>1. CASE UNCHANGED vars
    BY <2>1 DEF vars, kernelVars
  <2>2. CASE DispatchEmpty \/ DispatchScalar \/ DispatchVector
    BY <2>2 DEF DispatchEmpty, DispatchScalar, DispatchVector, input
  <2>3. CASE KernelScans
    BY <2>3, PrefixStepShape DEF KernelScans, IInv, Running, input
  <2>4. CASE KernelFolds
    BY <2>4, FrontierMoves DEF KernelFolds, IInv, Running, input
  <2>5. CASE Returned
    BY <2>5 DEF Returned, kernelVars
  <2> QED BY <2>1, <2>2, <2>3, <2>4, <2>5, StepShape DEF IInv
<1> QED BY <1>1 DEF StopSet, IsScan

\* The dispatcher's own answer to a scan is the first stop after none was passed.
LEMMA DispatchScans ==
  ASSUME IInv, IInv', DispatchEmpty \/ DispatchScalar, IsScan
  PROVE  CallOfScan!Answer
<1>1. /\ UNCHANGED <<op, len, match>> /\ pc = "call" /\ pc' = "done" /\ cur = 0
      /\ len \in Nat /\ match \subseteq 0 .. len - 1
  BY DEF DispatchEmpty, DispatchScalar, input, IInv, Idle, CallShape, CallInput
<1>2. StopSet' = StopSet /\ Exhausted' = Exhausted /\ IsScan' /\ StopSet \subseteq 0 .. len - 1
  BY <1>1 DEF StopSet, Exhausted, IsScan
<1>3. IF StopSet = {} THEN res' = Exhausted
      ELSE res' \in StopSet /\ \A i \in StopSet : res' <= i
  BY <1>1, <1>2 DEF IInv, Answered, ReturnsFirstStop, IsScan
<1> DEFINE f == IF res' = None THEN len ELSE res'
<1>4. f \in 0 .. len /\ (f = len \/ f \in StopSet) /\ \A i \in StopSet : f <= i
  <2>1. CASE StopSet = {}
    BY <1>1, <1>3, <2>1 DEF Exhausted
  <2>2. CASE StopSet # {}
    <3>1. res' \in StopSet /\ \A i \in StopSet : res' <= i
      BY <1>3, <2>2
    <3>2. res' \in 0 .. len - 1
      BY <1>2, <3>1
    <3>3. f = res'
      BY <1>1, <3>2, NoneAssumption
    <3> QED BY <1>1, <3>1, <3>2, <3>3
  <2> QED BY <2>1, <2>2
<1>5. \A i \in 0 .. f - 1 : i \notin StopSet
  BY <1>1, <1>4
<1>6. ScanFront = 0 /\ ScanFront' = f
  BY <1>1 DEF ScanFront
<1> HIDE DEF f
<1> QED BY <1>1, <1>2, <1>4, <1>5, <1>6 DEF CallOfScan!Answer, CallOfScan!Clear

\* Every step of a scan is a step of the abstract scan: the dispatcher passes no
\* byte or answers, and its kernel implements the scan already.
LEMMA CallScanStep ==
  IInv /\ IInv' /\ [Next]_vars => [CallOfScan!Next]_(CallOfScan!vars)
<1> SUFFICES ASSUME IInv, IInv', [Next]_vars
             PROVE  [CallOfScan!Next]_(CallOfScan!vars)
  OBVIOUS
<1>1. /\ UNCHANGED <<op, len, match>> /\ StopSet' = StopSet /\ IsScan' = IsScan
  BY InputStays
<1>2. CASE ~IsScan
  BY <1>1, <1>2 DEF CallOfScan!vars
<1>3. CASE IsScan
  <2>1. CASE UNCHANGED <<pc, cur, res>>
    BY <1>1, <2>1 DEF CallOfScan!vars, ScanFront
  <2>2. CASE DispatchEmpty \/ DispatchScalar
    BY <1>3, <2>2, DispatchScans DEF CallOfScan!Next
  <2>3. CASE DispatchVector
    BY <1>1, <2>3 DEF DispatchVector, CallOfScan!vars, ScanFront
  <2>4. CASE KernelScans
    <3>1. PrefixInv /\ PrefixInv'
      BY <1>1, <2>4 DEF KernelScans, call, IInv, Running
    <3>2. [PrefixScan!Next]_(PrefixScan!vars)
      BY <2>4, <3>1, PrefixStepRefines DEF KernelScans, PrefixNext
    <3>3. CASE PrefixScan!Advance
      BY <1>1, <1>3, <3>3 DEF PrefixScan!Advance, PrefixScan!Clear,
         CallOfScan!Next, CallOfScan!Advance, CallOfScan!Clear
    <3>4. CASE PrefixScan!Answer
      BY <1>1, <1>3, <3>4 DEF PrefixScan!Answer, PrefixScan!Clear,
         CallOfScan!Next, CallOfScan!Answer, CallOfScan!Clear
    <3>5. CASE UNCHANGED PrefixScan!vars
      BY <1>1, <1>3, <3>5 DEF PrefixScan!vars, CallOfScan!vars
    <3> QED BY <3>2, <3>3, <3>4, <3>5 DEF PrefixScan!Next
  <2>5. ~KernelFolds
    BY <1>3 DEF KernelFolds, IsScan, PrefixOps, FoldOps
  <2>6. CASE Returned \/ UNCHANGED vars
    BY <2>1, <2>6 DEF Returned, vars, kernelVars
  <2> QED BY <2>2, <2>3, <2>4, <2>5, <2>6, StepShape DEF IInv
<1> QED BY <1>2, <1>3

\* Whatever tier it runs on, a prefix scan implements the abstract scan from the
\* dispatch to the answer.
THEOREM CallImplementsScan == Spec => CallScan
<1>1. Init => CallOfScan!Init
  <2> SUFFICES ASSUME Init PROVE CallOfScan!Init
    OBVIOUS
  <2>1. IInv /\ pc = "call" /\ cur = 0
    BY IInvInit DEF Init
  <2>2. len \in Nat /\ StopSet \subseteq 0 .. len - 1
    BY <2>1 DEF IInv, CallShape, CallInput, StopSet
  <2> QED BY <2>1, <2>2 DEF CallOfScan!Init, ScanFront
<1>2. IInv /\ IInv' /\ [Next]_vars => [CallOfScan!Next]_(CallOfScan!vars)
  BY CallScanStep
<1> QED BY <1>1, <1>2, IInvAlways, PTL DEF Spec, CallScan, CallOfScan!Spec

\* A fold that adds the matches up to its new frontier is a step of the abstract one.
LEMMA AbsorbsAbstractly ==
  ASSUME op \in FoldOps, UNCHANGED <<op, len, match>>, pc # "done",
         FoldFront' \in FoldFront .. len, pc' = "done" => FoldFront' = len,
         Acc' = Joined(Acc, Matches(FoldFront, FoldFront'))
  PROVE  CallOfTally!Next
<1>1. ~IsScan /\ ~IsScan'
  BY DEF IsScan, PrefixOps, FoldOps
<1>2. PICK n \in FoldFront .. len : n = FoldFront'
  OBVIOUS
<1>3. Joined(Acc, Matches(FoldFront, n)) = CallOfTally!Absorbed(FoldFront, n)
  <2>1. CASE op = "count"
    <3>1. Cardinality(Matches(FoldFront, n)) = CallOfTally!Cardinality(Matches(FoldFront, n))
      BY Zenon DEF Cardinality, CallOfTally!Cardinality
    <3> QED BY <1>1, <2>1, <3>1 DEF Joined, Matches, CallOfTally!Absorbed
  <2>2. CASE op = "last"
    <3>1. op # "count"
      BY <2>2
    <3> QED BY <1>1, <2>2, <3>1
            DEF Joined, Matches, CallOfTally!Absorbed, Max, CallOfTally!Max
  <2> QED BY <2>1, <2>2 DEF FoldOps
<1> QED BY <1>1, <1>2, <1>3 DEF CallOfTally!Next, CallOfTally!Absorb, CallOfTally!Absorbed

\* The dispatcher's own answer to a fold is the fold of the whole input.
LEMMA DispatchFolds ==
  ASSUME IInv, IInv', DispatchEmpty \/ DispatchScalar, ~IsScan
  PROVE  CallOfTally!Next
<1>1. /\ UNCHANGED <<op, len, match>> /\ pc = "call" /\ pc' = "done" /\ cur = 0
      /\ len \in Nat /\ match \subseteq 0 .. len - 1
  BY DEF DispatchEmpty, DispatchScalar, input, IInv, Idle, CallShape, CallInput
<1>2. op \in FoldOps
  BY OpsOfApis DEF IInv, IsScan
<1>3. FoldFront = 0 /\ FoldFront' = len /\ Acc = Empty /\ Acc' = res'
  BY <1>1 DEF FoldFront, Acc
<1>4. Matches(0, len) = match
  BY <1>1 DEF Matches
<1>5. res' = Joined(Empty, match)
  <2>1. CountsEachMatchOnce' /\ ReturnsLastMatch'
    BY <1>1, <1>2 DEF IInv, Answered
  <2>2. CASE op = "count"
    <3>1. Cardinality(match) \in 0 .. len
      BY <1>1, PositionsFinite
    <3>2. res' = Cardinality(match)
      BY <1>1, <2>1, <2>2 DEF CountsEachMatchOnce
    <3>3. Joined(Empty, match) = 0 + Cardinality(match)
      BY <2>2 DEF Joined, Empty
    <3> QED BY <3>1, <3>2, <3>3
  <2>3. CASE op = "last"
    <3>1. CASE match = {}
      BY <1>1, <2>1, <2>3, <3>1 DEF ReturnsLastMatch, Joined, Empty
    <3>2. CASE match # {}
      <4>1. res' \in match /\ \A i \in match : i <= res'
        BY <1>1, <2>1, <2>3, <3>2 DEF ReturnsLastMatch
      <4>2. match \subseteq 0 .. len
        BY <1>1
      <4>3. Max(match) \in match /\ \A i \in match : i <= Max(match)
        BY <1>1, <3>2, <4>2, MaxProperty
      <4>4. PICK r \in match : r = res'
        BY <4>1
      <4>5. \A i \in match : i <= r
        BY <4>1, <4>4, Zenon
      <4>6. r <= Max(match) /\ Max(match) <= r
        BY <4>3, <4>5, Zenon
      <4>7. match \subseteq Nat
        BY <1>1
      <4>8. r \in Nat /\ Max(match) \in Nat
        BY <4>3, <4>7, Zenon
      <4>9. res' = Max(match)
        BY <4>4, <4>6, <4>8
      <4> QED BY <2>3, <3>2, <4>9 DEF Joined
    <3> QED BY <3>1, <3>2
  <2> QED BY <1>2, <2>2, <2>3 DEF FoldOps
<1> QED BY <1>1, <1>2, <1>3, <1>4, <1>5, AbsorbsAbstractly

\* Every step of a fold is a step of the abstract one: the dispatcher folds nothing
\* or the whole input, and its kernel implements the fold already.
LEMMA CallTallyStep ==
  IInv /\ IInv' /\ [Next]_vars => [CallOfTally!Next]_(CallOfTally!vars)
<1> SUFFICES ASSUME IInv, IInv', [Next]_vars
             PROVE  [CallOfTally!Next]_(CallOfTally!vars)
  OBVIOUS
<1>1. /\ UNCHANGED <<op, len, match>> /\ IsScan' = IsScan
  BY InputStays
<1>2. CASE IsScan
  BY <1>1, <1>2 DEF CallOfTally!vars
<1>3. CASE ~IsScan
  <2>1. CASE UNCHANGED <<pc, cur, res>>
    BY <1>1, <2>1 DEF CallOfTally!vars, FoldFront, Acc, Empty
  <2>2. CASE DispatchEmpty \/ DispatchScalar
    BY <1>3, <2>2, DispatchFolds
  <2>3. CASE DispatchVector
    BY <1>1, <2>3 DEF DispatchVector, CallOfTally!vars, FoldFront, Acc, Empty
  <2>4. CASE KernelFolds
    <3>1. FoldInv /\ FoldInv' /\ op \in FoldOps
      BY <1>1, <2>4 DEF KernelFolds, call, IInv, Running
    <3>2. /\ pc # "done" /\ pc' \in {"loop", "done"} /\ cur \in Nat
          /\ FoldFront' \in cur .. len
          /\ res' = Joined(Acc, Matches(cur, FoldFront'))
      BY <2>4, <3>1, FoldAbsorbs DEF KernelFolds
    <3>3. FoldFront = cur /\ Acc' = res' /\ (pc' = "done" => FoldFront' = len)
      BY <1>1, <3>2 DEF FoldFront, Acc
    <3> QED BY <1>1, <3>1, <3>2, <3>3, AbsorbsAbstractly
  <2>5. ~KernelScans
    BY <1>3 DEF KernelScans, IsScan
  <2>6. CASE Returned \/ UNCHANGED vars
    BY <2>1, <2>6 DEF Returned, vars, kernelVars
  <2> QED BY <2>2, <2>3, <2>4, <2>5, <2>6, StepShape DEF IInv
<1> QED BY <1>2, <1>3

\* Whatever tier they run on, count_matches and find_last implement the abstract
\* fold: after every step the accumulator is the fold of the bytes passed.
THEOREM CallImplementsTally == Spec => CallTally
<1>1. Init => CallOfTally!Init
  <2> SUFFICES ASSUME Init PROVE CallOfTally!Init
    OBVIOUS
  <2>1. IInv /\ pc = "call" /\ cur = 0
    BY IInvInit DEF Init
  <2>2. len \in Nat /\ match \subseteq 0 .. len - 1 /\ (IsScan \/ op \in {"count", "last"})
    BY <2>1, OpsOfApis DEF IInv, CallShape, CallInput, IsScan, FoldOps
  <2> QED BY <2>1, <2>2 DEF CallOfTally!Init, FoldFront, Acc, Empty
<1>2. IInv /\ IInv' /\ [Next]_vars => [CallOfTally!Next]_(CallOfTally!vars)
  BY CallTallyStep
<1> QED BY <1>1, <1>2, IInvAlways, PTL DEF Spec, CallTally, CallOfTally!Spec
=============================================================================
