------------------------------ MODULE Dispatch ------------------------------
(* Which tier a public call runs on: the availability functions of          *)
(* utils.rs and the dispatchers of skip/mod.rs and of the skip_class!       *)
(* macro, as functions of the build, the entry point, the length of the     *)
(* input and the number of needles.                                         *)
EXTENDS Integers

CONSTANTS
  Unit,       \* the 16 bytes of a 128-bit register; every width and threshold
              \* of the crate is a multiple or a fraction of it
  Override    \* CLASS_PROBE_OVERRIDE: 0 unless memspan_class_probe is set

ASSUME UnitAssumption == Unit \in Nat /\ Unit >= 2 /\ Unit % 2 = 0
ASSUME OverrideAssumption == Override \in Nat

Features == {"neon", "sse42", "avx2", "avx512bw", "simd128"}

\* A build, and the processor it runs on:
\*   target   the architecture
\*   std      whether feature "std" is on, so that features are detected
\*            while running rather than fixed by the compiler
\*   static   the target features the compiler was given
\*   cpu      the features of the processor
\*   cfgs     the memspan_ cfgs set
Builds ==
  [target : {"aarch64", "x86", "x86_64", "wasm32", "other"},
   std    : BOOLEAN,
   static : SUBSET Features,
   cpu    : SUBSET Features,
   cfgs   : SUBSET {"force_scalar", "disable_sse42", "disable_avx2",
                    "disable_avx512", "disable_simd128"}]

\* the targets whose code mentions a feature at all
Targets == [neon     |-> {"aarch64"},
            sse42    |-> {"x86", "x86_64"},
            avx2     |-> {"x86_64"},
            avx512bw |-> {"x86_64"},
            simd128  |-> {"wasm32"}]

Disabling == [neon     |-> {},
              sse42    |-> {"disable_sse42"},
              avx2     |-> {"disable_avx2"},
              avx512bw |-> {"disable_avx512"},
              simd128  |-> {"disable_simd128"}]

\* neon_available, sse42_available, avx2_available, avx512bw_available and
\* simd128_available, the last compile-time only
Available(b, f) ==
  /\ b.target \in Targets[f]
  /\ "force_scalar" \notin b.cfgs
  /\ Disabling[f] \cap b.cfgs = {}
  /\ f \in IF b.std /\ f # "simd128" THEN b.cpu ELSE b.static

-----------------------------------------------------------------------------
(* The tiers.                                                               *)

VectorTiers == {"neon", "sse42", "avx2", "avx512", "simd128"}

\* bytes per vector register
Width == [neon |-> Unit, sse42 |-> Unit, avx2 |-> 2 * Unit,
          avx512 |-> 4 * Unit, simd128 |-> Unit]

\* the feature a tier's functions are compiled for
Requires == [neon |-> "neon", sse42 |-> "sse42", avx2 |-> "avx2",
             avx512 |-> "avx512bw", simd128 |-> "simd128"]

\* Mutant: a probe as wide as the build asks for.
ClassProbeUnclamped(default, chunk) == IF Override = 0 THEN default ELSE Override

\* class_probe: the override if there is one, never more than a chunk
ClassProbe(default, chunk) ==
  LET probe == IF Override = 0 THEN default ELSE Override
  IN  IF probe > chunk THEN chunk ELSE probe

\* CLASS_PROBE of each backend
ProbeOf == [neon    |-> ClassProbe(Unit \div 2, Width.neon),
            sse42   |-> ClassProbe(Unit \div 2, Width.sse42),
            avx2    |-> ClassProbe(Unit \div 2, Width.avx2),
            avx512  |-> ClassProbe(Width.avx512, Width.avx512),
            simd128 |-> ClassProbe(Width.simd128, Width.simd128)]

\* Mutants: avx512 goes by the feature of avx2; avx2 by the length of sse42.
X86ByLengthFeature(b, n) ==
  IF Available(b, "avx2") /\ n >= 4 * Unit THEN "avx512"
  ELSE IF Available(b, "avx2") /\ n >= 2 * Unit THEN "avx2"
  ELSE IF Available(b, "sse42") THEN "sse42"
  ELSE "scalar"

X86ByLengthLow(b, n) ==
  IF Available(b, "avx512bw") /\ n >= 4 * Unit THEN "avx512"
  ELSE IF Available(b, "avx2") /\ n >= Unit THEN "avx2"
  ELSE IF Available(b, "sse42") THEN "sse42"
  ELSE "scalar"

X86ByLength(b, n) ==
  IF Available(b, "avx512bw") /\ n >= 4 * Unit THEN "avx512"
  ELSE IF Available(b, "avx2") /\ n >= 2 * Unit THEN "avx2"
  ELSE IF Available(b, "sse42") THEN "sse42"
  ELSE "scalar"

\* Mutant: avx2 before avx512.
X86WidestSwapped(b) ==
  IF Available(b, "avx2") THEN "avx2"
  ELSE IF Available(b, "avx512bw") THEN "avx512"
  ELSE IF Available(b, "sse42") THEN "sse42"
  ELSE "scalar"

\* the folds take the widest tier whatever the length
X86Widest(b) ==
  IF Available(b, "avx512bw") THEN "avx512"
  ELSE IF Available(b, "avx2") THEN "avx2"
  ELSE IF Available(b, "sse42") THEN "sse42"
  ELSE "scalar"

OrScalar(b, f, tier) == IF Available(b, f) THEN tier ELSE "scalar"

\* skip_until; "empty" is its early return of None
UntilTier(b, n, count) ==
  IF count = 0 THEN "empty"
  ELSE IF n < Unit THEN "scalar"
  ELSE CASE b.target = "aarch64"          -> OrScalar(b, "neon", "neon")
         [] b.target \in {"x86", "x86_64"} -> X86ByLength(b, n)
         [] b.target = "wasm32"           -> OrScalar(b, "simd128", "simd128")
         [] OTHER                         -> "scalar"

WhileTier(b, n, count) ==
  IF count <= 1 \/ n < (IF b.target = "aarch64" THEN 2 * Unit ELSE Unit)
  THEN "scalar"
  ELSE CASE b.target = "aarch64"          -> OrScalar(b, "neon", "neon")
         [] b.target \in {"x86", "x86_64"} -> X86ByLength(b, n)
         [] b.target = "wasm32"           -> OrScalar(b, "simd128", "simd128")
         [] OTHER                         -> "scalar"

\* the fifteen class functions; x86 has no lower bound on the length
ClassTier(b, n) ==
  CASE b.target = "aarch64" /\ n >= 2 * Unit -> OrScalar(b, "neon", "neon")
    [] b.target \in {"x86", "x86_64"}       -> X86ByLength(b, n)
    [] b.target = "wasm32" /\ n >= Unit     -> OrScalar(b, "simd128", "simd128")
    [] OTHER                                -> "scalar"

CountTier(b) ==
  CASE b.target = "aarch64"          -> OrScalar(b, "neon", "neon")
    [] b.target \in {"x86", "x86_64"} -> X86Widest(b)
    [] b.target = "wasm32"           -> OrScalar(b, "simd128", "simd128")
    [] OTHER                         -> "scalar"

LastTier(b, count) ==
  IF count = 0 THEN "empty"
  ELSE CASE b.target = "aarch64"          -> OrScalar(b, "neon", "neon")
         [] b.target \in {"x86", "x86_64"} -> X86Widest(b)
         [] b.target = "wasm32"           -> OrScalar(b, "simd128", "simd128")
         [] OTHER                         -> "scalar"

\* a function generated by skip_class!
CustomTier(b, n) ==
  IF n < 2 * Unit THEN "scalar"
  ELSE IF Available(b, "neon") THEN "neon"
  ELSE IF Available(b, "avx2") THEN "avx2"
  ELSE IF Available(b, "sse42") THEN "sse42"
  ELSE IF Available(b, "simd128") THEN "simd128"
  ELSE "scalar"
=============================================================================
