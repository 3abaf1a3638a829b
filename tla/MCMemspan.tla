------------------------------ MODULE MCMemspan -----------------------------
EXTENDS Memspan

CONSTANT Lengths   \* the input lengths considered

\* at most one byte of the input differs from all the others
SparseInputs ==
  UNION {LET few == {{}} \cup {{i} : i \in 0 .. n - 1}
         IN  {[len |-> n, match |-> m] : m \in few \cup {(0 .. n - 1) \ f : f \in few}} :
           n \in Lengths}

\* nothing matches
BlankInputs == {[len |-> n, match |-> {}] : n \in Lengths}

\* x86 features come in this order: a processor with one has those before it
X86Chain == {{}, {"sse42"}, {"sse42", "avx2"}, {"sse42", "avx2", "avx512bw"}}

PlainBuild(t, features) ==
  [target |-> t, std |-> TRUE, static |-> features, cpu |-> features, cfgs |-> {}]

\* one build per vector tier
TierBuilds == {PlainBuild("aarch64", {"neon"}), PlainBuild("wasm32", {"simd128"})}
                \cup {PlainBuild("x86_64", f) : f \in X86Chain \ {{}}}

\* the builds that compile, each on every processor it may run on: aarch64
\* needs neon at compile time, a wasm module states its features
AllBuilds ==
  {b \in [target : {"x86", "x86_64"}, std : BOOLEAN, static : X86Chain, cpu : X86Chain,
          cfgs : SUBSET {"force_scalar", "disable_sse42", "disable_avx2", "disable_avx512"}] :
     b.static \subseteq b.cpu}
  \cup [target : {"aarch64"}, std : BOOLEAN, static : {{"neon"}}, cpu : {{"neon"}},
        cfgs : SUBSET {"force_scalar"}]
  \cup {b \in [target : {"wasm32"}, std : BOOLEAN, static : {{}, {"simd128"}},
               cpu : {{}, {"simd128"}}, cfgs : SUBSET {"force_scalar", "disable_simd128"}] :
          b.static = b.cpu}
  \cup [target : {"other"}, std : BOOLEAN, static : {{}}, cpu : {{}},
        cfgs : SUBSET {"force_scalar"}]

\* lengths at which the real registers meet every combination of loops and tail
LongBoundaries == {31, 32, 33, 63, 64, 65, 96, 127, 128, 129, 191, 193}

\* lengths around every threshold and loop boundary of 16-byte units
Boundaries == {0, 1, 15, 16, 17, 31, 32, 33, 63, 64, 65}
=============================================================================
