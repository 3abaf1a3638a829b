--------------------------- MODULE MCPrefixKernel ---------------------------
EXTENDS PrefixKernel

CONSTANT MaxLen   \* bound on the length of the inputs

\* NEON's shape, scaled down: several mask bits per lane that fill the word, and
\* a probe narrower than a chunk after which the loop restarts at zero
Nibble == [chunk |-> 3, bpl |-> 2, word |-> 6, unrolled |-> TRUE,
           probe |-> 2, credit |-> FALSE]

\* SIMD128's shape, scaled down: one mask bit per lane in a word twice as wide,
\* whose upper half must be masked off, and a probe of a whole chunk that is
\* credited to the loop
WideWord == [chunk |-> 3, bpl |-> 1, word |-> 6, unrolled |-> TRUE,
             probe |-> 3, credit |-> TRUE]

OnlyNibble == {Nibble}
OnlyWideWord == {WideWord}

\* every membership pattern of every input up to MaxLen bytes
AllInputs ==
  UNION {{[len |-> n, match |-> m] : m \in SUBSET (0 .. n - 1)} : n \in 0 .. MaxLen}
=============================================================================
