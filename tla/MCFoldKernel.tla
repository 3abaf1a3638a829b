---------------------------- MODULE MCFoldKernel ----------------------------
EXTENDS FoldKernel

CONSTANT MaxLen   \* bound on the length of the inputs

\* NEON's shape, scaled down: two mask bits per lane, a word the lanes fill; a
\* fold does not probe
Nibble == [chunk |-> 3, bpl |-> 2, word |-> 6, unrolled |-> TRUE,
           probe |-> 1, credit |-> FALSE]

OnlyNibble == {Nibble}

\* every pattern of matches in every input of up to MaxLen bytes
AllInputs ==
  UNION {{[len |-> n, match |-> m] : m \in SUBSET (0 .. n - 1)} : n \in 0 .. MaxLen}
=============================================================================
