---------------------------- MODULE MCOrNonAscii -----------------------------
EXTENDS OrNonAscii

CONSTANT MaxLen   \* bound on the length of the inputs

\* every input up to MaxLen bytes: each byte a needle or not, ASCII or not
AllInputs ==
  UNION {[len : {n}, needle : SUBSET (0 .. n - 1), high : SUBSET (0 .. n - 1)] :
           n \in 0 .. MaxLen}
=============================================================================
