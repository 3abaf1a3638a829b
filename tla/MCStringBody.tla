---------------------------- MODULE MCStringBody -----------------------------
EXTENDS StringBody

CONSTANT MaxLen   \* bound on the length of the sources

\* every source of up to MaxLen bytes, valid or not
AllSources ==
  UNION {[len : {n}, byte : [0 .. n - 1 -> Kinds]] : n \in 0 .. MaxLen}
=============================================================================
