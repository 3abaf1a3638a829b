------------------------------ MODULE BitWord ------------------------------
(* Fixed-width unsigned machine words (Rust's u32 and u64), as the kernels  *)
(* use them.  A word of width w is the set of the positions of its one      *)
(* bits, a subset of 0..w-1, so that & and | are \cap and \cup.             *)
EXTENDS Integers, FiniteSetsExt

Ones(w) == 0 .. w - 1

\* !x
Not(w, x) == Ones(w) \ x

\* x << k.  A release build takes the shift amount modulo the width (a debug
\* build panics when k >= w); no bit crosses the top.
Shl(w, x, k) == {i \in Ones(w) : i - (k % w) \in x}

\* x.trailing_zeros(), which is the width when x is zero
TrailingZeros(w, x) == IF x = {} THEN w ELSE Min(x)

\* x.leading_zeros(), likewise
LeadingZeros(w, x) == IF x = {} THEN w ELSE w - 1 - Max(x)

\* x.count_ones()
CountOnes(x) == Cardinality(x)
=============================================================================
