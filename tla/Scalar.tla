------------------------------- MODULE Scalar -------------------------------
(* The byte-at-a-time loops.  They are the fallback of every tier and the   *)
(* probe in front of the vector loops.  Each is one left-to-right pass with *)
(* no state but its index, so a pass is an operator: the index it returns.  *)
(*                                                                          *)
(* "class" (the skip_ functions of one byte class) and "while" (skip_while) *)
(* stop at the first byte that does not match, "until" (skip_until) at the  *)
(* first that does; "count" (count_matches) and "last" (find_last) look at  *)
(* every byte.                                                              *)
EXTENDS Integers, FiniteSetsExt

CONSTANT None       \* Option::None

ASSUME NoneAssumption == None \notin Nat

VARIABLES
  op,      \* "class", "while", "until", "count" or "last"
  len,     \* the length of the input slice
  match    \* the positions whose byte is in the class, or is a needle

PrefixOps == {"class", "while", "until"}
FoldOps == {"count", "last"}

\* the positions at which a prefix scan stops
StopSet == IF op = "until" THEN match ELSE (0 .. len - 1) \ match

\* prefix_len / tail_find over the first n bytes: n when none of them stops
ScalarScan(n) == LET s == StopSet \cap 0 .. n - 1
                 IN  IF s = {} THEN n ELSE Min(s)

\* the whole input was scanned: None from skip_until, len from the others
Exhausted == IF op = "until" THEN None ELSE len

ScalarPrefix == IF ScalarScan(len) = len THEN Exhausted ELSE ScalarScan(len)

\* the filter-and-count loop, and the loop that keeps the last index
ScalarFold == CASE op = "count" -> Cardinality(match)
                [] op = "last"  -> IF match = {} THEN None ELSE Max(match)
=============================================================================
