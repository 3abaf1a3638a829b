------------------------------- MODULE Tally --------------------------------
(* What count_matches and find_last promise: matches are absorbed from left *)
(* to right, each position exactly once, and the answer is given when the   *)
(* whole input has been absorbed.  FoldKernel implements it.                *)
EXTENDS Integers, FiniteSetsExt

CONSTANT None

VARIABLES
  op,       \* "count" or "last"
  len,
  match,
  front,    \* the positions before it have been absorbed
  acc,      \* the number of matches so far, or the last of them
  answered

vars == <<op, len, match, front, acc, answered>>

\* the matches among the positions lo .. hi - 1, added to what was found before
Absorbed(lo, hi) ==
  LET new == match \cap lo .. hi - 1
  IN  CASE op = "count" -> acc + Cardinality(new)
        [] op = "last"  -> IF new = {} THEN acc ELSE Max(new)

Init == /\ op \in {"count", "last"}
        /\ len \in Nat
        /\ match \subseteq 0 .. len - 1
        /\ front = 0
        /\ acc = IF op = "count" THEN 0 ELSE None
        /\ answered = FALSE

Absorb == /\ ~answered
          /\ front' \in front .. len
          /\ acc' = Absorbed(front, front')
          /\ answered' \in BOOLEAN
          /\ answered' => front' = len
          /\ UNCHANGED <<op, len, match>>

Next == Absorb

Spec == Init /\ [][Next]_vars
=============================================================================
