-------------------------------- MODULE Scan --------------------------------
(* What every prefix scan of the crate promises, whatever its tier: the     *)
(* frontier of the bytes known to continue the run moves right over such    *)
(* bytes only, and the scan is answered at the first byte that ends the     *)
(* run, or at the end of the input.  PrefixKernel implements it, as does    *)
(* the whole call of Memspan.                                               *)
EXTENDS Integers

VARIABLES
  len,      \* the length of the input
  stop,     \* the positions of the bytes that end the run
  front,    \* every byte before this position continues the run
  answered

vars == <<len, stop, front, answered>>

Clear(lo, hi) == \A i \in lo .. hi - 1 : i \notin stop

Init == /\ len \in Nat
        /\ stop \subseteq 0 .. len - 1
        /\ front = 0
        /\ answered = FALSE

Advance == /\ ~answered
           /\ front' \in front .. len
           /\ Clear(front, front')
           /\ UNCHANGED <<len, stop, answered>>

Answer == /\ ~answered
          /\ front' \in front .. len
          /\ Clear(front, front')
          /\ front' = len \/ front' \in stop
          /\ answered' = TRUE
          /\ UNCHANGED <<len, stop>>

Next == Advance \/ Answer

Spec == Init /\ [][Next]_vars
=============================================================================
