-------------------------------- MODULE Body --------------------------------
(* What string_body_len promises: "the length of a string body that ends at *)
(* a quote and must be UTF-8".  The text is validated from its beginning,   *)
(* whatever slices an implementation validates; StringBody implements it.   *)
EXTENDS Utf8

CONSTANT None

VARIABLES
  len,      \* the length of the source
  byte,     \* its bytes, by kind
  front,    \* the source before this position is text without a quote
  answered,
  res

vars == <<len, byte, front, answered, res>>

\* the first n bytes are text, and none of them is a quote
Open(n) == Text(byte, 0, n) /\ \A i \in 0 .. n - 1 : byte[i] # "quote"

Ends(q) == byte[q] = "quote" /\ Open(q)

Init == /\ len \in Nat
        /\ byte \in [0 .. len - 1 -> Kinds]
        /\ front = 0
        /\ answered = FALSE
        /\ res = None

Advance == /\ ~answered
           /\ front' \in front .. len
           /\ Open(front')
           /\ UNCHANGED <<len, byte, answered, res>>

Accept == /\ ~answered
          /\ front' \in front .. len - 1
          /\ Ends(front')
          /\ answered' = TRUE
          /\ res' = front'
          /\ UNCHANGED <<len, byte>>

Refuse == /\ ~answered
          /\ \A q \in 0 .. len - 1 : ~Ends(q)
          /\ answered' = TRUE
          /\ UNCHANGED <<len, byte, front, res>>

Next == Advance \/ Accept \/ Refuse

Spec == Init /\ [][Next]_vars
=============================================================================
