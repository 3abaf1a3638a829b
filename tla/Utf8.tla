-------------------------------- MODULE Utf8 --------------------------------
(* core::str::from_utf8 as the documentation of skip_until_or_non_ascii uses *)
(* it: whether a slice, judged on its own, holds whole UTF-8 sequences.  A   *)
(* byte is represented by its kind; which values of a continuation byte a    *)
(* lead byte admits, and the leads of four bytes, add nothing to where a     *)
(* sequence may be cut.                                                      *)
EXTENDS Integers

\* the continuation bytes that a byte of each kind calls for; the quote is the
\* ASCII byte that ends a string body
Trail == [quote |-> 0, ascii |-> 0, lead2 |-> 1, lead3 |-> 2, cont |-> 0]

Kinds == DOMAIN Trail

Ascii == {"quote", "ascii"}

\* from_utf8 accepts the bytes lo .. hi - 1 of s
Text(s, lo, hi) ==
  \A i \in lo .. hi - 1 :
    /\ \A k \in 1 .. Trail[s[i]] : i + k < hi /\ s[i + k] = "cont"
    /\ s[i] = "cont" => \E l \in lo .. i - 1 : i - l <= Trail[s[l]]
=============================================================================
