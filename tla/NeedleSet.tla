------------------------------ MODULE NeedleSet -----------------------------
(* The Needles implementations for u8, [u8] and [u8; N], on one byte: which *)
(* compares a mask method makes is chosen by the shape of the set and the   *)
(* number of its members, and the scalar loops make a choice of their own.  *)
(* &T forwards to T.  A set is the sequence of its needles, in which a byte *)
(* may come more than once.                                                 *)
EXTENDS Integers, Sequences

Shapes == {"u8", "slice", "array"}

\* u8 is always one needle
IsNeedleSet(shape, needles, bytes) == /\ shape \in Shapes
                                      /\ needles \in Seq(bytes)
                                      /\ shape = "u8" => Len(needles) = 1

-----------------------------------------------------------------------------

\* eq_any_mask_dynamic: a loop over the needles that ORs into an accumulator
EqAnyDynamic(needles, b) == \E i \in 1 .. Len(needles) : b = needles[i]

\* eq_any_mask_const of the byte masks: an OR tree for every number up to eight
EqAnyTree(needles, b) ==
  LET cmp(i) == b = needles[i + 1]
      four == (cmp(0) \/ cmp(1)) \/ (cmp(2) \/ cmp(3))
  IN  CASE Len(needles) = 0 -> FALSE
        [] Len(needles) = 1 -> cmp(0)
        [] Len(needles) = 2 -> cmp(0) \/ cmp(1)
        [] Len(needles) = 3 -> (cmp(0) \/ cmp(1)) \/ cmp(2)
        [] Len(needles) = 4 -> four
        [] Len(needles) = 5 -> four \/ cmp(4)
        [] Len(needles) = 6 -> four \/ (cmp(4) \/ cmp(5))
        [] Len(needles) = 7 -> four \/ ((cmp(4) \/ cmp(5)) \/ cmp(6))
        [] Len(needles) = 8 -> four \/ ((cmp(4) \/ cmp(5)) \/ (cmp(6) \/ cmp(7)))
        [] OTHER            -> EqAnyDynamic(needles, b)

\* the same of the bit masks of AVX-512BW, in two groups with no tree inside
EqAnyGroups(needles, b) ==
  LET some(lo, hi) == \E i \in lo .. hi : b = needles[i]
      n == Len(needles)
  IN  CASE n = 0        -> FALSE
        [] n \in 1 .. 4 -> some(1, n)
        [] n \in 5 .. 8 -> some(1, 4) \/ some(5, n)
        [] OTHER        -> EqAnyDynamic(needles, b)

EqAnyConst(k, needles, b) == IF k = "avx512" THEN EqAnyGroups(needles, b)
                                             ELSE EqAnyTree(needles, b)

\* Mutant: of more than eight needles, only those there is a tree for are compared.
SliceMaskEight(k, needles, b) ==
  EqAnyConst(k, IF Len(needles) <= 8 THEN needles ELSE SubSeq(needles, 1, 8), b)

\* the slice patterns of [u8]
SliceMask(k, needles, b) == IF Len(needles) <= 8 THEN EqAnyConst(k, needles, b)
                                                 ELSE EqAnyDynamic(needles, b)

\* eq_any_mask_neon, _sse2, _avx2, _avx512 and _simd128 of backend k
EqAnyMask(k, shape, needles, b) ==
  CASE shape = "u8"    -> b = needles[1]
    [] shape = "slice" -> SliceMask(k, needles, b)
    [] shape = "array" -> EqAnyConst(k, needles, b)

-----------------------------------------------------------------------------

\* tail_find and prefix_len: tail_find1 .. tail_find8 and their prefix_len
\* counterparts spell out the disjunction that contains() loops over
Contains(needles, b) == \E i \in 1 .. Len(needles) : needles[i] = b
=============================================================================
