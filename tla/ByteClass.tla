------------------------------ MODULE ByteClass -----------------------------
(* What one lane of a vector compare says of one byte, on every backend,    *)
(* against the scalar predicate that the probe and the fallback apply to    *)
(* the same byte.  A call runs both on different bytes of one input, so a   *)
(* byte on which they differ gives an answer that depends on its position.  *)
(* The compares and the mask registers are the vendors' intrinsics, modelled *)
(* lane by lane from how the masks use them.                                *)
EXTENDS Integers, NeedleSet

CONSTANT Tests   \* the tests considered: records of one of the shapes below

Size == 256      \* values of a u8

Byte == 0 .. Size - 1

Classes == {"binary", "octal", "digit", "hex", "whitespace", "alpha", "alphanumeric",
            "ident_start", "ident", "lower", "upper", "ascii", "non_ascii",
            "ascii_graphic", "ascii_control"}

\* a built-in class; a skip_class! list, whose ranges the compiler requires to be
\* non-empty; a needle set, wrapped in OrNonAscii or not
IsTest(t) ==
  \/ t.kind = "class" /\ t.name \in Classes
  \/ /\ t.kind = "custom"
     /\ t.bytes \subseteq Byte
     /\ \A r \in t.ranges : r[1] \in Byte /\ r[2] \in Byte /\ r[1] <= r[2]
  \/ /\ t.kind = "needles"
     /\ IsNeedleSet(t.shape, t.needles, Byte)
     /\ t.nonAscii \in BOOLEAN

ASSUME TestAssumption == \A t \in Tests : IsTest(t)

Backends == {"neon", "sse42", "avx2", "avx512", "simd128"}

VARIABLES
  test,     \* the membership test that the lane is computed for
  byte,     \* the byte in the lane
  backend,  \* the backend that tests it
  tested,   \* whether the backend has tested it
  lane      \* whether the mask has the lane set

vars == <<test, byte, backend, tested, lane>>

-----------------------------------------------------------------------------
(* Byte arithmetic.                                                         *)

\* a.wrapping_sub(b), also of the lanes of a vector
WrappingSub(a, b) == IF b <= a THEN a - b ELSE a - b + Size

WrappingAdd(a, b) == IF a + b < Size THEN a + b ELSE a + b - Size

\* the same bits as i8
Signed(b) == IF b < Size \div 2 THEN b ELSE b - Size

\* b | 0x20
Folded(b) == IF (b \div 32) % 2 = 1 THEN b ELSE b + 32

\* Mutant: no special case for the full range.
RangeBelowWrapping(b, lo, hi) ==
  WrappingSub(b, lo) < WrappingAdd(WrappingSub(hi, lo), 1)

\* range_mask of NEON and SIMD128: one unsigned < against hi - lo + 1, which
\* would wrap to 0 for the full range
RangeBelow(b, lo, hi) ==
  LET width == WrappingSub(hi, lo)
  IN  IF width = Size - 1 THEN TRUE
      ELSE WrappingSub(b, lo) < WrappingAdd(width, 1)

\* Mutant: the minimum is a signed one.
RangeClampedSigned(b, lo, hi) ==
  LET x == WrappingSub(b, lo)
      limit == WrappingSub(hi, lo)
  IN  x = (IF Signed(x) <= Signed(limit) THEN x ELSE limit)

\* range_mask of SSE4.2 and AVX2, which have no unsigned compare: x = min(x, limit)
RangeClamped(b, lo, hi) ==
  LET x == WrappingSub(b, lo)
      limit == WrappingSub(hi, lo)
  IN  x = (IF x <= limit THEN x ELSE limit)

\* range_mask of AVX-512BW, which has one
RangeAtMost(b, lo, hi) == WrappingSub(b, lo) <= WrappingSub(hi, lo)

-----------------------------------------------------------------------------
(* The scalar side.                                                         *)

Digits == 48 .. 57
Lower == 97 .. 122
Upper == 65 .. 90
Underscore == 95

\* the is_ predicates of skip/mod.rs
Predicate(c, b) ==
  CASE c = "binary"        -> b = 48 \/ b = 49
    [] c = "octal"         -> b \in 48 .. 55
    [] c = "digit"         -> b \in Digits
    [] c = "hex"           -> b \in Digits \/ Folded(b) \in 97 .. 102
    [] c = "whitespace"    -> b \in {32, 9, 10, 13}
    [] c = "alpha"         -> Folded(b) \in Lower
    [] c = "alphanumeric"  -> Folded(b) \in Lower \/ b \in Digits
    [] c = "ident_start"   -> Folded(b) \in Lower \/ b = Underscore
    [] c = "ident"         -> Folded(b) \in Lower \/ b \in Digits \/ b = Underscore
    [] c = "lower"         -> b \in Lower
    [] c = "upper"         -> b \in Upper
    [] c = "ascii"         -> b < 128
    [] c = "non_ascii"     -> ~(b < 128)
    [] c = "ascii_graphic" -> b \in 33 .. 126
    [] c = "ascii_control" -> b \in 0 .. 31 \/ b = 127

\* predicate() of a function generated by skip_class!
CustomPredicate(t, b) == b \in t.bytes \/ \E r \in t.ranges : b \in r[1] .. r[2]

\* tail_find / prefix_len of a needle set, wrapped in OrNonAscii or not
NeedlePredicate(t, b) == Contains(t.needles, b) \/ (t.nonAscii /\ b >= Size \div 2)

Scalar(t, b) == CASE t.kind = "class"   -> Predicate(t.name, b)
                  [] t.kind = "custom"  -> CustomPredicate(t, b)
                  [] t.kind = "needles" -> NeedlePredicate(t, b)

-----------------------------------------------------------------------------
(* The vector side.                                                         *)

InRange(k, b, lo, hi) ==
  CASE k \in {"neon", "simd128"} -> RangeBelow(b, lo, hi)
    [] k \in {"sse42", "avx2"}   -> RangeClamped(b, lo, hi)
    [] k = "avx512"              -> RangeAtMost(b, lo, hi)

\* the class masks, built alike on every backend k from its own range_mask
ClassMask(k, c, b) ==
  LET digit == InRange(k, b, 48, 57)
      alpha == InRange(k, Folded(b), 97, 122)
      underscore == b = 95
  IN  CASE c = "binary"        -> InRange(k, b, 48, 49)
        [] c = "octal"         -> InRange(k, b, 48, 55)
        [] c = "digit"         -> digit
        [] c = "hex"           -> digit \/ InRange(k, Folded(b), 97, 102)
        [] c = "whitespace"    -> (b = 32 \/ b = 9) \/ (b = 10 \/ b = 13)
        [] c = "alpha"         -> alpha
        [] c = "alphanumeric"  -> alpha \/ digit
        [] c = "ident_start"   -> alpha \/ underscore
        [] c = "ident"         -> (alpha \/ digit) \/ underscore
        [] c = "lower"         -> InRange(k, b, 97, 122)
        [] c = "upper"         -> InRange(k, b, 65, 90)
        [] c = "ascii"         -> InRange(k, b, 0, 127)
        [] c = "non_ascii"     -> InRange(k, b, 128, 255)
        [] c = "ascii_graphic" -> InRange(k, b, 33, 126)
        [] c = "ascii_control" -> InRange(k, b, 0, 31) \/ b = 127

\* mask() inside skip_class!: an OR over the bytes, then over the ranges
CustomMask(k, t, b) == \/ \E x \in t.bytes : b = x
                       \/ \E r \in t.ranges : InRange(k, b, r[1], r[2])

\* high_bit_mask: a signed compare with zero, or the top bit itself
HighBit(k, b) == IF k = "avx512" THEN b \div 128 = 1 ELSE Signed(b) < 0

\* the mask of the needles, and OrNonAscii's high bits on top
NeedleMask(k, t, b) == \/ EqAnyMask(k, t.shape, t.needles, b)
                       \/ t.nonAscii /\ HighBit(k, b)

Mask(k, t, b) == CASE t.kind = "class"   -> ClassMask(k, t.name, b)
                   [] t.kind = "custom"  -> CustomMask(k, t, b)
                   [] t.kind = "needles" -> NeedleMask(k, t, b)

-----------------------------------------------------------------------------

Init == /\ test \in Tests
        /\ byte \in Byte
        /\ backend \in Backends
        /\ tested = FALSE
        /\ lane = FALSE

\* one lane of the chunk goes through the mask function of backend k
TestOn(k) == /\ backend = k
             /\ ~tested
             /\ tested' = TRUE
             /\ lane' = Mask(k, test, byte)
             /\ UNCHANGED <<test, byte, backend>>

NeonLane == TestOn("neon")
Sse42Lane == TestOn("sse42")
Avx2Lane == TestOn("avx2")
\* skip_class! has no AVX-512 path
Avx512Lane == test.kind # "custom" /\ TestOn("avx512")
Simd128Lane == TestOn("simd128")

Next == NeonLane \/ Sse42Lane \/ Avx2Lane \/ Avx512Lane \/ Simd128Lane

Spec == Init /\ [][Next]_vars

-----------------------------------------------------------------------------

\* Both sides classify every byte of a built-in class alike: each of the fifteen is
\* stated once as a predicate and once per backend as a mask.
ClassesAgree == tested /\ test.kind = "class" => (lane <=> Scalar(test, byte))

\* The predicate and the mask that skip_class! generates from one list leave "no
\* risk of the two paths drifting out of sync", the full range included.
CustomsAgree == tested /\ test.kind = "custom" => (lane <=> Scalar(test, byte))

\* A needle set has the same members in the scalar loops and in the masks, however
\* many needles it has, whatever its shape, repeated needles and none included;
\* so has OrNonAscii, whose scalar side never looks at a sign bit.
NeedlesAgree == tested /\ test.kind = "needles" => (lane <=> Scalar(test, byte))
=============================================================================
