--------------------------- MODULE ByteClassProofs --------------------------
(* The three ways in which the backends compute a range membership are the  *)
(* range, for every pair of bounds; and so every mask agrees with the scalar *)
(* predicate, for every class, every skip_class! list, every needle set and  *)
(* every byte.                                                              *)
EXTENDS ByteClass, TLAPS

\* One unsigned compare after a wrapping subtraction tests both bounds, the full
\* range included.
LEMMA RangesExact ==
  ASSUME NEW b \in Byte, NEW lo \in Byte, NEW hi \in Byte, lo <= hi
  PROVE  /\ RangeBelow(b, lo, hi) <=> b \in lo .. hi
         /\ RangeClamped(b, lo, hi) <=> b \in lo .. hi
         /\ RangeAtMost(b, lo, hi) <=> b \in lo .. hi
BY DEF Byte, Size, RangeBelow, RangeClamped, RangeAtMost, WrappingSub, WrappingAdd

\* b | 0x20 is a byte.
LEMMA FoldedType ==
  ASSUME NEW b \in Byte
  PROVE  Folded(b) \in Byte
BY DEF Folded, Byte, Size

\* The sign tests are the test for a byte outside ASCII.
LEMMA HighBitExact ==
  ASSUME NEW k \in Backends, NEW b \in Byte
  PROVE  HighBit(k, b) <=> b >= Size \div 2
BY DEF Byte, Size, HighBit, Signed

\* Whichever backend computes it, a range membership is the range.
LEMMA InRangeExact ==
  ASSUME NEW k \in Backends, NEW b \in Byte, NEW lo \in Byte, NEW hi \in Byte, lo <= hi
  PROVE  InRange(k, b, lo, hi) <=> b \in lo .. hi
BY RangesExact DEF InRange, Backends

\* Every class mask of every backend is the predicate of its class.
LEMMA ClassMaskExact ==
  ASSUME NEW k \in Backends, NEW c \in Classes, NEW b \in Byte
  PROVE  ClassMask(k, c, b) <=> Predicate(c, b)
<1> DEFINE f == Folded(b)
<1>1. f \in Byte
  BY FoldedType
<1> HIDE DEF f
<1>2. {0, 31, 33, 48, 49, 55, 57, 65, 90, 97, 102, 122, 126, 127, 128, 255} \subseteq Byte
  BY DEF Byte, Size
<1>3. /\ InRange(k, b, 48, 57) <=> b \in Digits
      /\ InRange(k, f, 97, 122) <=> f \in Lower
      /\ InRange(k, b, 48, 49) <=> b = 48 \/ b = 49
      /\ InRange(k, b, 48, 55) <=> b \in 48 .. 55
      /\ InRange(k, f, 97, 102) <=> f \in 97 .. 102
  <2>1. InRange(k, b, 48, 57) <=> b \in 48 .. 57
    BY <1>2, InRangeExact
  <2>2. InRange(k, f, 97, 122) <=> f \in 97 .. 122
    BY <1>1, <1>2, InRangeExact
  <2>3. InRange(k, b, 48, 49) <=> b \in 48 .. 49
    BY <1>2, InRangeExact
  <2>4. InRange(k, b, 48, 55) <=> b \in 48 .. 55
    BY <1>2, InRangeExact
  <2>5. InRange(k, f, 97, 102) <=> f \in 97 .. 102
    BY <1>1, <1>2, InRangeExact
  <2>6. b \in 48 .. 49 <=> b = 48 \/ b = 49
    BY DEF Byte, Size
  <2> QED BY <2>1, <2>2, <2>3, <2>4, <2>5, <2>6 DEF Digits, Lower
<1>4. /\ InRange(k, b, 97, 122) <=> b \in Lower
      /\ InRange(k, b, 65, 90) <=> b \in Upper
      /\ InRange(k, b, 0, 127) <=> b < 128
      /\ InRange(k, b, 128, 255) <=> ~(b < 128)
      /\ InRange(k, b, 33, 126) <=> b \in 33 .. 126
      /\ InRange(k, b, 0, 31) <=> b \in 0 .. 31
  <2>1. InRange(k, b, 97, 122) <=> b \in 97 .. 122
    BY <1>2, InRangeExact
  <2>2. InRange(k, b, 65, 90) <=> b \in 65 .. 90
    BY <1>2, InRangeExact
  <2>3. InRange(k, b, 0, 127) <=> b \in 0 .. 127
    BY <1>2, InRangeExact
  <2>4. InRange(k, b, 128, 255) <=> b \in 128 .. 255
    <3>1. 128 \in Byte /\ 255 \in Byte
      BY <1>2
    <3> QED BY <3>1, InRangeExact
  <2>5. InRange(k, b, 33, 126) <=> b \in 33 .. 126
    BY <1>2, InRangeExact
  <2>6. InRange(k, b, 0, 31) <=> b \in 0 .. 31
    BY <1>2, InRangeExact
  <2>7. (b \in 0 .. 127 <=> b < 128) /\ (b \in 128 .. 255 <=> ~(b < 128))
    BY DEF Byte, Size
  <2> QED BY <2>1, <2>2, <2>3, <2>4, <2>5, <2>6, <2>7 DEF Upper, Lower
<1>5. CASE c \in {"binary", "octal", "digit", "hex", "whitespace"}
  BY <1>3, <1>5 DEF ClassMask, Predicate, f
<1>6. CASE c \in {"alpha", "alphanumeric", "ident_start", "ident"}
  BY <1>3, <1>6 DEF ClassMask, Predicate, f, Underscore
<1>7. CASE c \in {"lower", "upper", "ascii"}
  BY <1>4, <1>7 DEF ClassMask, Predicate
<1>8. CASE c \in {"non_ascii", "ascii_graphic", "ascii_control"}
  BY <1>4, <1>8 DEF ClassMask, Predicate
<1> QED BY <1>5, <1>6, <1>7, <1>8 DEF Classes

\* The same of a skip_class! list, ...
LEMMA CustomMaskExact ==
  ASSUME NEW k \in Backends, NEW b \in Byte, NEW t, IsTest(t), t.kind = "custom"
  PROVE  CustomMask(k, t, b) <=> CustomPredicate(t, b)
<1>1. \A r \in t.ranges : r[1] \in Byte /\ r[2] \in Byte /\ r[1] <= r[2]
  BY DEF IsTest
<1>2. \A r \in t.ranges : InRange(k, b, r[1], r[2]) <=> b \in r[1] .. r[2]
  BY <1>1, InRangeExact
<1> QED BY <1>2 DEF CustomMask, CustomPredicate

\* Each OR tree compares with every needle, and with nothing else, ...
LEMMA EqAnyTreeExact ==
  ASSUME NEW b \in Byte, NEW needles \in Seq(Byte)
  PROVE  EqAnyTree(needles, b) <=> EqAnyDynamic(needles, b)
<1>1. CASE Len(needles) = 0 \/ Len(needles) = 1
  BY <1>1 DEF EqAnyTree, EqAnyDynamic
<1>2. CASE Len(needles) = 2 \/ Len(needles) = 3
  BY <1>2 DEF EqAnyTree, EqAnyDynamic
<1>3. CASE Len(needles) = 4 \/ Len(needles) = 5
  BY <1>3 DEF EqAnyTree, EqAnyDynamic
<1>4. CASE Len(needles) = 6
  BY <1>4 DEF EqAnyTree, EqAnyDynamic
<1>5. CASE Len(needles) = 7
  BY <1>5 DEF EqAnyTree, EqAnyDynamic
<1>6. CASE Len(needles) = 8
  BY <1>6 DEF EqAnyTree, EqAnyDynamic
<1>7. CASE Len(needles) > 8
  BY <1>7 DEF EqAnyTree, EqAnyDynamic
<1>8. \/ Len(needles) = 0 \/ Len(needles) = 1
      \/ Len(needles) = 2 \/ Len(needles) = 3
      \/ Len(needles) = 4 \/ Len(needles) = 5
      \/ Len(needles) = 6 \/ Len(needles) = 7 \/ Len(needles) = 8
      \/ Len(needles) > 8
  <2>1. Len(needles) \in Nat
    OBVIOUS
  <2>2. \A n \in Nat : \/ n = 0 \/ n = 1 \/ n = 2 \/ n = 3 \/ n = 4
                       \/ n = 5 \/ n = 6 \/ n = 7 \/ n = 8 \/ n > 8
    OBVIOUS
  <2> QED BY <2>1, <2>2
<1> QED BY <1>1, <1>2, <1>3, <1>4, <1>5, <1>6, <1>7, <1>8

\* ... and so do the two groups of AVX-512BW.
LEMMA EqAnyGroupsExact ==
  ASSUME NEW b \in Byte, NEW needles \in Seq(Byte)
  PROVE  EqAnyGroups(needles, b) <=> EqAnyDynamic(needles, b)
<1> DEFINE n == Len(needles)
<1>1. n \in Nat
  OBVIOUS
<1> HIDE DEF n
<1>2. CASE n = 0
  BY <1>2 DEF EqAnyGroups, EqAnyDynamic, n
<1>3. CASE n \in 1 .. 4
  BY <1>3 DEF EqAnyGroups, EqAnyDynamic, n
<1>4. CASE n \in 5 .. 8
  <2>1. 1 .. n = (1 .. 4) \cup (5 .. n)
    BY <1>4
  <2> QED BY <1>4, <2>1 DEF EqAnyGroups, EqAnyDynamic, n
<1>5. CASE n > 8
  <2>1. n # 0 /\ n \notin 1 .. 4 /\ n \notin 5 .. 8
    BY <1>1, <1>5
  <2> QED BY <2>1 DEF EqAnyGroups, EqAnyDynamic, n
<1> QED BY <1>1, <1>2, <1>3, <1>4, <1>5

\* ... and of a needle set, whichever compares its shape and size select.
LEMMA NeedleMaskExact ==
  ASSUME NEW k \in Backends, NEW b \in Byte, NEW t, IsTest(t), t.kind = "needles"
  PROVE  NeedleMask(k, t, b) <=> NeedlePredicate(t, b)
<1>1. /\ t.shape \in Shapes
      /\ t.needles \in Seq(Byte)
      /\ t.shape = "u8" => Len(t.needles) = 1
  BY DEF IsTest, IsNeedleSet
<1>2. EqAnyConst(k, t.needles, b) <=> Contains(t.needles, b)
  BY <1>1, EqAnyTreeExact, EqAnyGroupsExact DEF EqAnyConst, EqAnyDynamic, Contains
<1>3. EqAnyMask(k, t.shape, t.needles, b) <=> Contains(t.needles, b)
  <2>1. CASE t.shape = "u8"
    BY <1>1, <2>1 DEF EqAnyMask, Contains
  <2>2. CASE t.shape = "slice"
    BY <1>2, <2>2 DEF EqAnyMask, SliceMask, EqAnyDynamic, Contains
  <2>3. CASE t.shape = "array"
    BY <1>2, <2>3 DEF EqAnyMask
  <2> QED BY <1>1, <2>1, <2>2, <2>3 DEF Shapes
<1>4. HighBit(k, b) <=> b >= Size \div 2
  BY HighBitExact
<1> QED BY <1>3, <1>4 DEF NeedleMask, NeedlePredicate

\* Every mask function agrees with the scalar side on every test considered.
LEMMA MaskExact ==
  ASSUME NEW k \in Backends, NEW b \in Byte, NEW t \in Tests
  PROVE  Mask(k, t, b) <=> Scalar(t, b)
<1>1. IsTest(t)
  BY TestAssumption
<1>2. CASE t.kind = "class"
  <2>1. t.name \in Classes
    BY <1>1, <1>2 DEF IsTest
  <2> QED BY <1>2, <2>1, ClassMaskExact DEF Mask, Scalar
<1>3. CASE t.kind = "custom"
  BY <1>1, <1>3, CustomMaskExact DEF Mask, Scalar
<1>4. CASE t.kind = "needles"
  BY <1>1, <1>4, NeedleMaskExact DEF Mask, Scalar
<1> QED BY <1>1, <1>2, <1>3, <1>4 DEF IsTest

-----------------------------------------------------------------------------

\* The inductive invariant: the test in hand is one of those considered.
IInv == /\ test \in Tests /\ byte \in Byte /\ backend \in Backends
        /\ tested \in BOOLEAN
        /\ tested => (lane <=> Scalar(test, byte))

\* Testing a lane leaves what the scalar side says of the byte.
LEMMA IInvStep == IInv /\ [Next]_vars => IInv'
<1> SUFFICES ASSUME IInv, [Next]_vars PROVE IInv'
  OBVIOUS
<1>1. ASSUME NEW k \in Backends, TestOn(k) PROVE IInv'
  <2>1. Mask(k, test, byte) <=> Scalar(test, byte)
    BY MaskExact DEF IInv
  <2> QED BY <1>1, <2>1 DEF IInv, TestOn, Scalar
<1>2. CASE UNCHANGED vars
  BY <1>2 DEF vars, IInv, Scalar
<1> QED
  BY <1>1, <1>2
  DEF Next, NeonLane, Sse42Lane, Avx2Lane, Avx512Lane, Simd128Lane, Backends

\* The strengthening holds throughout.
LEMMA IInvHolds == Spec => []IInv
<1>1. Init => IInv
  BY DEF Init, IInv
<1> QED BY <1>1, IInvStep, PTL DEF Spec

\* On every backend and for every byte, the mask of each of the fifteen built-in
\* classes agrees with its predicate.
THEOREM ClassesExact == Spec => []ClassesAgree
<1>1. IInv => ClassesAgree
  BY DEF IInv, ClassesAgree
<1> QED BY <1>1, IInvHolds, PTL

\* The mask and the predicate that skip_class! generates agree for every list of
\* bytes and of ranges that the macro accepts.
THEOREM CustomsExact == Spec => []CustomsAgree
<1>1. IInv => CustomsAgree
  BY DEF IInv, CustomsAgree
<1> QED BY <1>1, IInvHolds, PTL

\* The masks of every needle set, of any length and shape, wrapped in OrNonAscii
\* or not, have the members that its scalar loops have.
THEOREM NeedlesExact == Spec => []NeedlesAgree
<1>1. IInv => NeedlesAgree
  BY DEF IInv, NeedlesAgree
<1> QED BY <1>1, IInvHolds, PTL
=============================================================================
