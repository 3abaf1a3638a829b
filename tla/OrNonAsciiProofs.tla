-------------------------- MODULE OrNonAsciiProofs ---------------------------
(* For every input: the two methods that OrNonAscii composes from partial   *)
(* searches are exact, and every round of the loop that goes on makes       *)
(* progress.                                                                *)
EXTENDS OrNonAscii, MinLemmas, TLAPS

-----------------------------------------------------------------------------
(* The partial searches.                                                    *)

\* the types of the input, all that the lemmas need of the state
InputOK == len \in Nat /\ needle \subseteq 0 .. len - 1 /\ high \subseteq 0 .. len - 1

\* A search from a position ends at the first member of the set, or at the end.
LEMMA FirstFromExact ==
  ASSUME len \in Nat, NEW from \in 0 .. len, NEW s, s \subseteq 0 .. len - 1
  PROVE  /\ FirstFrom(from, s) \in from .. len
         /\ \A p \in from .. FirstFrom(from, s) - 1 : p \notin s
         /\ FirstFrom(from, s) < len => FirstFrom(from, s) \in s
<1> DEFINE later == {p \in s : p >= from}
<1>1. CASE later = {}
  <2>1. FirstFrom(from, s) = len
    BY <1>1 DEF FirstFrom
  <2>2. \A p \in from .. len - 1 : p \notin s
    BY <1>1
  <2> QED BY <2>1, <2>2
<1>2. CASE later # {}
  <2>1. FirstFrom(from, s) = Min(later)
    BY <1>2 DEF FirstFrom
  <2>2. Min(later) \in later /\ \A x \in later : Min(later) <= x
    <3>1. later \subseteq Nat
      <4>1. \A p \in s : p \in Nat
        OBVIOUS
      <4> QED BY <4>1
    <3> QED BY <1>2, <3>1, MinProperty
  <2>3. PICK m \in 0 .. len - 1 : m = Min(later) /\ m >= from /\ m \in s
    BY <2>2
  <2>4. \A p \in from .. m - 1 : p \notin s
    <3>1. TAKE p \in from .. m - 1
    <3>2. ASSUME p \in s PROVE FALSE
      <4>1. p \in later
        BY <3>2
      <4> QED BY <4>1, <2>2, <2>3
    <3> QED BY <3>2
  <2> QED BY <2>1, <2>3, <2>4
<1> QED BY <1>1, <1>2

\* One round of prefix_len passes bytes that are needles, then bytes that are not
\* ASCII; an empty round ends at a byte that is neither, or at the end.
LEMMA RunsExact ==
  ASSUME InputOK, i \in 0 .. len, NEW a, NEW b, a = NeedleRun(i), b = HighRun(i + a)
  PROVE  /\ a \in Nat /\ b \in Nat /\ i + a + b \in 0 .. len
         /\ \A p \in i .. i + a + b - 1 : p \in needle \cup high
         /\ a = 0 /\ b = 0 /\ i < len => i \notin needle \cup high
<1> DEFINE u == FirstFrom(i, (0 .. len - 1) \ needle)
<1>1. /\ u \in i .. len
      /\ \A p \in i .. u - 1 : p \notin (0 .. len - 1) \ needle
      /\ u < len => u \in (0 .. len - 1) \ needle
  BY FirstFromExact DEF InputOK
<1>2. a = u - i
  BY DEF NeedleRun
<1> HIDE DEF u
<1>3. len \in Nat /\ i \in Nat /\ i + a = u /\ u \in 0 .. len
  BY <1>1, <1>2 DEF InputOK
<1> DEFINE v == FirstFrom(u, (0 .. len - 1) \ high)
<1>4. /\ v \in u .. len
      /\ \A p \in u .. v - 1 : p \notin (0 .. len - 1) \ high
      /\ v < len => v \in (0 .. len - 1) \ high
  BY <1>3, FirstFromExact
<1>5. b = v - u
  BY <1>3 DEF HighRun
<1> HIDE DEF v
<1>6. i + a + b = v
  BY <1>1, <1>3, <1>4, <1>5
<1>7. ASSUME NEW p \in i .. v - 1 PROVE p \in needle \cup high
  <2>1. p \in 0 .. len - 1 /\ (p \in i .. u - 1 \/ p \in u .. v - 1)
    BY <1>1, <1>3, <1>4
  <2> QED BY <2>1, <1>1, <1>4
<1>8. a = 0 /\ b = 0 /\ i < len => i \notin needle \cup high
  BY <1>1, <1>2, <1>3, <1>4, <1>5
<1>9. a \in Nat /\ b \in Nat /\ v \in 0 .. len
  BY <1>1, <1>2, <1>3, <1>4, <1>5
<1> QED BY <1>6, <1>7, <1>8, <1>9

\* The inner needle search returns the first needle.
LEMMA InnerFindExact ==
  ASSUME InputOK
  PROVE  IF needle = {} THEN InnerFind = None
         ELSE InnerFind \in needle /\ \A p \in needle : InnerFind <= p
<1>1. needle \subseteq Nat
  BY DEF InputOK
<1> QED BY <1>1, MinProperty DEF InnerFind

\* The ASCII check of the first n bytes ends at the first byte that is not ASCII.
LEMMA AsciiRunExact ==
  ASSUME InputOK, NEW n \in 0 .. len
  PROVE  /\ AsciiRun(n) \in 0 .. n
         /\ \A p \in high : AsciiRun(n) <= p
         /\ AsciiRun(n) < n => AsciiRun(n) \in high
<1> DEFINE stops == high \cap 0 .. n - 1
<1>1. high \subseteq 0 .. len - 1 /\ len \in Nat
  BY DEF InputOK
<1>2. CASE stops = {}
  <2>1. AsciiRun(n) = n
    BY <1>2 DEF AsciiRun
  <2>2. \A p \in high : n <= p
    BY <1>1, <1>2
  <2> QED BY <2>1, <2>2
<1>3. CASE stops # {}
  <2>1. AsciiRun(n) = Min(stops)
    BY <1>3 DEF AsciiRun
  <2>2. Min(stops) \in stops /\ \A x \in stops : Min(stops) <= x
    <3>1. stops \subseteq Nat
      OBVIOUS
    <3> QED BY <1>3, <3>1, MinProperty
  <2>3. PICK m \in 0 .. n - 1 : m = Min(stops) /\ m \in high
    BY <2>2
  <2>4. \A p \in high : m <= p
    <3>1. TAKE p \in high
    <3>2. p \in 0 .. len - 1
      BY <1>1
    <3>3. CASE p < n
      <4>1. p \in stops
        BY <3>2, <3>3
      <4> QED BY <4>1, <2>2, <2>3
    <3>4. CASE n <= p
      BY <3>2, <3>4
    <3> QED BY <3>2, <3>3, <3>4
  <2> QED BY <2>1, <2>3, <2>4
<1> QED BY <1>2, <1>3

-----------------------------------------------------------------------------
(* The invariant.                                                           *)

\* what a running call knows: the needle that tail_find has found, and the prefix
\* that prefix_len has passed
Running == /\ pc \in {"find", "probe"} => method = "tail_find"
           /\ pc = "probe" => hit = InnerFind
           /\ pc = "loop" => /\ method = "prefix_len"
                             /\ \A p \in 0 .. i - 1 : p \in needle \cup high

IInv == TypeOK /\ Running /\ TailFindExact /\ PrefixLenExact

\* A call begins with nothing found and nothing passed.
LEMMA IInvInit == Init => IInv
<1> SUFFICES ASSUME Init PROVE IInv
  OBVIOUS
<1>1. len \in Nat /\ needle \subseteq 0 .. len - 1 /\ high \subseteq 0 .. len - 1
  <2>1. PICK in \in Inputs : len = in.len /\ needle = in.needle /\ high = in.high
    BY DEF Init
  <2> QED BY <2>1, InputAssumption
<1>2. /\ hit = None /\ i = 0 /\ res = None
      /\ \/ method = "tail_find" /\ pc = "find"
         \/ method = "prefix_len" /\ pc = "loop"
  BY DEF Init
<1> QED BY <1>1, <1>2 DEF IInv, TypeOK, Running, TailFindExact, PrefixLenExact

\* An action that leaves the input alone leaves the inner search alone.
LEMMA InputKept ==
  ASSUME UNCHANGED input
  PROVE  /\ method' = method /\ len' = len /\ needle' = needle /\ high' = high
         /\ InnerFind' = InnerFind
BY DEF input, InnerFind

\* tail_find: the needle search.
LEMMA FindNeedleStep == IInv /\ FindNeedle => IInv'
<1> SUFFICES ASSUME IInv, FindNeedle PROVE IInv'
  OBVIOUS
<1>1. /\ UNCHANGED input /\ pc = "find" /\ pc' = "probe" /\ hit' = InnerFind
      /\ i' = i /\ res' = res /\ method = "tail_find"
  BY DEF FindNeedle, IInv, Running
<1>2. /\ method' = method /\ len' = len /\ needle' = needle /\ high' = high
      /\ InnerFind' = InnerFind
  BY <1>1, InputKept
<1>3. InnerFind \in needle \cup {None}
  BY InnerFindExact DEF IInv, TypeOK, InputOK
<1> QED BY <1>1, <1>2, <1>3 DEF IInv, TypeOK, Running, TailFindExact, PrefixLenExact

\* tail_find: the ASCII check of what lies before the needle.
LEMMA ProbeAsciiStep == IInv /\ ProbeAscii => IInv'
<1> SUFFICES ASSUME IInv, ProbeAscii PROVE IInv'
  OBVIOUS
<1>0. InputOK /\ len \in Nat /\ needle \subseteq 0 .. len - 1 /\ high \subseteq 0 .. len - 1
  BY DEF IInv, TypeOK, InputOK
<1>1. /\ UNCHANGED input /\ pc = "probe" /\ pc' = "done" /\ hit' = hit /\ i' = i
      /\ res' = IF AsciiRun(Limit) < Limit THEN AsciiRun(Limit) ELSE hit
      /\ method = "tail_find" /\ hit = InnerFind
  BY DEF ProbeAscii, IInv, Running
<1>2. /\ method' = method /\ len' = len /\ needle' = needle /\ high' = high
  BY <1>1, InputKept
<1>3. /\ Limit \in 0 .. len
      /\ \A p \in needle : Limit <= p
      /\ (Limit = len /\ hit = None /\ needle = {}) \/ (Limit = hit /\ hit \in needle)
  <2>1. CASE needle = {}
    BY <1>0, <1>1, <2>1, InnerFindExact DEF Limit
  <2>2. CASE needle # {}
    <3>1. hit \in needle /\ \A p \in needle : hit <= p
      BY <1>0, <1>1, <2>2, InnerFindExact
    <3>2. hit \in 0 .. len - 1
      BY <1>0, <3>1
    <3>3. Limit = hit
      BY <3>2, NoneAssumption DEF Limit
    <3> QED BY <1>0, <3>1, <3>2, <3>3
  <2> QED BY <2>1, <2>2
<1>4. /\ AsciiRun(Limit) \in 0 .. Limit
      /\ \A p \in high : AsciiRun(Limit) <= p
      /\ AsciiRun(Limit) < Limit => AsciiRun(Limit) \in high
  BY <1>0, <1>3, AsciiRunExact
<1>5. IF needle \cup high = {} THEN res' = None
      ELSE res' \in needle \cup high /\ \A p \in needle \cup high : res' <= p
  <2>1. CASE AsciiRun(Limit) < Limit
    <3>1. PICK r \in 0 .. Limit : r = AsciiRun(Limit)
      BY <1>4
    <3>2. r \in high /\ (\A p \in high : r <= p) /\ r < Limit
      BY <1>4, <2>1, <3>1
    <3>3. \A p \in needle : r <= p
      BY <1>0, <1>3, <3>2
    <3> QED BY <1>1, <2>1, <3>1, <3>2, <3>3
  <2>2. CASE ~(AsciiRun(Limit) < Limit)
    <3>1. AsciiRun(Limit) = Limit /\ res' = hit
      BY <1>1, <1>3, <1>4, <2>2
    <3>2. \A p \in high : Limit <= p
      BY <1>4, <3>1
    <3>3. CASE hit = None /\ needle = {} /\ Limit = len
      <4>1. high = {}
        BY <1>0, <3>2, <3>3
      <4> QED BY <3>1, <3>3, <4>1
    <3>4. CASE Limit = hit /\ hit \in needle
      BY <1>3, <3>1, <3>2, <3>4
    <3> QED BY <1>3, <3>3, <3>4
  <2> QED BY <2>1, <2>2
<1>6. res' \in 0 .. len \cup {None}
  <2>1. needle \cup high \subseteq 0 .. len
    BY <1>0
  <2>2. res' = None \/ res' \in needle \cup high
    BY <1>5
  <2> QED BY <2>1, <2>2
<1> QED BY <1>0, <1>1, <1>2, <1>5, <1>6
        DEF IInv, TypeOK, Running, TailFindExact, PrefixLenExact

\* prefix_len: a round of the loop.
LEMMA RoundStep == IInv /\ Round => IInv' /\ (pc' = "loop" => i' > i)
<1> SUFFICES ASSUME IInv, Round PROVE IInv' /\ (pc' = "loop" => i' > i)
  OBVIOUS
<1> DEFINE a == NeedleRun(i)
           b == HighRun(i + a)
<1>0. /\ InputOK /\ len \in Nat /\ needle \subseteq 0 .. len - 1
      /\ high \subseteq 0 .. len - 1 /\ i \in 0 .. len
  BY DEF IInv, TypeOK, InputOK
<1>1. /\ UNCHANGED input /\ pc = "loop" /\ hit' = hit /\ i' = i + a + b
      /\ \/ a = 0 /\ b = 0 /\ pc' = "done" /\ res' = i'
         \/ ~(a = 0 /\ b = 0) /\ pc' = pc /\ res' = res
  BY DEF Round
<1>2. /\ method = "prefix_len"
      /\ \A p \in 0 .. i - 1 : p \in needle \cup high
  BY <1>1 DEF IInv, Running
<1>3. /\ a \in Nat /\ b \in Nat /\ i + a + b \in 0 .. len
      /\ \A p \in i .. i + a + b - 1 : p \in needle \cup high
      /\ a = 0 /\ b = 0 /\ i < len => i \notin needle \cup high
  BY <1>0, RunsExact
<1> HIDE DEF a, b
<1>4. /\ method' = method /\ len' = len /\ needle' = needle /\ high' = high
  BY <1>1, InputKept
<1>5. PICK j \in 0 .. len : j = i' /\ j = i + a + b
  BY <1>1, <1>3
<1>6. \A p \in 0 .. j - 1 : p \in needle \cup high
  <2>1. TAKE p \in 0 .. j - 1
  <2>2. p \in 0 .. i - 1 \/ p \in i .. i + a + b - 1
    BY <1>0, <1>3, <1>5
  <2> QED BY <2>2, <1>2, <1>3
<1>7. CASE a = 0 /\ b = 0
  <2>1. pc' = "done" /\ res' = j /\ j = i
    BY <1>0, <1>1, <1>5, <1>7
  <2>2. PrefixLenExact'
    BY <1>3, <1>4, <1>6, <1>7, <2>1 DEF PrefixLenExact
  <2> QED BY <1>0, <1>1, <1>2, <1>4, <1>5, <2>1, <2>2
          DEF IInv, TypeOK, Running, TailFindExact
<1>8. CASE ~(a = 0 /\ b = 0)
  <2>1. pc' = "loop" /\ res' = res
    BY <1>1, <1>8
  <2>2. i' > i
    BY <1>0, <1>3, <1>5, <1>8
  <2>3. TypeOK'
    BY <1>0, <1>1, <1>4, <1>5, <2>1 DEF IInv, TypeOK
  <2>4. Running'
    BY <1>1, <1>2, <1>4, <1>5, <1>6, <2>1 DEF Running
  <2> QED BY <2>1, <2>2, <2>3, <2>4 DEF IInv, TailFindExact, PrefixLenExact
<1> QED BY <1>7, <1>8

\* Every step preserves the invariant.
LEMMA IInvStep == IInv /\ [Next]_vars => IInv'
<1> SUFFICES ASSUME IInv, [Next]_vars PROVE IInv'
  OBVIOUS
<1>1. CASE UNCHANGED vars
  BY <1>1 DEF vars, input, IInv, TypeOK, Running, TailFindExact, PrefixLenExact, InnerFind
<1> QED BY <1>1, FindNeedleStep, ProbeAsciiStep, RoundStep DEF Next, Step, Returned

\* The invariant holds of every call.
LEMMA IInvAlways == Spec => []IInv
BY IInvInit, IInvStep, PTL DEF Spec

\* The index and the result stay inside the input.
THEOREM MethodTypes == Spec => []TypeOK
<1>1. IInv => TypeOK
  BY DEF IInv
<1> QED BY <1>1, IInvAlways, PTL

\* tail_find returns the first byte that is a needle or is not ASCII, for every
\* input.
THEOREM TailFinds == Spec => []TailFindExact
<1>1. IInv => TailFindExact
  BY DEF IInv
<1> QED BY <1>1, IInvAlways, PTL

\* prefix_len returns the longest prefix of needles and non-ASCII bytes, for every
\* input.
THEOREM PrefixMeasured == Spec => []PrefixLenExact
<1>1. IInv => PrefixLenExact
  BY DEF IInv
<1> QED BY <1>1, IInvAlways, PTL

\* Every round that does not return moves the index, so that the loop has at most
\* as many rounds as the input has bytes.
THEOREM RoundsProgress == Spec => Progresses
<1>1. IInv /\ [Next]_vars => [pc = "loop" /\ pc' = "loop" => i' > i]_vars
  <2> SUFFICES ASSUME IInv, Next, pc = "loop", pc' = "loop" PROVE i' > i
    OBVIOUS
  <2>1. Round
    BY DEF Next, Step, FindNeedle, ProbeAscii, Returned
  <2> QED BY <2>1, RoundStep
<1> QED BY <1>1, IInvAlways, PTL DEF Spec, Progresses
=============================================================================
