-------------------------- MODULE StringBodyProofs --------------------------
(* For every source: the loop that validates the non-ASCII runs one by one  *)
(* accepts exactly the bodies that are UTF-8 as a whole, and implements the *)
(* validation of the body from its beginning.                               *)
EXTENDS StringBody, TLAPS

-----------------------------------------------------------------------------
(* Where a text may be cut.                                                 *)

\* A byte calls for a number of continuation bytes, ASCII and stray ones for none.
LEMMA TrailType ==
  /\ \A k \in Kinds : Trail[k] \in Nat
  /\ Trail["quote"] = 0 /\ Trail["ascii"] = 0
  /\ Kinds = {"quote", "ascii", "lead2", "lead3", "cont"}
BY DEF Kinds, Trail

\* Two texts that follow each other are one.
LEMMA TextJoin ==
  ASSUME NEW n \in Nat, NEW s \in [0 .. n - 1 -> Kinds],
         NEW lo \in Nat, NEW mid \in lo .. n, NEW hi \in mid .. n,
         Text(s, lo, mid), Text(s, mid, hi)
  PROVE  Text(s, lo, hi)
<1> SUFFICES ASSUME NEW i \in lo .. hi - 1
             PROVE  /\ \A k \in 1 .. Trail[s[i]] : i + k < hi /\ s[i + k] = "cont"
                    /\ s[i] = "cont" => \E l \in lo .. i - 1 : i - l <= Trail[s[l]]
  BY DEF Text
<1>0. i \in Nat /\ s[i] \in Kinds /\ Trail[s[i]] \in Nat
  <2>1. i \in 0 .. n - 1
    OBVIOUS
  <2> QED BY <2>1, TrailType
<1>1. CASE i < mid
  <2>1. /\ \A k \in 1 .. Trail[s[i]] : i + k < mid /\ s[i + k] = "cont"
        /\ s[i] = "cont" => \E l \in lo .. i - 1 : i - l <= Trail[s[l]]
    BY <1>0, <1>1 DEF Text
  <2> QED BY <1>0, <2>1
<1>2. CASE mid <= i
  <2>1. /\ \A k \in 1 .. Trail[s[i]] : i + k < hi /\ s[i + k] = "cont"
        /\ s[i] = "cont" => \E l \in mid .. i - 1 : i - l <= Trail[s[l]]
    BY <1>0, <1>2 DEF Text
  <2>2. mid .. i - 1 \subseteq lo .. i - 1
    BY <1>0
  <2> QED BY <2>1, <2>2
<1> QED BY <1>0, <1>1, <1>2

\* ASCII bytes are a text.
LEMMA AsciiIsText ==
  ASSUME NEW n \in Nat, NEW s \in [0 .. n - 1 -> Kinds],
         NEW lo \in Nat, NEW hi \in lo .. n,
         \A i \in lo .. hi - 1 : s[i] \in Ascii
  PROVE  Text(s, lo, hi)
<1> SUFFICES ASSUME NEW i \in lo .. hi - 1
             PROVE  Trail[s[i]] = 0 /\ s[i] # "cont"
  BY DEF Text
<1> QED BY TrailType DEF Ascii

\* "A maximal non-ASCII run holds whole sequences when it is valid": what lies
\* between two places where a text may be cut is a text.
LEMMA TextBetween ==
  ASSUME NEW n \in Nat, NEW s \in [0 .. n - 1 -> Kinds],
         NEW p \in Nat, NEW f \in p .. n, NEW q \in f .. n,
         Text(s, 0, q), Text(s, 0, p),
         f < q => s[f] \in Ascii
  PROVE  Text(s, p, f)
<1> SUFFICES ASSUME NEW i \in p .. f - 1
             PROVE  /\ \A k \in 1 .. Trail[s[i]] : i + k < f /\ s[i + k] = "cont"
                    /\ s[i] = "cont" => \E l \in p .. i - 1 : i - l <= Trail[s[l]]
  BY DEF Text
<1>0. i \in 0 .. q - 1 /\ s[i] \in Kinds /\ Trail[s[i]] \in Nat
  <2>1. i \in 0 .. n - 1 /\ i \in 0 .. q - 1
    OBVIOUS
  <2> QED BY <2>1, TrailType
<1>1. /\ \A k \in 1 .. Trail[s[i]] : i + k < q /\ s[i + k] = "cont"
      /\ s[i] = "cont" => \E l \in 0 .. i - 1 : i - l <= Trail[s[l]]
  BY <1>0 DEF Text
<1>2. ASSUME NEW k \in 1 .. Trail[s[i]] PROVE i + k < f /\ s[i + k] = "cont"
  <2>1. i + k < q /\ s[i + k] = "cont"
    BY <1>1
  <2>2. ASSUME f <= i + k PROVE FALSE
    <3>1. f - i \in 1 .. Trail[s[i]] /\ i + (f - i) = f
      BY <1>0, <2>2
    <3>2. s[f] = "cont"
      BY <1>1, <3>1
    <3>3. f < q
      BY <1>0, <2>1, <2>2
    <3> QED BY <3>2, <3>3 DEF Ascii
  <2> QED BY <1>0, <2>1, <2>2
<1>3. ASSUME s[i] = "cont" PROVE \E l \in p .. i - 1 : i - l <= Trail[s[l]]
  <2>1. PICK l \in 0 .. i - 1 : i - l <= Trail[s[l]]
    BY <1>1, <1>3
  <2>2. ASSUME l < p PROVE FALSE
    <3>1. l \in 0 .. p - 1 /\ l \in 0 .. n - 1
      BY <1>0, <2>2
    <3>2. Trail[s[l]] \in Nat
      BY <3>1, TrailType
    <3>3. i - l \in 1 .. Trail[s[l]] /\ l + (i - l) = i
      BY <1>0, <2>1, <3>1, <3>2
    <3>4. l + (i - l) < p
      BY <3>1, <3>3 DEF Text
    <3> QED BY <1>0, <3>1, <3>4
  <2> QED BY <1>0, <2>1, <2>2
<1> QED BY <1>2, <1>3

-----------------------------------------------------------------------------
(* The invariant.                                                           *)

\* what the loop has accepted: text without a quote
Accepted == Text(byte, 0, pos) /\ \A i \in 0 .. pos - 1 : byte[i] # "quote"

\* what the scan in hand has passed, and where it was answered
Passed == /\ pc = "until" => /\ \A i \in pos .. front - 1 : byte[i] = "ascii"
                             /\ answered => front = len \/ front \in UntilStops
          /\ pc = "run" => /\ \A i \in pos .. front - 1 : byte[i] \notin Ascii
                           /\ answered => front = len \/ front \in RunStops

IInv == /\ TypeOK
        /\ Accepted
        /\ Passed
        /\ pc # "done" => res = None
        /\ BodyExact

\* There is no byte before the beginning.
LEMMA IInvInit == Init => IInv
<1> SUFFICES ASSUME Init PROVE IInv
  OBVIOUS
<1>1. TypeOK
  <2>1. PICK i \in Inputs : len = i.len /\ byte = i.byte
    BY DEF Init
  <2>2. len \in Nat /\ byte \in [0 .. len - 1 -> Kinds]
    BY <2>1, InputAssumption
  <2>3. /\ pos = 0 /\ front = 0 /\ pc = "until" /\ res = None
        /\ answered \in BOOLEAN
    BY DEF Init
  <2> QED BY <2>2, <2>3 DEF TypeOK
<1>2. Accepted /\ Passed
  BY DEF Init, Accepted, Passed, Text
<1> QED BY <1>1, <1>2 DEF Init, IInv, BodyExact

\* The bytes that either scan passes.
LEMMA StopKinds ==
  ASSUME TypeOK, NEW i \in 0 .. len - 1
  PROVE  /\ i \notin UntilStops => byte[i] = "ascii"
         /\ i \notin RunStops => byte[i] \notin Ascii
         /\ byte[i] \in Kinds
BY TrailType DEF TypeOK, UntilStops, RunStops, Ascii

\* Where the scan for the end has come to, the body is still accepted.
LEMMA AcceptedUntil ==
  ASSUME IInv, pc = "until"
  PROVE  Text(byte, 0, front) /\ \A i \in 0 .. front - 1 : byte[i] # "quote"
<1>1. /\ len \in Nat /\ byte \in [0 .. len - 1 -> Kinds]
      /\ pos \in 0 .. len /\ front \in pos .. len
  BY DEF IInv, TypeOK
<1>2. \A i \in pos .. front - 1 : byte[i] = "ascii"
  BY DEF IInv, Passed
<1>3. Text(byte, pos, front)
  BY <1>1, <1>2, AsciiIsText DEF Ascii
<1>4. Text(byte, 0, front)
  BY <1>1, <1>3, TextJoin DEF IInv, Accepted
<1>5. ASSUME NEW i \in 0 .. front - 1 PROVE byte[i] # "quote"
  <2>1. i \in 0 .. pos - 1 \/ i \in pos .. front - 1
    BY <1>1
  <2> QED BY <2>1, <1>2 DEF IInv, Accepted
<1> QED BY <1>4, <1>5

\* A run that is text extends what is accepted.
LEMMA AcceptedRun ==
  ASSUME IInv, pc = "run", RunIsText
  PROVE  Text(byte, 0, front) /\ \A i \in 0 .. front - 1 : byte[i] # "quote"
<1>1. /\ len \in Nat /\ byte \in [0 .. len - 1 -> Kinds]
      /\ pos \in 0 .. len /\ front \in pos .. len
  BY DEF IInv, TypeOK
<1>2. Text(byte, 0, front)
  BY <1>1, TextJoin DEF IInv, Accepted, RunIsText
<1>3. \A i \in pos .. front - 1 : byte[i] # "quote"
  BY DEF IInv, Passed, Ascii
<1>4. ASSUME NEW i \in 0 .. front - 1 PROVE byte[i] # "quote"
  <2>1. i \in 0 .. pos - 1 \/ i \in pos .. front - 1
    BY <1>1
  <2> QED BY <2>1, <1>3 DEF IInv, Accepted
<1> QED BY <1>2, <1>4

\* A run that is not text is in no body that is: such a body would be cut at both
\* ends of the run.
LEMMA InvalidRefutes ==
  ASSUME IInv, pc = "run", answered, ~RunIsText, NEW q \in 0 .. len - 1,
         byte[q] = "quote", Text(byte, 0, q)
  PROVE  FALSE
<1>1. /\ len \in Nat /\ byte \in [0 .. len - 1 -> Kinds]
      /\ pos \in 0 .. len /\ front \in pos .. len /\ q \in Nat
  BY DEF IInv, TypeOK
<1>2. pos <= q
  BY <1>1 DEF IInv, Accepted
<1>3. front <= q
  <2>1. \A i \in pos .. front - 1 : byte[i] # "quote"
    BY DEF IInv, Passed, Ascii
  <2> QED BY <1>1, <1>2, <2>1
<1>4. byte[front] \in Ascii
  <2>1. front = len \/ front \in RunStops
    BY DEF IInv, Passed
  <2> QED BY <1>1, <1>3, <2>1 DEF RunStops
<1>5. q \in front .. len
  BY <1>1, <1>3
<1>6. Text(byte, pos, front)
  BY <1>1, <1>4, <1>5, TextBetween DEF IInv, Accepted
<1> QED BY <1>6 DEF RunIsText

\* What an action that leaves the source alone leaves alone with it.
LEMMA SourceKept ==
  ASSUME UNCHANGED source
  PROVE  /\ len' = len /\ byte' = byte
         /\ UntilStops' = UntilStops /\ RunStops' = RunStops
BY DEF source, UntilStops, RunStops

\* Every action of the loop preserves the invariant.
LEMMA IInvStep == IInv /\ [Next]_vars => IInv'
<1> SUFFICES ASSUME IInv, [Next]_vars PROVE IInv'
  OBVIOUS
<1>0. /\ len \in Nat /\ byte \in [0 .. len - 1 -> Kinds]
      /\ pos \in 0 .. len /\ front \in pos .. len
      /\ answered \in BOOLEAN /\ res \in 0 .. len - 1 \cup {None}
      /\ pos \in Nat /\ front \in Nat
  BY DEF IInv, TypeOK
<1>1. CASE UNCHANGED vars
  BY <1>1 DEF vars, source, IInv, TypeOK, Accepted, Passed, BodyExact, UntilStops, RunStops
<1>2. CASE ScanUntil
  <2>1. UNCHANGED source /\ pos' = pos /\ pc = "until" /\ pc' = pc /\ res' = res
    BY <1>2 DEF ScanUntil
  <2>2. /\ len' = len /\ byte' = byte
        /\ UntilStops' = UntilStops /\ RunStops' = RunStops
    BY <2>1, SourceKept
  <2>3. /\ front' \in front .. len /\ ~answered
        /\ \A i \in front .. front' - 1 : i \notin UntilStops
        /\ answered' \in BOOLEAN
        /\ answered' => front' = len \/ front' \in UntilStops
    <3>1. CASE Until!Advance
      BY <1>0, <3>1 DEF Until!Advance, Until!Clear
    <3>2. CASE Until!Answer
      <4>1. answered' = TRUE
        BY <3>2 DEF Until!Answer
      <4>2. /\ front' \in front .. len /\ ~answered
            /\ \A i \in front .. front' - 1 : i \notin UntilStops
            /\ front' = len \/ front' \in UntilStops
        BY <3>2 DEF Until!Answer, Until!Clear
      <4> QED BY <4>1, <4>2
    <3> QED BY <1>2, <3>1, <3>2 DEF ScanUntil, Until!Next
  <2>4. PICK f \in front .. len : f = front'
    BY <2>3
  <2>5. \A i \in pos .. f - 1 : byte[i] = "ascii"
    <3>1. TAKE i \in pos .. f - 1
    <3>2. CASE i < front
      BY <1>0, <2>1, <3>2 DEF IInv, Passed
    <3>3. CASE front <= i
      <4>1. i \in 0 .. len - 1 /\ i \in front .. f - 1
        BY <1>0, <3>3
      <4> QED BY <4>1, <2>3, <2>4, StopKinds DEF IInv
    <3> QED BY <1>0, <3>2, <3>3
  <2>6. TypeOK'
    <3>1. front' \in pos .. len
      BY <1>0, <2>4
    <3> QED BY <1>0, <2>1, <2>2, <2>3, <3>1 DEF TypeOK, IInv
  <2>7. Accepted' /\ (pc' # "done" => res' = None) /\ BodyExact'
    BY <2>1, <2>2 DEF IInv, Accepted, BodyExact
  <2>8. Passed'
    <3>1. pc' # "done"
      BY <2>1
    <3> QED BY <2>1, <2>2, <2>3, <2>4, <2>5 DEF Passed
  <2> QED BY <2>6, <2>7, <2>8 DEF IInv
<1>3. CASE ScanRun
  <2>1. UNCHANGED source /\ pos' = pos /\ pc = "run" /\ pc' = pc /\ res' = res
    BY <1>3 DEF ScanRun
  <2>2. /\ len' = len /\ byte' = byte
        /\ UntilStops' = UntilStops /\ RunStops' = RunStops
    BY <2>1, SourceKept
  <2>3. /\ front' \in front .. len /\ ~answered
        /\ \A i \in front .. front' - 1 : i \notin RunStops
        /\ answered' \in BOOLEAN
        /\ answered' => front' = len \/ front' \in RunStops
    <3>1. CASE Run!Advance
      BY <1>0, <3>1 DEF Run!Advance, Run!Clear
    <3>2. CASE Run!Answer
      <4>1. answered' = TRUE
        BY <3>2 DEF Run!Answer
      <4>2. /\ front' \in front .. len /\ ~answered
            /\ \A i \in front .. front' - 1 : i \notin RunStops
            /\ front' = len \/ front' \in RunStops
        BY <3>2 DEF Run!Answer, Run!Clear
      <4> QED BY <4>1, <4>2
    <3> QED BY <1>3, <3>1, <3>2 DEF ScanRun, Run!Next
  <2>4. PICK f \in front .. len : f = front'
    BY <2>3
  <2>5. \A i \in pos .. f - 1 : byte[i] \notin Ascii
    <3>1. TAKE i \in pos .. f - 1
    <3>2. CASE i < front
      BY <1>0, <2>1, <3>2 DEF IInv, Passed
    <3>3. CASE front <= i
      <4>1. i \in 0 .. len - 1 /\ i \in front .. f - 1
        BY <1>0, <3>3
      <4> QED BY <4>1, <2>3, <2>4, StopKinds DEF IInv
    <3> QED BY <1>0, <3>2, <3>3
  <2>6. TypeOK'
    <3>1. front' \in pos .. len
      BY <1>0, <2>4
    <3> QED BY <1>0, <2>1, <2>2, <2>3, <3>1 DEF TypeOK, IInv
  <2>7. Accepted' /\ (pc' # "done" => res' = None) /\ BodyExact'
    BY <2>1, <2>2 DEF IInv, Accepted, BodyExact
  <2>8. Passed'
    <3>1. pc' # "done"
      BY <2>1
    <3> QED BY <2>1, <2>2, <2>3, <2>4, <2>5 DEF Passed
  <2> QED BY <2>6, <2>7, <2>8 DEF IInv
<1>4. CASE Unterminated
  <2>1. /\ UNCHANGED source /\ pos' = pos /\ pc' = "done" /\ res' = None
        /\ front' = front /\ answered' = answered /\ front = len /\ pc = "until"
    BY <1>4 DEF Unterminated, Return
  <2>2. len' = len /\ byte' = byte
    BY <2>1, SourceKept
  <2>3. \A i \in 0 .. len - 1 : byte[i] # "quote"
    BY <2>1, AcceptedUntil
  <2>4. TypeOK' /\ Accepted' /\ Passed'
    BY <1>0, <2>1, <2>2 DEF IInv, TypeOK, Accepted, Passed
  <2>5. BodyExact'
    BY <2>1, <2>2, <2>3 DEF BodyExact
  <2> QED BY <2>1, <2>4, <2>5 DEF IInv
<1>5. CASE Quote
  <2>1. /\ UNCHANGED source /\ pos' = front /\ pc' = "done" /\ res' = front
        /\ front' = front /\ answered' = answered /\ front < len /\ pc = "until"
        /\ byte[front] = "quote"
    BY <1>5 DEF Quote, Return
  <2>2. len' = len /\ byte' = byte
    BY <2>1, SourceKept
  <2>3. Text(byte, 0, front) /\ \A i \in 0 .. front - 1 : byte[i] # "quote"
    BY <2>1, AcceptedUntil
  <2>4. TypeOK' /\ Accepted' /\ Passed'
    BY <1>0, <2>1, <2>2, <2>3 DEF TypeOK, Accepted, Passed
  <2>5. BodyExact'
    <3> DEFINE quotes == {q \in 0 .. len - 1 : byte[q] = "quote"}
    <3>1. front \in quotes /\ \A p \in quotes : front <= p
      BY <1>0, <2>1, <2>3
    <3>2. \E q \in quotes : Text(byte, 0, q) /\ \A p \in quotes : q <= p
      BY <2>3, <3>1
    <3> QED BY <2>1, <2>2, <3>1, <3>2 DEF BodyExact
  <2> QED BY <2>1, <2>4, <2>5 DEF IInv
<1>6. CASE NonAscii
  <2>1. /\ UNCHANGED source /\ pos' = front /\ pc' = "run" /\ res' = res
        /\ front' = front /\ answered' = FALSE /\ front < len /\ pc = "until"
    BY <1>6 DEF NonAscii, Begin
  <2>2. len' = len /\ byte' = byte
    BY <2>1, SourceKept
  <2>3. Text(byte, 0, front) /\ \A i \in 0 .. front - 1 : byte[i] # "quote"
    BY <2>1, AcceptedUntil
  <2>4. TypeOK' /\ Accepted'
    <3>1. answered' \in BOOLEAN
      BY <2>1
    <3>2. front' \in pos' .. len' /\ pos' \in 0 .. len' /\ pc' \in {"until", "run", "done"}
      BY <1>0, <2>1, <2>2
    <3>3. len' \in Nat /\ byte' \in [0 .. len' - 1 -> Kinds] /\ res' \in 0 .. len' - 1 \cup {None}
      BY <1>0, <2>1, <2>2
    <3>4. Accepted'
      BY <2>1, <2>2, <2>3 DEF Accepted
    <3> QED BY <3>1, <3>2, <3>3, <3>4 DEF TypeOK
  <2>5. Passed'
    BY <1>0, <2>1 DEF Passed
  <2> QED BY <2>1, <2>4, <2>5 DEF IInv, BodyExact
<1>7. CASE Invalid
  <2>1. /\ UNCHANGED source /\ pos' = pos /\ pc' = "done" /\ res' = None
        /\ front' = front /\ answered' = answered /\ answered /\ ~RunIsText /\ pc = "run"
    BY <1>7 DEF Invalid, Return
  <2>2. len' = len /\ byte' = byte
    BY <2>1, SourceKept
  <2>3. \A q \in 0 .. len - 1 : byte[q] = "quote" => ~Text(byte, 0, q)
    BY <2>1, InvalidRefutes
  <2>4. TypeOK' /\ Accepted' /\ Passed'
    BY <1>0, <2>1, <2>2 DEF IInv, TypeOK, Accepted, Passed
  <2>5. BodyExact'
    BY <2>1, <2>2, <2>3 DEF BodyExact
  <2> QED BY <2>1, <2>4, <2>5 DEF IInv
<1>8. CASE Valid
  <2>1. /\ UNCHANGED source /\ pos' = front /\ pc' = "until" /\ res' = res
        /\ front' = front /\ answered' = FALSE /\ pc = "run" /\ RunIsText
    BY <1>8 DEF Valid, Begin
  <2>2. len' = len /\ byte' = byte
    BY <2>1, SourceKept
  <2>3. Text(byte, 0, front) /\ \A i \in 0 .. front - 1 : byte[i] # "quote"
    BY <2>1, AcceptedRun
  <2>4. TypeOK' /\ Accepted'
    <3>1. answered' \in BOOLEAN
      BY <2>1
    <3>2. front' \in pos' .. len' /\ pos' \in 0 .. len' /\ pc' \in {"until", "run", "done"}
      BY <1>0, <2>1, <2>2
    <3>3. len' \in Nat /\ byte' \in [0 .. len' - 1 -> Kinds] /\ res' \in 0 .. len' - 1 \cup {None}
      BY <1>0, <2>1, <2>2
    <3>4. Accepted'
      BY <2>1, <2>2, <2>3 DEF Accepted
    <3> QED BY <3>1, <3>2, <3>3, <3>4 DEF TypeOK
  <2>5. Passed'
    BY <1>0, <2>1 DEF Passed
  <2> QED BY <2>1, <2>4, <2>5 DEF IInv, BodyExact
<1> QED BY <1>1, <1>2, <1>3, <1>4, <1>5, <1>6, <1>7, <1>8 DEF Next, Step, Returned

\* The invariant holds of every behaviour of the loop.
LEMMA IInvAlways == Spec => []IInv
BY IInvInit, IInvStep, PTL DEF Spec

\* The position and the scan in hand stay inside the source.
THEOREM BodyTypes == Spec => []TypeOK
<1>1. IInv => TypeOK
  BY DEF IInv
<1> QED BY <1>1, IInvAlways, PTL

\* string_body_len accepts the body up to the first quote exactly when it is UTF-8
\* as a whole, on every source: no sequence is cut by where the two scans stop, and
\* none that is interrupted passes.
THEOREM BodiesExact == Spec => []BodyExact
<1>1. IInv => BodyExact
  BY DEF IInv
<1> QED BY <1>1, IInvAlways, PTL

-----------------------------------------------------------------------------
(* Progress.                                                                *)

\* The second scan begins at a byte that stopped the first and is no quote.
RunBegun == pc = "run" => pos < len /\ byte[pos] \notin Ascii

\* Only NonAscii enters a run, and the position stays until the run is left.
LEMMA RunBegunStep == IInv /\ RunBegun /\ [Next]_vars => RunBegun'
<1> SUFFICES ASSUME IInv, RunBegun, [Next]_vars PROVE RunBegun'
  OBVIOUS
<1>0. /\ len \in Nat /\ front \in pos .. len
      /\ pc \in {"until", "run", "done"}
  BY DEF IInv, TypeOK
<1>1. CASE NonAscii
  <2>1. /\ UNCHANGED source /\ pos' = front /\ pc = "until" /\ answered
        /\ front < len /\ byte[front] # "quote"
    BY <1>1 DEF NonAscii, Begin
  <2>2. front \in UntilStops
    BY <1>0, <2>1 DEF IInv, Passed
  <2>3. byte[front] \notin Ascii
    BY <2>1, <2>2 DEF UntilStops
  <2> QED BY <2>1, <2>3 DEF RunBegun, source
<1>2. CASE Unterminated \/ Quote \/ Invalid \/ Valid
  BY <1>2 DEF Unterminated, Quote, Invalid, Valid, Return, Begin, RunBegun
<1>3. CASE ScanUntil \/ ScanRun \/ UNCHANGED vars
  BY <1>3 DEF ScanUntil, ScanRun, vars, source, RunBegun
<1> QED BY <1>1, <1>2, <1>3 DEF Next, Step, Returned

\* The loop of string_body_len never goes round in one place: the run that it
\* validates has at least one byte, whatever the source.
THEOREM RoundsMoveOn == Spec => RoundsMove
<1>1. Init => RunBegun
  BY DEF Init, RunBegun
<1>2. IInv /\ RunBegun /\ [Next]_vars => [pc = "run" /\ pc' = "until" => pos' > pos]_vars
  <2> SUFFICES ASSUME IInv, RunBegun, Next, pc = "run", pc' = "until" PROVE pos' > pos
    OBVIOUS
  <2>1. pos' = front /\ answered
    BY DEF Next, Step, ScanUntil, Unterminated, Quote, NonAscii, ScanRun, Invalid, Valid,
           Return, Begin, Returned, vars
  <2>2. /\ len \in Nat /\ pos \in 0 .. len /\ front \in pos .. len
        /\ pos < len /\ byte[pos] \notin Ascii
    BY DEF IInv, TypeOK, RunBegun
  <2>3. front = len \/ byte[front] \in Ascii
    BY <2>1 DEF IInv, Passed, RunStops
  <2> QED BY <2>1, <2>2, <2>3
<1> QED BY <1>1, <1>2, RunBegunStep, IInvAlways, PTL DEF Spec, RoundsMove

-----------------------------------------------------------------------------
(* The refinement.                                                          *)

\* What the abstract body has accepted at n.
LEMMA OpenIs ==
  ASSUME NEW n
  PROVE  B!Open(n) <=> Text(byte, 0, n) /\ \A i \in 0 .. n - 1 : byte[i] # "quote"
BY DEF B!Open, B!Text, Text, B!Trail, Trail

\* Every step of the loop accepts more of the body, answers, or is one of its
\* scans'.
LEMMA StepRefines == IInv /\ IInv' /\ [Next]_vars => [B!Next]_(B!vars)
<1> SUFFICES ASSUME IInv, IInv', [Next]_vars PROVE [B!Next]_(B!vars)
  OBVIOUS
<1>0. /\ len \in Nat /\ pos \in 0 .. len /\ front \in pos .. len
      /\ pc # "done" => res = None
  BY DEF IInv, TypeOK
<1>1. CASE UNCHANGED vars
  BY <1>1 DEF vars, source, B!vars
<1>2. CASE ScanUntil \/ ScanRun
  BY <1>2 DEF ScanUntil, ScanRun, source, B!vars
<1>3. CASE Unterminated
  <2>1. /\ len' = len /\ byte' = byte /\ pos' = pos /\ pc' = "done" /\ res' = res
        /\ front = len /\ pc = "until"
    BY <1>0, <1>3 DEF Unterminated, Return, source
  <2>2. \A i \in 0 .. len - 1 : byte[i] # "quote"
    BY <2>1, AcceptedUntil
  <2>3. B!Refuse
    BY <2>1, <2>2 DEF B!Refuse, B!Ends
  <2> QED BY <2>3 DEF B!Next
<1>4. CASE Quote
  <2>1. /\ len' = len /\ byte' = byte /\ pos' = front /\ pc' = "done" /\ res' = front
        /\ front < len /\ pc = "until" /\ byte[front] = "quote"
    BY <1>4 DEF Quote, Return, source
  <2>2. B!Ends(front)
    BY <2>1, AcceptedUntil, OpenIs DEF B!Ends
  <2>3. B!Accept
    BY <1>0, <2>1, <2>2 DEF B!Accept
  <2> QED BY <2>3 DEF B!Next
<1>5. CASE NonAscii
  <2>1. /\ len' = len /\ byte' = byte /\ pos' = front /\ pc' = "run" /\ res' = res
        /\ pc = "until"
    BY <1>5 DEF NonAscii, Begin, source
  <2>2. B!Open(front)
    BY <2>1, AcceptedUntil, OpenIs
  <2>3. B!Advance
    BY <1>0, <2>1, <2>2 DEF B!Advance
  <2> QED BY <2>3 DEF B!Next
<1>6. CASE Invalid
  <2>1. /\ len' = len /\ byte' = byte /\ pos' = pos /\ pc' = "done" /\ res' = res
        /\ pc = "run" /\ answered /\ ~RunIsText
    BY <1>0, <1>6 DEF Invalid, Return, source
  <2>2. \A q \in 0 .. len - 1 : byte[q] = "quote" => ~Text(byte, 0, q)
    BY <2>1, InvalidRefutes
  <2>3. \A q \in 0 .. len - 1 : ~B!Ends(q)
    BY <2>2, OpenIs DEF B!Ends
  <2>4. B!Refuse
    BY <2>1, <2>3 DEF B!Refuse
  <2> QED BY <2>4 DEF B!Next
<1>7. CASE Valid
  <2>1. /\ len' = len /\ byte' = byte /\ pos' = front /\ pc' = "until" /\ res' = res
        /\ pc = "run" /\ RunIsText
    BY <1>7 DEF Valid, Begin, source
  <2>2. B!Open(front)
    BY <2>1, AcceptedRun, OpenIs
  <2>3. B!Advance
    BY <1>0, <2>1, <2>2 DEF B!Advance
  <2> QED BY <2>3 DEF B!Next
<1> QED BY <1>1, <1>2, <1>3, <1>4, <1>5, <1>6, <1>7 DEF Next, Step, Returned

\* The loop over two scans implements the validation of the body from its
\* beginning, for every source.
THEOREM ImplementsBody == Spec => BodySpec
<1>1. Init => B!Init
  <2> SUFFICES ASSUME Init PROVE B!Init
    OBVIOUS
  <2>1. TypeOK
    BY IInvInit DEF IInv
  <2>2. len \in Nat /\ byte \in [0 .. len - 1 -> B!Kinds]
    BY <2>1 DEF TypeOK, B!Kinds, Kinds, B!Trail, Trail
  <2> QED BY <2>2 DEF Init, B!Init
<1>2. IInv /\ IInv' /\ [Next]_vars => [B!Next]_(B!vars)
  BY StepRefines
<1> QED BY <1>1, <1>2, IInvAlways, PTL DEF Spec, BodySpec, B!Spec
=============================================================================
