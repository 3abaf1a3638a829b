----------------------------- MODULE StringBody -----------------------------
(* string_body_len, the lexer loop that the documentation of                *)
(* skip_until_or_non_ascii gives: it alternates that scan with              *)
(* skip_non_ascii, adds what each returns to one position, and has          *)
(* from_utf8 validate every run of non-ASCII bytes by itself.  The two scans *)
(* are instances of Scan, which the calls of Memspan implement.             *)
EXTENDS Utf8

CONSTANTS
  None,    \* Option::None
  Inputs   \* records [len, byte]: the sources considered

ASSUME InputAssumption ==
  \A i \in Inputs : i.len \in Nat /\ i.byte \in [0 .. i.len - 1 -> Kinds]
ASSUME NoneAssumption == None \notin Nat

VARIABLES
  len,       \* the length of src
  byte,      \* its bytes, by kind
  pos,
  pc,        \* "until", "run" (the scan being run) or "done"
  front,     \* how far the scan in hand has come, counted from the start of src
  answered,  \* whether it has returned
  res

source == <<len, byte>>
vars == <<source, pos, pc, front, answered, res>>

-----------------------------------------------------------------------------
(* The two scans of src[pos..], in positions of src.                        *)

\* Mutant: the scan is a skip_until.
UntilStopsQuote == {i \in 0 .. len - 1 : byte[i] = "quote"}

\* where skip_until_or_non_ascii stops
UntilStops == {i \in 0 .. len - 1 : byte[i] = "quote" \/ byte[i] \notin Ascii}

\* Mutant: the second scan is a skip_ascii.
RunStopsOther == {i \in 0 .. len - 1 : byte[i] \notin Ascii}

\* where skip_non_ascii stops
RunStops == {i \in 0 .. len - 1 : byte[i] \in Ascii}

Until == INSTANCE Scan WITH stop <- UntilStops
Run == INSTANCE Scan WITH stop <- RunStops

-----------------------------------------------------------------------------

Init == /\ \E i \in Inputs : len = i.len /\ byte = i.byte
        /\ pos = 0
        /\ pc = "until"
        /\ front = 0
        /\ answered = FALSE
        /\ res = None

\* the next scan begins at pos
Begin(scan) == pc' = scan /\ front' = pos' /\ answered' = FALSE /\ UNCHANGED <<source, res>>

Return(r) == pc' = "done" /\ res' = r /\ UNCHANGED <<source, front, answered>>

ScanUntil == /\ pc = "until"
             /\ UNCHANGED <<source, pos, pc, res>>
             /\ Until!Next

\* the first `?`: neither a quote nor a non-ASCII byte is left
Unterminated == /\ pc = "until" /\ answered
                /\ front = len
                /\ Return(None)
                /\ UNCHANGED pos

\* src[pos] == b'"'
Quote == /\ pc = "until" /\ answered
         /\ front < len /\ byte[front] = "quote"
         /\ pos' = front
         /\ Return(pos')

\* Mutant: the result of the scan is added twice.
NonAsciiTwice == /\ pc = "until" /\ answered
                 /\ front < len /\ byte[front] # "quote"
                 /\ pos' = front + (front - pos)
                 /\ Begin("run")

NonAscii == /\ pc = "until" /\ answered
            /\ front < len /\ byte[front] # "quote"
            /\ pos' = front
            /\ Begin("run")

ScanRun == /\ pc = "run"
           /\ UNCHANGED <<source, pos, pc, res>>
           /\ Run!Next

\* Mutant: the last byte of the run is not validated.
RunIsTextButLast == Text(byte, pos, front - 1)

\* from_utf8(&src[pos..pos + run])
RunIsText == Text(byte, pos, front)

\* the second `?`
Invalid == /\ pc = "run" /\ answered
           /\ ~RunIsText
           /\ Return(None)
           /\ UNCHANGED pos

\* Mutant: the run is not added to the position.
ValidStays == /\ pc = "run" /\ answered
              /\ RunIsText
              /\ pos' = pos
              /\ Begin("until")

\* pos += run
Valid == /\ pc = "run" /\ answered
         /\ RunIsText
         /\ pos' = front
         /\ Begin("until")

Step == \/ ScanUntil \/ Unterminated \/ Quote \/ NonAscii
        \/ ScanRun \/ Invalid \/ Valid

Returned == pc = "done" /\ UNCHANGED vars

Next == Step \/ Returned

Spec == Init /\ [][Next]_vars

\* the loop waits for nothing but its scans, and these return
FairSpec == Spec /\ WF_vars(Step)

-----------------------------------------------------------------------------

\* Types of the loop's variables; a scan stays in what is left of src.
TypeOK == /\ len \in Nat
          /\ byte \in [0 .. len - 1 -> Kinds]
          /\ pos \in 0 .. len
          /\ pc \in {"until", "run", "done"}
          /\ front \in pos .. len
          /\ answered \in BOOLEAN
          /\ res \in 0 .. len - 1 \cup {None}

\* "The length of a string body that ends at `"` and must be UTF-8", the body
\* taken as a whole: validating its non-ASCII runs one by one accepts and refuses
\* the same bodies, because "a maximal non-ASCII run holds whole sequences when it
\* is valid".  What comes after the quote is not judged.
BodyExact ==
  pc = "done" =>
    LET quotes == {q \in 0 .. len - 1 : byte[q] = "quote"}
    IN  IF \E q \in quotes : Text(byte, 0, q) /\ \A p \in quotes : q <= p
          THEN res \in quotes /\ \A p \in quotes : res <= p
          ELSE res = None

\* A run that is found is not empty: the byte that stopped the first scan is one that
\* the second passes over, so a round that goes back to the first has moved the
\* position, and there are no more rounds than bytes.
RoundsMove == [][pc = "run" /\ pc' = "until" => pos' > pos]_vars

\* The loop ends on every source: its rounds move the position, and its scans
\* return.
Terminates == <>(pc = "done")

\* The loop implements a validation of the body from its beginning.
B == INSTANCE Body WITH front <- pos, answered <- (pc = "done")

BodySpec == B!Spec
=============================================================================
