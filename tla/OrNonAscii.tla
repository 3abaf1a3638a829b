----------------------------- MODULE OrNonAscii -----------------------------
(* The scalar methods of OrNonAscii, the wrapper behind                     *)
(* skip_until_or_non_ascii.  Neither looks at a byte itself: both are built  *)
(* from calls to the inner needle set and to the ASCII class scans, each of *)
(* which sees only one of the two reasons to stop.                          *)
EXTENDS Integers, FiniteSetsExt

CONSTANTS
  None,    \* Option::None
  Inputs   \* records [len, needle, high]: the inputs considered

ASSUME InputAssumption ==
  \A i \in Inputs : /\ i.len \in Nat
                    /\ i.needle \subseteq 0 .. i.len - 1
                    /\ i.high \subseteq 0 .. i.len - 1
ASSUME NoneAssumption == None \notin Nat

VARIABLES
  method,  \* "tail_find" or "prefix_len"
  len,     \* the length of the input
  needle,  \* the positions that hold a needle of the inner set
  high,    \* the positions that hold a non-ASCII byte; a needle may be one
  pc,      \* "find", "probe" (tail_find), "loop" (prefix_len) or "done"
  hit,     \* tail_find: what the inner set found
  i,       \* prefix_len: the bytes matched so far
  res

input == <<method, len, needle, high>>
vars == <<input, pc, hit, i, res>>

-----------------------------------------------------------------------------

\* the first position of s at or after from, or the end of the input
FirstFrom(from, s) == LET later == {p \in s : p >= from}
                      IN  IF later = {} THEN len ELSE Min(later)

\* the inner set's prefix_len of input[from..], and prefix_len_non_ascii of it
NeedleRun(from) == FirstFrom(from, (0 .. len - 1) \ needle) - from
HighRun(from) == FirstFrom(from, (0 .. len - 1) \ high) - from

\* the inner set's tail_find of the whole input
InnerFind == IF needle = {} THEN None ELSE Min(needle)

\* prefix_len_ascii of the first n bytes
AsciiRun(n) == LET stops == high \cap 0 .. n - 1
               IN  IF stops = {} THEN n ELSE Min(stops)

-----------------------------------------------------------------------------

Init == /\ method \in {"tail_find", "prefix_len"}
        /\ \E in \in Inputs : len = in.len /\ needle = in.needle /\ high = in.high
        /\ pc = IF method = "tail_find" THEN "find" ELSE "loop"
        /\ hit = None
        /\ i = 0
        /\ res = None

\* tail_find: the inner needles first
FindNeedle == /\ pc = "find"
              /\ hit' = InnerFind
              /\ pc' = "probe"
              /\ UNCHANGED <<input, i, res>>

\* Mutant: the ASCII check runs past the needle.
LimitWhole == len

Limit == IF hit = None THEN len ELSE hit

\* then the ASCII prefix of what is left of the hit
ProbeAscii == /\ pc = "probe"
              /\ res' = IF AsciiRun(Limit) < Limit THEN AsciiRun(Limit) ELSE hit
              /\ pc' = "done"
              /\ UNCHANGED <<input, hit, i>>

\* Mutants: the second run is measured from where the first began; the index is
\* overwritten; one empty run ends the loop.
RoundStale == /\ pc = "loop"
              /\ LET a == NeedleRun(i)
                     b == HighRun(i)
                 IN  /\ i' = i + a + b
                     /\ IF a = 0 /\ b = 0
                          THEN pc' = "done" /\ res' = i'
                          ELSE UNCHANGED <<pc, res>>
              /\ UNCHANGED <<input, hit>>

RoundForgets == /\ pc = "loop"
                /\ LET a == NeedleRun(i)
                       b == HighRun(i + a)
                   IN  /\ i' = a + b
                       /\ IF a = 0 /\ b = 0
                            THEN pc' = "done" /\ res' = i'
                            ELSE UNCHANGED <<pc, res>>
                /\ UNCHANGED <<input, hit>>

RoundEither == /\ pc = "loop"
               /\ LET a == NeedleRun(i)
                      b == HighRun(i + a)
                  IN  /\ i' = i + a + b
                      /\ IF a = 0 \/ b = 0
                           THEN pc' = "done" /\ res' = i'
                           ELSE UNCHANGED <<pc, res>>
               /\ UNCHANGED <<input, hit>>

\* prefix_len: one round of the loop, a run of needles and a run of non-ASCII
Round == /\ pc = "loop"
         /\ LET a == NeedleRun(i)
                b == HighRun(i + a)
            IN  /\ i' = i + a + b
                /\ IF a = 0 /\ b = 0
                     THEN pc' = "done" /\ res' = i'
                     ELSE UNCHANGED <<pc, res>>
         /\ UNCHANGED <<input, hit>>

Step == FindNeedle \/ ProbeAscii \/ Round

Returned == pc = "done" /\ UNCHANGED vars

Next == Step \/ Returned

Spec == Init /\ [][Next]_vars

-----------------------------------------------------------------------------

\* Types of the call's variables.
TypeOK == /\ method \in {"tail_find", "prefix_len"}
          /\ len \in Nat
          /\ needle \subseteq 0 .. len - 1
          /\ high \subseteq 0 .. len - 1
          /\ pc \in {"find", "probe", "loop", "done"}
          /\ hit \in needle \cup {None}
          /\ i \in 0 .. len
          /\ res \in 0 .. len \cup {None}

\* "Exact composition": tail_find returns the first byte that is a needle or is
\* not ASCII, although the needle search runs over the non-ASCII bytes and the
\* ASCII check over the needles.
TailFindExact ==
  pc = "done" /\ method = "tail_find" =>
    IF needle \cup high = {} THEN res = None
    ELSE res \in needle \cup high /\ \A p \in needle \cup high : res <= p

\* prefix_len returns the longest prefix of needles and non-ASCII bytes, in
\* whatever order the two alternate.
PrefixLenExact ==
  pc = "done" /\ method = "prefix_len" =>
    /\ 0 .. res - 1 \subseteq needle \cup high
    /\ res < len => res \notin needle \cup high

\* "Terminates: every iteration that does not return advances i by at least one."
Progresses == [][pc = "loop" /\ pc' = "loop" => i' > i]_vars

=============================================================================
