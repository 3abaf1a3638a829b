----------------------------- MODULE MCByteClass -----------------------------
EXTENDS ByteClass

BuiltIns == {[kind |-> "class", name |-> c] : c \in Classes}

\* range bounds at the edges of the byte, of its signed half and of a digit
Bounds == {0, 1, 47, 48, 57, 127, 128, 129, 254, 255}

\* skip_class! with one range, which the compiler requires to be non-empty, with
\* bytes only, and with both
Customs ==
  {[kind |-> "custom", bytes |-> {}, ranges |-> {<<lo, hi>>}] :
     <<lo, hi>> \in {p \in Bounds \X Bounds : p[1] <= p[2]}}
  \cup {[kind |-> "custom", bytes |-> b, ranges |-> {}] : b \in {{0}, {45, 95, 255}}}
  \cup {[kind |-> "custom", bytes |-> {45, 95}, ranges |-> {<<97, 122>>, <<48, 57>>}]}

\* ten needles, ASCII or not; every number of them, and repeated ones
Ten == <<34, 200, 0, 255, 92, 10, 128, 127, 61, 13>>

Lists == {SubSeq(Ten, 1, n) : n \in 0 .. 10} \cup {<<34, 34>>, <<34, 200, 34, 92, 34>>}

NeedleSets ==
  [kind : {"needles"}, shape : {"u8"}, needles : {<<34>>, <<200>>}, nonAscii : BOOLEAN]
  \cup [kind : {"needles"}, shape : {"slice", "array"}, needles : Lists, nonAscii : BOOLEAN]

AllTests == BuiltIns \cup Customs \cup NeedleSets
=============================================================================
