------------------------------ MODULE LxmfSkip ------------------------------
(***************************************************************************)
(* Passing over a value unread (Reader::skip of src/src/Msgpack.cpp).  No  *)
(* code of the node calls it but its tests: it is the measure of what the  *)
(* node writes, for every such thing must be one whole value.              *)
(***************************************************************************)
EXTENDS LxmfWireCases

\* Both wrap at 2 ^ 32.
PlusOne(b) == IF b = <<255, 255, 255, 255>> THEN 0 ELSE Value(b) + 1
Twice(b) == 2 * (IF Len(b) = 4 THEN Value([b EXCEPT ![1] = @ % 128]) ELSE Value(b))

\* take() of bytes that nobody looks at
Pass(s, n) == IF Len(s) < n THEN Fail ELSE Read(<<>>, SubSeq(s, n + 1, Len(s)))

\* The loop over n elements, up to the first that is refused.
SkipMany(skip, s, n) ==
    LET after[k \in Nat] == IF k = 0 THEN Read(<<>>, s)
                            ELSE Then(after[k - 1], LAMBDA v, rest : skip[rest])
    IN after[n]

\* The elements of a fixarray or fixmap
Elements(c) == (c % 16) * (IF c < 144 THEN 2 ELSE 1)

\* What comes behind the tag c; skip is for the elements of an array or a map.
SkipTagged(skip, c, s) ==
    LET Counted(w, Count(_)) == Then(Take(s, w), LAMBDA n, rest : Pass(rest, Count(n)))
    IN CASE c <= 127 \/ c >= 224 \/ c \in {192, 194, 195} -> Read(<<>>, s)
         [] c \in 160..191 -> Pass(s, c - 160)
         [] c \in 128..159 -> SkipMany(skip, s, Elements(c))
         [] c \in 202..211 -> Pass(s, WidthOf(c))
         [] c \in 212..216 -> Pass(s, <<2, 3, 5, 9, 17>>[c - 211])
         [] c \in (196..198) \cup (217..219) -> Counted(LengthOf(c), Value)
         [] c \in 199..201 -> Counted(LengthOf(c - 3), PlusOne)
         [] c \in 220..223 ->
              Then(Take(s, IF c % 2 = 0 THEN 2 ELSE 4), LAMBDA b, rest :
                  LET n == IF c >= 222 THEN Twice(b) ELSE Value(b)
                  IN IF n > Len(rest) THEN Fail ELSE SkipMany(skip, rest, n))
         [] OTHER -> Fail

SkipDepth[depth \in 0..9] ==
    [s \in Seq(Byte) |->
        IF depth > 8 THEN Fail
        ELSE Then(Take(s, 1), LAMBDA t, more : SkipTagged(SkipDepth[depth + 1], t[1], more))]

Skip(s) == SkipDepth[0][s]

-----------------------------------------------------------------------------
Names == {Filled(n, 78) : n \in {0, 1, 31, 200, 201, 255}}

\* Arrays and maps one in the other: a value at depth k.
Nested[k \in Nat] ==
    IF k = 0 THEN Nil
    ELSE (IF k % 2 = 0 THEN ArrayHeader(2) \o Nil ELSE MapHeader(1) \o Boolean(TRUE))
           \o Nested[k - 1]

\* Of a client's: ext and fixext, and containers with 16-bit and 32-bit counts.
Foreign ==
    {<<211 + k>> \o Filled(2 ^ (k - 1) + 1, 7) : k \in 1..5}
    \cup {<<199, 3>> \o Filled(4, 7), <<200, 0, 3>> \o Filled(4, 7),
          <<201, 0, 0, 0, 3>> \o Filled(4, 7),
          <<220, 0, 2>> \o Nil \o Nil, <<221, 0, 0, 0, 1>> \o Nil,
          <<222, 0, 1>> \o Nil \o Nil, <<223, 0, 0, 0, 1>> \o Nil \o Nil,
          <<202>> \o Filled(4, 1), MapHeader(16) \o Filled(32, 5)}

Encoded ==
    {Integer(v) : v \in Numbers} \cup {Float64(v) : v \in Numbers}
    \cup {Str(t) : t \in Strings} \cup {Bin(t) : t \in Strings}
    \cup Telemeters \cup {TelemetryFields(t) : t \in Telemeters}
    \cup {AnnounceData(n) : n \in Names}
    \cup {Nested[k] : k \in 0..8} \cup Foreign

\* Whatever the node writes, a telemeter and an announce among it, is one
\* value and skip() passes over exactly that value; cut short, or nested more
\* than eight deep, it is refused (Msgpack.cpp:182-228 against Telemetry.cpp:
\* 106-158 and LxmfPresence.cpp:69-76).
SkipsOneValue ==
    /\ \A e \in Encoded : /\ Skip(e) = Read(<<>>, <<>>) /\ Skip(e \o Next1) = Read(<<>>, Next1)
                          /\ \A s \in CutShort(e) : ~Skip(s).ok
    /\ ~Skip(Nested[9]).ok
=============================================================================
