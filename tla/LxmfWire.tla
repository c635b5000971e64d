------------------------------ MODULE LxmfWire ------------------------------
(***************************************************************************)
(* What the node puts on the air and takes from it: the MessagePack writer *)
(* and reader (src/src/Msgpack.cpp), the LXMF message of Lxmf.cpp and      *)
(* LxmfCommand.cpp, the telemetry of Telemetry.cpp and the announce of     *)
(* LxmfPresence.cpp.  Everything is a sequence of bytes; a number is its   *)
(* eight bytes, in two's complement when it may be negative.  uint32_t and *)
(* size_t have 32 bits.                                                    *)
(***************************************************************************)
EXTENDS Integers, Sequences

Byte == 0..255
Wide == 8
Huge == 2 ^ 29  \* any length a message cannot have

Be16(n) == <<n \div 256, n % 256>>
Be32(n) == Be16(n \div 65536) \o Be16(n % 65536)
Lowest(v, w) == SubSeq(v, Wide + 1 - w, Wide)

-----------------------------------------------------------------------------
(***************************************************************************)
(* Writer                                                                  *)
(***************************************************************************)
ArrayHeader(n) ==
    IF n < 16 THEN <<144 + n>>
    ELSE IF n < 65536 THEN <<220>> \o Be16(n)
    ELSE <<221>> \o Be32(n)

MapHeader(n) ==
    IF n < 16 THEN <<128 + n>>
    ELSE IF n < 65536 THEN <<222>> \o Be16(n)
    ELSE <<223>> \o Be32(n)

Nil == <<192>>
Boolean(v) == IF v THEN <<195>> ELSE <<194>>

\* v < 256^w
Below(v, w) == \A i \in 1 .. Wide - w : v[i] = 0

Uint(v) ==
    CASE Below(v, 1) /\ v[Wide] < 128 -> Lowest(v, 1)
      [] Below(v, 1) /\ v[Wide] >= 128 -> <<204>> \o Lowest(v, 1)
      [] Below(v, 2) /\ ~Below(v, 1) -> <<205>> \o Lowest(v, 2)
      [] Below(v, 4) /\ ~Below(v, 2) -> <<206>> \o Lowest(v, 4)
      [] ~Below(v, 4) -> <<207>> \o v

Negative(v) == v[1] >= 128
\* A negative v >= -(256^w) / 2
Above(v, w) == (\A i \in 1 .. Wide - w : v[i] = 255) /\ v[Wide + 1 - w] >= 128

Integer(v) ==
    CASE ~Negative(v) -> Uint(v)
      [] Above(v, 1) /\ v[Wide] >= 224 -> Lowest(v, 1)
      [] Above(v, 1) /\ v[Wide] \in 128..223 -> <<208>> \o Lowest(v, 1)
      [] Above(v, 2) /\ ~Above(v, 1) -> <<209>> \o Lowest(v, 2)
      [] Above(v, 4) /\ ~Above(v, 2) -> <<210>> \o Lowest(v, 4)
      [] Negative(v) /\ ~Above(v, 4) -> <<211>> \o v

Float64(v) == <<203>> \o v

StrHeader(n) ==
    IF n < 32 THEN <<160 + n>>
    ELSE IF n < 256 THEN <<217, n>>
    ELSE IF n < 65536 THEN <<218>> \o Be16(n)
    ELSE <<219>> \o Be32(n)
Str(s) == StrHeader(Len(s)) \o s

BinHeader(n) ==
    IF n < 256 THEN <<196, n>>
    ELSE IF n < 65536 THEN <<197>> \o Be16(n)
    ELSE <<198>> \o Be32(n)
Bin(s) == BinHeader(Len(s)) \o s

-----------------------------------------------------------------------------
(***************************************************************************)
(* Reader: whether the call returned true, what it read, and what is left. *)
(***************************************************************************)
Fail == [ok |-> FALSE, val |-> <<>>, rest |-> <<>>]
Read(v, s) == [ok |-> TRUE, val |-> v, rest |-> s]
Then(r, Do(_, _)) == IF r.ok THEN Do(r.val, r.rest) ELSE Fail

\* Mutant: the bounds check compares with the whole buffer.
TakeClamped(s, n) ==
    IF Len(s) = 0 /\ n > 0 THEN Fail
    ELSE LET m == IF n <= Len(s) THEN n ELSE Len(s)
         IN Read(SubSeq(s, 1, m), SubSeq(s, m + 1, Len(s)))

\* take(), and be() with the bytes left as they are
Take(s, n) ==
    IF Len(s) < n THEN Fail ELSE Read(SubSeq(s, 1, n), SubSeq(s, n + 1, Len(s)))

\* The number one, two or four bytes stand for, or Huge.
Value(b) ==
    CASE Len(b) = 1 -> b[1]
      [] Len(b) = 2 -> 256 * b[1] + b[2]
      [] Len(b) = 4 -> IF b[1] >= 32 THEN Huge
                       ELSE 256 * (256 * (256 * b[1] + b[2]) + b[3]) + b[4]

ReadArrayHeader(s) ==
    Then(Take(s, 1), LAMBDA t, more :
        CASE t[1] \in 144..159 -> Read(t[1] - 144, more)
          [] t[1] \in {220, 221} ->
               Then(Take(more, IF t[1] = 220 THEN 2 ELSE 4),
                    LAMBDA n, rest : Read(Value(n), rest))
          [] OTHER -> Fail)

\* The bytes of the length that follows a str or bin tag
LengthOf(c) == CASE c \in {217, 196} -> 1 [] c \in {218, 197} -> 2 [] OTHER -> 4

ReadBytes(s) ==
    Then(Take(s, 1), LAMBDA t, more :
        CASE t[1] \in 160..191 -> Take(more, t[1] - 160)
          [] t[1] \in (217..219) \cup (196..198) ->
               Then(Take(more, LengthOf(t[1])), LAMBDA n, rest : Take(rest, Value(n)))
          [] OTHER -> Fail)

\* Sign- or zero-extended
Padding(b, x) == [i \in 1 .. Wide - Len(b) |-> x]
Signed(b) == Padding(b, IF b[1] >= 128 THEN 255 ELSE 0) \o b
Unsigned(b) == Padding(b, 0) \o b
Natural(b) == [kind |-> "natural", bytes |-> Unsigned(b)]
Whole(b) == [kind |-> IF b[1] >= 128 THEN "negative" ELSE "natural", bytes |-> Signed(b)]
Real(b) == [kind |-> "float", bytes |-> b]

\* The bytes after the tag of a number, and what they stand for.  How the double
\* is made is left out: of 54 bits and more the low ones are lost.
WidthOf(c) ==
    CASE c \in {204, 208} -> 1
      [] c \in {205, 209} -> 2
      [] c \in {202, 206, 210} -> 4
      [] c \in {203, 207, 211} -> 8
NumberOf(c, b) ==
    IF c <= 203 THEN Real(b) ELSE IF c <= 207 THEN Natural(b) ELSE Whole(b)

ReadNumber(s) ==
    Then(Take(s, 1), LAMBDA t, more :
        CASE t[1] <= 127 -> Read(Natural(t), more)
          [] t[1] >= 224 -> Read(Whole(t), more)
          [] t[1] \in 202..211 ->
               Then(Take(more, WidthOf(t[1])),
                    LAMBDA b, rest : Read(NumberOf(t[1], b), rest))
          [] OTHER -> Fail)

-----------------------------------------------------------------------------
(***************************************************************************)
(* Messages                                                                *)
(***************************************************************************)
HASH_LEN == 16
SIG_LEN == 64
MAX_CONTENT == 48
MAX_REPLY == 200
MAX_OPPORTUNISTIC_PAYLOAD == 295
NoContent == <<>>

\* Mutant: the title is left out, as if there were none to send.
PayloadUntitled(time, content, fields) ==
    ArrayHeader(4) \o Float64(time) \o Bin(content) \o Bin(NoContent)
        \o (IF fields = <<>> THEN MapHeader(0) ELSE fields)

\* [ts_f64, title_bin, content_bin, fields_map]
Payload(time, content, fields) ==
    ArrayHeader(4) \o Float64(time) \o Bin(NoContent) \o Bin(content)
        \o (IF fields = <<>> THEN MapHeader(0) ELSE fields)

\* Signing is external: the signature is given.
Pack(dest, source, signature, time, content, fields) ==
    LET payload == Payload(time, content, fields)
    IN IF Len(payload) > MAX_OPPORTUNISTIC_PAYLOAD THEN Fail
       ELSE Read(dest \o source \o signature \o payload, <<>>)

Space(c) == c = 32 \/ c \in 9..13

Trim(s) ==
    LET kept == {i \in 1 .. Len(s) : ~Space(s[i])}
    IN IF kept = {} THEN NoContent
       ELSE SubSeq(s, CHOOSE i \in kept : \A j \in kept : i <= j,
                      CHOOSE i \in kept : \A j \in kept : i >= j)

Cut(s) == IF Len(s) > MAX_CONTENT THEN SubSeq(s, 1, MAX_CONTENT) ELSE s

Unpack(data) ==
    LET header == 2 * HASH_LEN + SIG_LEN
        Body == SubSeq(data, header + 1, Len(data))
    IN IF Len(data) <= header THEN Fail
       ELSE Then(ReadArrayHeader(Body), LAMBDA n, r1 :
            IF n < 4 THEN Fail
            ELSE Then(ReadNumber(r1), LAMBDA time, r2 :
                 Then(ReadBytes(r2), LAMBDA title, r3 :
                 Then(ReadBytes(r3), LAMBDA content, r4 :
                     Read([dest |-> SubSeq(data, 1, HASH_LEN),
                           source |-> SubSeq(data, HASH_LEN + 1, 2 * HASH_LEN),
                           timestamp |-> time,
                           content |-> Cut(Trim(content))], r4)))))

-----------------------------------------------------------------------------
(***************************************************************************)
(* The command a message stands for                                        *)
(***************************************************************************)
Lower(s) == [i \in 1 .. Len(s) |-> IF s[i] \in 65..90 THEN s[i] + 32 ELSE s[i]]

Words == [STATUS |-> {<<115, 116, 97, 116, 117, 115>>},
          BATTERY |-> {<<98, 97, 116, 116, 101, 114, 121>>, <<98, 97, 116>>},
          HELP |-> {<<104, 101, 108, 112>>}]

\* A C string ends at its first zero.
Ended(s) ==
    LET zeros == {i \in 1 .. Len(s) : s[i] = 0}
    IN IF zeros = {} THEN s ELSE SubSeq(s, 1, (CHOOSE i \in zeros : \A j \in zeros : i <= j) - 1)

WithoutSlash(s) == IF s # <<>> /\ s[1] = 47 THEN Tail(s) ELSE s

Match(content) ==
    LET word == Lower(WithoutSlash(Ended(content)))
        named == {k \in DOMAIN Words : word \in Words[k]}
    IN IF named = {} THEN "NONE" ELSE CHOOSE k \in named : TRUE

-----------------------------------------------------------------------------
(***************************************************************************)
(* What the node sends of its own accord                                   *)
(***************************************************************************)
Small(n) == Unsigned(<<n>>)
Zeros(n) == [i \in 1..n |-> 0]

Sensors(located, powered) ==
    2 + (IF located THEN 1 ELSE 0) + (IF powered THEN 1 ELSE 0)

\* now is the eight bytes of a uint32_t, position the latitude, longitude and
\* altitude, 4 bytes each, percent a float64.
Telemeter(now, located, position, powered, percent, info) ==
    MapHeader(Sensors(located, powered))
    \o Uint(Small(1)) \o Uint(now)
    \o (IF ~located THEN <<>>
        ELSE Uint(Small(2)) \o ArrayHeader(7)
             \o Bin(position[1]) \o Bin(position[2]) \o Bin(position[3])
             \o Bin(Zeros(4)) \o Bin(Zeros(4)) \o Bin(Zeros(2)) \o Uint(now))
    \o (IF ~powered THEN <<>>
        ELSE Uint(Small(4)) \o ArrayHeader(3)
             \o Float64(percent) \o Boolean(FALSE) \o Nil)
    \o Uint(Small(15)) \o Str(info)

\* send_now(): FIELD_TELEMETRY holds the telemeter as bytes.
TelemetryFields(tele) == MapHeader(1) \o Uint(Small(2)) \o Bin(tele)

\* announce_now(): the display name and no stamp cost.
AnnounceData(name) ==
    LET n == IF Len(name) > 200 THEN 200 ELSE Len(name)
    IN <<146, 196, n>> \o SubSeq(name, 1, n) \o <<192>>
=============================================================================
