---------------------------- MODULE LxmfWireCases ---------------------------
(***************************************************************************)
(* Inputs for LxmfWire at the boundaries of its encodings, and what the    *)
(* writer and the reader promise each other over them.                     *)
(***************************************************************************)
EXTENDS LxmfWire

Filled(n, b) == [i \in 1..n |-> b]

\* Around each power of 256, half of one, and 0, from below and from above.
Widths == {1, 2, 3, 4, 5, 8}
Tops == {0, 1, 127, 128, 223, 224, 255}
Ends == {0, 255}
Around(w, sign, top, low) == Filled(Wide - w, sign) \o <<top>> \o Filled(w - 1, low)
Numbers == {Around(w, sign, top, low) : w \in Widths, sign \in Ends, top \in Tops, low \in Ends}

Lengths == {0, 1, 15, 16, 31, 32, 48, 255, 256, 65535, 65536}
Strings == {Filled(n, b) : n \in Lengths, b \in {0, 196}}
Next1 == <<192>>

\* Bytes the reader has to refuse for their length: the first few of s, or
\* all of them but one.
CutShort(s) == {SubSeq(s, 1, k) : k \in ((0..6) \cup {Len(s) - 1}) \cap (0 .. Len(s) - 1)}

\* Whatever number or text the node writes it reads back, and not a byte of
\* what follows it, and refuses when it is cut short (Msgpack.cpp:47-105
\* against 113-180).
ReadsBack ==
    /\ \A v \in Numbers :
         /\ ReadNumber(Integer(v) \o Next1) = Read(Whole(v), Next1)
         /\ ReadNumber(Uint(v) \o Next1) = Read(Natural(v), Next1)
         /\ ReadNumber(Float64(v) \o Next1) = Read(Real(v), Next1)
         /\ \A s \in CutShort(Integer(v)) \cup CutShort(Uint(v)) \cup CutShort(Float64(v)) :
              ~ReadNumber(s).ok
    /\ \A t \in Strings :
         /\ ReadBytes(Str(t) \o Next1) = Read(t, Next1)
         /\ ReadBytes(Bin(t) \o Next1) = Read(t, Next1)
         /\ \A s \in CutShort(Str(t)) \cup CutShort(Bin(t)) : ~ReadBytes(s).ok
    /\ \A n \in Lengths : ReadArrayHeader(ArrayHeader(n) \o Next1) = Read(n, Next1)

Position == <<Filled(4, 255), Filled(4, 128), Filled(4, 1)>>
Uptimes == {Small(0), Small(127), Small(255), Filled(4, 0) \o Filled(4, 255)}
\* info[96]
Infos == {Filled(n, 117) : n \in {0, 31, 32, 95}}
Telemeters ==
    {Telemeter(now, located, Position, powered, Filled(8, 64), info) :
        now \in Uptimes, info \in Infos, located \in BOOLEAN, powered \in BOOLEAN}

Here == Filled(HASH_LEN, 1)
There == Filled(HASH_LEN, 2)
Signature == Filled(SIG_LEN, 3)
Now == <<65, 218, 0, 0, 0, 0, 0, 0>>

Blank(s) == \A i \in 1 .. Len(s) : Space(s[i])
\* A text with no blank at its ends, and no zero in it.
Bare(s) == /\ \A i \in 1 .. Len(s) : s[i] # 0
           /\ s = <<>> \/ (~Space(s[1]) /\ ~Space(s[Len(s)]))

Pads == {<<>>, <<32>>, <<9, 13, 10>>, Filled(60, 32)}
Slash == <<47>>
\* Almost commands, the longest reply the node gives, and a command with more
\* behind it than is kept.
Others ==
    {<<>>, Slash, Slash \o Slash \o <<98, 97, 116>>, <<66, 65, 84>>, <<98, 97>>,
     Slash \o <<72, 101, 76, 112>>, <<66, 47, 84>>,
     <<98, 97, 116, 32, 98>>, <<98, 97, 116, 0, 98>>, <<98, 97, 116>> \o Filled(60, 32) \o <<98>>,
     Filled(MAX_CONTENT, 98), Filled(MAX_CONTENT + 1, 98), Filled(199, 98)}
Commands == UNION {Words[k] : k \in DOMAIN Words}
\* What an operator types
Typed == Commands \cup {Slash \o w : w \in Commands} \cup Others

\* The text t is w, in small letters or in capitals.
SameLetter(c, d) == c = d \/ (d \in 97..122 /\ c = d - 32)
Spells(t, w) == Len(t) = Len(w) /\ \A i \in 1 .. Len(w) : SameLetter(t[i], w[i])

\* The command meant by the text t.
Means(t, command) == \E w \in Words[command] : Spells(t, w) \/ Spells(t, Slash \o w)

Sent(content, fields) == Pack(There, Here, Signature, Now, content, fields)

\* A message packed by one node and unpacked by another has its sender, its
\* time and its text, blanks around it cut off; the text is a command exactly
\* if the operator typed one, also when more than MAX_CONTENT bytes follow.
\* The longest reply and the fullest telemetry fit in one packet; cut short, a
\* message is refused (Lxmf.cpp:54-123 against LxmfCommand.cpp:13-58).
PackedIsUnpacked ==
    /\ \A front \in Pads, core \in Typed, back \in Pads :
         LET packed == Sent(front \o core \o back, <<>>)
             got == Unpack(packed.val)
         IN Bare(core) /\ packed.ok =>
              /\ got.ok /\ got.val.dest = There /\ got.val.source = Here
              /\ got.val.timestamp = Real(Now)
              /\ got.val.content = Cut(core)
              /\ \A k \in DOMAIN Words : Match(got.val.content) = k <=> Means(core, k)
    /\ Sent(Filled(MAX_REPLY, 98), <<>>).ok
    /\ \A t \in Telemeters :
         LET packed == Sent(<<>>, TelemetryFields(t))
         IN packed.ok /\ Unpack(packed.val).rest = TelemetryFields(t)
    /\ LET packed == Sent(<<98, 97, 116>>, <<>>).val
       IN \A s \in CutShort(SubSeq(packed, 1, Len(packed) - 1)) : ~Unpack(s).ok
=============================================================================
