------------------------- MODULE RepeaterLoop_proofs -------------------------
(***************************************************************************)
(* The Bluetooth session and the senders' intervals, for any length of     *)
(* queue, any handles and records, and any period of millis().             *)
(***************************************************************************)
EXTENDS RepeaterLoop, TLAPS

-----------------------------------------------------------------------------
(***************************************************************************)
(* Types.                                                                  *)
(***************************************************************************)
LEMMA Numbers ==
    /\ Wrap \in Nat \ {0} /\ IdleTimeout \in Nat \ {0} /\ First \in Nat \ {0}
    /\ Interval \in Nat \ {0} /\ Stall \in Nat \ {0}
    /\ Larger(First, Interval) \in Nat /\ Unused \in Nat /\ Late \in Nat
    /\ First <= Larger(First, Interval) /\ Interval <= Larger(First, Interval)
    /\ 0 \in Millis
<1>1. {Wrap, IdleTimeout, First, Interval, Stall} \subseteq Nat \ {0}
  BY ClockAssumption
<1>2. /\ Wrap \in Nat \ {0} /\ IdleTimeout \in Nat \ {0} /\ First \in Nat \ {0}
      /\ Interval \in Nat \ {0} /\ Stall \in Nat \ {0}
  BY <1>1
<1> QED BY <1>2 DEF Larger, Unused, Late, Millis

\* The queue and the link.
Linked(q, h, l) == q \in Seq(Event) /\ h \in Handles \cup {NoHandle} /\ l \in Sized

LEMMA EventTypes ==
    /\ \A h \in Handles :
         \A k \in {"connect", "secured", "unpaired", "disconnect", "command", "commit"} :
           [kind |-> k, handle |-> h] \in Event
    /\ \A h \in Handles, v \in Records : [kind |-> "config", handle |-> h, value |-> v] \in Event
    /\ \A e \in Event : e.handle \in Handles
    /\ \A e \in Event : e.kind = "config" => e.value \in Records
    /\ \A l \in Sized : l # Down => l.handle \in Handles /\ l.level \in {"open", "weak", "mitm"}
    /\ Down \in Sized /\ Down.handle = NoHandle /\ Down.level = "down"
BY DEF Event, Sized, Down

LEMMA CloseTypes ==
    ASSUME NEW h, NEW q \in Seq(Event), link \in Sized, Close(h, q)
    PROVE link' \in Sized /\ events' \in Seq(Event)
<1>1. CASE link.handle = h /\ h # NoHandle
  <2>1. h \in Handles
    BY <1>1, EventTypes
  <2>2. [kind |-> "disconnect", handle |-> h] \in Event
    BY <2>1, EventTypes
  <2> QED BY <1>1, <2>2, EventTypes DEF Close
<1>2. CASE ~(link.handle = h /\ h # NoHandle)
  BY <1>2 DEF Close
<1> QED BY <1>1, <1>2

-----------------------------------------------------------------------------
(***************************************************************************)
(* The queue q against the handle h the firmware holds, the link l, and    *)
(* the flag c, with or without a PIN p.                                    *)
(***************************************************************************)
Turn(e) == e.kind \in {"connect", "disconnect"}
NoTurn(q, from, to) == \A j \in from .. to : ~Turn(q[j])

\* There is a last change of link, or none.
Ends(q) ==
    \/ NoTurn(q, 1, Len(q))
    \/ \E i \in 1 .. Len(q) : Turn(q[i]) /\ NoTurn(q, i + 1, Len(q))

\* With no change of link in the queue the handle is the link's.
Caught(q, h, l) == NoTurn(q, 1, Len(q)) => h = l.handle

\* The last change of link in the queue led to the link there is.
Latest(q, l) ==
    \A i \in 1 .. Len(q) :
        Turn(q[i]) /\ NoTurn(q, i + 1, Len(q)) =>
            IF q[i].kind = "connect" THEN l.handle = q[i].handle ELSE l = Down

\* A link that ends is the one that was made last.
Paired(q, h) ==
    \A i \in 1 .. Len(q) : q[i].kind = "disconnect" =>
        \/ h = q[i].handle /\ NoTurn(q, 1, i - 1)
        \/ \E j \in 1 .. i - 1 :
              /\ q[j].kind = "connect" /\ q[j].handle = q[i].handle
              /\ NoTurn(q, j + 1, i - 1)

\* A link reported as secured is.
Secure(q, l) ==
    \A i \in 1 .. Len(q) :
        q[i].kind = "secured" /\ NoTurn(q, i + 1, Len(q)) => l.level \in {"weak", "mitm"}

\* The flag is that of a link secure enough, or will be cleared.
Allowed(q, l, c, p) ==
    c /\ NoTurn(q, 1, Len(q)) => l.level \in (IF p THEN {"mitm"} ELSE {"weak", "mitm"})

Session(q, h, l, c, p) ==
    /\ Linked(q, h, l) /\ Ends(q)
    /\ Caught(q, h, l) /\ Latest(q, l) /\ Paired(q, h) /\ Secure(q, l)
    /\ Allowed(q, l, c, p)

LEMMA NoSession == ASSUME NEW p PROVE Session(<<>>, NoHandle, Down, FALSE, p)
BY EventTypes DEF Session, Linked, Ends, NoTurn, Caught, Latest, Paired, Secure, Allowed

LEMMA TailIs ==
    ASSUME NEW q \in Seq(Event), q # <<>>
    PROVE /\ Tail(q) \in Seq(Event) /\ Len(q) \in Nat \ {0} /\ Len(Tail(q)) = Len(q) - 1
          /\ \A i \in 1 .. Len(Tail(q)) : i + 1 \in 1 .. Len(q) /\ Tail(q)[i] = q[i + 1]
          /\ Head(q) = q[1] /\ Head(q) \in Event
OBVIOUS

LEMMA TailTurns ==
    ASSUME NEW q \in Seq(Event), q # <<>>, NEW a \in Nat \ {0}, NEW b \in Int, b <= Len(q) - 1
    PROVE NoTurn(Tail(q), a, b) <=> NoTurn(q, a + 1, b + 1)
<1>1. ASSUME NoTurn(Tail(q), a, b), NEW j \in a + 1 .. b + 1 PROVE ~Turn(q[j])
  <2>1. j - 1 \in a .. b /\ j - 1 \in 1 .. Len(Tail(q)) /\ (j - 1) + 1 = j
    BY TailIs
  <2> QED BY <1>1, <2>1, TailIs DEF NoTurn
<1>2. ASSUME NoTurn(q, a + 1, b + 1), NEW j \in a .. b PROVE ~Turn(Tail(q)[j])
  <2>1. j + 1 \in a + 1 .. b + 1 /\ j \in 1 .. Len(Tail(q))
    BY TailIs
  <2> QED BY <1>2, <2>1, TailIs DEF NoTurn
<1> QED BY <1>1, <1>2 DEF NoTurn

\* Without its first event.
LEMMA DropEnds == ASSUME NEW q \in Seq(Event), q # <<>>, Ends(q) PROVE Ends(Tail(q))
<1>1. CASE NoTurn(q, 1, Len(q))
  <2>1. NoTurn(q, 1 + 1, Len(Tail(q)) + 1)
    BY <1>1, TailIs DEF NoTurn
  <2> QED BY <2>1, TailTurns, TailIs DEF Ends
<1>2. ASSUME NEW i \in 1 .. Len(q), Turn(q[i]), NoTurn(q, i + 1, Len(q)) PROVE Ends(Tail(q))
  <2>1. CASE i = 1
    BY <1>2, <2>1, TailTurns, TailIs DEF Ends
  <2>2. CASE i # 1
    <3>1. i - 1 \in 1 .. Len(Tail(q)) /\ (i - 1) + 1 = i
      BY <2>2, TailIs
    <3>2. NoTurn(q, ((i - 1) + 1) + 1, Len(Tail(q)) + 1)
      BY <1>2, <3>1, TailIs
    <3>3. NoTurn(Tail(q), (i - 1) + 1, Len(Tail(q)))
      BY <3>1, <3>2, TailTurns, TailIs
    <3>4. Tail(q)[i - 1] = q[i]
      BY <3>1, TailIs
    <3> QED BY <1>2, <3>1, <3>3, <3>4 DEF Ends
  <2> QED BY <2>1, <2>2
<1> QED BY <1>1, <1>2 DEF Ends

LEMMA DropLatest ==
    ASSUME NEW q \in Seq(Event), q # <<>>, NEW l, Latest(q, l)
    PROVE Latest(Tail(q), l)
<1> SUFFICES ASSUME NEW i \in 1 .. Len(Tail(q)), Turn(Tail(q)[i]),
                    NoTurn(Tail(q), i + 1, Len(Tail(q)))
    PROVE IF Tail(q)[i].kind = "connect" THEN l.handle = Tail(q)[i].handle ELSE l = Down
  BY DEF Latest
<1>1. NoTurn(q, (i + 1) + 1, Len(Tail(q)) + 1)
  BY TailTurns, TailIs
<1> QED BY <1>1, TailIs DEF Latest

LEMMA DropSecure ==
    ASSUME NEW q \in Seq(Event), q # <<>>, NEW l, Secure(q, l)
    PROVE Secure(Tail(q), l)
<1> SUFFICES ASSUME NEW i \in 1 .. Len(Tail(q)), Tail(q)[i].kind = "secured",
                    NoTurn(Tail(q), i + 1, Len(Tail(q)))
    PROVE l.level \in {"weak", "mitm"}
  BY DEF Secure
<1>1. NoTurn(q, (i + 1) + 1, Len(Tail(q)) + 1)
  BY TailTurns, TailIs
<1> QED BY <1>1, TailIs DEF Secure

\* What ends behind an event that is no change of link, and behind one that is.
LEMMA DropPaired ==
    ASSUME NEW q \in Seq(Event), q # <<>>, NEW h, NEW g, Paired(q, h),
           ~Turn(Head(q)) => g = h,
           Head(q).kind = "connect" => g = Head(q).handle
    PROVE Paired(Tail(q), g)
<1> SUFFICES ASSUME NEW i \in 1 .. Len(Tail(q)), Tail(q)[i].kind = "disconnect"
    PROVE \/ g = Tail(q)[i].handle /\ NoTurn(Tail(q), 1, i - 1)
          \/ \E j \in 1 .. i - 1 :
                /\ Tail(q)[j].kind = "connect" /\ Tail(q)[j].handle = Tail(q)[i].handle
                /\ NoTurn(Tail(q), j + 1, i - 1)
  BY DEF Paired
<1>1. i + 1 \in 1 .. Len(q) /\ q[i + 1] = Tail(q)[i] /\ (i + 1) - 1 = i
  BY TailIs
<1>2. CASE h = q[i + 1].handle /\ NoTurn(q, 1, i)
  <2>1. 1 \in 1 .. i /\ ~Turn(q[1])
    BY <1>2 DEF NoTurn
  <2>2. NoTurn(q, 1 + 1, (i - 1) + 1)
    BY <1>2 DEF NoTurn
  <2>3. NoTurn(Tail(q), 1, i - 1)
    BY <2>2, TailTurns, TailIs
  <2> QED BY <1>1, <1>2, <2>1, <2>3, TailIs
<1>3. ASSUME NEW j \in 1 .. i,
             q[j].kind = "connect", q[j].handle = q[i + 1].handle, NoTurn(q, j + 1, i)
      PROVE \/ g = Tail(q)[i].handle /\ NoTurn(Tail(q), 1, i - 1)
            \/ \E k \in 1 .. i - 1 :
                  /\ Tail(q)[k].kind = "connect" /\ Tail(q)[k].handle = Tail(q)[i].handle
                  /\ NoTurn(Tail(q), k + 1, i - 1)
  <2>1. CASE j = 1
    <3>1. NoTurn(q, 1 + 1, (i - 1) + 1)
      BY <1>3, <2>1
    <3>2. NoTurn(Tail(q), 1, i - 1)
      BY <3>1, TailTurns, TailIs
    <3> QED BY <1>1, <1>3, <2>1, <3>2, TailIs
  <2>2. CASE j # 1
    <3>1. j - 1 \in 1 .. i - 1 /\ j - 1 \in 1 .. Len(Tail(q)) /\ (j - 1) + 1 = j
      BY <2>2, TailIs
    <3>2. NoTurn(q, ((j - 1) + 1) + 1, (i - 1) + 1)
      BY <1>3, <3>1
    <3>3. NoTurn(Tail(q), (j - 1) + 1, i - 1)
      BY <3>1, <3>2, TailTurns, TailIs
    <3>4. Tail(q)[j - 1] = q[j]
      BY <3>1, TailIs
    <3> QED BY <1>1, <1>3, <3>1, <3>3, <3>4
  <2> QED BY <2>1, <2>2
<1> QED BY <1>1, <1>2, <1>3 DEF Paired

LEMMA DropOther ==
    ASSUME NEW q, NEW h, NEW l, NEW c, NEW p, Session(q, h, l, c, p), q # <<>>, ~Turn(Head(q))
    PROVE Session(Tail(q), h, l, c, p)
<1>1. q \in Seq(Event) /\ Linked(Tail(q), h, l)
  BY TailIs DEF Session, Linked
<1>2. NoTurn(Tail(q), 1, Len(Tail(q))) => NoTurn(q, 1, Len(q))
  <2>1. NoTurn(Tail(q), 1, Len(Tail(q))) => NoTurn(q, 1 + 1, Len(Tail(q)) + 1)
    BY <1>1, TailTurns, TailIs
  <2> QED BY <1>1, <2>1, TailIs DEF NoTurn
<1>3. Caught(Tail(q), h, l) /\ Allowed(Tail(q), l, c, p)
  BY <1>2 DEF Session, Caught, Allowed
<1>4. Latest(Tail(q), l) /\ Secure(Tail(q), l) /\ Ends(Tail(q))
  BY <1>1, DropLatest, DropSecure, DropEnds DEF Session
<1>5. Paired(Tail(q), h)
  BY <1>1, DropPaired DEF Session, Turn
<1> QED BY <1>1, <1>3, <1>4, <1>5 DEF Session

\* A link reported as secured, while the handle is the link's.
LEMMA DropSecured ==
    ASSUME NEW q, NEW h, NEW l, NEW c, NEW p, Session(q, h, l, c, p), q # <<>>,
           Head(q).kind = "secured", p => l.level = "mitm"
    PROVE Session(Tail(q), h, l, TRUE, p)
<1>1. q \in Seq(Event) /\ ~Turn(Head(q))
  BY DEF Session, Linked, Turn
<1>2. Session(Tail(q), h, l, c, p)
  BY <1>1, DropOther
<1>3. NoTurn(Tail(q), 1, Len(Tail(q))) => l.level \in {"weak", "mitm"}
  <2>1. NoTurn(Tail(q), 1, Len(Tail(q))) => NoTurn(q, 1 + 1, Len(Tail(q)) + 1)
    BY <1>1, TailTurns, TailIs
  <2>2. Len(Tail(q)) + 1 = Len(q) /\ 1 \in 1 .. Len(q) /\ q[1].kind = "secured"
    BY <1>1, TailIs
  <2> QED BY <2>1, <2>2 DEF Session, Secure
<1>4. Allowed(Tail(q), l, TRUE, p)
  BY <1>3 DEF Allowed
<1> QED BY <1>2, <1>4 DEF Session

LEMMA DropConnect ==
    ASSUME NEW q, NEW h, NEW l, NEW c, NEW p, Session(q, h, l, c, p), q # <<>>,
           Head(q).kind = "connect"
    PROVE Session(Tail(q), Head(q).handle, l, FALSE, p)
<1>1. q \in Seq(Event) /\ Linked(Tail(q), Head(q).handle, l)
  BY TailIs, EventTypes DEF Session, Linked
<1>2. Caught(Tail(q), Head(q).handle, l)
  <2>1. NoTurn(Tail(q), 1, Len(Tail(q))) => NoTurn(q, 1 + 1, Len(Tail(q)) + 1)
    BY <1>1, TailTurns, TailIs
  <2>2. Len(Tail(q)) + 1 = Len(q) /\ 1 \in 1 .. Len(q) /\ q[1] = Head(q) /\ Turn(q[1])
    BY <1>1, TailIs DEF Turn
  <2> QED BY <2>1, <2>2 DEF Session, Latest, Caught
<1>3. Latest(Tail(q), l) /\ Secure(Tail(q), l) /\ Ends(Tail(q))
  BY <1>1, DropLatest, DropSecure, DropEnds DEF Session
<1>4. Paired(Tail(q), Head(q).handle)
  BY <1>1, DropPaired DEF Session, Turn
<1>5. Allowed(Tail(q), l, FALSE, p)
  BY DEF Allowed
<1> QED BY <1>1, <1>2, <1>3, <1>4, <1>5 DEF Session

\* The first link to end is the one whose handle the firmware holds.
LEMMA DropDisconnect ==
    ASSUME NEW q, NEW h, NEW l, NEW c, NEW p, Session(q, h, l, c, p), q # <<>>,
           Head(q).kind = "disconnect"
    PROVE h = Head(q).handle /\ Session(Tail(q), NoHandle, l, FALSE, p)
<1>1. q \in Seq(Event) /\ Linked(Tail(q), NoHandle, l)
  BY TailIs DEF Session, Linked
<1>2. Len(Tail(q)) + 1 = Len(q) /\ 1 \in 1 .. Len(q) /\ q[1] = Head(q) /\ Turn(q[1])
  BY <1>1, TailIs DEF Turn
<1>3. h = Head(q).handle
  BY <1>2 DEF Session, Paired
<1>4. Caught(Tail(q), NoHandle, l)
  <2>1. NoTurn(Tail(q), 1, Len(Tail(q))) => NoTurn(q, 1 + 1, Len(Tail(q)) + 1)
    BY <1>1, TailTurns, TailIs
  <2>2. NoTurn(Tail(q), 1, Len(Tail(q))) => l = Down
    BY <1>2, <2>1 DEF Session, Latest
  <2> QED BY <2>2, EventTypes DEF Caught
<1>5. Latest(Tail(q), l) /\ Secure(Tail(q), l) /\ Ends(Tail(q))
  BY <1>1, DropLatest, DropSecure, DropEnds DEF Session
<1>6. Paired(Tail(q), NoHandle)
  <2> SUFFICES ASSUME NEW i \in 1 .. Len(Tail(q)), Tail(q)[i].kind = "disconnect"
      PROVE \E j \in 1 .. i - 1 :
                /\ Tail(q)[j].kind = "connect" /\ Tail(q)[j].handle = Tail(q)[i].handle
                /\ NoTurn(Tail(q), j + 1, i - 1)
    BY DEF Paired
  <2>1. i + 1 \in 1 .. Len(q) /\ q[i + 1] = Tail(q)[i] /\ (i + 1) - 1 = i
    BY <1>1, TailIs
  <2>2. ~NoTurn(q, 1, i)
    BY <1>2 DEF NoTurn
  <2>3. PICK j \in 1 .. i :
          q[j].kind = "connect" /\ q[j].handle = q[i + 1].handle /\ NoTurn(q, j + 1, i)
    BY <2>1, <2>2 DEF Session, Paired
  <2>4. j - 1 \in 1 .. i - 1 /\ j - 1 \in 1 .. Len(Tail(q)) /\ (j - 1) + 1 = j
    BY <1>1, <1>2, <2>3, TailIs
  <2>5. NoTurn(q, ((j - 1) + 1) + 1, (i - 1) + 1)
    BY <2>3, <2>4
  <2>6. NoTurn(Tail(q), (j - 1) + 1, i - 1)
    BY <1>1, <2>4, <2>5, TailTurns, TailIs
  <2>7. Tail(q)[j - 1] = q[j]
    BY <1>1, <2>4, TailIs
  <2> QED BY <2>1, <2>3, <2>4, <2>6, <2>7
<1>7. Allowed(Tail(q), l, FALSE, p)
  BY DEF Allowed
<1> QED BY <1>1, <1>3, <1>4, <1>5, <1>6, <1>7 DEF Session

\* With one event more.
LEMMA MoreIs ==
    ASSUME NEW q \in Seq(Event), NEW e \in Event
    PROVE /\ Append(q, e) \in Seq(Event) /\ Len(q) \in Nat /\ Len(Append(q, e)) = Len(q) + 1
          /\ \A i \in 1 .. Len(q) : i \in 1 .. Len(Append(q, e)) /\ Append(q, e)[i] = q[i]
          /\ Append(q, e)[Len(q) + 1] = e
          /\ \A i \in 1 .. Len(Append(q, e)) : i \in 1 .. Len(q) \/ i = Len(q) + 1
OBVIOUS

LEMMA MoreTurns ==
    ASSUME NEW q \in Seq(Event), NEW e \in Event, NEW a \in Nat \ {0}, a <= Len(q) + 1
    PROVE /\ NoTurn(Append(q, e), a, Len(q) + 1) <=> NoTurn(q, a, Len(q)) /\ ~Turn(e)
          /\ \A b \in Int : b <= Len(q) => (NoTurn(Append(q, e), a, b) <=> NoTurn(q, a, b))
<1>1. ASSUME NoTurn(Append(q, e), a, Len(q) + 1) PROVE NoTurn(q, a, Len(q)) /\ ~Turn(e)
  <2>1. Len(q) + 1 \in a .. Len(q) + 1 /\ \A j \in a .. Len(q) : j \in a .. Len(q) + 1 /\ j \in 1 .. Len(q)
    BY MoreIs
  <2> QED BY <1>1, <2>1, MoreIs DEF NoTurn
<1>2. ASSUME NoTurn(q, a, Len(q)), ~Turn(e) PROVE NoTurn(Append(q, e), a, Len(q) + 1)
  <2> SUFFICES ASSUME NEW j \in a .. Len(q) + 1 PROVE ~Turn(Append(q, e)[j])
    BY DEF NoTurn
  <2>1. CASE j = Len(q) + 1
    BY <1>2, <2>1, MoreIs
  <2>2. CASE j # Len(q) + 1
    BY <1>2, <2>2, MoreIs DEF NoTurn
  <2> QED BY <2>1, <2>2
<1>3. ASSUME NEW b \in Int, b <= Len(q) PROVE NoTurn(Append(q, e), a, b) <=> NoTurn(q, a, b)
  <2>1. \A j \in a .. b : j \in 1 .. Len(q)
    BY <1>3, MoreIs
  <2> QED BY <2>1, MoreIs DEF NoTurn
<1> QED BY <1>1, <1>2, <1>3

\* What ends was made last, also with one event more.
LEMMA MorePaired ==
    ASSUME NEW q \in Seq(Event), NEW h, Paired(q, h), NEW e \in Event,
           e.kind = "disconnect" =>
              \/ h = e.handle /\ NoTurn(q, 1, Len(q))
              \/ \E j \in 1 .. Len(q) : /\ q[j].kind = "connect" /\ q[j].handle = e.handle
                                        /\ NoTurn(q, j + 1, Len(q))
    PROVE Paired(Append(q, e), h)
<1> DEFINE r == Append(q, e)
<1> SUFFICES ASSUME NEW i \in 1 .. Len(r), r[i].kind = "disconnect"
    PROVE \/ h = r[i].handle /\ NoTurn(r, 1, i - 1)
          \/ \E j \in 1 .. i - 1 : /\ r[j].kind = "connect" /\ r[j].handle = r[i].handle
                                   /\ NoTurn(r, j + 1, i - 1)
  BY DEF Paired
<1>1. Len(q) \in Nat /\ i \in Nat /\ i - 1 <= Len(q) /\ i - 1 \in Int
      /\ \A j \in 1 .. i - 1 : j + 1 \in Nat \ {0} /\ j + 1 <= Len(q) + 1 /\ r[j] = q[j]
  BY MoreIs
<1>2. NoTurn(q, 1, i - 1) => NoTurn(r, 1, i - 1)
  BY <1>1, MoreTurns
<1>3. \A j \in 1 .. i - 1 : NoTurn(q, j + 1, i - 1) => NoTurn(r, j + 1, i - 1)
  BY <1>1, MoreTurns
<1>4. \/ h = r[i].handle /\ NoTurn(q, 1, i - 1)
      \/ \E j \in 1 .. i - 1 : /\ q[j].kind = "connect" /\ q[j].handle = r[i].handle
                               /\ NoTurn(q, j + 1, i - 1)
  <2>1. CASE i = Len(q) + 1
    <3>1. r[i] = e /\ i - 1 = Len(q)
      BY <2>1, MoreIs
    <3> QED BY <3>1
  <2>2. CASE i # Len(q) + 1
    <3>1. i \in 1 .. Len(q) /\ r[i] = q[i]
      BY <2>2, MoreIs
    <3> QED BY <3>1 DEF Paired
  <2> QED BY <2>1, <2>2
<1> HIDE DEF r
<1> QED BY <1>1, <1>2, <1>3, <1>4

\* An event that is no change of link; the link it reports as secured is.
LEMMA MoreOther ==
    ASSUME NEW q, NEW h, NEW l, NEW c, NEW p, Session(q, h, l, c, p),
           NEW e \in Event, ~Turn(e), NEW m \in Sized,
           m = l \/ (l # Down /\ m # Down /\ m.handle = l.handle
                      /\ m.level \in (IF p THEN {"mitm"} ELSE {"weak", "mitm"}))
             \/ (l # Down /\ m # Down /\ m.handle = l.handle
                      /\ l.level = "open" /\ m.level \in {"weak", "mitm"}),
           e.kind = "secured" => m.level \in {"weak", "mitm"}
    PROVE Session(Append(q, e), h, m, c, p)
<1>1. q \in Seq(Event) /\ Linked(Append(q, e), h, m) /\ Len(q) \in Nat
  BY MoreIs DEF Session, Linked
<1>2. \A a \in 1 .. Len(q) + 1 :
        NoTurn(Append(q, e), a, Len(q) + 1) <=> NoTurn(q, a, Len(q))
  BY <1>1, MoreTurns
<1>3. m.handle = l.handle /\ (l = Down => m = Down)
      /\ (l.level \in {"weak", "mitm"} => m.level \in {"weak", "mitm"})
      /\ (l.level \in (IF p THEN {"mitm"} ELSE {"weak", "mitm"}) =>
            m.level \in (IF p THEN {"mitm"} ELSE {"weak", "mitm"}))
  BY EventTypes
<1>4. Caught(Append(q, e), h, m) /\ Allowed(Append(q, e), m, c, p)
  BY <1>1, <1>2, <1>3, MoreIs DEF Session, Caught, Allowed
<1>5. Latest(Append(q, e), m)
  <2> SUFFICES ASSUME NEW i \in 1 .. Len(Append(q, e)), Turn(Append(q, e)[i]),
                      NoTurn(Append(q, e), i + 1, Len(Append(q, e)))
      PROVE IF Append(q, e)[i].kind = "connect"
            THEN m.handle = Append(q, e)[i].handle ELSE m = Down
    BY DEF Latest
  <2>1. i \in 1 .. Len(q) /\ Append(q, e)[i] = q[i] /\ i + 1 \in 1 .. Len(q) + 1
    BY <1>1, MoreIs
  <2>2. NoTurn(q, i + 1, Len(q))
    BY <1>1, <1>2, <2>1, MoreIs
  <2> QED BY <1>3, <2>1, <2>2 DEF Session, Latest
<1>6. Secure(Append(q, e), m)
  <2> SUFFICES ASSUME NEW i \in 1 .. Len(Append(q, e)), Append(q, e)[i].kind = "secured",
                      NoTurn(Append(q, e), i + 1, Len(Append(q, e)))
      PROVE m.level \in {"weak", "mitm"}
    BY DEF Secure
  <2>1. CASE i = Len(q) + 1
    BY <1>1, <2>1, MoreIs
  <2>2. CASE i # Len(q) + 1
    <3>1. i \in 1 .. Len(q) /\ Append(q, e)[i] = q[i] /\ i + 1 \in 1 .. Len(q) + 1
      BY <1>1, <2>2, MoreIs
    <3>2. NoTurn(q, i + 1, Len(q))
      BY <1>1, <1>2, <3>1, MoreIs
    <3> QED BY <1>3, <3>1, <3>2 DEF Session, Secure
  <2> QED BY <2>1, <2>2
<1>7. Paired(Append(q, e), h)
  BY <1>1, MorePaired DEF Session, Turn
<1>8. Ends(Append(q, e))
  <2>1. CASE NoTurn(q, 1, Len(q))
    BY <1>1, <1>2, <2>1, MoreIs DEF Ends
  <2>2. ASSUME NEW i \in 1 .. Len(q), Turn(q[i]), NoTurn(q, i + 1, Len(q))
        PROVE Ends(Append(q, e))
    BY <1>1, <1>2, <2>2, MoreIs DEF Ends
  <2> QED BY <2>1, <2>2 DEF Session, Ends
<1> QED BY <1>1, <1>4, <1>5, <1>6, <1>7, <1>8 DEF Session

\* A change of link, after which the link is m.
LEMMA MoreTurn ==
    ASSUME NEW q, NEW h, NEW l, NEW c, NEW p, Session(q, h, l, c, p),
           NEW e \in Event, Turn(e), NEW m \in Sized,
           IF e.kind = "connect" THEN m.handle = e.handle
                                 ELSE m = Down /\ l # Down /\ l.handle = e.handle
    PROVE Session(Append(q, e), h, m, c, p)
<1>1. q \in Seq(Event) /\ Linked(Append(q, e), h, m) /\ Len(q) \in Nat
  BY MoreIs DEF Session, Linked
<1>2. \A a \in 1 .. Len(q) + 1 : ~NoTurn(Append(q, e), a, Len(q) + 1)
  BY <1>1, MoreTurns
<1>3. ~NoTurn(Append(q, e), 1, Len(Append(q, e)))
  BY <1>1, <1>2, MoreIs
<1>4. Caught(Append(q, e), h, m) /\ Allowed(Append(q, e), m, c, p)
  BY <1>3 DEF Caught, Allowed
<1>5. \A i \in 1 .. Len(Append(q, e)) :
        NoTurn(Append(q, e), i + 1, Len(Append(q, e))) => i = Len(q) + 1
  BY <1>1, <1>2, MoreIs
<1>6. Latest(Append(q, e), m)
  BY <1>1, <1>5, MoreIs DEF Latest, Turn
<1>7. Secure(Append(q, e), m)
  BY <1>1, <1>5, MoreIs DEF Secure, Turn
<1>8. Paired(Append(q, e), h)
  <2>1. ASSUME e.kind = "disconnect"
        PROVE \/ h = e.handle /\ NoTurn(q, 1, Len(q))
              \/ \E j \in 1 .. Len(q) : /\ q[j].kind = "connect" /\ q[j].handle = e.handle
                                        /\ NoTurn(q, j + 1, Len(q))
    <3>1. l # Down /\ l.handle = e.handle
      BY <2>1
    <3>2. CASE NoTurn(q, 1, Len(q))
      BY <3>1, <3>2 DEF Session, Caught
    <3>3. CASE ~NoTurn(q, 1, Len(q))
      <4>1. PICK j \in 1 .. Len(q) : Turn(q[j]) /\ NoTurn(q, j + 1, Len(q))
        BY <3>3 DEF Session, Ends
      <4> QED BY <3>1, <4>1 DEF Session, Latest, Turn
    <3> QED BY <3>2, <3>3
  <2> QED BY <1>1, <2>1, MorePaired DEF Session
<1>9. Ends(Append(q, e))
  <2>1. NoTurn(Append(q, e), (Len(q) + 1) + 1, Len(Append(q, e)))
    BY <1>1, MoreIs DEF NoTurn
  <2> QED BY <1>1, <2>1, MoreIs DEF Ends
<1> QED BY <1>1, <1>4, <1>6, <1>7, <1>8, <1>9 DEF Session

-----------------------------------------------------------------------------
(***************************************************************************)
(* The inductive invariant.                                                *)
(***************************************************************************)
ClockOK ==
    /\ setting \in Settings
    /\ now \in Millis /\ last \in Millis
    /\ pc \in {"top", "transport", "console", "announce", "ble", "reading"} \cup Tasks
    /\ clock \in Millis \cup {None} /\ mark \in Millis \cup {None}
HistoryOK ==
    /\ stamp \in [Tasks -> Millis]
    /\ pass \in 0 .. Stall /\ quiet \in 0 .. Unused + 1
    /\ age \in [Tasks -> 0 .. Larger(First, Interval)]
    /\ waited \in [Tasks -> 0 .. Late + 1]
FlagsOK ==
    /\ callback \in {"ready", "announcing"} /\ connected \in BOOLEAN
    /\ raced \in BOOLEAN /\ touched \in BOOLEAN
    /\ staging \in Records /\ shown \in Records \cup {Zero}
Live == Session(events, handle, link, connected, setting.pin)

\* The time since a sender's last send is at least what millis() says of it.
Elapsed ==
    \A k \in Tasks : age[k] = Larger(First, Interval) \/ Since(now, stamp[k]) <= age[k]

LoopInv == ClockOK /\ HistoryOK /\ FlagsOK /\ Live /\ Elapsed

LEMMA TypeParts == LoopInv => TypeOK
BY DEF LoopInv, TypeOK, ClockOK, HistoryOK, FlagsOK, Live, Session, Linked

LEMMA SinceIs ==
    ASSUME NEW t \in Millis, NEW s \in Millis
    PROVE Since(t, s) = IF s <= t THEN t - s ELSE t - s + Wrap
BY Numbers DEF Since, Millis

LEMMA LaterIs ==
    ASSUME NEW t \in Millis
    PROVE Later(t) \in Millis /\ Later(t) = IF t + 1 = Wrap THEN 0 ELSE t + 1
BY Numbers DEF Later, Millis

LEMMA Unwired == ASSUME Live, UNCHANGED <<setting, events, handle, link, connected>> PROVE Live'
BY DEF Live

\* Whoever closes a link, with the queue already one event shorter or not.
LEMMA CloseLives ==
    ASSUME NEW h, NEW q, Session(q, handle, link, connected, setting.pin), Close(h, q),
           UNCHANGED <<setting, handle, connected>>
    PROVE Live'
<1>1. CASE link.handle = h /\ h # NoHandle
  <2>1. link \in Sized /\ link # Down /\ h \in Handles
    BY <1>1, EventTypes DEF Session, Linked
  <2>2. [kind |-> "disconnect", handle |-> h] \in Event
    BY <2>1, EventTypes
  <2>3. Session(Append(q, [kind |-> "disconnect", handle |-> h]), handle, Down, connected, setting.pin)
    BY <1>1, <2>1, <2>2, MoreTurn, EventTypes DEF Turn
  <2> QED BY <1>1, <2>3 DEF Close, Live
<1>2. CASE ~(link.handle = h /\ h # NoHandle)
  BY <1>2 DEF Close, Live
<1> QED BY <1>1, <1>2

LEMMA Unaged == ASSUME Elapsed, UNCHANGED <<now, age, stamp>> PROVE Elapsed'
BY DEF Elapsed

LEMMA LoopTopKeeps == ASSUME LoopInv, LoopTop PROVE LoopInv'
<1> USE DEF LoopInv
<1>1. ClockOK' /\ HistoryOK'
  BY Numbers DEF LoopTop, session, config, ClockOK, HistoryOK
<1>2. FlagsOK'
  BY DEF LoopTop, session, config, FlagsOK
<1>3. Live'
  BY Unwired DEF LoopTop, session, config
<1>4. Elapsed'
  BY Unaged DEF LoopTop, session, config
<1> QED BY <1>1, <1>2, <1>3, <1>4

LEMMA TransportTickKeeps == ASSUME LoopInv, TransportTick PROVE LoopInv'
<1> USE DEF LoopInv
<1>1. ClockOK' /\ HistoryOK'
  BY Numbers DEF TransportTick, time, session, config, ClockOK, HistoryOK, Tasks
<1>2. FlagsOK'
  BY DEF TransportTick, time, session, config, FlagsOK
<1>3. Live'
  BY Unwired DEF TransportTick, time, session, config
<1>4. Elapsed'
  BY Unaged DEF TransportTick, time, session, config
<1> QED BY <1>1, <1>2, <1>3, <1>4

LEMMA ConsoleTickKeeps == ASSUME LoopInv, ConsoleTick PROVE LoopInv'
<1> USE DEF LoopInv
<1>1. ClockOK' /\ HistoryOK'
  BY Numbers DEF ConsoleTick, time, session, ClockOK, HistoryOK
<1>2. FlagsOK'
  BY DEF ConsoleTick, time, session, FlagsOK
<1>3. Live'
  BY Unwired DEF ConsoleTick, time, session
<1>4. Elapsed'
  BY Unaged DEF ConsoleTick, time, session
<1> QED BY <1>1, <1>2, <1>3, <1>4

LEMMA ConsoleAnnouncedKeeps == ASSUME LoopInv, ConsoleAnnounced PROVE LoopInv'
<1> USE DEF LoopInv
<1>1. ClockOK' /\ HistoryOK'
  BY Numbers DEF ConsoleAnnounced, time, session, config, ClockOK, HistoryOK
<1>2. FlagsOK'
  BY DEF ConsoleAnnounced, time, session, config, FlagsOK
<1>3. Live'
  BY Unwired DEF ConsoleAnnounced, time, session, config
<1>4. Elapsed'
  BY Unaged DEF ConsoleAnnounced, time, session, config
<1> QED BY <1>1, <1>2, <1>3, <1>4

LEMMA IdleCheckKeeps == ASSUME LoopInv, IdleCheck PROVE LoopInv'
<1> USE DEF LoopInv
<1>1. ClockOK' /\ HistoryOK'
  BY Numbers DEF IdleCheck, time, session, config, ClockOK, HistoryOK
<1>2. FlagsOK'
  BY DEF IdleCheck, time, session, config, FlagsOK
<1>3. Live'
  BY Unwired DEF IdleCheck, time, session, config
<1>4. Elapsed'
  BY Unaged DEF IdleCheck, time, session, config
<1> QED BY <1>1, <1>2, <1>3, <1>4

LEMMA ReadMillisKeeps == ASSUME LoopInv, ReadMillis PROVE LoopInv'
<1> USE DEF LoopInv
<1>1. ClockOK' /\ HistoryOK'
  BY Numbers DEF ReadMillis, time, session, config, ClockOK, HistoryOK
<1>2. FlagsOK'
  BY DEF ReadMillis, time, session, config, FlagsOK
<1>3. Live'
  BY Unwired DEF ReadMillis, time, session, config
<1>4. Elapsed'
  BY Unaged DEF ReadMillis, time, session, config
<1> QED BY <1>1, <1>2, <1>3, <1>4

LEMMA ReadMarkKeeps == ASSUME LoopInv, ReadMark PROVE LoopInv'
<1> USE DEF LoopInv
<1>1. ClockOK' /\ HistoryOK'
  BY Numbers DEF ReadMark, time, session, config, ClockOK, HistoryOK
<1>2. FlagsOK'
  BY DEF ReadMark, time, session, config, FlagsOK
<1>3. Live'
  BY Unwired DEF ReadMark, time, session, config
<1>4. Elapsed'
  BY Unaged DEF ReadMark, time, session, config
<1> QED BY <1>1, <1>2, <1>3, <1>4

LEMMA IdleCompareKeeps == ASSUME LoopInv, IdleCompare PROVE LoopInv'
<1> USE DEF LoopInv
<1>1. ClockOK' /\ HistoryOK'
  BY Numbers DEF IdleCompare, time, session, config, ClockOK, HistoryOK
<1>2. FlagsOK'
  BY DEF IdleCompare, time, session, config, FlagsOK
<1>3. Live'
  <2>1. CASE Expired(clock, mark)
    BY <2>1, CloseLives DEF IdleCompare, session, Live
  <2>2. CASE ~Expired(clock, mark)
    BY <2>2, Unwired DEF IdleCompare, session
  <2> QED BY <2>1, <2>2
<1>4. Elapsed'
  BY Unaged DEF IdleCompare, time, session, config
<1> QED BY <1>1, <1>2, <1>3, <1>4

LEMMA OnConnectKeeps == ASSUME LoopInv, OnConnect PROVE LoopInv'
<1> USE DEF LoopInv
<1>1. ClockOK' /\ HistoryOK'
  BY Numbers DEF OnConnect, elsewhere, time, loop, session, config, Ran, MarkActivity, ClockOK, HistoryOK
<1>2. FlagsOK'
  BY DEF OnConnect, elsewhere, time, loop, session, config, Ran, MarkActivity, FlagsOK
<1>3. Live'
  <2>1. events # <<>> /\ Head(events).kind = "connect"
    BY DEF OnConnect, Takes
  <2>2. Session(Tail(events), Head(events).handle, link, FALSE, setting.pin)
    BY <2>1, DropConnect DEF Live, Turn
  <2> QED BY <2>2 DEF OnConnect, Live, elsewhere, session
<1>4. Elapsed'
  BY Unaged DEF OnConnect, elsewhere, time, loop, session, config, Ran, MarkActivity
<1> QED BY <1>1, <1>2, <1>3, <1>4

LEMMA OnDisconnectKeeps == ASSUME LoopInv, OnDisconnect PROVE LoopInv'
<1> USE DEF LoopInv
<1>1. ClockOK' /\ HistoryOK'
  BY Numbers DEF OnDisconnect, elsewhere, time, loop, session, config, Ran, MarkActivity, ClockOK, HistoryOK
<1>2. FlagsOK'
  BY DEF OnDisconnect, elsewhere, time, loop, session, config, Ran, MarkActivity, FlagsOK
<1>3. Live'
  <2>1. events # <<>> /\ Head(events).kind = "disconnect"
    BY DEF OnDisconnect, Takes
  <2>2. handle = Head(events).handle /\ Session(Tail(events), NoHandle, link, FALSE, setting.pin)
    BY <2>1, DropDisconnect DEF Live, Turn
  <2> QED BY <2>2 DEF OnDisconnect, Live, elsewhere, session
<1>4. Elapsed'
  BY Unaged DEF OnDisconnect, elsewhere, time, loop, session, config, Ran, MarkActivity
<1> QED BY <1>1, <1>2, <1>3, <1>4

LEMMA OnSecuredKeeps == ASSUME LoopInv, OnSecured PROVE LoopInv'
<1> USE DEF LoopInv
<1>1. ClockOK' /\ HistoryOK'
  BY Numbers DEF OnSecured, elsewhere, time, loop, session, config, Ran, MarkActivity, Refresh, Written, ClockOK, HistoryOK
<1>2. FlagsOK'
  BY DEF OnSecured, elsewhere, time, loop, session, config, Ran, MarkActivity, Refresh, Written, FlagsOK
<1>3. Live'
  <2>1. events # <<>> /\ Head(events).kind = "secured" /\ (setting.pin => link.level = "mitm")
    BY DEF OnSecured, Takes, Enough
  <2>2. Session(Tail(events), handle, link, TRUE, setting.pin)
    BY <2>1, DropSecured DEF Live
  <2> QED BY <2>2 DEF OnSecured, Live, elsewhere, session
<1>4. Elapsed'
  BY Unaged DEF OnSecured, elsewhere, time, loop, session, config, Ran, MarkActivity, Refresh, Written
<1> QED BY <1>1, <1>2, <1>3, <1>4

LEMMA OnSecuredWeakKeeps == ASSUME LoopInv, OnSecuredWeak PROVE LoopInv'
<1> USE DEF LoopInv
<1>1. ClockOK' /\ HistoryOK'
  BY Numbers DEF OnSecuredWeak, elsewhere, time, loop, session, config, Ran, MarkActivity, Refresh, Written, ClockOK, HistoryOK
<1>2. FlagsOK'
  BY DEF OnSecuredWeak, elsewhere, time, loop, session, config, Ran, MarkActivity, Refresh, Written, FlagsOK
<1>3. Live'
  <2>1. events # <<>> /\ Head(events).kind = "secured"
    BY DEF OnSecuredWeak, Takes
  <2>2. Session(Tail(events), handle, link, connected, setting.pin)
    BY <2>1, DropOther DEF Live, Turn
  <2> QED BY <2>2, CloseLives DEF OnSecuredWeak, Live, elsewhere, session
<1>4. Elapsed'
  BY Unaged DEF OnSecuredWeak, elsewhere, time, loop, session, config, Ran, MarkActivity, Refresh, Written
<1> QED BY <1>1, <1>2, <1>3, <1>4

LEMMA OnSecuredStrayKeeps == ASSUME LoopInv, OnSecuredStray PROVE LoopInv'
<1> USE DEF LoopInv
<1>1. ClockOK' /\ HistoryOK'
  BY Numbers DEF OnSecuredStray, elsewhere, time, loop, session, config, Ran, MarkActivity, ClockOK, HistoryOK
<1>2. FlagsOK'
  BY DEF OnSecuredStray, elsewhere, time, loop, session, config, Ran, MarkActivity, FlagsOK
<1>3. Live'
  <2>1. events # <<>> /\ Head(events).kind = "secured"
    BY DEF OnSecuredStray, Takes
  <2>2. Session(Tail(events), handle, link, connected, setting.pin)
    BY <2>1, DropOther DEF Live, Turn
  <2> QED BY <2>2 DEF OnSecuredStray, Live, elsewhere, session
<1>4. Elapsed'
  BY Unaged DEF OnSecuredStray, elsewhere, time, loop, session, config, Ran, MarkActivity
<1> QED BY <1>1, <1>2, <1>3, <1>4

LEMMA OnPairingCompleteKeeps == ASSUME LoopInv, OnPairingComplete PROVE LoopInv'
<1> USE DEF LoopInv
<1>1. ClockOK' /\ HistoryOK'
  BY Numbers DEF OnPairingComplete, elsewhere, time, loop, session, config, Ran, MarkActivity, ClockOK, HistoryOK
<1>2. FlagsOK'
  BY DEF OnPairingComplete, elsewhere, time, loop, session, config, Ran, MarkActivity, FlagsOK
<1>3. Live'
  <2>1. events # <<>> /\ Head(events).kind = "unpaired"
    BY DEF OnPairingComplete, Takes
  <2>2. Session(Tail(events), handle, link, connected, setting.pin)
    BY <2>1, DropOther DEF Live, Turn
  <2> QED BY <2>2, CloseLives DEF OnPairingComplete, Live, elsewhere, session
<1>4. Elapsed'
  BY Unaged DEF OnPairingComplete, elsewhere, time, loop, session, config, Ran, MarkActivity
<1> QED BY <1>1, <1>2, <1>3, <1>4

LEMMA OnConfigWriteKeeps == ASSUME LoopInv, OnConfigWrite PROVE LoopInv'
<1> USE DEF LoopInv
<1>1. ClockOK' /\ HistoryOK'
  BY Numbers DEF OnConfigWrite, elsewhere, time, loop, session, config, Ran, MarkActivity, ClockOK, HistoryOK
<1>2. FlagsOK'
  <2>1. events # <<>> /\ events \in Seq(Event) /\ Head(events).kind = "config"
    BY DEF OnConfigWrite, Takes, Live, Session, Linked
  <2>2. Head(events).value \in Records
    BY <2>1, TailIs, EventTypes
  <2> QED BY <2>2 DEF OnConfigWrite, elsewhere, time, loop, session, config, Ran, MarkActivity, FlagsOK
<1>3. Live'
  <2>1. events # <<>> /\ Head(events).kind = "config"
    BY DEF OnConfigWrite, Takes
  <2>2. Session(Tail(events), handle, link, connected, setting.pin)
    BY <2>1, DropOther DEF Live, Turn
  <2> QED BY <2>2 DEF OnConfigWrite, Live, elsewhere, session
<1>4. Elapsed'
  BY Unaged DEF OnConfigWrite, elsewhere, time, loop, session, config, Ran, MarkActivity
<1> QED BY <1>1, <1>2, <1>3, <1>4

LEMMA AnnouncedKeeps == ASSUME LoopInv, Announced PROVE LoopInv'
<1> USE DEF LoopInv
<1>1. ClockOK' /\ HistoryOK'
  BY Numbers DEF Announced, elsewhere, time, loop, session, config, Ran, MarkActivity, ClockOK, HistoryOK
<1>2. FlagsOK'
  BY DEF Announced, elsewhere, time, loop, session, config, Ran, MarkActivity, FlagsOK
<1>3. Live'
  BY Unwired DEF Announced, elsewhere, session
<1>4. Elapsed'
  BY Unaged DEF Announced, elsewhere, time, loop, session, config, Ran, MarkActivity
<1> QED BY <1>1, <1>2, <1>3, <1>4

\* A node that boots, for the first time or again.
LEMMA Starts ==
    ASSUME Init
    PROVE LoopInv
<1> USE DEF LoopInv
<1>1. ClockOK
  BY Numbers DEF Init, ClockOK
<1>2. stamp \in [Tasks -> Millis] /\ stamp = [k \in Tasks |-> 0]
  BY Numbers DEF Init
<1>3. age \in [Tasks -> 0 .. Larger(First, Interval)] /\ age = [k \in Tasks |-> Larger(First, Interval)]
  BY Numbers DEF Init
<1>4. waited \in [Tasks -> 0 .. Late + 1]
  BY Numbers DEF Init
<1>5. HistoryOK
  BY <1>2, <1>3, <1>4, Numbers DEF Init, HistoryOK
<1>6. FlagsOK
  BY DEF Init, FlagsOK
<1>7. Live
  BY NoSession DEF Init, Live
<1>8. Elapsed
  BY <1>3 DEF Elapsed
<1> QED BY <1>1, <1>5, <1>6, <1>7, <1>8

LEMMA RestartKeeps ==
    ASSUME Restart
    PROVE LoopInv'
<1> USE DEF LoopInv
<1>1. ClockOK'
  BY Numbers DEF Restart, ClockOK
<1>2. stamp' \in [Tasks -> Millis] /\ stamp' = [k \in Tasks |-> 0]
  BY Numbers DEF Restart
<1>3. age' \in [Tasks -> 0 .. Larger(First, Interval)] /\ age' = [k \in Tasks |-> Larger(First, Interval)]
  BY Numbers DEF Restart
<1>4. waited' \in [Tasks -> 0 .. Late + 1]
  BY Numbers DEF Restart
<1>5. HistoryOK'
  BY <1>2, <1>3, <1>4, Numbers DEF Restart, HistoryOK
<1>6. FlagsOK'
  BY DEF Restart, FlagsOK
<1>7. Live'
  BY NoSession DEF Restart, Live
<1>8. Elapsed'
  BY <1>3 DEF Elapsed
<1> QED BY <1>1, <1>5, <1>6, <1>7, <1>8

LEMMA OnCommitWriteKeeps == ASSUME LoopInv, OnCommitWrite PROVE LoopInv'
<1>1. CASE Restart
  BY <1>1, RestartKeeps
<1>2. CASE ~Restart
  <2> USE DEF LoopInv
  <2>1. /\ events # <<>> /\ Head(events).kind = "commit"
        /\ events' = Tail(events) /\ Ran /\ MarkActivity
        /\ UNCHANGED <<setting, now, pass, age, waited, pc, clock, mark, stamp>>
        /\ UNCHANGED <<link, handle, connected, shown>>
        /\ callback' \in {"ready", "announcing"}
        /\ staging' \in Records /\ touched' \in BOOLEAN
    BY <1>2 DEF OnCommitWrite, Takes, elsewhere, time, loop, config, FlagsOK
  <2>2. ClockOK' /\ HistoryOK'
    BY <2>1, Numbers DEF MarkActivity, ClockOK, HistoryOK
  <2>3. FlagsOK'
    BY <2>1 DEF Ran, FlagsOK
  <2>4. Live'
    BY <2>1, DropOther DEF Live, Turn
  <2>5. Elapsed'
    BY <2>1, Unaged
  <2> QED BY <2>2, <2>3, <2>4, <2>5
<1> QED BY <1>1, <1>2

LEMMA OnCommandWriteKeeps == ASSUME LoopInv, OnCommandWrite PROVE LoopInv'
<1>1. CASE Restart
  BY <1>1, RestartKeeps
<1>2. CASE ~Restart
  <2> USE DEF LoopInv
  <2>1. /\ events # <<>> /\ Head(events).kind = "command"
        /\ events' = Tail(events) /\ Ran /\ MarkActivity
        /\ UNCHANGED <<setting, now, pass, age, waited, pc, clock, mark, stamp>>
        /\ UNCHANGED <<link, handle, connected, shown>>
        /\ callback' \in {"ready", "announcing"}
        /\ staging' \in Records /\ touched' \in BOOLEAN
    BY <1>2 DEF OnCommandWrite, Takes, elsewhere, time, loop, config, FlagsOK
  <2>2. ClockOK' /\ HistoryOK'
    BY <2>1, Numbers DEF MarkActivity, ClockOK, HistoryOK
  <2>3. FlagsOK'
    BY <2>1 DEF Ran, FlagsOK
  <2>4. Live'
    BY <2>1, DropOther DEF Live, Turn
  <2>5. Elapsed'
    BY <2>1, Unaged
  <2> QED BY <2>2, <2>3, <2>4, <2>5
<1> QED BY <1>1, <1>2

LEMMA SinceLater ==
    ASSUME NEW t \in Millis, NEW s \in Millis
    PROVE /\ Since(t, s) \in Int /\ Since(Later(t), s) \in Int
          /\ Since(Later(t), s) <= Since(t, s) + 1
<1>1. Since(t, s) = IF s <= t THEN t - s ELSE t - s + Wrap
  BY SinceIs
<1>2. Later(t) \in Millis /\ Later(t) = IF t + 1 = Wrap THEN 0 ELSE t + 1
  BY LaterIs
<1>3. Since(Later(t), s) = IF s <= Later(t) THEN Later(t) - s ELSE Later(t) - s + Wrap
  BY <1>2, SinceIs
<1>4. t \in Int /\ s \in Int /\ 0 <= t /\ 0 <= s /\ t < Wrap /\ s < Wrap
  BY Numbers DEF Millis
<1> QED BY <1>1, <1>2, <1>3, <1>4, Numbers

LEMMA TickKeeps == ASSUME LoopInv, Tick PROVE LoopInv'
<1> USE DEF LoopInv
<1>1. now \in Millis /\ now' = Later(now) /\ now' \in Millis
  BY LaterIs DEF Tick, ClockOK
<1>2. ClockOK'
  BY <1>1 DEF Tick, session, loop, ClockOK
<1>3. pass' \in 0 .. Stall
  BY Numbers DEF Tick, HistoryOK
<1>4. quiet' \in 0 .. Unused + 1
  BY Numbers DEF Tick, HistoryOK
<1>5. age' \in [Tasks -> 0 .. Larger(First, Interval)]
  BY Numbers DEF Tick, HistoryOK
<1>6. waited' \in [Tasks -> 0 .. Late + 1]
  BY Numbers DEF Tick, HistoryOK
<1>7. HistoryOK'
  BY <1>3, <1>4, <1>5, <1>6 DEF Tick, HistoryOK
<1>8. FlagsOK'
  BY DEF Tick, session, config, FlagsOK
<1>9. Live'
  BY Unwired DEF Tick, session
<1>10. Elapsed'
  <2> SUFFICES ASSUME NEW k \in Tasks
      PROVE age'[k] = Larger(First, Interval) \/ Since(now', stamp'[k]) <= age'[k]
    BY DEF Elapsed
  <2>1. /\ stamp'[k] = stamp[k] /\ stamp[k] \in Millis
        /\ age[k] \in 0 .. Larger(First, Interval)
        /\ age'[k] = IF age[k] < Larger(First, Interval) THEN age[k] + 1 ELSE age[k]
    BY DEF Tick, HistoryOK
  <2>2. CASE age[k] = Larger(First, Interval)
    BY <2>1, <2>2, Numbers
  <2>3. CASE age[k] # Larger(First, Interval)
    <3>1. Since(now, stamp[k]) <= age[k]
      BY <2>3 DEF Elapsed
    <3>2. age'[k] = age[k] + 1
      BY <2>1, <2>3, Numbers
    <3>3. /\ Since(now', stamp[k]) <= Since(now, stamp[k]) + 1
          /\ Since(now, stamp[k]) \in Int /\ Since(now', stamp[k]) \in Int
      BY <1>1, <2>1, SinceLater
    <3> QED BY <2>1, <3>1, <3>2, <3>3, Numbers
  <2> QED BY <2>2, <2>3
<1> QED BY <1>2, <1>7, <1>8, <1>9, <1>10

LEMMA PeriodicTickKeeps == ASSUME LoopInv, NEW k \in Tasks, PeriodicTick(k) PROVE LoopInv'
<1> USE DEF LoopInv
<1>1. ClockOK'
  BY DEF PeriodicTick, session, config, ClockOK, Tasks
<1>2. \/ UNCHANGED <<stamp, age, waited>>
      \/ /\ stamp' = [stamp EXCEPT ![k] = now]
         /\ age' = [age EXCEPT ![k] = 0]
         /\ waited' = [waited EXCEPT ![k] = 0]
  BY DEF PeriodicTick
<1>3. HistoryOK'
  <2>1. stamp' \in [Tasks -> Millis]
    BY <1>2 DEF ClockOK, HistoryOK
  <2>2. age' \in [Tasks -> 0 .. Larger(First, Interval)]
    BY <1>2, Numbers DEF HistoryOK
  <2>3. waited' \in [Tasks -> 0 .. Late + 1]
    BY <1>2, Numbers DEF HistoryOK
  <2> QED BY <2>1, <2>2, <2>3 DEF PeriodicTick, session, config, HistoryOK
<1>4. FlagsOK'
  BY DEF PeriodicTick, session, config, FlagsOK
<1>5. Live'
  BY Unwired DEF PeriodicTick, session
<1>6. Elapsed'
  <2>1. CASE UNCHANGED <<stamp, age, waited>>
    BY <2>1, Unaged DEF PeriodicTick
  <2>2. CASE stamp' = [stamp EXCEPT ![k] = now] /\ age' = [age EXCEPT ![k] = 0]
    <3> SUFFICES ASSUME NEW j \in Tasks
        PROVE age'[j] = Larger(First, Interval) \/ Since(now', stamp'[j]) <= age'[j]
      BY DEF Elapsed
    <3>1. now' = now /\ now \in Millis
      BY DEF PeriodicTick, ClockOK
    <3>2. CASE j = k
      <4>1. stamp'[j] = now /\ age'[j] = 0
        BY <2>2, <3>2 DEF HistoryOK
      <4>2. Since(now, now) = 0
        BY <3>1, SinceIs, Numbers DEF Millis
      <4> QED BY <3>1, <4>1, <4>2
    <3>3. CASE j # k
      <4>1. stamp'[j] = stamp[j] /\ age'[j] = age[j]
        BY <2>2, <3>3 DEF HistoryOK
      <4> QED BY <3>1, <4>1 DEF Elapsed
    <3> QED BY <3>2, <3>3
  <2> QED BY <1>2, <2>1, <2>2
<1> QED BY <1>1, <1>3, <1>4, <1>5, <1>6

\* The client leaves the firmware's own variables alone.
LEMMA ClientElsewhere ==
    ASSUME LoopInv, UNCHANGED firmware, Live', staging' \in Records,
           shown' \in Records \cup {Zero}, touched' \in BOOLEAN
    PROVE LoopInv'
<1> USE DEF LoopInv, firmware, time, loop, session
<1>1. ClockOK' /\ HistoryOK'
  BY DEF ClockOK, HistoryOK
<1>2. FlagsOK'
  BY DEF FlagsOK
<1>3. Elapsed'
  BY Unaged
<1> QED BY <1>1, <1>2, <1>3

LEMMA LinkUp == ASSUME Live, link # Down
                PROVE link \in Sized /\ link.handle \in Handles /\ events \in Seq(Event)
BY EventTypes DEF Live, Session, Linked

LEMMA ConnectKeeps == ASSUME LoopInv, NEW h \in Handles, Connect(h) PROVE LoopInv'
<1>1. link' = [handle |-> h, level |-> "open"] /\ link' \in Sized /\ link'.handle = h
  BY DEF Connect, Sized
<1>2. [kind |-> "connect", handle |-> h] \in Event
  BY EventTypes
<1>3. Session(Append(events, [kind |-> "connect", handle |-> h]), handle, link', connected, setting.pin)
  BY <1>1, <1>2, MoreTurn DEF LoopInv, Live, Turn
<1>4. Live'
  BY <1>3 DEF Connect, firmware, session, Live
<1> QED BY <1>4, ClientElsewhere DEF Connect, config, LoopInv, FlagsOK

LEMMA EncryptKeeps ==
    ASSUME LoopInv, NEW level \in {"weak", "mitm"}, Encrypt(level) PROVE LoopInv'
<1>1. link # Down
  BY EventTypes DEF Encrypt
<1>2. link \in Sized /\ link.handle \in Handles
  BY <1>1, LinkUp DEF LoopInv
<1>3. link \in [handle : Handles, level : {"open", "weak", "mitm"}]
  BY <1>1, <1>2 DEF Sized
<1>4. link' = [link EXCEPT !.level = level]
  BY DEF Encrypt
<1>5. link' \in Sized /\ link'.handle = link.handle /\ link'.level = level /\ link' # Down
  BY <1>3, <1>4, HandleAssumption DEF Sized, Down
<1>6. [kind |-> "secured", handle |-> link.handle] \in Event
  BY <1>2, EventTypes
<1>7. link.level = "open" \/ level = "mitm"
  BY DEF Encrypt
<1>8. Session(Append(events, [kind |-> "secured", handle |-> link.handle]), handle, link',
              connected, setting.pin)
  BY <1>1, <1>5, <1>6, <1>7, MoreOther DEF LoopInv, Live, Turn
<1>9. Live'
  BY <1>8 DEF Encrypt, Queue, firmware, session, Live
<1> QED BY <1>9, ClientElsewhere DEF Encrypt, config, LoopInv, FlagsOK

\* Any other event of the client's.
LEMMA QueuesOther ==
    ASSUME Live, link # Down, NEW e \in Event, ~Turn(e), e.kind # "secured",
           UNCHANGED <<setting, link, handle, connected>>, events' = Append(events, e)
    PROVE Live'
BY MoreOther, LinkUp DEF Live

LEMMA PairingFailsKeeps == ASSUME LoopInv, PairingFails PROVE LoopInv'
<1>1. link # Down
  BY EventTypes DEF PairingFails
<1>2. [kind |-> "unpaired", handle |-> link.handle] \in Event
  BY <1>1, LinkUp, EventTypes DEF LoopInv
<1>3. Live'
  BY <1>1, <1>2, QueuesOther DEF PairingFails, Queue, firmware, session, LoopInv, Turn
<1> QED BY <1>3, ClientElsewhere DEF PairingFails, config, LoopInv, FlagsOK

LEMMA WriteConfigKeeps == ASSUME LoopInv, NEW v \in Records, WriteConfig(v) PROVE LoopInv'
<1>1. link # Down
  BY EventTypes DEF WriteConfig, MayWrite
<1>2. [kind |-> "config", handle |-> link.handle, value |-> v] \in Event
  BY <1>1, LinkUp, EventTypes DEF LoopInv
<1>3. Live'
  BY <1>1, <1>2, QueuesOther DEF WriteConfig, firmware, session, LoopInv, Turn
<1> QED BY <1>3, ClientElsewhere DEF WriteConfig, LoopInv, FlagsOK

LEMMA WriteKeeps == ASSUME LoopInv, NEW kind \in {"command", "commit"}, Write(kind) PROVE LoopInv'
<1>1. link # Down
  BY EventTypes DEF Write, MayWrite
<1>2. [kind |-> kind, handle |-> link.handle] \in Event
  BY <1>1, LinkUp, EventTypes DEF LoopInv
<1>3. Live'
  BY <1>1, <1>2, QueuesOther DEF Write, Queue, firmware, session, LoopInv, Turn
<1> QED BY <1>3, ClientElsewhere DEF Write, config, LoopInv, FlagsOK

LEMMA LeaveKeeps == ASSUME LoopInv, Leave PROVE LoopInv'
<1>1. Live'
  BY CloseLives DEF Leave, firmware, session, LoopInv, Live
<1> QED BY <1>1, ClientElsewhere DEF Leave, config, LoopInv, FlagsOK

-----------------------------------------------------------------------------
LEMMA LoopKeeps == ASSUME LoopInv, Loop PROVE LoopInv'
BY LoopTopKeeps, TransportTickKeeps, PeriodicTickKeeps, ConsoleTickKeeps,
   ConsoleAnnouncedKeeps, IdleCheckKeeps, ReadMillisKeeps, ReadMarkKeeps, IdleCompareKeeps
   DEF Loop

LEMMA ClientKeeps == ASSUME LoopInv, Client PROVE LoopInv'
BY ConnectKeeps, EncryptKeeps, PairingFailsKeeps, WriteConfigKeeps, WriteKeeps, LeaveKeeps
   DEF Client

LEMMA CallbackKeeps == ASSUME LoopInv, Callback PROVE LoopInv'
BY OnConnectKeeps, OnDisconnectKeeps, OnSecuredKeeps, OnSecuredWeakKeeps, OnSecuredStrayKeeps,
   OnPairingCompleteKeeps, OnConfigWriteKeeps, OnCommitWriteKeeps, OnCommandWriteKeeps,
   AnnouncedKeeps DEF Callback

LEMMA StutterKeeps == ASSUME LoopInv, UNCHANGED vars PROVE LoopInv'
<1> USE DEF LoopInv, vars
<1>1. ClockOK' /\ HistoryOK' /\ FlagsOK'
  BY DEF ClockOK, HistoryOK, FlagsOK
<1> QED BY <1>1, Unwired, Unaged

LEMMA NextKeeps == LoopInv /\ [Next]_vars => LoopInv'
BY TickKeeps, LoopKeeps, ClientKeeps, CallbackKeeps, StutterKeeps DEF Next

LEMMA LoopAlways == Spec => []LoopInv
BY Starts, NextKeeps, PTL DEF Spec

\* The loop's, the session's and the senders' variables keep their types: the
\* counters stay below Wrap, and the link and the queue hold what they may.
THEOREM LoopTypeCorrect == Spec => []TypeOK
BY LoopAlways, TypeParts, PTL

LEMMA LiveIsCurrent == LoopInv => SessionIsCurrent
<1> SUFFICES ASSUME LoopInv, connected, events = <<>>
    PROVE /\ handle # NoHandle /\ link.handle = handle
          /\ link.level \in (IF setting.pin THEN {"mitm"} ELSE {"weak", "mitm"})
  BY DEF SessionIsCurrent, Idle
<1>1. NoTurn(events, 1, Len(events))
  BY DEF NoTurn
<1>2. /\ handle = link.handle /\ link \in Sized
      /\ link.level \in (IF setting.pin THEN {"mitm"} ELSE {"weak", "mitm"})
  BY <1>1 DEF LoopInv, Live, Session, Linked, Caught, Allowed
<1>3. link # Down
  BY <1>2, EventTypes
<1> QED BY <1>2, <1>3, EventTypes, HandleAssumption

\* With any number of links come and gone in the queue, and handles used
\* again: once it is worked off, the flag that pauses the radio is that of a
\* link that is up and as secure as the settings ask.
THEOREM SessionAlwaysCurrent == Spec => []SessionIsCurrent
BY LoopAlways, LiveIsCurrent, PTL

\* What is due has waited.
LEMMA DueIsAged ==
    ASSUME LoopInv, NEW k \in Tasks, Due(k)
    PROVE age[k] >= (IF stamp[k] = 0 THEN First ELSE Interval)
<1>1. now \in Millis /\ stamp[k] \in Millis /\ age[k] \in 0 .. Larger(First, Interval)
  BY DEF LoopInv, ClockOK, HistoryOK
<1>2. Since(now, stamp[k]) >= (IF stamp[k] = 0 THEN First ELSE Interval)
  <2>1. stamp[k] = 0 => Since(now, stamp[k]) = now
    BY <1>1, SinceIs, Numbers DEF Millis
  <2> QED BY <2>1 DEF Due
<1>3. Since(now, stamp[k]) \in Int
  BY <1>1, SinceIs, Numbers DEF Millis
<1>4. CASE age[k] = Larger(First, Interval)
  BY <1>4, Numbers
<1>5. CASE Since(now, stamp[k]) <= age[k]
  BY <1>1, <1>2, <1>3, <1>5, Numbers
<1> QED BY <1>4, <1>5 DEF LoopInv, Elapsed

LEMMA Steady ==
    ASSUME UNCHANGED age, LoopInv, NEW k \in Tasks, age'[k] < age[k] PROVE FALSE
<1>1. age[k] \in Int
  BY Numbers DEF LoopInv, HistoryOK
<1> QED BY <1>1

LEMMA Aging ==
    ASSUME LoopInv, NEW k \in Tasks, age'[k] < age[k], [Next]_vars
    PROVE Restart \/ (PeriodicTick(k) /\ Due(k))
<1>1. CASE UNCHANGED age
  BY <1>1, Steady
<1>2. CASE Tick
  BY <1>2, Numbers DEF Tick, LoopInv, HistoryOK
<1>3. CASE Loop
  <2>1. ASSUME NEW j \in Tasks, PeriodicTick(j) PROVE j = k /\ Due(k)
    <3>1. CASE UNCHANGED <<stamp, age, waited>>
      BY <3>1, Steady
    <3>2. CASE Due(j) /\ age' = [age EXCEPT ![j] = 0]
      <4>1. CASE j = k
        BY <3>2, <4>1
      <4>2. CASE j # k
        <5>1. age'[k] = age[k] /\ age[k] \in Int
          BY <3>2, <4>2, Numbers DEF LoopInv, HistoryOK
        <5> QED BY <5>1
      <4> QED BY <4>1, <4>2
    <3> QED BY <2>1, <3>1, <3>2 DEF PeriodicTick
  <2>2. ~(\E j \in Tasks : PeriodicTick(j)) => UNCHANGED age
    BY <1>3 DEF Loop, LoopTop, TransportTick, ConsoleTick, ConsoleAnnounced, IdleCheck,
                ReadMillis, ReadMark, IdleCompare, time
  <2> QED BY <2>1, <2>2, Steady
<1>4. CASE Client
  <2>1. UNCHANGED age
    BY <1>4 DEF Client, Connect, Encrypt, PairingFails, WriteConfig, Write, Leave, firmware, time
  <2> QED BY <2>1, Steady
<1>5. CASE Callback
  <2>1. Restart \/ UNCHANGED age
    BY <1>5 DEF Callback, OnConnect, OnDisconnect, OnSecured, OnSecuredWeak, OnSecuredStray,
                OnPairingComplete, OnConfigWrite, OnCommitWrite, OnCommandWrite, Announced,
                elsewhere, time
  <2> QED BY <2>1, Steady
<1> QED BY <1>1, <1>2, <1>3, <1>4, <1>5 DEF Next, vars

\* Whatever the period of millis() and however often it wraps, two sends are
\* at least the interval apart, as long as the node runs.
THEOREM IntervalAlwaysKept == Spec => IntervalKept
<1>1. LoopInv /\ [Next]_vars =>
        [\A k \in Tasks : age'[k] < age[k] =>
           age[k] >= (IF stamp[k] = 0 THEN First ELSE Interval)]_vars
  <2> SUFFICES ASSUME LoopInv, [Next]_vars, NEW k \in Tasks, age'[k] < age[k]
      PROVE age[k] >= (IF stamp[k] = 0 THEN First ELSE Interval)
    OBVIOUS
  <2>1. CASE PeriodicTick(k) /\ Due(k)
    BY <2>1, DueIsAged
  <2>2. CASE Restart
    <3>1. age'[k] = Larger(First, Interval) /\ age[k] \in 0 .. Larger(First, Interval)
      BY <2>2 DEF Restart, LoopInv, HistoryOK
    <3> QED BY <3>1, Numbers
  <2> QED BY <2>1, <2>2, Aging
<1> QED BY <1>1, LoopAlways, PTL DEF Spec, IntervalKept
=============================================================================
