------------------------ MODULE RepeaterSession_proofs ------------------------
(***************************************************************************)
(* What a Bluetooth session promises its client and the repeater: reads    *)
(* are current, it is dropped only when unused, and always once it is, no  *)
(* pass transmits beside an ANNOUNCE of its client's, and the senders are  *)
(* in time when it is over.  Each from an invariant of its own on top of   *)
(* LoopInv.                                                                *)
(***************************************************************************)
EXTENDS RepeaterLoop_proofs

LEMMA QueueIs == ASSUME LoopInv PROVE events \in Seq(Event)
BY DEF LoopInv, Live, Session, Linked

LEMMA CallbackIs ==
    ASSUME NEW kind, Takes(kind), LoopInv
    PROVE /\ events \in Seq(Event) /\ events # <<>>
          /\ Head(events) \in Event /\ Head(events).kind = kind
<1>1. events \in Seq(Event) /\ events # <<>> /\ Head(events).kind = kind
  BY QueueIs DEF Takes
<1> QED BY <1>1, TailIs

-----------------------------------------------------------------------------
(***************************************************************************)
(* CONFIG shows what staging is, or will be once the last write of the     *)
(* queue q has been handled.                                               *)
(***************************************************************************)
Unwritten(q, from, to) == \A j \in from .. to : q[j].kind # "config"

LastWrite(q, v, s) ==
    \/ Unwritten(q, 1, Len(q)) /\ v = s
    \/ \E i \in 1 .. Len(q) :
          q[i].kind = "config" /\ q[i].value = v /\ Unwritten(q, i + 1, Len(q))

ReadInv == connected /\ ~touched => LastWrite(events, shown, staging)

LEMMA DropUnwritten ==
    ASSUME NEW q \in Seq(Event), q # <<>>, NEW a \in Nat \ {0}, Unwritten(q, a + 1, Len(q))
    PROVE Unwritten(Tail(q), a, Len(Tail(q)))
<1> SUFFICES ASSUME NEW j \in a .. Len(Tail(q)) PROVE Tail(q)[j].kind # "config"
  BY DEF Unwritten
<1>1. j \in 1 .. Len(Tail(q)) /\ j + 1 \in a + 1 .. Len(q)
  BY TailIs
<1> QED BY <1>1, TailIs DEF Unwritten

LEMMA DropWrite ==
    ASSUME NEW q \in Seq(Event), q # <<>>, NEW v, NEW s, LastWrite(q, v, s)
    PROVE LastWrite(Tail(q), v, IF Head(q).kind = "config" THEN Head(q).value ELSE s)
<1>1. CASE Unwritten(q, 1, Len(q)) /\ v = s
  <2>1. Head(q).kind # "config" /\ Unwritten(q, 1 + 1, Len(q))
    BY <1>1, TailIs DEF Unwritten
  <2> QED BY <1>1, <2>1, DropUnwritten DEF LastWrite
<1>2. ASSUME NEW i \in 1 .. Len(q), q[i].kind = "config", q[i].value = v,
             Unwritten(q, i + 1, Len(q))
      PROVE LastWrite(Tail(q), v, IF Head(q).kind = "config" THEN Head(q).value ELSE s)
  <2>1. CASE i = 1
    <3>1. Head(q) = q[1] /\ Unwritten(Tail(q), 1, Len(Tail(q)))
      BY <1>2, <2>1, TailIs, DropUnwritten
    <3> QED BY <1>2, <2>1, <3>1 DEF LastWrite
  <2>2. CASE i # 1
    <3>1. i - 1 \in 1 .. Len(Tail(q)) /\ (i - 1) + 1 = i /\ i - 1 \in Nat \ {0} /\ i \in Nat \ {0}
      BY <2>2, TailIs
    <3>2. Tail(q)[i - 1] = q[i]
      BY <3>1, TailIs
    <3>3. Unwritten(Tail(q), i, Len(Tail(q)))
      BY <1>2, <3>1, DropUnwritten
    <3> QED BY <1>2, <3>1, <3>2, <3>3 DEF LastWrite
  <2> QED BY <2>1, <2>2
<1> QED BY <1>1, <1>2 DEF LastWrite

LEMMA MoreWrite ==
    ASSUME NEW q \in Seq(Event), NEW e \in Event, NEW v, NEW s,
           IF e.kind = "config" THEN e.value = v ELSE LastWrite(q, v, s)
    PROVE LastWrite(Append(q, e), v, s)
<1>1. CASE e.kind = "config"
  <2>1. Len(q) + 1 \in 1 .. Len(Append(q, e)) /\ Append(q, e)[Len(q) + 1] = e
    BY MoreIs
  <2>2. Unwritten(Append(q, e), (Len(q) + 1) + 1, Len(Append(q, e)))
    BY MoreIs DEF Unwritten
  <2> QED BY <1>1, <2>1, <2>2 DEF LastWrite
<1>2. CASE e.kind # "config"
  <2>1. \A a \in Nat \ {0} : Unwritten(q, a, Len(q)) => Unwritten(Append(q, e), a, Len(Append(q, e)))
    <3> SUFFICES ASSUME NEW a \in Nat \ {0}, Unwritten(q, a, Len(q)), NEW j \in a .. Len(Append(q, e))
        PROVE Append(q, e)[j].kind # "config"
      BY DEF Unwritten
    <3>1. j \in 1 .. Len(Append(q, e)) /\ (j = Len(q) + 1 \/ (j \in a .. Len(q) /\ j \in 1 .. Len(q)))
      BY MoreIs
    <3> QED BY <1>2, <3>1, MoreIs DEF Unwritten
  <2>2. CASE Unwritten(q, 1, Len(q)) /\ v = s
    BY <2>1, <2>2 DEF LastWrite
  <2>3. ASSUME NEW i \in 1 .. Len(q), q[i].kind = "config", q[i].value = v,
               Unwritten(q, i + 1, Len(q))
        PROVE LastWrite(Append(q, e), v, s)
    <3>1. i \in 1 .. Len(Append(q, e)) /\ Append(q, e)[i] = q[i] /\ i + 1 \in Nat \ {0}
      BY MoreIs
    <3> QED BY <2>1, <2>3, <3>1 DEF LastWrite
  <2> QED BY <1>2, <2>2, <2>3 DEF LastWrite
<1> QED BY <1>1, <1>2

LEMMA CloseWrites ==
    ASSUME NEW h, NEW q \in Seq(Event), NEW v, NEW s, link \in Sized,
           LastWrite(q, v, s), Close(h, q)
    PROVE LastWrite(events', v, s)
<1>1. CASE link.handle = h /\ h # NoHandle
  <2>1. h \in Handles
    BY <1>1, EventTypes
  <2>2. [kind |-> "disconnect", handle |-> h] \in Event
    BY <2>1, EventTypes
  <2>3. LastWrite(Append(q, [kind |-> "disconnect", handle |-> h]), v, s)
    BY <2>2, MoreWrite
  <2> QED BY <1>1, <2>3 DEF Close
<1>2. CASE ~(link.handle = h /\ h # NoHandle)
  BY <1>2 DEF Close
<1> QED BY <1>1, <1>2

LEMMA SameReads ==
    ASSUME ReadInv, UNCHANGED <<events, connected, shown, staging, touched>> PROVE ReadInv'
BY DEF ReadInv

LEMMA LoopReads == ASSUME LoopInv, ReadInv, Loop PROVE ReadInv'
<1>1. CASE ConsoleTick
  BY <1>1, SameReads DEF ConsoleTick, session, ReadInv
<1>2. CASE IdleCompare
  <2>1. UNCHANGED <<connected, shown, staging, touched>> /\ (Close(handle, events) \/ UNCHANGED events)
    BY <1>2 DEF IdleCompare, session, config
  <2> QED BY <2>1, QueueIs, CloseWrites DEF ReadInv, LoopInv, Live, Session, Linked
<1>3. CASE LoopTop \/ TransportTick \/ (\E k \in Tasks : PeriodicTick(k)) \/ ConsoleAnnounced
           \/ IdleCheck \/ ReadMillis \/ ReadMark
  BY <1>3, SameReads DEF LoopTop, TransportTick, PeriodicTick, ConsoleAnnounced,
     IdleCheck, ReadMillis, ReadMark, session, config
<1> QED BY <1>1, <1>2, <1>3 DEF Loop

LEMMA ClientReads == ASSUME LoopInv, ReadInv, Client PROVE ReadInv'
<1> USE DEF ReadInv
<1>1. link \in Sized /\ events \in Seq(Event)
  BY DEF LoopInv, Live, Session, Linked
<1>2. ASSUME NEW e \in Event, e.kind # "config", events' = Append(events, e),
             UNCHANGED <<connected, shown, staging, touched>>
      PROVE ReadInv'
  BY <1>1, <1>2, MoreWrite
<1>3. ASSUME NEW h \in Handles, Connect(h) PROVE ReadInv'
  <2>1. [kind |-> "connect", handle |-> h] \in Event
    BY EventTypes
  <2> QED BY <1>2, <1>3, <2>1 DEF Connect, firmware, session, config
<1>4. ASSUME NEW kind \in {"secured", "unpaired", "command", "commit"}, link # Down, Queue(kind) = events',
             UNCHANGED <<connected, shown, staging, touched>>
      PROVE ReadInv'
  <2>1. [kind |-> kind, handle |-> link.handle] \in Event
    BY <1>1, <1>4, EventTypes
  <2> QED BY <1>2, <1>4, <2>1 DEF Queue
<1>5. ASSUME NEW level \in {"weak", "mitm"}, Encrypt(level) PROVE ReadInv'
  BY <1>4, <1>5, EventTypes DEF Encrypt, firmware, session, config
<1>6. CASE PairingFails
  BY <1>4, <1>6, EventTypes DEF PairingFails, firmware, session, config
<1>7. ASSUME NEW kind \in {"command", "commit"}, Write(kind) PROVE ReadInv'
  BY <1>4, <1>7, EventTypes DEF Write, MayWrite, firmware, session, config
<1>8. ASSUME NEW v \in Records, WriteConfig(v) PROVE ReadInv'
  <2>1. [kind |-> "config", handle |-> link.handle, value |-> v] \in Event
    BY <1>1, <1>8, EventTypes DEF WriteConfig, MayWrite
  <2> QED BY <1>1, <1>8, <2>1, MoreWrite DEF WriteConfig, firmware, session
<1>9. CASE Leave
  BY <1>1, <1>9, CloseWrites DEF Leave, firmware, session, config
<1> QED BY <1>3, <1>5, <1>6, <1>7, <1>8, <1>9 DEF Client

LEMMA CallbackReads == ASSUME LoopInv, ReadInv, Callback PROVE ReadInv'
<1> USE DEF ReadInv
<1>1. link \in Sized /\ events \in Seq(Event)
  BY DEF LoopInv, Live, Session, Linked
<1>2. ASSUME NEW kind, kind # "config", Takes(kind), events' = Tail(events),
             UNCHANGED <<connected, shown, staging, touched>>
      PROVE ReadInv'
  <2>1. events # <<>> /\ Head(events).kind # "config"
    BY <1>2, CallbackIs
  <2> QED BY <1>1, <1>2, <2>1, DropWrite
<1>3. CASE OnConnect
  BY <1>3 DEF OnConnect
<1>4. CASE OnDisconnect
  <2>1. CASE handle = Head(events).handle
    BY <1>4, <2>1 DEF OnDisconnect
  <2>2. CASE handle # Head(events).handle
    BY <1>2, <1>4, <2>2 DEF OnDisconnect
  <2> QED BY <2>1, <2>2
<1>5. ASSUME Takes("secured"), Refresh, UNCHANGED staging, ~touched'
      PROVE Tail(events) \in Seq(Event) /\ LastWrite(Tail(events), shown', staging')
  <2>1. events # <<>> /\ shown' = staging' /\ Unwritten(events, 1, Len(events))
    BY <1>5, CallbackIs DEF Refresh, Written, Unwritten
  <2>2. Unwritten(events, 1 + 1, Len(events))
    BY <2>1 DEF Unwritten
  <2>3. Unwritten(Tail(events), 1, Len(Tail(events))) /\ Tail(events) \in Seq(Event)
    BY <1>1, <2>1, <2>2, DropUnwritten, TailIs
  <2> QED BY <2>1, <2>3 DEF LastWrite
<1>6. CASE OnSecured
  BY <1>5, <1>6 DEF OnSecured
<1>7. CASE OnSecuredWeak
  <2>1. Takes("secured") /\ Close(handle, Tail(events)) /\ UNCHANGED <<connected, staging>>
    BY <1>7 DEF OnSecuredWeak, session
  <2>2. CASE Refresh
    BY <1>1, <1>5, <2>1, <2>2, CloseWrites
  <2>3. CASE ~connected
    BY <2>1, <2>3
  <2> QED BY <1>7, <2>2, <2>3 DEF OnSecuredWeak
<1>8. CASE OnSecuredStray
  BY <1>2, <1>8 DEF OnSecuredStray, session, config
<1>9. CASE OnPairingComplete
  <2>1. events # <<>> /\ Head(events).kind # "config" /\ UNCHANGED <<connected, shown, staging, touched>>
    BY <1>9, CallbackIs DEF OnPairingComplete, session, config
  <2>2. Close(handle, Tail(events)) \/ events' = Tail(events)
    BY <1>9 DEF OnPairingComplete
  <2>3. Tail(events) \in Seq(Event)
    BY <1>1, <2>1, TailIs
  <2> QED BY <1>1, <2>1, <2>2, <2>3, DropWrite, CloseWrites
<1>10. CASE OnConfigWrite
  <2>1. events # <<>> /\ Head(events).kind = "config" /\ events' = Tail(events)
        /\ UNCHANGED <<connected, shown>>
        /\ (touched' \/ (staging' = Head(events).value /\ UNCHANGED touched))
    BY <1>10, CallbackIs DEF OnConfigWrite
  <2> QED BY <1>1, <2>1, DropWrite
<1>11. CASE OnCommitWrite
  <2>1. Restart \/ (Takes("commit") /\ events' = Tail(events)
                    /\ UNCHANGED <<connected, shown, staging, touched>>)
    BY <1>11 DEF OnCommitWrite, config
  <2> QED BY <1>2, <2>1 DEF Restart
<1>12. CASE OnCommandWrite
  <2>1. \/ Restart \/ touched'
        \/ Takes("command") /\ events' = Tail(events)
           /\ UNCHANGED <<connected, shown, staging, touched>>
    BY <1>12 DEF OnCommandWrite
  <2> QED BY <1>2, <2>1 DEF Restart
<1>13. CASE Announced
  BY <1>13, SameReads DEF Announced, session, config
<1> QED BY <1>3, <1>4, <1>6, <1>7, <1>8, <1>9, <1>10, <1>11, <1>12, <1>13 DEF Callback

\* Within a session a read of CONFIG returns the staged record, with any number
\* of writes still in the queue, unless something else than the client's writes
\* changed it (Ble.cpp:149-211, 313-318).
THEOREM ReadAlwaysCurrent == Spec => []ReadIsCurrent
<1>1. Init => ReadInv
  BY DEF Init, ReadInv
<1>2. LoopInv /\ ReadInv /\ [Next]_vars => ReadInv'
  <2>1. ASSUME ReadInv, Tick PROVE ReadInv'
    BY <2>1, SameReads DEF Tick, session, config
  <2>2. ASSUME ReadInv, UNCHANGED vars PROVE ReadInv'
    BY <2>2, SameReads DEF vars
  <2> QED BY <2>1, <2>2, LoopReads, ClientReads, CallbackReads DEF Next
<1>3. ReadInv => ReadIsCurrent
  <2> SUFFICES ASSUME ReadInv, connected, events = <<>>, ~touched PROVE shown = staging
    BY DEF ReadIsCurrent, Idle
  <2>1. 1 .. Len(events) = {}
    OBVIOUS
  <2> QED BY <2>1 DEF ReadInv, LastWrite
<1> QED BY <1>1, <1>2, <1>3, LoopAlways, PTL DEF Spec

-----------------------------------------------------------------------------
(***************************************************************************)
(* The idle check: what ble::tick() reads against the time since the       *)
(* session's last activity.                                                *)
(***************************************************************************)
Counted == connected => quiet = Unused + 1 \/ Since(now, last) = quiet

NotReading == pc # "reading" => clock = None /\ mark = None /\ ~raced

Unraced ==
    pc = "reading" /\ ~raced =>
        /\ connected /\ mark \in {None, last}
        /\ clock # None => quiet = Unused + 1 \/ Since(clock, last) <= quiet

IdleInv == Counted /\ NotReading /\ Unraced

LEMMA ClockIs ==
    ASSUME LoopInv
    PROVE /\ now \in Millis /\ last \in Millis /\ None \notin Millis
          /\ quiet \in Int /\ 0 <= quiet /\ quiet <= Unused + 1
          /\ pass \in Int /\ 0 <= pass /\ pass <= Stall
          /\ clock \in Millis \cup {None} /\ mark \in Millis \cup {None}
          /\ Since(now, last) \in Int /\ Since(now, now) = 0
          /\ clock # None => Since(clock, last) \in Int
<1>1. /\ now \in Millis /\ last \in Millis /\ None \notin Millis
      /\ clock \in Millis \cup {None} /\ mark \in Millis \cup {None}
  BY Numbers DEF LoopInv, ClockOK, Millis, None
<1>2. /\ quiet \in Int /\ 0 <= quiet /\ quiet <= Unused + 1
      /\ pass \in Int /\ 0 <= pass /\ pass <= Stall
  BY Numbers DEF LoopInv, HistoryOK
<1>3. \A t, s \in Millis : Since(t, s) \in Int /\ Since(t, t) = 0
  BY SinceIs, Numbers DEF Millis
<1> QED BY <1>1, <1>2, <1>3

\* One tick more.
LEMMA SinceNext ==
    ASSUME NEW t \in Millis, NEW s \in Millis, Since(t, s) + 1 < Wrap
    PROVE Since(Later(t), s) = Since(t, s) + 1
<1>1. Since(t, s) = IF s <= t THEN t - s ELSE t - s + Wrap
  BY SinceIs
<1>2. Later(t) \in Millis /\ Later(t) = IF t + 1 = Wrap THEN 0 ELSE t + 1
  BY LaterIs
<1>3. Since(Later(t), s) = IF s <= Later(t) THEN Later(t) - s ELSE Later(t) - s + Wrap
  BY <1>2, SinceIs
<1>4. t \in Int /\ s \in Int /\ 0 <= t /\ 0 <= s /\ t < Wrap /\ s < Wrap
  BY Numbers DEF Millis
<1> QED BY <1>1, <1>2, <1>3, <1>4, Numbers

LEMMA TickIdles == ASSUME LoopInv, IdleInv, Tick PROVE IdleInv'
<1> USE DEF IdleInv
<1>1. /\ UNCHANGED <<pc, clock, mark, raced, connected, last>> /\ now' = Later(now)
      /\ quiet' = IF ~connected THEN 0 ELSE IF quiet <= Unused THEN quiet + 1 ELSE quiet
  BY DEF Tick, loop, session
<1>2. /\ now \in Millis /\ last \in Millis /\ quiet \in Int /\ quiet <= Unused + 1
      /\ Unused \in Int /\ Unused < Wrap /\ Wrap \in Int
  BY ClockIs, Numbers, ClockAssumption
<1>3. Counted'
  <2> SUFFICES ASSUME connected PROVE quiet' = Unused + 1 \/ Since(now', last') = quiet'
    BY <1>1 DEF Counted
  <2>1. CASE quiet >= Unused
    BY <1>1, <1>2, <2>1
  <2>2. CASE quiet < Unused
    <3>1. Since(now, last) = quiet /\ Since(now, last) + 1 < Wrap
      BY <1>2, <2>2 DEF Counted
    <3>2. Since(Later(now), last) = Since(now, last) + 1
      BY <1>2, <3>1, SinceNext
    <3> QED BY <1>1, <1>2, <2>2, <3>1, <3>2
  <2> QED BY <1>2, <2>1, <2>2
<1>4. NotReading'
  BY <1>1 DEF NotReading
<1>5. Unraced'
  <2> SUFFICES ASSUME pc = "reading", ~raced, clock # None
      PROVE quiet' = Unused + 1 \/ Since(clock, last) <= quiet'
    BY <1>1 DEF Unraced
  <2>1. connected /\ (quiet = Unused + 1 \/ Since(clock, last) <= quiet) /\ Since(clock, last) \in Int
    BY ClockIs DEF Unraced
  <2> QED BY <1>1, <1>2, <2>1
<1> QED BY <1>3, <1>4, <1>5

LEMMA LoopIdles == ASSUME LoopInv, IdleInv, Loop PROVE IdleInv'
<1> USE DEF IdleInv
<1>1. ASSUME UNCHANGED <<now, connected, last, quiet>> PROVE Counted'
  BY <1>1 DEF Counted
<1>2. ASSUME LoopTop \/ TransportTick \/ (\E k \in Tasks : PeriodicTick(k)) \/ ConsoleTick
             \/ ConsoleAnnounced
      PROVE IdleInv'
  <2>1. UNCHANGED <<now, connected, last, quiet, clock, mark, raced>>
    BY <1>2 DEF LoopTop, TransportTick, PeriodicTick, ConsoleTick, ConsoleAnnounced, time, session
  <2>2. pc # "reading" /\ pc' # "reading"
    BY <1>2 DEF LoopTop, TransportTick, PeriodicTick, ConsoleTick, ConsoleAnnounced, Tasks
  <2> QED BY <1>1, <2>1, <2>2 DEF NotReading, Unraced
<1>3. CASE IdleCheck
  <2>1. /\ UNCHANGED <<now, connected, last, quiet, clock, mark, raced>>
        /\ pc = "ble" /\ pc' = IF connected /\ handle # NoHandle THEN "reading" ELSE "top"
    BY <1>3 DEF IdleCheck, time, session
  <2> QED BY <1>1, <2>1 DEF NotReading, Unraced
<1>4. CASE ReadMillis
  <2>1. /\ UNCHANGED <<now, connected, last, quiet, mark, raced, pc>>
        /\ pc = "reading" /\ clock' = now
    BY <1>4 DEF ReadMillis, time, session
  <2>2. Unraced'
    BY <2>1, ClockIs DEF Counted, Unraced
  <2> QED BY <1>1, <2>1, <2>2 DEF NotReading
<1>5. CASE ReadMark
  <2>1. /\ UNCHANGED <<now, connected, last, quiet, clock, raced, pc>>
        /\ pc = "reading" /\ mark' = last
    BY <1>5 DEF ReadMark, time, session
  <2> QED BY <1>1, <2>1 DEF NotReading, Unraced
<1>6. CASE IdleCompare
  <2>1. /\ UNCHANGED <<now, connected, last, quiet>>
        /\ pc' = "top" /\ clock' = None /\ mark' = None /\ raced' = FALSE
    BY <1>6 DEF IdleCompare, time, session
  <2> QED BY <1>1, <2>1 DEF NotReading, Unraced
<1> QED BY <1>2, <1>3, <1>4, <1>5, <1>6 DEF Loop

LEMMA SameIdles ==
    ASSUME IdleInv, UNCHANGED <<now, last, quiet, pc, clock, mark, raced, connected>>
    PROVE IdleInv'
BY DEF IdleInv, Counted, NotReading, Unraced

LEMMA ClientIdles == ASSUME IdleInv, Client PROVE IdleInv'
BY SameIdles DEF Client, Connect, Encrypt, PairingFails, WriteConfig, Write, Leave,
   firmware, time, loop, session

\* A callback, unless it restarts the node, is seen by the check it interrupts.
LEMMA CallbackRaces ==
    ASSUME Callback
    PROVE \/ Restart
          \/ /\ UNCHANGED <<now, pc, clock, mark, pass>> /\ raced' = (pc = "reading")
             /\ \/ quiet' = 0 /\ last' = now
                \/ UNCHANGED <<quiet, last>> /\ (connected' => connected)
BY DEF Callback, OnConnect, OnDisconnect, OnSecured, OnSecuredWeak, OnSecuredStray,
   OnPairingComplete, OnConfigWrite, OnCommitWrite, OnCommandWrite, Announced,
   elsewhere, time, loop, session, Ran, MarkActivity

LEMMA CallbackIdles == ASSUME LoopInv, IdleInv, Callback PROVE IdleInv'
<1> USE DEF IdleInv
<1>1. CASE Restart
  BY <1>1 DEF Restart, Counted, NotReading, Unraced
<1>2. CASE UNCHANGED <<now, pc, clock, mark>> /\ raced' = (pc = "reading")
           /\ \/ quiet' = 0 /\ last' = now
              \/ UNCHANGED <<quiet, last>> /\ (connected' => connected)
  <2>1. Counted'
    BY <1>2, ClockIs DEF Counted
  <2> QED BY <1>2, <2>1 DEF NotReading, Unraced
<1> QED BY <1>1, <1>2, CallbackRaces

LEMMA IdleAlways == Spec => []IdleInv
<1>1. Init => IdleInv
  BY DEF Init, IdleInv, Counted, NotReading, Unraced
<1>2. LoopInv /\ IdleInv /\ [Next]_vars => IdleInv'
  <2>1. ASSUME IdleInv, UNCHANGED vars PROVE IdleInv'
    BY <2>1, SameIdles DEF vars
  <2> QED BY <2>1, TickIdles, LoopIdles, ClientIdles, CallbackIdles DEF Next
<1> QED BY <1>1, <1>2, LoopAlways, PTL DEF Spec

\* The reads that were not disturbed tell no more time than has passed.
LEMMA ExpiredIsIdle ==
    ASSUME LoopInv, IdleInv, pc = "reading", ~raced, clock # None, mark # None,
           Expired(clock, mark)
    PROVE quiet > IdleTimeout
<1>1. mark = last /\ (quiet = Unused + 1 \/ Since(clock, last) <= quiet)
  BY DEF IdleInv, Unraced
<1>2. Since(clock, last) \in Int /\ quiet \in Int
  BY ClockIs
<1>3. Unused + 1 > IdleTimeout /\ IdleTimeout \in Int /\ Unused \in Int
  BY Numbers DEF Unused
<1> QED BY <1>1, <1>2, <1>3 DEF Expired

\* ble::tick() drops only a session that was unused for longer than the
\* timeout, however often millis() wrapped, unless a callback came between its
\* two reads or events were still waiting (Ble.cpp:461-464).
THEOREM DroppedAlwaysIdle == Spec => DroppedOnlyIdle
<1>1. LoopInv /\ IdleInv /\ [Next]_vars =>
        [pc = "reading" /\ pc' = "top" /\ link # Down /\ link' = Down =>
           quiet > IdleTimeout \/ raced \/ ~Idle]_vars
  <2> SUFFICES ASSUME LoopInv, IdleInv, Next, pc = "reading", pc' = "top",
                      link # Down, link' = Down, ~raced, events = <<>>
               PROVE quiet > IdleTimeout
    BY DEF Idle, vars
  <2>1. CASE Tick \/ Client
    BY <2>1 DEF Tick, Client, Connect, Encrypt, PairingFails, WriteConfig, Write, Leave,
       firmware, loop
  <2>2. CASE Callback
    <3>1. CASE Announced
      BY <3>1 DEF Announced, elsewhere, loop
    <3> QED BY <2>2, <3>1 DEF Callback, OnConnect, OnDisconnect, OnSecured, OnSecuredWeak,
            OnSecuredStray, OnPairingComplete, OnConfigWrite, OnCommitWrite, OnCommandWrite, Takes
  <2>3. CASE Loop
    <3>1. IdleCompare
      BY <2>3 DEF Loop, LoopTop, TransportTick, PeriodicTick, ConsoleTick, ConsoleAnnounced,
         IdleCheck, ReadMillis, ReadMark, Tasks
    <3> QED BY <3>1, ExpiredIsIdle DEF IdleCompare
  <2> QED BY <2>1, <2>2, <2>3 DEF Next
<1> QED BY <1>1, LoopAlways, IdleAlways, PTL DEF Spec, DroppedOnlyIdle

-----------------------------------------------------------------------------
(***************************************************************************)
(* A session that is current, with no change of link in the queue, is      *)
(* found out within two passes of its last activity.                       *)
(***************************************************************************)
Current == connected /\ NoTurn(events, 1, Len(events))

\* The reads, one of them or both, show the time the session has been unused
\* but for what has passed in this pass; or it was used in this pass.
ReadsTell ==
    pc = "reading" =>
        \/ quiet <= pass
        \/ /\ mark \in {None, last}
           /\ clock # None => quiet <= Since(clock, last) + pass

Patient ==
    Current =>
        /\ quiet <= IdleTimeout + pass + (IF pc = "top" THEN 0 ELSE Stall)
        /\ ReadsTell

LEMMA CurrentIs ==
    ASSUME LoopInv, Current PROVE handle # NoHandle /\ link # Down /\ link.handle = handle
<1>1. /\ handle = link.handle /\ link \in Sized
      /\ link.level \in (IF setting.pin THEN {"mitm"} ELSE {"weak", "mitm"})
  BY DEF Current, LoopInv, Live, Session, Linked, Caught, Allowed
<1>2. link # Down
  BY <1>1, EventTypes
<1> QED BY <1>1, <1>2, EventTypes, HandleAssumption

\* A queue with one event more, or one less that changed no link.
LEMMA MoreTurning ==
    ASSUME NEW q \in Seq(Event), NEW e \in Event, NoTurn(Append(q, e), 1, Len(Append(q, e)))
    PROVE NoTurn(q, 1, Len(q)) /\ ~Turn(e)
BY MoreIs, MoreTurns

LEMMA LessTurning ==
    ASSUME NEW q \in Seq(Event), q # <<>>, ~Turn(Head(q)), NoTurn(Tail(q), 1, Len(Tail(q)))
    PROVE NoTurn(q, 1, Len(q))
<1>1. NoTurn(q, 1 + 1, Len(q))
  BY TailIs, TailTurns
<1> QED BY <1>1, TailIs DEF NoTurn

LEMMA CloseTurning ==
    ASSUME NEW h, NEW q \in Seq(Event), link \in Sized, Close(h, q),
           NoTurn(events', 1, Len(events'))
    PROVE NoTurn(q, 1, Len(q)) /\ ~(link.handle = h /\ h # NoHandle)
<1>1. CASE link.handle = h /\ h # NoHandle
  <2>1. h \in Handles
    BY <1>1, EventTypes
  <2>2. [kind |-> "disconnect", handle |-> h] \in Event
    BY <2>1, EventTypes
  <2>3. events' = Append(q, [kind |-> "disconnect", handle |-> h])
    BY <1>1 DEF Close
  <2>4. ~Turn([kind |-> "disconnect", handle |-> h])
    BY <2>2, <2>3, MoreTurning
  <2> QED BY <2>4 DEF Turn
<1>2. CASE ~(link.handle = h /\ h # NoHandle)
  BY <1>2 DEF Close
<1> QED BY <1>1, <1>2

LEMMA ClientStays == ASSUME LoopInv, Client, Current' PROVE Current
<1>1. link \in Sized /\ events \in Seq(Event) /\ connected' = connected
  BY DEF LoopInv, Live, Session, Linked, Client, Connect, Encrypt, PairingFails, WriteConfig,
         Write, Leave, firmware, session
<1>2. ASSUME NEW e \in Event, events' = Append(events, e) PROVE Current
  BY <1>1, <1>2, MoreTurning DEF Current
<1>3. ASSUME NEW h \in Handles, Connect(h) PROVE Current
  <2>1. [kind |-> "connect", handle |-> h] \in Event
    BY EventTypes
  <2> QED BY <1>2, <1>3, <2>1 DEF Connect
<1>4. ASSUME NEW kind \in {"secured", "unpaired", "command", "commit"}, link # Down,
             events' = Queue(kind)
      PROVE Current
  <2>1. [kind |-> kind, handle |-> link.handle] \in Event
    BY <1>1, <1>4, EventTypes
  <2> QED BY <1>2, <1>4, <2>1 DEF Queue
<1>5. ASSUME NEW level \in {"weak", "mitm"}, Encrypt(level) PROVE Current
  BY <1>4, <1>5, EventTypes DEF Encrypt
<1>6. CASE PairingFails
  BY <1>4, <1>6, EventTypes DEF PairingFails
<1>7. ASSUME NEW kind \in {"command", "commit"}, Write(kind) PROVE Current
  BY <1>4, <1>7, EventTypes DEF Write, MayWrite
<1>8. ASSUME NEW v \in Records, WriteConfig(v) PROVE Current
  <2>1. [kind |-> "config", handle |-> link.handle, value |-> v] \in Event
    BY <1>1, <1>8, EventTypes DEF WriteConfig, MayWrite
  <2> QED BY <1>2, <1>8, <2>1 DEF WriteConfig
<1>9. CASE Leave
  BY <1>1, <1>9, CloseTurning DEF Leave, Current
<1> QED BY <1>3, <1>5, <1>6, <1>7, <1>8, <1>9 DEF Client

\* A callback that makes a session current has just been called for it.
LEMMA CallbackStays ==
    ASSUME LoopInv, Callback, Current', LoopInv' PROVE Current \/ (quiet' = 0 /\ last' = now)
<1>1. link \in Sized /\ events \in Seq(Event)
  BY DEF LoopInv, Live, Session, Linked
<1>2. ASSUME NEW kind, kind \notin {"connect", "disconnect"}, Takes(kind),
             events' = Tail(events) \/ Close(handle, Tail(events)), connected
      PROVE Current
  <2>1. events # <<>> /\ ~Turn(Head(events)) /\ Tail(events) \in Seq(Event)
    BY <1>2, CallbackIs, TailIs DEF Turn
  <2>2. NoTurn(Tail(events), 1, Len(Tail(events)))
    BY <1>1, <1>2, <2>1, CloseTurning DEF Current
  <2> QED BY <1>1, <1>2, <2>1, <2>2, LessTurning DEF Current
<1>3. CASE OnConnect \/ Restart
  BY <1>3 DEF OnConnect, Restart, Current
<1>4. CASE OnDisconnect
  <2>1. Takes("disconnect") /\ events' = Tail(events) /\ link' = link
        /\ (handle = Head(events).handle => ~connected')
    BY <1>4 DEF OnDisconnect
  <2>2. events # <<>> /\ Head(events).kind = "disconnect"
    BY <2>1, CallbackIs
  <2>3. NoTurn(Tail(events), 1, Len(Tail(events)))
    BY <2>1 DEF Current
  <2>4. NoTurn(events, 1 + 1, Len(events)) /\ 1 \in 1 .. Len(events) /\ events[1] = Head(events)
    BY <1>1, <2>2, <2>3, TailIs, TailTurns
  <2>5. link = Down
    BY <2>2, <2>4 DEF LoopInv, Live, Session, Latest, Turn
  <2>6. link' # Down
    <3>1. (handle # NoHandle /\ link # Down /\ link.handle = handle)'
      <4>1. /\ handle' = link'.handle /\ link' \in Sized
            /\ link'.level \in (IF setting'.pin THEN {"mitm"} ELSE {"weak", "mitm"})
        BY DEF Current, LoopInv, Live, Session, Linked, Caught, Allowed
      <4>2. link' # Down
        BY <4>1, EventTypes
      <4> QED BY <4>1, <4>2, EventTypes, HandleAssumption
    <3> QED BY <3>1
  <2> QED BY <2>1, <2>5, <2>6
<1>5. CASE OnSecured \/ OnConfigWrite
  BY <1>5 DEF OnSecured, OnConfigWrite, MarkActivity
<1>6. CASE OnSecuredWeak
  BY <1>2, <1>6 DEF OnSecuredWeak, session, Current
<1>7. CASE OnSecuredStray
  BY <1>2, <1>7 DEF OnSecuredStray, session, Current
<1>8. CASE OnPairingComplete
  BY <1>2, <1>8 DEF OnPairingComplete, session, Current
<1>9. CASE OnCommitWrite \/ OnCommandWrite
  BY <1>3, <1>9 DEF OnCommitWrite, OnCommandWrite, MarkActivity
<1>10. CASE Announced
  BY <1>10 DEF Announced, session, Current
<1> QED BY <1>3, <1>4, <1>5, <1>6, <1>7, <1>8, <1>9, <1>10 DEF Callback

LEMMA BoundsAre ==
    /\ IdleTimeout \in Int /\ Stall \in Int /\ 0 <= IdleTimeout /\ 0 <= Stall
    /\ Unused = IdleTimeout + 2 * Stall /\ Unused \in Int
BY Numbers DEF Unused

LEMMA TickWaits == ASSUME LoopInv, Patient, Tick PROVE Patient'
<1> SUFFICES ASSUME Current'
    PROVE /\ quiet' <= IdleTimeout + pass' + (IF pc' = "top" THEN 0 ELSE Stall)
          /\ ReadsTell'
  BY DEF Patient
<1>1. /\ UNCHANGED <<pc, clock, mark, last, connected, events>> /\ pass' = pass + 1
      /\ quiet' = IF ~connected THEN 0 ELSE IF quiet <= Unused THEN quiet + 1 ELSE quiet
  BY DEF Tick, loop, session
<1>2. /\ quiet \in Int /\ pass \in Int /\ quiet' \in Int /\ quiet' <= quiet + 1
      /\ clock # None => Since(clock, last) \in Int
  BY <1>1, ClockIs, BoundsAre DEF Current
<1>3. quiet <= IdleTimeout + pass + (IF pc = "top" THEN 0 ELSE Stall) /\ ReadsTell
  BY <1>1 DEF Patient, Current
<1>4. quiet' <= IdleTimeout + pass' + (IF pc' = "top" THEN 0 ELSE Stall)
  BY <1>1, <1>2, <1>3, BoundsAre
<1>5. ReadsTell'
  <2> SUFFICES ASSUME pc = "reading"
      PROVE \/ quiet' <= pass'
            \/ mark' \in {None, last'} /\ (clock' # None => quiet' <= Since(clock', last') + pass')
    BY <1>1 DEF ReadsTell
  <2>1. CASE quiet <= pass
    BY <1>1, <1>2, <2>1
  <2>2. CASE mark \in {None, last} /\ (clock # None => quiet <= Since(clock, last) + pass)
    BY <1>1, <1>2, <2>2
  <2> QED BY <1>3, <2>1, <2>2 DEF ReadsTell
<1> QED BY <1>4, <1>5

LEMMA LoopWaits == ASSUME LoopInv, IdleInv, Patient, Loop PROVE Patient'
<1> SUFFICES ASSUME Current'
    PROVE /\ quiet' <= IdleTimeout + pass' + (IF pc' = "top" THEN 0 ELSE Stall)
          /\ ReadsTell'
  BY DEF Patient
<1>1. /\ quiet \in Int /\ pass \in Int /\ 0 <= pass /\ pass <= Stall
      /\ clock # None => Since(clock, last) \in Int
  BY ClockIs
<1>2. UNCHANGED <<connected, quiet, last, now>>
  BY DEF Loop, LoopTop, TransportTick, PeriodicTick, ConsoleTick, ConsoleAnnounced,
     IdleCheck, ReadMillis, ReadMark, IdleCompare, time, session
<1>3. ASSUME Current
      PROVE /\ quiet <= IdleTimeout + pass + (IF pc = "top" THEN 0 ELSE Stall) /\ ReadsTell
            /\ handle # NoHandle /\ link # Down /\ link.handle = handle
  BY <1>3, CurrentIs DEF Patient
<1>4. CASE LoopTop
  <2>1. Current /\ pc = "top" /\ pc' # "top" /\ pc' # "reading" /\ pass' = 0
    BY <1>4 DEF LoopTop, Current, session
  <2> QED BY <1>1, <1>2, <1>3, <2>1, BoundsAre DEF ReadsTell
<1>5. CASE TransportTick \/ (\E k \in Tasks : PeriodicTick(k)) \/ ConsoleTick \/ ConsoleAnnounced
  <2>1. Current /\ pc # "top" /\ pc' # "top" /\ pc' # "reading" /\ pass' = pass
    BY <1>5 DEF TransportTick, PeriodicTick, ConsoleTick, ConsoleAnnounced, Current, session,
       time, Tasks
  <2> QED BY <1>1, <1>2, <1>3, <2>1, BoundsAre DEF ReadsTell
<1>6. CASE IdleCheck
  <2>1. /\ Current /\ pc = "ble" /\ pass' = pass /\ UNCHANGED <<clock, mark>>
        /\ pc' = IF connected /\ handle # NoHandle THEN "reading" ELSE "top"
    BY <1>6 DEF IdleCheck, Current, session, time
  <2>2. pc' = "reading" /\ clock' = None /\ mark' = None
    BY <1>3, <2>1 DEF Current, IdleInv, NotReading
  <2> QED BY <1>1, <1>2, <1>3, <2>1, <2>2, BoundsAre DEF ReadsTell
<1>7. CASE ReadMillis
  <2>1. Current /\ pc = "reading" /\ pc' = pc /\ pass' = pass /\ mark' = mark /\ clock' = now
    BY <1>7 DEF ReadMillis, Current, session, time
  <2>2. quiet <= IdleTimeout + pass + Stall /\ ReadsTell
    BY <1>3, <2>1
  <2>3. Since(now, last) = quiet
    BY <1>1, <2>1, <2>2, BoundsAre DEF Current, IdleInv, Counted
  <2>4. ReadsTell'
    BY <1>1, <1>2, <2>1, <2>2, <2>3 DEF ReadsTell
  <2> QED BY <1>2, <2>1, <2>2, <2>4
<1>8. CASE ReadMark
  <2>1. Current /\ pc = "reading" /\ pc' = pc /\ pass' = pass /\ mark' = last /\ clock' = clock
    BY <1>8 DEF ReadMark, Current, session, time
  <2>2. quiet <= IdleTimeout + pass + Stall /\ ReadsTell
    BY <1>3, <2>1
  <2> QED BY <1>2, <2>1, <2>2 DEF ReadsTell
<1>9. CASE IdleCompare
  <2>1. /\ pc = "reading" /\ pc' = "top" /\ pass' = pass /\ clock # None /\ mark # None
        /\ IF Expired(clock, mark) THEN Close(handle, events) ELSE UNCHANGED <<link, events>>
    BY <1>9 DEF IdleCompare, time
  <2>2. link \in Sized /\ events \in Seq(Event)
    BY DEF LoopInv, Live, Session, Linked
  <2>3. Current
    BY <1>2, <2>1, <2>2, CloseTurning DEF Current
  <2>4. ~Expired(clock, mark)
    BY <1>3, <2>1, <2>2, <2>3, CloseTurning DEF Current
  <2>5. quiet <= IdleTimeout + pass
    <3>1. CASE quiet <= pass
      BY <1>1, <3>1, BoundsAre
    <3>2. CASE mark = last /\ quiet <= Since(clock, last) + pass
      BY <1>1, <2>1, <2>4, <3>2, BoundsAre DEF Expired
    <3> QED BY <1>3, <2>1, <2>3, <3>1, <3>2 DEF ReadsTell
  <2> QED BY <1>1, <1>2, <2>1, <2>5, BoundsAre DEF ReadsTell
<1> QED BY <1>4, <1>5, <1>6, <1>7, <1>8, <1>9 DEF Loop

LEMMA ClientWaits == ASSUME LoopInv, Patient, Client PROVE Patient'
<1>1. UNCHANGED <<quiet, pass, pc, clock, mark, last>>
  BY DEF Client, Connect, Encrypt, PairingFails, WriteConfig, Write, Leave, firmware,
     time, loop, session
<1> QED BY <1>1, ClientStays DEF Patient, ReadsTell

LEMMA CallbackWaits == ASSUME LoopInv, LoopInv', Patient, Callback PROVE Patient'
<1>1. CASE Restart
  BY <1>1 DEF Restart, Patient, Current
<1>2. CASE quiet' = 0 /\ UNCHANGED <<pc, pass>>
  BY <1>2, ClockIs, BoundsAre DEF Patient, ReadsTell
<1>3. CASE UNCHANGED <<quiet, pass, pc, clock, mark, last>>
  <2>1. Current' => Current \/ quiet' = 0
    BY CallbackStays
  <2>2. CASE quiet' = 0
    BY <1>2, <1>3, <2>2
  <2> QED BY <1>3, <2>1, <2>2 DEF Patient, ReadsTell
<1> QED BY <1>1, <1>2, <1>3, CallbackRaces

\* A session that nobody uses is dropped within the timeout and two passes of
\* the loop, whatever callbacks come between the two reads and however often
\* millis() wraps (Ble.cpp:452-467).
THEOREM IdleSessionAlwaysEnds == Spec => []IdleSessionEnds
<1>1. Init => Patient
  BY DEF Init, Patient, Current
<1>2. LoopInv /\ LoopInv' /\ IdleInv /\ Patient /\ [Next]_vars => Patient'
  <2>1. ASSUME Patient, UNCHANGED vars PROVE Patient'
    BY <2>1 DEF vars, Patient, ReadsTell, Current
  <2> QED BY <2>1, TickWaits, LoopWaits, ClientWaits, CallbackWaits DEF Next
<1>3. LoopInv /\ Patient => IdleSessionEnds
  <2> SUFFICES ASSUME LoopInv, Patient, connected, events = <<>> PROVE quiet <= Unused
    BY DEF IdleSessionEnds, Idle
  <2>1. Current
    BY DEF Current, NoTurn
  <2> QED BY <2>1, ClockIs, BoundsAre DEF Patient
<1> QED BY <1>1, <1>2, <1>3, LoopAlways, IdleAlways, PTL DEF Spec

-----------------------------------------------------------------------------
(***************************************************************************)
(* An ANNOUNCE from the callback task.                                     *)
(***************************************************************************)
\* At the n-th event of the queue q, with the flag c now, the flag will be set.
Cleared(q, n, c) ==
    \/ \E j \in 1 .. n : q[j].kind = "secured" /\ NoTurn(q, j + 1, n)
    \/ NoTurn(q, 1, n) /\ c

\* Whoever may write to a node with a PIN has had its link reported as secured,
\* and its commands come behind that.
Opens(q, l, c) ==
    /\ l.level = "mitm" => Cleared(q, Len(q), c)
    /\ \A i \in 1 .. Len(q) : NoTurn(q, i + 1, Len(q)) /\ ~Turn(q[i]) =>
          /\ q[i].handle = l.handle
          /\ q[i].kind = "command" => l.level = "mitm" /\ Cleared(q, i, c)

\* Between two links there is the end of the first.
Parted(q, h) ==
    \A i \in 1 .. Len(q) : q[i].kind = "connect" =>
        /\ h = NoHandle \/ \E j \in 1 .. i - 1 : q[j].kind = "disconnect"
        /\ \A k \in 1 .. i - 1 : q[k].kind = "connect" =>
              \E j \in k + 1 .. i - 1 : q[j].kind = "disconnect"

OpenInv ==
    /\ setting.pin => Opens(events, link, connected)
    /\ setting.pin /\ callback = "announcing" /\ NoTurn(events, 1, Len(events)) => connected
    /\ Parted(events, handle)

LEMMA DropCleared ==
    ASSUME NEW q \in Seq(Event), q # <<>>, NEW n \in 1 .. Len(q), NEW c, NEW c2, Cleared(q, n, c),
           c /\ ~Turn(Head(q)) => c2,
           Head(q).kind = "secured" /\ NoTurn(q, 1, n) => c2
    PROVE Cleared(Tail(q), n - 1, c2)
<1>1. n \in Int /\ n - 1 <= Len(q) - 1
  BY TailIs
<1>2. CASE NoTurn(q, 1, n) /\ c
  <2>1. 1 \in 1 .. n /\ Head(q) = q[1]
    BY TailIs
  <2>2. ~Turn(Head(q)) /\ NoTurn(q, 1 + 1, (n - 1) + 1)
    BY <1>2, <2>1 DEF NoTurn
  <2>3. NoTurn(Tail(q), 1, n - 1)
    BY <1>1, <2>2, TailTurns
  <2> QED BY <1>2, <2>2, <2>3 DEF Cleared
<1>3. ASSUME NEW j \in 1 .. n, q[j].kind = "secured", NoTurn(q, j + 1, n)
      PROVE Cleared(Tail(q), n - 1, c2)
  <2>1. CASE j = 1
    <3>1. NoTurn(q, 1 + 1, (n - 1) + 1)
      BY <1>1, <1>3, <2>1
    <3>2. NoTurn(Tail(q), 1, n - 1)
      BY <1>1, <3>1, TailTurns
    <3>3. Head(q).kind = "secured" /\ NoTurn(q, 1, n)
      BY <1>3, <2>1, TailIs DEF NoTurn, Turn
    <3> QED BY <3>2, <3>3 DEF Cleared
  <2>2. CASE j # 1
    <3>1. j - 1 \in 1 .. n - 1 /\ j - 1 \in 1 .. Len(Tail(q)) /\ (j - 1) + 1 = j /\ j \in Nat \ {0}
      BY <2>2, TailIs
    <3>2. NoTurn(q, j + 1, (n - 1) + 1)
      BY <1>1, <1>3
    <3>3. NoTurn(Tail(q), j, n - 1)
      BY <1>1, <3>1, <3>2, TailTurns
    <3>4. Tail(q)[j - 1] = q[j]
      BY <3>1, TailIs
    <3> QED BY <1>3, <3>1, <3>3, <3>4 DEF Cleared
  <2> QED BY <2>1, <2>2
<1> QED BY <1>2, <1>3 DEF Cleared

LEMMA DropOpens ==
    ASSUME NEW q \in Seq(Event), q # <<>>, NEW l, NEW c, NEW c2, Opens(q, l, c),
           c /\ ~Turn(Head(q)) => c2,
           Head(q).kind = "secured" /\ NoTurn(q, 1, Len(q)) /\ l.level = "mitm" => c2
    PROVE Opens(Tail(q), l, c2)
<1>1. ASSUME l.level = "mitm" PROVE Cleared(Tail(q), Len(Tail(q)), c2)
  <2>1. Len(q) \in 1 .. Len(q) /\ Len(Tail(q)) = Len(q) - 1
    BY TailIs
  <2>2. Cleared(q, Len(q), c)
    BY <1>1 DEF Opens
  <2> QED BY <1>1, <2>1, <2>2, DropCleared
<1>2. ASSUME NEW i \in 1 .. Len(Tail(q)), NoTurn(Tail(q), i + 1, Len(Tail(q))), ~Turn(Tail(q)[i])
      PROVE /\ Tail(q)[i].handle = l.handle
            /\ Tail(q)[i].kind = "command" => l.level = "mitm" /\ Cleared(Tail(q), i, c2)
  <2>1. /\ i + 1 \in 1 .. Len(q) /\ Tail(q)[i] = q[i + 1] /\ i + 1 \in Nat \ {0}
        /\ Len(Tail(q)) = Len(q) - 1 /\ Len(q) - 1 \in Int /\ (Len(q) - 1) + 1 = Len(q)
    BY TailIs
  <2>2. NoTurn(q, (i + 1) + 1, Len(q))
    BY <1>2, <2>1, TailTurns
  <2>3. /\ q[i + 1].handle = l.handle
        /\ q[i + 1].kind = "command" => l.level = "mitm" /\ Cleared(q, i + 1, c)
    BY <1>2, <2>1, <2>2 DEF Opens
  <2>4. ASSUME l.level = "mitm", Cleared(q, i + 1, c) PROVE Cleared(Tail(q), (i + 1) - 1, c2)
    <3>1. NoTurn(q, 1, i + 1) => NoTurn(q, 1, Len(q))
      BY <2>1, <2>2 DEF NoTurn
    <3>2. Head(q).kind = "secured" /\ NoTurn(q, 1, i + 1) => c2
      BY <2>4, <3>1
    <3>3. i + 1 \in 1 .. Len(q) /\ Cleared(q, i + 1, c) /\ (c /\ ~Turn(Head(q)) => c2)
      BY <2>1, <2>4
    <3>4. \A n \in 1 .. Len(q) :
             Cleared(q, n, c) /\ (Head(q).kind = "secured" /\ NoTurn(q, 1, n) => c2) =>
                Cleared(Tail(q), n - 1, c2)
      BY DropCleared
    <3> QED BY <3>2, <3>3, <3>4
  <2>5. (i + 1) - 1 = i
    OBVIOUS
  <2> QED BY <2>1, <2>3, <2>4, <2>5
<1> QED BY <1>1, <1>2 DEF Opens

LEMMA MoreCleared ==
    ASSUME NEW q \in Seq(Event), NEW e \in Event, NEW c, NEW n \in 0 .. Len(q), Cleared(q, n, c)
    PROVE Cleared(Append(q, e), n, c)
<1>1. n \in Int /\ n <= Len(q)
  BY MoreIs
<1>2. \A a \in Nat \ {0} : a <= Len(q) + 1 => (NoTurn(Append(q, e), a, n) <=> NoTurn(q, a, n))
  BY <1>1, MoreTurns
<1>3. CASE NoTurn(q, 1, n) /\ c
  BY <1>2, <1>3, MoreIs DEF Cleared
<1>4. ASSUME NEW j \in 1 .. n, q[j].kind = "secured", NoTurn(q, j + 1, n)
      PROVE Cleared(Append(q, e), n, c)
  <2>1. j + 1 \in Nat \ {0} /\ j + 1 <= Len(q) + 1 /\ Append(q, e)[j] = q[j]
    BY <1>1, MoreIs
  <2> QED BY <1>2, <1>4, <2>1 DEF Cleared
<1> QED BY <1>3, <1>4 DEF Cleared

LEMMA MoreClearedOn ==
    ASSUME NEW q \in Seq(Event), NEW e \in Event, NEW c, Cleared(q, Len(q), c), ~Turn(e)
    PROVE Cleared(Append(q, e), Len(q) + 1, c)
<1>1. \A a \in Nat \ {0} : a <= Len(q) + 1 =>
         (NoTurn(q, a, Len(q)) => NoTurn(Append(q, e), a, Len(q) + 1))
  BY MoreTurns
<1>2. CASE NoTurn(q, 1, Len(q)) /\ c
  BY <1>1, <1>2, MoreIs DEF Cleared
<1>3. ASSUME NEW j \in 1 .. Len(q), q[j].kind = "secured", NoTurn(q, j + 1, Len(q))
      PROVE Cleared(Append(q, e), Len(q) + 1, c)
  <2>1. j + 1 \in Nat \ {0} /\ j + 1 <= Len(q) + 1 /\ Append(q, e)[j] = q[j] /\ j \in 1 .. Len(q) + 1
    BY MoreIs
  <2> QED BY <1>1, <1>3, <2>1 DEF Cleared
<1> QED BY <1>2, <1>3 DEF Cleared

\* One event more of the link there is; its security l may have risen with it.
LEMMA MoreOpens ==
    ASSUME NEW q \in Seq(Event), NEW e \in Event, NEW l, NEW m, NEW c, Opens(q, l, c), ~Turn(e),
           m.handle = l.handle, e.handle = l.handle,
           e.kind = "command" => m.level = "mitm",
           m.level = l.level \/ (l.level # "mitm" /\ e.kind = "secured")
    PROVE Opens(Append(q, e), m, c)
<1>1. Len(Append(q, e)) = Len(q) + 1 /\ Len(q) \in Nat
  BY MoreIs
<1>2. ASSUME m.level = "mitm" PROVE Cleared(Append(q, e), Len(q) + 1, c)
  <2>1. CASE l.level = "mitm"
    BY <2>1, MoreClearedOn DEF Opens
  <2>2. CASE e.kind = "secured"
    <3>1. Append(q, e)[Len(q) + 1] = e /\ Len(q) + 1 \in 1 .. Len(q) + 1
      BY MoreIs
    <3>2. NoTurn(Append(q, e), (Len(q) + 1) + 1, Len(q) + 1)
      BY <1>1 DEF NoTurn
    <3> QED BY <2>2, <3>1, <3>2 DEF Cleared
  <2> QED BY <1>2, <2>1, <2>2
<1>3. ASSUME NEW i \in 1 .. Len(Append(q, e)),
             NoTurn(Append(q, e), i + 1, Len(Append(q, e))), ~Turn(Append(q, e)[i])
      PROVE /\ Append(q, e)[i].handle = m.handle
            /\ Append(q, e)[i].kind = "command" =>
                  m.level = "mitm" /\ Cleared(Append(q, e), i, c)
  <2>1. CASE i = Len(q) + 1
    BY <1>2, <2>1, MoreIs
  <2>2. CASE i \in 1 .. Len(q)
    <3>1. Append(q, e)[i] = q[i] /\ i + 1 \in Nat \ {0} /\ i + 1 <= Len(q) + 1 /\ i \in 0 .. Len(q)
      BY <2>2, MoreIs
    <3>2. NoTurn(q, i + 1, Len(q))
      BY <1>1, <1>3, <3>1, MoreTurns
    <3>3. q[i].handle = l.handle /\ (q[i].kind = "command" => l.level = "mitm" /\ Cleared(q, i, c))
      BY <1>3, <2>2, <3>1, <3>2 DEF Opens
    <3>4. Cleared(q, i, c) => Cleared(Append(q, e), i, c)
      BY <3>1, MoreCleared
    <3> QED BY <3>1, <3>3, <3>4
  <2> QED BY <2>1, <2>2, MoreIs
<1> QED BY <1>1, <1>2, <1>3 DEF Opens

\* A new link is not secure yet.
LEMMA TurnOpens ==
    ASSUME NEW q \in Seq(Event), NEW e \in Event, NEW m, NEW c, Turn(e), m.level # "mitm"
    PROVE Opens(Append(q, e), m, c)
<1> SUFFICES ASSUME NEW i \in 1 .. Len(Append(q, e)),
                    NoTurn(Append(q, e), i + 1, Len(Append(q, e))), ~Turn(Append(q, e)[i])
    PROVE FALSE
  BY DEF Opens
<1>1. CASE i = Len(q) + 1
  BY <1>1, MoreIs
<1>2. CASE i \in 1 .. Len(q)
  <2>1. Len(q) + 1 \in i + 1 .. Len(Append(q, e)) /\ Append(q, e)[Len(q) + 1] = e
    BY <1>2, MoreIs
  <2> QED BY <2>1 DEF NoTurn
<1> QED BY <1>1, <1>2, MoreIs

LEMMA DropParted ==
    ASSUME NEW q \in Seq(Event), q # <<>>, NEW h, NEW h2, Parted(q, h),
           \/ h2 = NoHandle
           \/ Head(q).kind = "connect"
           \/ h2 = h /\ Head(q).kind # "disconnect"
    PROVE Parted(Tail(q), h2)
<1> SUFFICES ASSUME NEW i \in 1 .. Len(Tail(q)), Tail(q)[i].kind = "connect"
    PROVE /\ h2 = NoHandle \/ \E j \in 1 .. i - 1 : Tail(q)[j].kind = "disconnect"
          /\ \A k \in 1 .. i - 1 : Tail(q)[k].kind = "connect" =>
                \E j \in k + 1 .. i - 1 : Tail(q)[j].kind = "disconnect"
  BY DEF Parted
<1>1. i + 1 \in 1 .. Len(q) /\ q[i + 1].kind = "connect" /\ Head(q) = q[1] /\ Len(q) \in Nat
  BY TailIs
<1>2. ASSUME NEW k \in 1 .. i, q[k].kind = "connect"
      PROVE \E j \in k .. i - 1 : Tail(q)[j].kind = "disconnect"
  <2>1. PICK j \in k + 1 .. (i + 1) - 1 : q[j].kind = "disconnect"
    BY <1>1, <1>2 DEF Parted
  <2>2. j - 1 \in k .. i - 1 /\ j - 1 \in 1 .. Len(Tail(q)) /\ (j - 1) + 1 = j
    BY <1>1, TailIs
  <2>3. Tail(q)[j - 1] = q[j]
    BY <2>2, TailIs
  <2> QED BY <2>1, <2>2, <2>3
<1>3. ASSUME NEW k \in 1 .. i - 1, Tail(q)[k].kind = "connect"
      PROVE \E j \in k + 1 .. i - 1 : Tail(q)[j].kind = "disconnect"
  <2>1. k + 1 \in 1 .. i /\ k \in 1 .. Len(Tail(q))
    BY TailIs
  <2>2. q[k + 1].kind = "connect"
    BY <1>3, <2>1, TailIs
  <2> QED BY <1>2, <2>1, <2>2
<1>4. h2 = NoHandle \/ \E j \in 1 .. i - 1 : Tail(q)[j].kind = "disconnect"
  <2>1. CASE Head(q).kind = "connect"
    BY <1>1, <1>2, <2>1
  <2>2. CASE h2 = h /\ Head(q).kind # "disconnect" /\ h # NoHandle
    <3>1. PICK j \in 1 .. (i + 1) - 1 : q[j].kind = "disconnect"
      BY <1>1, <2>2 DEF Parted
    <3>2. j - 1 \in 1 .. i - 1 /\ j - 1 \in 1 .. Len(Tail(q)) /\ (j - 1) + 1 = j
      BY <1>1, <2>2, <3>1, TailIs
    <3>3. Tail(q)[j - 1] = q[j]
      BY <3>2, TailIs
    <3> QED BY <3>1, <3>2, <3>3
  <2> QED BY <2>1, <2>2
<1> QED BY <1>3, <1>4

LEMMA MoreParted ==
    ASSUME NEW q \in Seq(Event), NEW e \in Event, NEW h, Parted(q, h),
           e.kind = "connect" =>
              \/ NoTurn(q, 1, Len(q)) /\ h = NoHandle
              \/ \E m \in 1 .. Len(q) : q[m].kind = "disconnect" /\ NoTurn(q, m + 1, Len(q))
    PROVE Parted(Append(q, e), h)
<1> SUFFICES ASSUME NEW i \in 1 .. Len(Append(q, e)), Append(q, e)[i].kind = "connect"
    PROVE /\ h = NoHandle \/ \E j \in 1 .. i - 1 : Append(q, e)[j].kind = "disconnect"
          /\ \A k \in 1 .. i - 1 : Append(q, e)[k].kind = "connect" =>
                \E j \in k + 1 .. i - 1 : Append(q, e)[j].kind = "disconnect"
  BY DEF Parted
<1>1. \A j \in 1 .. Len(q) : Append(q, e)[j] = q[j]
  BY MoreIs
<1>2. CASE i \in 1 .. Len(q)
  BY <1>1, <1>2 DEF Parted
<1>3. CASE i = Len(q) + 1
  <2>1. e.kind = "connect" /\ i - 1 = Len(q) /\ Len(q) \in Nat
    BY <1>3, MoreIs
  <2>2. CASE NoTurn(q, 1, Len(q)) /\ h = NoHandle
    BY <1>1, <2>1, <2>2 DEF NoTurn, Turn
  <2>3. ASSUME NEW m \in 1 .. Len(q), q[m].kind = "disconnect", NoTurn(q, m + 1, Len(q))
        PROVE /\ h = NoHandle \/ \E j \in 1 .. i - 1 : Append(q, e)[j].kind = "disconnect"
              /\ \A k \in 1 .. i - 1 : Append(q, e)[k].kind = "connect" =>
                    \E j \in k + 1 .. i - 1 : Append(q, e)[j].kind = "disconnect"
    <3>1. Append(q, e)[m].kind = "disconnect"
      BY <1>1, <2>3
    <3>2. ASSUME NEW k \in 1 .. Len(q), q[k].kind = "connect" PROVE m \in k + 1 .. Len(q)
      <4>1. k # m /\ ~(k \in m + 1 .. Len(q))
        BY <2>3, <3>2 DEF NoTurn, Turn
      <4> QED BY <2>1, <4>1
    <3> QED BY <1>1, <2>1, <3>1, <3>2
  <2> QED BY <2>1, <2>2, <2>3
<1> QED BY <1>2, <1>3, MoreIs

LEMMA NoneOpen == ASSUME NEW c, NEW h PROVE Opens(<<>>, Down, c) /\ Parted(<<>>, h)
<1>1. 1 .. Len(<<>>) = {}
  OBVIOUS
<1> QED BY <1>1, EventTypes DEF Opens, Parted

LEMMA CloseOpens ==
    ASSUME NEW h, NEW h2, NEW q \in Seq(Event), NEW c, link \in Sized, Close(h, q)
    PROVE /\ Opens(q, link, c) => Opens(events', link', c)
          /\ Parted(q, h2) => Parted(events', h2)
<1>1. CASE link.handle = h /\ h # NoHandle
  <2>1. h \in Handles
    BY <1>1, EventTypes
  <2>2. [kind |-> "disconnect", handle |-> h] \in Event
    BY <2>1, EventTypes
  <2>3. events' = Append(q, [kind |-> "disconnect", handle |-> h]) /\ link' = Down
    BY <1>1 DEF Close
  <2>4. Opens(events', link', c)
    BY <2>2, <2>3, TurnOpens, EventTypes DEF Turn
  <2>5. Parted(q, h2) => Parted(events', h2)
    BY <2>2, <2>3, MoreParted
  <2> QED BY <2>4, <2>5
<1>2. CASE ~(link.handle = h /\ h # NoHandle)
  BY <1>2 DEF Close
<1> QED BY <1>1, <1>2

LEMMA LoopOpens == ASSUME LoopInv, OpenInv, Loop PROVE OpenInv'
<1>1. link \in Sized /\ events \in Seq(Event)
  BY DEF LoopInv, Live, Session, Linked
<1>2. UNCHANGED <<setting, callback, handle, connected>>
  BY DEF Loop, LoopTop, TransportTick, PeriodicTick, ConsoleTick, ConsoleAnnounced,
     IdleCheck, ReadMillis, ReadMark, IdleCompare, session
<1>3. UNCHANGED <<events, link>> \/ Close(handle, events)
  BY DEF Loop, LoopTop, TransportTick, PeriodicTick, ConsoleTick, ConsoleAnnounced,
     IdleCheck, ReadMillis, ReadMark, IdleCompare
<1>4. CASE UNCHANGED <<events, link>>
  BY <1>2, <1>4 DEF OpenInv
<1>5. CASE Close(handle, events)
  BY <1>1, <1>2, <1>5, CloseOpens, CloseTurning DEF OpenInv
<1> QED BY <1>3, <1>4, <1>5

\* A link is made when the last one has ended.
LEMMA DownParts ==
    ASSUME LoopInv, link = Down
    PROVE \/ NoTurn(events, 1, Len(events)) /\ handle = NoHandle
          \/ \E m \in 1 .. Len(events) :
                events[m].kind = "disconnect" /\ NoTurn(events, m + 1, Len(events))
<1>1. Ends(events) /\ Caught(events, handle, link) /\ Latest(events, link) /\ events \in Seq(Event)
  BY DEF LoopInv, Live, Session, Linked
<1>2. CASE NoTurn(events, 1, Len(events))
  BY <1>1, <1>2, EventTypes DEF Caught
<1>3. ASSUME NEW m \in 1 .. Len(events), Turn(events[m]), NoTurn(events, m + 1, Len(events))
      PROVE events[m].kind = "disconnect"
  <2>1. events[m].handle \in Handles
    BY <1>1, EventTypes
  <2>2. events[m].kind = "connect" => link.handle = events[m].handle
    BY <1>1, <1>3 DEF Latest
  <2> QED BY <1>3, <2>1, <2>2, EventTypes, HandleAssumption DEF Turn
<1> QED BY <1>1, <1>2, <1>3 DEF Ends

LEMMA ClientOpens == ASSUME LoopInv, OpenInv, Client PROVE OpenInv'
<1>1. link \in Sized /\ events \in Seq(Event)
  BY DEF LoopInv, Live, Session, Linked
<1>2. UNCHANGED <<setting, callback, handle, connected>>
  BY DEF Client, Connect, Encrypt, PairingFails, WriteConfig, Write, Leave, firmware, session
<1>3. ASSUME NEW e \in Event, events' = Append(events, e), ~Turn(e), link' = link,
             e.handle = link.handle, setting.pin /\ e.kind = "command" => link.level = "mitm"
      PROVE OpenInv'
  <2>1. Parted(events', handle)
    BY <1>1, <1>3, MoreParted DEF OpenInv, Turn
  <2>2. setting.pin => Opens(events', link, connected)
    BY <1>1, <1>3, MoreOpens DEF OpenInv
  <2> QED BY <1>1, <1>2, <1>3, <2>1, <2>2, MoreTurning DEF OpenInv
<1>4. ASSUME NEW h \in Handles, Connect(h) PROVE OpenInv'
  <2> DEFINE e == [kind |-> "connect", handle |-> h]
  <2>1. e \in Event /\ Turn(e)
    BY EventTypes DEF Turn
  <2>2. events' = Append(events, e) /\ link = Down /\ link'.level # "mitm"
    BY <1>4 DEF Connect
  <2> HIDE DEF e
  <2>3. Opens(events', link', connected)
    BY <1>1, <2>1, <2>2, TurnOpens
  <2>4. Parted(events', handle)
    BY <1>1, <2>1, <2>2, DownParts, MoreParted DEF OpenInv
  <2> QED BY <1>1, <1>2, <2>1, <2>2, <2>3, <2>4, MoreTurning DEF OpenInv
<1>5. ASSUME NEW level \in {"weak", "mitm"}, Encrypt(level) PROVE OpenInv'
  <2> DEFINE e == [kind |-> "secured", handle |-> link.handle]
  <2>1. link # Down /\ link.level # "mitm" /\ link' = [link EXCEPT !.level = level]
        /\ events' = Append(events, e)
    BY <1>5, EventTypes DEF Encrypt, Queue
  <2>2. e \in Event /\ e.kind = "secured" /\ e.handle = link.handle
    BY <1>1, <2>1, EventTypes
  <2>3. link'.handle = link.handle
    BY <1>1, <2>1 DEF Sized
  <2> HIDE DEF e
  <2>4. setting.pin => Opens(events', link', connected)
    BY <1>1, <2>1, <2>2, <2>3, MoreOpens DEF OpenInv, Turn
  <2>5. Parted(events', handle)
    BY <1>1, <2>1, <2>2, MoreParted DEF OpenInv
  <2> QED BY <1>1, <1>2, <2>1, <2>2, <2>4, <2>5, MoreTurning DEF OpenInv
<1>6. ASSUME NEW kind \in {"unpaired", "command", "commit"}, link # Down, link' = link,
             events' = Queue(kind), setting.pin /\ kind = "command" => link.level = "mitm"
      PROVE OpenInv'
  <2>1. [kind |-> kind, handle |-> link.handle] \in Event
    BY <1>1, <1>6, EventTypes
  <2> QED BY <1>3, <1>6, <2>1 DEF Queue, Turn
<1>7. CASE PairingFails
  BY <1>6, <1>7, EventTypes DEF PairingFails
<1>8. ASSUME NEW kind \in {"command", "commit"}, Write(kind) PROVE OpenInv'
  BY <1>6, <1>8, EventTypes DEF Write, MayWrite
<1>9. ASSUME NEW v \in Records, WriteConfig(v) PROVE OpenInv'
  <2>1. [kind |-> "config", handle |-> link.handle, value |-> v] \in Event
    BY <1>1, <1>9, EventTypes DEF WriteConfig, MayWrite
  <2> QED BY <1>3, <1>9, <2>1 DEF WriteConfig, Turn
<1>10. CASE Leave
  <2>1. Close(link.handle, events)
    BY <1>10 DEF Leave
  <2> QED BY <1>1, <1>2, <2>1, CloseOpens, CloseTurning DEF OpenInv
<1> QED BY <1>4, <1>5, <1>7, <1>8, <1>9, <1>10 DEF Client

LEMMA CallbackOpens == ASSUME LoopInv, OpenInv, Callback PROVE OpenInv'
<1>1. link \in Sized /\ events \in Seq(Event)
  BY DEF LoopInv, Live, Session, Linked
<1>2. ASSUME NEW kind, Takes(kind)
      PROVE events # <<>> /\ Head(events).kind = kind /\ Tail(events) \in Seq(Event)
  BY <1>1, <1>2, CallbackIs, TailIs
\* A callback that leaves connected, or sets it.
<1>3. ASSUME NEW kind, kind # "disconnect", Takes(kind), handle' = handle, setting' = setting,
             kind # "connect", connected => connected',
             \/ events' = Tail(events) /\ link' = link
             \/ Close(handle, Tail(events)),
             kind = "secured" /\ NoTurn(events, 1, Len(events)) /\ link.level = "mitm"
                => connected' \/ ~setting.pin
      PROVE (setting.pin => Opens(events, link, connected))' /\ Parted(events, handle)'
  <2>1. events # <<>> /\ Head(events).kind = kind /\ Tail(events) \in Seq(Event)
    BY <1>2, <1>3
  <2>2. Parted(Tail(events), handle)
    BY <1>1, <1>3, <2>1, DropParted DEF OpenInv
  <2>3. setting.pin => Opens(Tail(events), link, connected')
    BY <1>1, <1>3, <2>1, DropOpens DEF OpenInv
  <2>4. CASE events' = Tail(events) /\ link' = link
    BY <1>3, <2>2, <2>3, <2>4
  <2>5. CASE Close(handle, Tail(events))
    BY <1>1, <1>3, <2>1, <2>2, <2>3, <2>5, CloseOpens
  <2> QED BY <1>3, <2>4, <2>5
<1>4. CASE Restart
  BY <1>4, NoneOpen DEF Restart, OpenInv
<1>5. CASE OnConnect
  <2>1. /\ Takes("connect") /\ events' = Tail(events) /\ connected' = FALSE
        /\ UNCHANGED <<setting, link, callback>>
    BY <1>5 DEF OnConnect, elsewhere
  <2>2. events # <<>> /\ Head(events).kind = "connect" /\ callback = "ready"
    BY <1>2, <2>1 DEF Takes
  <2>3. setting.pin => Opens(events', link', FALSE)
    BY <1>1, <2>1, <2>2, DropOpens DEF OpenInv, Turn
  <2>4. Parted(events', handle')
    BY <1>1, <2>1, <2>2, DropParted DEF OpenInv
  <2> QED BY <2>1, <2>2, <2>3, <2>4 DEF OpenInv
<1>6. CASE OnDisconnect
  <2>1. /\ Takes("disconnect") /\ events' = Tail(events) /\ UNCHANGED <<setting, link, callback>>
        /\ handle = Head(events).handle => handle' = NoHandle
    BY <1>6 DEF OnDisconnect, elsewhere
  <2>2. events # <<>> /\ Head(events).kind = "disconnect" /\ callback = "ready"
    BY <1>2, <2>1 DEF Takes
  <2>3. handle' = NoHandle
    <3>1. Head(events) = events[1] /\ 1 \in 1 .. Len(events) /\ 1 .. 1 - 1 = {}
      BY <1>1, <2>2, TailIs
    <3>2. handle = events[1].handle
      BY <2>2, <3>1 DEF LoopInv, Live, Session, Paired
    <3> QED BY <2>1, <3>1, <3>2
  <2>4. setting.pin => Opens(events', link', connected')
    BY <1>1, <2>1, <2>2, DropOpens DEF OpenInv, Turn
  <2>5. Parted(events', handle')
    BY <1>1, <2>1, <2>2, <2>3, DropParted DEF OpenInv
  <2> QED BY <2>1, <2>2, <2>4, <2>5 DEF OpenInv
<1>7. CASE OnSecured
  <2>1. /\ Takes("secured") /\ events' = Tail(events) /\ connected' = TRUE
        /\ UNCHANGED <<setting, link, callback, handle>>
    BY <1>7 DEF OnSecured
  <2> QED BY <1>3, <2>1 DEF OpenInv
<1>8. CASE OnSecuredWeak
  <2>1. /\ Takes("secured") /\ Close(handle, Tail(events)) /\ ~Enough
        /\ UNCHANGED <<setting, callback, handle, connected>>
    BY <1>8 DEF OnSecuredWeak, elsewhere, session
  <2>2. (setting.pin => Opens(events, link, connected))' /\ Parted(events, handle)'
    BY <1>3, <2>1 DEF Enough
  <2> QED BY <2>1, <2>2 DEF OpenInv, Takes
<1>9. CASE OnSecuredStray
  <2>1. /\ Takes("secured") /\ events' = Tail(events) /\ ~Known
        /\ UNCHANGED <<setting, link, callback, handle, connected>>
    BY <1>9 DEF OnSecuredStray, elsewhere, session
  <2>2. setting.pin => ~NoTurn(events, 1, Len(events))
    <3> SUFFICES ASSUME setting.pin, NoTurn(events, 1, Len(events)) PROVE FALSE
      OBVIOUS
    <3>1. events # <<>> /\ Head(events).kind = "secured"
      BY <1>2, <2>1
    <3>2. Head(events) = events[1] /\ 1 \in 1 .. Len(events) /\ NoTurn(events, 1 + 1, Len(events))
      BY <1>1, <3>1, TailIs DEF NoTurn
    <3>3. Head(events).handle = link.handle
      BY <3>1, <3>2 DEF OpenInv, Opens, Turn
    <3>4. handle = link.handle
      BY DEF LoopInv, Live, Session, Caught
    <3> QED BY <2>1, <3>3, <3>4 DEF Known
  <2>3. (setting.pin => Opens(events, link, connected))' /\ Parted(events, handle)'
    BY <1>3, <2>1, <2>2
  <2> QED BY <2>1, <2>3 DEF OpenInv, Takes
<1>10. ASSUME NEW kind \in {"unpaired", "config", "commit", "command"}, Takes(kind),
              UNCHANGED <<setting, handle, connected>>,
              \/ events' = Tail(events) /\ link' = link
              \/ Close(handle, Tail(events))
       PROVE (setting.pin => Opens(events, link, connected))' /\ Parted(events, handle)'
  BY <1>3, <1>10
<1>11. CASE OnPairingComplete
  <2>1. /\ Takes("unpaired") /\ UNCHANGED <<setting, callback, handle, connected>>
        /\ (events' = Tail(events) /\ link' = link) \/ Close(handle, Tail(events))
    BY <1>11 DEF OnPairingComplete, elsewhere, session
  <2> QED BY <1>10, <2>1 DEF OpenInv, Takes
<1>12. CASE OnConfigWrite
  <2>1. /\ Takes("config") /\ UNCHANGED <<setting, callback, handle, connected>>
        /\ events' = Tail(events) /\ link' = link
    BY <1>12 DEF OnConfigWrite, elsewhere
  <2> QED BY <1>10, <2>1 DEF OpenInv, Takes
<1>13. CASE OnCommitWrite
  <2>1. \/ Restart
        \/ /\ Takes("commit") /\ UNCHANGED <<setting, callback, handle, connected>>
           /\ events' = Tail(events) /\ link' = link
    BY <1>13 DEF OnCommitWrite, elsewhere
  <2> QED BY <1>4, <1>10, <2>1 DEF OpenInv, Takes
<1>14. CASE OnCommandWrite
  <2>1. \/ Restart
        \/ /\ Takes("command") /\ UNCHANGED <<setting, handle, connected>>
           /\ events' = Tail(events) /\ link' = link
    BY <1>14 DEF OnCommandWrite, elsewhere
  <2>2. ASSUME Takes("command"), setting.pin, NoTurn(Tail(events), 1, Len(Tail(events)))
        PROVE connected
    <3>1. events # <<>> /\ Head(events).kind = "command"
      BY <1>2, <2>2
    <3>2. Head(events) = events[1] /\ 1 \in 1 .. Len(events) /\ NoTurn(events, 1 + 1, Len(events))
      BY <1>1, <2>2, <3>1, TailIs, TailTurns
    <3>3. Cleared(events, 1, connected)
      BY <2>2, <3>1, <3>2 DEF OpenInv, Opens, Turn
    <3> QED BY <3>1, <3>2, <3>3 DEF Cleared
  <2>3. CASE /\ Takes("command") /\ UNCHANGED <<setting, handle, connected>>
             /\ events' = Tail(events) /\ link' = link
    BY <1>10, <2>2, <2>3 DEF OpenInv
  <2> QED BY <1>4, <2>1, <2>3
<1>15. CASE Announced
  BY <1>15 DEF Announced, elsewhere, session, OpenInv
<1> QED BY <1>4, <1>5, <1>6, <1>7, <1>8, <1>9, <1>11, <1>12, <1>13, <1>14, <1>15 DEF Callback

LEMMA OpenAlways == Spec => []OpenInv
<1>1. Init => OpenInv
  BY NoneOpen DEF Init, OpenInv
<1>2. LoopInv /\ OpenInv /\ [Next]_vars => OpenInv'
  <2>1. ASSUME OpenInv, Tick PROVE OpenInv'
    BY <2>1 DEF Tick, session, OpenInv
  <2>2. ASSUME OpenInv, UNCHANGED vars PROVE OpenInv'
    BY <2>2 DEF vars, OpenInv
  <2> QED BY <2>1, <2>2, LoopOpens, ClientOpens, CallbackOpens DEF Next
<1> QED BY <1>1, <1>2, LoopAlways, PTL DEF Spec

\* With a PIN, and with any queue of events and handles used again, no pass
\* begins its radio work while the callback task transmits an ANNOUNCE for a
\* client that is still there (main.cpp:165 with Ble.cpp:254).
THEOREM AnnouncesAlwaysAlone == Spec => AnnouncesAlone
<1>1. LoopInv /\ OpenInv /\ [Next]_vars =>
        [pc = "top" /\ pc' = "transport" /\ setting.pin /\ Present => callback = "ready"]_vars
  <2> SUFFICES ASSUME LoopInv, OpenInv, Next, pc = "top", pc' = "transport", setting.pin, Present
               PROVE callback = "ready"
    BY DEF vars
  <2>1. ~connected
    <3>1. LoopTop
      BY DEF Next, Tick, Loop, TransportTick, PeriodicTick, ConsoleTick, ConsoleAnnounced,
         IdleCheck, ReadMillis, ReadMark, IdleCompare, Tasks, Client, Connect, Encrypt,
         PairingFails, WriteConfig, Write, Leave, Callback, OnConnect, OnDisconnect, OnSecured,
         OnSecuredWeak, OnSecuredStray, OnPairingComplete, OnConfigWrite, OnCommitWrite,
         OnCommandWrite, Announced, Restart, firmware, elsewhere, loop
    <3> QED BY <3>1 DEF LoopTop
  <2>2. link \in Sized /\ events \in Seq(Event) /\ callback \in {"ready", "announcing"}
    BY DEF LoopInv, Live, Session, Linked, FlagsOK
  <2>3. handle # NoHandle
    BY <2>2, EventTypes, HandleAssumption DEF Present
  <2>4. ASSUME NEW i \in 1 .. Len(events) PROVE ~Turn(events[i])
    <3>1. \A j \in 1 .. i - 1 : events[j].kind # "disconnect"
      BY <2>2 DEF Present
    <3> QED BY <2>3, <3>1 DEF OpenInv, Parted, Present, Turn
  <2>5. NoTurn(events, 1, Len(events))
    BY <2>4 DEF NoTurn
  <2> QED BY <2>1, <2>2, <2>5 DEF OpenInv
<1> QED BY <1>1, LoopAlways, OpenAlways, PTL DEF Spec, AnnouncesAlone

-----------------------------------------------------------------------------
(***************************************************************************)
(* The senders once no session pauses them.                                *)
(***************************************************************************)
\* Where the loop still comes to sender k in this pass.
Turns(k) == IF k = "telemetry" THEN {"transport", "telemetry"}
                               ELSE {"transport", "telemetry", "presence"}

\* Since it last came there, or would have but for a session, at most this has
\* passed.
Behind(k) == IF pc \in Turns(k) THEN Stall + pass ELSE pass

\* Not looked after since the pause ended; or found not due.
Punctual(k) ==
    \/ waited[k] <= Behind(k)
    \/ /\ waited[k] <= 2 * Stall + Since(now, stamp[k])
       /\ Since(now, stamp[k]) < Larger(First, Interval) + Behind(k)

SendInv == \A k \in Tasks : /\ Punctual(k)
                            /\ k \notin setting.on \/ connected => waited[k] = 0

LEMMA PassIs ==
    ASSUME LoopInv, NEW k \in Tasks
    PROVE /\ pass \in Int /\ 0 <= pass /\ pass <= Stall /\ Stall \in Int /\ 0 <= Stall
          /\ waited[k] \in Int /\ 0 <= waited[k] /\ Larger(First, Interval) \in Int
          /\ First <= Larger(First, Interval) /\ Interval <= Larger(First, Interval)
          /\ First \in Int /\ Interval \in Int
          /\ now \in Millis /\ stamp[k] \in Millis
          /\ Since(now, stamp[k]) \in Int /\ 0 <= Since(now, stamp[k])
          /\ stamp[k] = 0 => Since(now, stamp[k]) = now
          /\ Behind(k) \in Int /\ pass <= Behind(k) /\ Behind(k) <= Stall + pass
<1>1. pass \in 0 .. Stall /\ waited \in [Tasks -> 0 .. Late + 1] /\ stamp \in [Tasks -> Millis]
      /\ now \in Millis
  BY DEF LoopInv, HistoryOK, ClockOK
<1>2. /\ pass \in Int /\ 0 <= pass /\ pass <= Stall /\ Stall \in Int /\ 0 <= Stall
      /\ waited[k] \in Int /\ 0 <= waited[k] /\ Larger(First, Interval) \in Int
      /\ First <= Larger(First, Interval) /\ Interval <= Larger(First, Interval)
      /\ First \in Int /\ Interval \in Int
  BY <1>1, Numbers
<1>3. \A t, s \in Millis : Since(t, s) \in Int /\ 0 <= Since(t, s) /\ (s = 0 => Since(t, s) = t)
  BY SinceIs, Numbers DEF Millis
<1>4. Behind(k) \in Int /\ pass <= Behind(k) /\ Behind(k) <= Stall + pass
  BY <1>2 DEF Behind
<1> QED BY <1>1, <1>2, <1>3, <1>4

LEMMA TickSends == ASSUME LoopInv, SendInv, Tick PROVE SendInv'
<1> SUFFICES ASSUME NEW k \in Tasks
    PROVE Punctual(k)' /\ (k \notin setting.on \/ connected => waited[k] = 0)'
  BY DEF SendInv
<1>1. /\ UNCHANGED <<setting, pc, stamp, connected>> /\ now' = Later(now)
      /\ pass < Stall /\ pass' = pass + 1
      /\ waited'[k] = IF k \notin setting.on \/ connected THEN 0
                      ELSE IF waited[k] <= Late THEN waited[k] + 1 ELSE waited[k]
  BY DEF Tick, loop, session
<1>2. waited'[k] <= waited[k] + 1 /\ waited'[k] \in Int /\ Behind(k)' = Behind(k) + 1
  BY <1>1, PassIs DEF Behind
<1>3. CASE waited[k] <= Behind(k)
  BY <1>1, <1>2, <1>3, PassIs DEF Punctual
<1>4. CASE /\ waited[k] <= 2 * Stall + Since(now, stamp[k])
           /\ Since(now, stamp[k]) < Larger(First, Interval) + Behind(k)
  <2>1. Larger(First, Interval) + 2 * Stall < Wrap /\ Wrap \in Int
    BY ClockAssumption, Numbers
  <2>2. Since(now, stamp[k]) + 1 < Wrap
    BY <1>1, <1>4, <2>1, PassIs
  <2>3. Since(now', stamp'[k]) = Since(now, stamp[k]) + 1
    BY <1>1, <2>2, PassIs, SinceNext
  <2>4. /\ waited'[k] <= 2 * Stall + Since(now', stamp'[k])
        /\ Since(now', stamp'[k]) < Larger(First, Interval) + Behind(k)'
    BY <1>2, <1>4, <2>3, PassIs
  <2> QED BY <1>1, <2>4 DEF Punctual
<1> QED BY <1>1, <1>3, <1>4 DEF SendInv, Punctual

\* A step that takes the loop on, but not past the sender's place.
LEMMA LoopOnSends ==
    ASSUME LoopInv, SendInv, UNCHANGED <<setting, now, pass, stamp, waited, connected>>,
           \A k \in Tasks : pc \in Turns(k) <=> pc' \in Turns(k)
    PROVE SendInv'
<1>1. \A k \in Tasks : Behind(k)' = Behind(k)
  BY DEF Behind
<1> QED BY <1>1 DEF SendInv, Punctual

LEMMA LoopTopSends == ASSUME LoopInv, SendInv, LoopTop PROVE SendInv'
<1> SUFFICES ASSUME NEW k \in Tasks
    PROVE Punctual(k)' /\ (k \notin setting.on \/ connected => waited[k] = 0)'
  BY DEF SendInv
<1>1. /\ UNCHANGED <<setting, now, stamp, waited, connected>> /\ pc = "top" /\ pass' = 0
      /\ pc' = IF connected THEN "console" ELSE "transport"
  BY DEF LoopTop, session
<1>2. Behind(k) = pass
  BY <1>1 DEF Behind, Turns
<1>3. CASE connected
  <2>1. waited[k] = 0 /\ Behind(k)' = 0
    BY <1>1, <1>3 DEF SendInv, Behind, Turns
  <2> QED BY <1>1, <2>1 DEF Punctual, SendInv
<1>4. CASE ~connected
  <2>1. Behind(k)' = Stall + 0 /\ Behind(k) <= Behind(k)'
    BY <1>1, <1>2, <1>4, PassIs DEF Behind, Turns
  <2> QED BY <1>1, <2>1, PassIs DEF Punctual, SendInv
<1> QED BY <1>3, <1>4

LEMMA PeriodicSends == ASSUME LoopInv, SendInv, NEW t \in Tasks, PeriodicTick(t) PROVE SendInv'
<1> SUFFICES ASSUME NEW k \in Tasks
    PROVE Punctual(k)' /\ (k \notin setting.on \/ connected => waited[k] = 0)'
  BY DEF SendInv
<1>1. /\ UNCHANGED <<setting, now, pass, connected>> /\ pc = t
      /\ pc' = IF t = "telemetry" THEN "presence" ELSE "console"
  BY DEF PeriodicTick, session
<1>2. CASE On(t) /\ Due(t) /\ t = k
  <2>1. waited'[k] = 0
    BY <1>2 DEF PeriodicTick, LoopInv, HistoryOK
  <2>2. pass' \in Int /\ 0 <= pass' /\ Stall \in Int /\ 0 <= Stall
    BY <1>1, PassIs
  <2>3. Behind(k)' = pass' \/ Behind(k)' = Stall + pass'
    BY DEF Behind
  <2>4. Punctual(k)'
    BY <2>1, <2>2, <2>3 DEF Punctual
  <2> QED BY <2>1, <2>4
<1>3. ASSUME t # k, waited'[k] = waited[k], stamp'[k] = stamp[k]
      PROVE Punctual(k)' /\ (k \notin setting.on \/ connected => waited[k] = 0)'
  <2>1. Behind(k)' = Behind(k)
    BY <1>1, <1>3 DEF Behind, Turns, Tasks
  <2> QED BY <1>1, <1>3, <2>1 DEF SendInv, Punctual
<1>4. CASE On(t) /\ Due(t) /\ t # k
  <2>1. waited'[k] = waited[k] /\ stamp'[k] = stamp[k]
    BY <1>4 DEF PeriodicTick, LoopInv, HistoryOK
  <2> QED BY <1>3, <1>4, <2>1
<1>5. CASE ~(On(t) /\ Due(t)) /\ t # k
  BY <1>3, <1>5 DEF PeriodicTick
<1>6. CASE ~(On(t) /\ Due(t)) /\ t = k
  <2>1. UNCHANGED <<stamp, waited>>
    BY <1>6 DEF PeriodicTick
  <2>2. Behind(k)' = pass
    BY <1>1, <1>6 DEF Behind, Turns, Tasks
  <2>3. CASE ~On(k)
    <3>1. waited'[k] = 0
      BY <2>1, <2>3 DEF On, SendInv
    <3> QED BY <2>2, <3>1, PassIs DEF Punctual
  <2>4. CASE ~Due(k)
    <3>1. Since(now, stamp[k]) < Larger(First, Interval)
      BY <2>4, PassIs DEF Due
    <3>2. waited[k] <= 2 * Stall + Since(now, stamp[k])
      BY PassIs DEF SendInv, Punctual
    <3>3. Punctual(k)'
      BY <1>1, <2>1, <2>2, <3>1, <3>2, PassIs DEF Punctual
    <3> QED BY <1>1, <2>1, <3>3 DEF SendInv
  <2> QED BY <1>6, <2>3, <2>4
<1> QED BY <1>2, <1>4, <1>5, <1>6

LEMMA LoopSends == ASSUME LoopInv, SendInv, Loop PROVE SendInv'
<1>1. ASSUME TransportTick \/ ConsoleTick \/ ConsoleAnnounced \/ IdleCheck
             \/ ReadMillis \/ ReadMark \/ IdleCompare
      PROVE SendInv'
  <2>1. UNCHANGED <<setting, now, pass, stamp, waited, connected>>
    BY <1>1 DEF TransportTick, ConsoleTick, ConsoleAnnounced, IdleCheck, ReadMillis, ReadMark,
       IdleCompare, time, session
  <2>2. \/ pc = "transport" /\ pc' = "telemetry"
        \/ pc \in {"console", "announce", "ble", "reading"}
           /\ pc' \in {"announce", "ble", "reading", "top"}
    BY <1>1 DEF TransportTick, ConsoleTick, ConsoleAnnounced, IdleCheck, ReadMillis, ReadMark,
       IdleCompare
  <2> QED BY <2>1, <2>2, LoopOnSends DEF Turns
<1> QED BY <1>1, LoopTopSends, PeriodicSends DEF Loop

LEMMA OtherSends == ASSUME LoopInv, SendInv, Client \/ Callback \/ UNCHANGED vars PROVE SendInv'
<1>1. CASE Restart
  <2> SUFFICES ASSUME NEW k \in Tasks
      PROVE Punctual(k)' /\ (k \notin setting.on \/ connected => waited[k] = 0)'
    BY DEF SendInv
  <2>1. waited'[k] = 0 /\ pass' = 0 /\ Stall \in Int /\ 0 <= Stall
    BY <1>1, Numbers DEF Restart
  <2> QED BY <2>1 DEF Punctual, Behind
<1>2. CASE OnSecured
  <2> SUFFICES ASSUME NEW k \in Tasks
      PROVE Punctual(k)' /\ (k \notin setting.on \/ connected => waited[k] = 0)'
    BY DEF SendInv
  <2>1. waited'[k] = 0 /\ UNCHANGED <<pass, pc>>
    BY <1>2 DEF OnSecured, loop
  <2> QED BY <2>1, PassIs DEF Punctual, Behind
<1>3. CASE UNCHANGED <<setting, now, pass, stamp, waited, pc>> /\ (connected' => connected)
  BY <1>3 DEF SendInv, Punctual, Behind
<1>4. Restart \/ OnSecured
      \/ (UNCHANGED <<setting, now, pass, stamp, waited, pc>> /\ (connected' => connected))
  <2>1. CASE Client
    BY <2>1 DEF Client, Connect, Encrypt, PairingFails, WriteConfig, Write, Leave, firmware,
       time, loop, session
  <2>2. CASE Callback
    BY <2>2 DEF Callback, OnConnect, OnDisconnect, OnSecuredWeak, OnSecuredStray,
       OnPairingComplete, OnConfigWrite, OnCommitWrite, OnCommandWrite, Announced,
       elsewhere, time, loop, session
  <2>3. CASE UNCHANGED vars
    BY <2>3 DEF vars
  <2> QED BY <2>1, <2>2, <2>3
<1> QED BY <1>1, <1>2, <1>3, <1>4

\* A sender that is on sends within its interval and two passes of the loop,
\* or four if a pause ends just as the elapsed time wraps, counted from its
\* last send or the end of the pause (Telemetry.cpp:216-225,
\* LxmfPresence.cpp:117-128, main.cpp:165-173).
THEOREM SendsAlwaysInTime == Spec => []SendsInTime
<1>1. Init => SendInv
  <2> SUFFICES ASSUME Init, NEW k \in Tasks
      PROVE Punctual(k) /\ (k \notin setting.on \/ connected => waited[k] = 0)
    BY DEF SendInv
  <2>1. waited[k] = 0 /\ pass = 0 /\ Stall \in Int /\ 0 <= Stall
    BY Numbers DEF Init
  <2> QED BY <2>1 DEF Punctual, Behind
<1>2. LoopInv /\ SendInv /\ [Next]_vars => SendInv'
  BY TickSends, LoopSends, OtherSends DEF Next
<1>3. LoopInv /\ SendInv => SendsInTime
  <2> SUFFICES ASSUME LoopInv, SendInv, NEW k \in Tasks PROVE waited[k] <= Late
    BY DEF SendsInTime
  <2>1. Late = Larger(First, Interval) + 4 * Stall /\ 0 <= Larger(First, Interval)
    BY Numbers DEF Late
  <2> QED BY <2>1, PassIs DEF SendInv, Punctual
<1> QED BY <1>1, <1>2, <1>3, LoopAlways, PTL DEF Spec
=============================================================================
