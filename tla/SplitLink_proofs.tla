-------------------------- MODULE SplitLink_proofs --------------------------
(***************************************************************************)
(* Safety of the LoRa link for any number of nodes, packets, sequence      *)
(* numbers, faults and stalls: the type invariant; that the link           *)
(* implements PacketLink when no sequence number is reused too early; that *)
(* it counts what went out; and that halves read in a row are joined.      *)
(***************************************************************************)
EXTENDS SplitLink, FiniteSetTheorems, TLAPS

\* What pc says of the chip and of the frame in hand.
Sending ==
    \A n \in Nodes :
        /\ pc[n] = "idle" <=> tx[n] = NoFrame
        /\ pc[n] = "air" <=> mode[n] = "tx"
        /\ pc[n] = "gap" => tx[n].part = "first"

TInv == TypeOK /\ Sending

\* The frames a node has received and still holds, and all it holds.
Held(n) == {half[n], fifo[n]} \ {NoFrame, Bad}
Frames(n) == {tx[n], half[n], fifo[n]} \ {NoFrame, Bad}
Received(n) == {Content(payload) : payload \in got[n]}

WellFormed(f) == f.part = "whole" <=> f.pkt \notin Long

FramesKnown ==
    \A n \in Nodes : \A f \in Frames(n) : WellFormed(f) /\ origin[f.pkt] # NoNode

SeqApart ==
    \A m, n \in Nodes : \A f \in Frames(m), g \in Frames(n) :
        f.seq = g.seq => f.pkt = g.pkt

\* A node sends its own packets, and receives only those of others.
Apart ==
    \A n \in Nodes :
        /\ tx[n] # NoFrame => origin[tx[n].pkt] = n
        /\ \A f \in Held(n) : origin[f.pkt] # n
        /\ hearing[n] # n

\* The second half of a packet comes after its first.
InOrder ==
    \A n \in Nodes :
        /\ half[n] # NoFrame => half[n].part # "whole"
        /\ half[n] # NoFrame /\ fifo[n] # Bad /\ half[n].pkt = fifo[n].pkt =>
              half[n].part = "first" /\ fifo[n].part = "second"

\* Nobody has a packet before its sender has finished with it: at most a first
\* half, once that is out.
InFlight ==
    \A n, m \in Nodes : tx[n] # NoFrame =>
        /\ tx[n].pkt \notin Received(m)
        /\ \A f \in Held(m) : f.pkt = tx[n].pkt =>
              f.part = "first" /\ (pc[n] = "gap" \/ tx[n].part = "second")

\* What a node's stack has got is known, and no longer on its way to it.
Done ==
    \A n \in Nodes :
        /\ Received(n) \subseteq {p \in Packets : origin[p] # NoNode}
        /\ \A f \in Held(n) : f.pkt \notin Received(n)

IInv == /\ TInv /\ FramesKnown /\ SeqApart /\ Apart
        /\ InOrder /\ InFlight /\ Done
-----------------------------------------------------------------------------
(***************************************************************************)
(* Types, for whatever sequence numbers random() picks.                    *)
(***************************************************************************)
LEMMA NotFrames == NoFrame \notin Frame /\ Bad \notin Frame /\ NoFrame # Bad
BY FrameAssumption

LEMMA FrameParts ==
    ASSUME NEW f \in Frame
    PROVE  /\ f.pkt \in Packets /\ f.seq \in Seqs
           /\ f.part \in {"whole", "first", "second"}
           /\ [f EXCEPT !.part = "second"] \in Frame
           /\ [f EXCEPT !.part = "second"].part = "second"
           /\ [f EXCEPT !.part = "second"].pkt = f.pkt
           /\ [f EXCEPT !.part = "second"].seq = f.seq
BY DEF Frame

LEMMA TimeoutType == Timeout \in Nat
BY TimeAssumption DEF Timeout

LEMMA InitTInv == Init => TInv
<1> SUFFICES ASSUME Init PROVE TInv
  OBVIOUS
<1>1. faults \in 0..MaxFaults
  <2> DEFINE S == {n \in Nodes : mode[n] # "rx"}
  <2>1. IsFiniteSet(S) /\ Cardinality(S) \in Nat
    BY NodeAssumption, FS_Subset, FS_CardinalityType
  <2> QED
    BY <2>1, BoundAssumption DEF Init
<1>2. TypeOK
  BY <1>1, BoundAssumption, TimeoutType DEF Init, TypeOK
<1>3. Sending
  BY DEF Init, Sending
<1> QED
  BY <1>2, <1>3 DEF TInv

\* No frame takes longer than a full one.
LEMMA FrameTimes ==
    ASSUME NEW f \in Frame
    PROVE  FrameTime(f) \in Nat /\ FrameTime(f) >= 1 /\ FrameTime(f) <= Airtime
<1>1. f.pkt \in Packets
  BY DEF Frame
<1>2. LastAirtime[f.pkt] \in 1 .. Airtime /\ Airtime \in Nat \ {0}
  BY <1>1, TimeAssumption
<1> QED
  BY <1>2 DEF FrameTime

LEMMA KeyTInv ==
    ASSUME TInv, NEW n \in Nodes, NEW f \in Frame, f.part \in {"whole", "first", "second"},
           pc[n] # "air", Key(n, f),
           UNCHANGED <<half, age, last, packets_in, packets_out, aired, got, bounds>>,
           origin' \in [Packets -> Nodes \cup {NoNode}]
    PROVE  TInv'
<1>1. CASE mode' = [mode EXCEPT ![n] = "tx"]
  <2>1. /\ pc' = [pc EXCEPT ![n] = "air"] /\ tx' = [tx EXCEPT ![n] = f]
        /\ left' = [left EXCEPT ![n] = FrameTime(f)] /\ rxFlag' = rxFlag
        /\ hearing' = [hearing EXCEPT ![n] = NoNode] /\ fifo' = [fifo EXCEPT ![n] = Bad]
    BY <1>1 DEF Key, TInv, TypeOK
  <2>2. TypeOK'
    BY <1>1, <2>1, FrameTimes DEF TInv, TypeOK, bounds
  <2>3. Sending'
    BY <1>1, <2>1, NotFrames DEF TInv, TypeOK, Sending
  <2> QED
    BY <2>2, <2>3 DEF TInv
<1>2. CASE mode' = mode
  <2>1. /\ pc' = [pc EXCEPT ![n] = "idle"] /\ tx' = [tx EXCEPT ![n] = NoFrame]
        /\ left' = [left EXCEPT ![n] = 0] /\ rxFlag' = [rxFlag EXCEPT ![n] = FALSE]
        /\ hearing' = [hearing EXCEPT ![n] = NoNode] /\ fifo' = [fifo EXCEPT ![n] = Bad]
        /\ mode[n] = "fault"
    BY <1>2 DEF Key, TInv, TypeOK, Sending
  <2>2. TypeOK'
    BY <1>2, <2>1 DEF TInv, TypeOK, bounds
  <2>3. Sending'
    BY <1>2, <2>1, NotFrames DEF TInv, TypeOK, Sending
  <2> QED
    BY <2>2, <2>3 DEF TInv
<1> QED
  BY <1>1, <1>2 DEF Key

LEMMA TransmitTInv ==
    ASSUME TInv, NEW n \in Nodes, NEW p \in Packets, Transmit(n, p) PROVE TInv'
<1>1. PICK s \in Seqs : Key(n, [pkt |-> p, seq |-> s,
                                part |-> IF p \in Long THEN "first" ELSE "whole"])
  BY DEF Transmit
<1>2. [pkt |-> p, seq |-> s, part |-> IF p \in Long THEN "first" ELSE "whole"] \in Frame
  BY DEF Frame
<1>3. origin' \in [Packets -> Nodes \cup {NoNode}] /\ pc[n] # "air"
  BY DEF TInv, TypeOK, Transmit, InLoop
<1> QED
  BY <1>1, <1>2, <1>3, KeyTInv, FrameParts DEF Transmit

LEMMA SecondHalfTInv ==
    ASSUME TInv, NEW n \in Nodes, SecondHalf(n) PROVE TInv'
<1>1. tx[n] \in Frame /\ pc[n] # "air"
  BY DEF TInv, TypeOK, Sending, SecondHalf
<1>2. [tx[n] EXCEPT !.part = "second"] \in Frame
  BY <1>1, FrameParts
<1>3. origin' \in [Packets -> Nodes \cup {NoNode}]
  BY DEF TInv, TypeOK, SecondHalf, stack
<1> QED
  BY <1>1, <1>2, <1>3, KeyTInv, FrameParts DEF SecondHalf, stack

LEMMA HandType ==
    ASSUME TypeOK, NEW n \in Nodes, NEW f \in Frame, Hand(n, f)
    PROVE  /\ fifo' \in [Nodes -> Frame \cup {Bad}]
           /\ rxFlag' \in [Nodes -> BOOLEAN]
           /\ hearing' \in [Nodes -> Nodes \cup {NoNode}]
<1> DEFINE hearers == {m \in Nodes : hearing[m] = n}
<1>1. PICK bad \in SUBSET hearers :
          fifo' = [m \in Nodes |-> IF m \in bad THEN Bad
                                   ELSE IF m \in hearers THEN f ELSE fifo[m]]
  BY DEF Hand
<1>2. \A m \in Nodes : fifo'[m] \in Frame \cup {Bad}
  BY <1>1 DEF TypeOK
<1>3. rxFlag' = [m \in Nodes |-> IF m = n THEN f.part = "first"
                                 ELSE rxFlag[m] \/ m \in hearers]
  BY DEF Hand
<1>4. rxFlag' \in [Nodes -> BOOLEAN]
  BY <1>3 DEF TypeOK
<1>5. hearing' \in [Nodes -> Nodes \cup {NoNode}]
  BY DEF Hand, TypeOK
<1> QED
  BY <1>1, <1>2, <1>4, <1>5

LEMMA FrameEndsTInv ==
    ASSUME TInv, NEW n \in Nodes, FrameEnds(n) PROVE TInv'
<1>1. tx[n] \in Frame
  BY DEF TInv, TypeOK, Sending, FrameEnds
<1>2. /\ fifo' \in [Nodes -> Frame \cup {Bad}] /\ rxFlag' \in [Nodes -> BOOLEAN]
      /\ hearing' \in [Nodes -> Nodes \cup {NoNode}]
  BY <1>1, HandType DEF TInv, FrameEnds
<1>3. /\ pc' \in [Nodes -> {"idle", "air", "gap"}] /\ tx' \in [Nodes -> Frame \cup {NoFrame}]
      /\ left' \in [Nodes -> Nat] /\ mode' \in [Nodes -> {"rx", "tx", "fault", "off"}]
      /\ packets_out' \in [Nodes -> Nat]
  <2>1. CASE tx[n].part = "first"
    <3>1. /\ pc' = [pc EXCEPT ![n] = "gap"] /\ left' = [left EXCEPT ![n] = MaxGap]
          /\ mode' = [mode EXCEPT ![n] = "rx"] /\ tx' = tx /\ packets_out' = packets_out
      BY <2>1 DEF FrameEnds
    <3> QED
      BY <3>1, TimeAssumption DEF TInv, TypeOK
  <2>2. CASE tx[n].part # "first"
    <3>1. /\ pc' = [pc EXCEPT ![n] = "idle"] /\ tx' = [tx EXCEPT ![n] = NoFrame]
          /\ mode' = [mode EXCEPT ![n] = "rx"] /\ left' = left
          /\ packets_out' = [packets_out EXCEPT ![n] = @ + 1]
      BY <2>2 DEF FrameEnds
    <3> QED
      BY <3>1 DEF TInv, TypeOK
  <2> QED
    BY <2>1, <2>2
<1>4. TypeOK'
  BY <1>1, <1>2, <1>3 DEF TInv, TypeOK, FrameEnds, bounds
<1>5. Sending'
  BY NotFrames DEF TInv, TypeOK, Sending, FrameEnds
<1> QED
  BY <1>4, <1>5 DEF TInv

LEMMA FaultTInv ==
    ASSUME TInv, NEW n \in Nodes, Fault(n) PROVE TInv'
<1>1. /\ pc' \in [Nodes -> {"idle", "air", "gap"}] /\ tx' \in [Nodes -> Frame \cup {NoFrame}]
      /\ left' \in [Nodes -> Nat] /\ rxFlag' \in [Nodes -> BOOLEAN]
  <2>1. CASE mode[n] = "tx"
    <3>1. /\ pc' = [pc EXCEPT ![n] = "idle"] /\ tx' = [tx EXCEPT ![n] = NoFrame]
          /\ left' = [left EXCEPT ![n] = 0] /\ rxFlag' = [rxFlag EXCEPT ![n] = FALSE]
      BY <2>1 DEF Fault
    <3> QED
      BY <3>1 DEF TInv, TypeOK
  <2>2. CASE mode[n] # "tx"
    <3>1. pc' = pc /\ tx' = tx /\ left' = left /\ rxFlag' = rxFlag
      BY <2>2 DEF Fault
    <3> QED
      BY <3>1 DEF TInv, TypeOK
  <2> QED
    BY <2>1, <2>2
<1>2. /\ mode' \in [Nodes -> {"rx", "tx", "fault", "off"}] /\ fifo' \in [Nodes -> Frame \cup {Bad}]
      /\ hearing' \in [Nodes -> Nodes \cup {NoNode}] /\ faults' \in 0..MaxFaults
  BY BoundAssumption DEF TInv, TypeOK, Fault
<1>3. TypeOK'
  BY <1>1, <1>2 DEF TInv, TypeOK, Fault, stack
<1>4. Sending'
  BY NotFrames DEF TInv, TypeOK, Sending, Fault
<1> QED
  BY <1>3, <1>4 DEF TInv

LEMMA ReadPendingTInv ==
    ASSUME TInv, NEW n \in Nodes, ReadPending(n) PROVE TInv'
<1> USE DEF ReadPending, Take, Keep, Hold, Buffered
<1>1. Sending'
  BY DEF TInv, Sending
<1>2. /\ fifo' \in [Nodes -> Frame \cup {Bad}] /\ rxFlag' \in [Nodes -> BOOLEAN]
      /\ hearing' \in [Nodes -> Nodes \cup {NoNode}]
  BY DEF TInv, TypeOK, Expire, ReadNothing, ReadWhole, ReadHalf
<1>3. /\ half' \in [Nodes -> Frame \cup {NoFrame}] /\ age' \in [Nodes -> 0 .. Timeout + 1]
      /\ last' \in [Nodes -> Frame \cup {NoFrame}]
  <2>1. CASE Keep(n) /\ UNCHANGED last
    BY <2>1 DEF TInv, TypeOK
  <2>2. CASE ReadHalf(n)
    <3>1. fifo[n] \in Frame
      BY <2>2 DEF TInv, TypeOK, ReadHalf
    <3>2. last' = [last EXCEPT ![n] = fifo[n]] /\ (Hold(n, fifo[n]) \/ Hold(n, NoFrame))
      BY <2>2 DEF ReadHalf
    <3>3. half' \in [Nodes -> Frame \cup {NoFrame}]
      BY <3>1, <3>2 DEF TInv, TypeOK
    <3>4. age' = [age EXCEPT ![n] = 0]
      BY <3>2
    <3>5. age' \in [Nodes -> 0 .. Timeout + 1] /\ last' \in [Nodes -> Frame \cup {NoFrame}]
      BY <3>1, <3>2, <3>4, TimeoutType DEF TInv, TypeOK
    <3> QED
      BY <3>3, <3>5
  <2> QED
    BY <2>1, <2>2 DEF Expire, ReadNothing, ReadWhole
<1>4. got' \in [Nodes -> SUBSET Seq(Frame)] /\ packets_in' \in [Nodes -> Nat]
  <2>1. ASSUME NEW payload \in Seq(Frame), Deliver(n, payload)
        PROVE  got' \in [Nodes -> SUBSET Seq(Frame)] /\ packets_in' \in [Nodes -> Nat]
    BY <2>1 DEF TInv, TypeOK, Deliver
  <2>2. CASE Expire(n) \/ ReadNothing(n)
    BY <2>2 DEF TInv, TypeOK, Expire, ReadNothing
  <2>3. CASE ReadWhole(n)
    <3>1. <<fifo[n]>> \in Seq(Frame)
      BY <2>3 DEF TInv, TypeOK, ReadWhole
    <3> QED
      BY <2>1, <2>3, <3>1 DEF ReadWhole
  <2>4. CASE ReadHalf(n)
    <3>1. CASE Buffered(n) # NoFrame /\ Buffered(n).seq = fifo[n].seq
      <4>1. <<half[n], fifo[n]>> \in Seq(Frame)
        BY <2>4, <3>1 DEF TInv, TypeOK, ReadHalf
      <4> QED
        BY <2>1, <2>4, <3>1, <4>1 DEF ReadHalf
    <3>2. CASE ~(Buffered(n) # NoFrame /\ Buffered(n).seq = fifo[n].seq)
      BY <2>4, <3>2 DEF TInv, TypeOK, ReadHalf
    <3> QED
      BY <3>1, <3>2
  <2> QED
    BY <2>2, <2>3, <2>4
<1> QED
  BY <1>1, <1>2, <1>3, <1>4 DEF TInv, TypeOK, bounds

LEMMA TickTInv ==
    ASSUME TInv, Tick PROVE TInv'
<1>1. age' \in [Nodes -> 0 .. Timeout + 1]
  BY TimeoutType DEF TInv, TypeOK, Tick, Expired
<1>2. left' \in [Nodes -> Nat]
  BY DEF TInv, TypeOK, Tick
<1> QED
  BY <1>1, <1>2 DEF TInv, TypeOK, Sending, Tick, stack, bounds

LEMMA NextTInv == TInv /\ [Next]_vars => TInv'
<1> SUFFICES ASSUME TInv, [Next]_vars PROVE TInv'
  OBVIOUS
<1>1. ASSUME NEW n \in Nodes, NEW p \in Packets, Drop(n, p) PROVE TInv'
  BY <1>1 DEF TInv, TypeOK, Sending, Drop, radio, receiver, bounds
<1>2. ASSUME NEW n \in Nodes, Pause(n) \/ Resume(n) PROVE TInv'
  <2>1. CASE Pause(n)
    BY <2>1, BoundAssumption DEF TInv, TypeOK, Sending, Pause, radio, stack
  <2>2. CASE Resume(n)
    BY <2>2 DEF TInv, TypeOK, Sending, Resume, radio, receiver, stack
  <2> QED
    BY <1>2, <2>1, <2>2
<1>3. CASE UNCHANGED vars
  BY <1>3 DEF TInv, TypeOK, Sending, vars, radio, receiver, stack, bounds
<1> QED
  BY <1>1, <1>2, <1>3, TransmitTInv, SecondHalfTInv, FrameEndsTInv, FaultTInv,
     ReadPendingTInv, TickTInv DEF Next

\* Every variable keeps its type, whatever the nodes, packets and faults.
THEOREM TypeCorrect == Spec => []TypeOK
<1>1. TInv => TypeOK
  BY DEF TInv
<1> QED
  BY InitTInv, NextTInv, <1>1, PTL DEF Spec
-----------------------------------------------------------------------------
(***************************************************************************)
(* What the nodes hold.  Most steps only drop frames.                      *)
(***************************************************************************)
Claims == FramesKnown /\ SeqApart /\ Apart /\ InOrder /\ InFlight /\ Done

\* A packet keeps the node that offered it.
OriginsKept ==
    /\ origin' \in [Packets -> Nodes \cup {NoNode}]
    /\ \A p \in Packets : origin[p] # NoNode => origin'[p] = origin[p]

LEMMA FramesType ==
    ASSUME TypeOK, NEW n \in Nodes
    PROVE  /\ Frames(n) \subseteq Frame /\ Held(n) \subseteq Frames(n)
           /\ \A f \in Frames(n) : f.pkt \in Packets /\ f.seq \in Seqs
BY FrameParts DEF TypeOK, Frames, Held

\* Frames that continue known ones, with the same packet and number, are known.
LEMMA CarriedOver ==
    ASSUME IInv, OriginsKept,
           \A n \in Nodes : \A f \in Frames(n)' :
               /\ WellFormed(f)
               /\ \E m \in Nodes : \E g \in Frames(m) : f.pkt = g.pkt /\ f.seq = g.seq
    PROVE  FramesKnown' /\ SeqApart'
<1>1. TypeOK
  BY DEF IInv, TInv
<1>2. FramesKnown'
  <2> SUFFICES ASSUME NEW n \in Nodes, NEW f \in Frames(n)'
               PROVE  WellFormed(f) /\ origin'[f.pkt] # NoNode
    BY DEF FramesKnown, WellFormed
  <2>1. PICK m \in Nodes : \E g \in Frames(m) : f.pkt = g.pkt
    OBVIOUS
  <2>2. origin[f.pkt] # NoNode /\ f.pkt \in Packets
    BY <1>1, <2>1, FramesType DEF IInv, FramesKnown
  <2> QED
    BY <2>2 DEF OriginsKept
<1>3. SeqApart'
  <2> SUFFICES ASSUME NEW m \in Nodes, NEW n \in Nodes,
                      NEW f \in Frames(m)', NEW g \in Frames(n)', f.seq = g.seq
               PROVE  f.pkt = g.pkt
    BY DEF SeqApart
  <2>1. PICK k \in Nodes : \E h \in Frames(k) : f.pkt = h.pkt /\ f.seq = h.seq
    OBVIOUS
  <2>2. PICK l \in Nodes : \E i \in Frames(l) : g.pkt = i.pkt /\ g.seq = i.seq
    OBVIOUS
  <2>3. PICK h \in Frames(k) : f.pkt = h.pkt /\ f.seq = h.seq
    BY <2>1
  <2>4. PICK i \in Frames(l) : g.pkt = i.pkt /\ g.seq = i.seq
    BY <2>2
  <2>5. h.seq = i.seq => h.pkt = i.pkt
    BY DEF IInv, SeqApart
  <2> QED
    BY <2>3, <2>4, <2>5
<1> QED
  BY <1>2, <1>3

LEMMA SameReceived ==
    ASSUME got' = got PROVE \A n \in Nodes : Received(n)' = Received(n)
BY DEF Received

LEMMA Dropping ==
    ASSUME IInv, OriginsKept, got' = got,
           \A n \in Nodes :
              /\ tx'[n] = NoFrame \/ (tx'[n] = tx[n] /\ pc'[n] = pc[n])
              /\ half'[n] \in {half[n], NoFrame}
              /\ fifo'[n] \in {fifo[n], Bad}
              /\ hearing'[n] # n
    PROVE  Claims'
<1>0. TypeOK
  BY DEF IInv, TInv
<1>1. \A n \in Nodes : /\ Frames(n)' \subseteq Frames(n) /\ Held(n)' \subseteq Held(n)
                       /\ Received(n)' = Received(n)
  BY SameReceived DEF Frames, Held
<1>2. FramesKnown' /\ SeqApart'
  BY <1>1, CarriedOver DEF IInv, FramesKnown
<1>3. Apart'
  <2> SUFFICES ASSUME NEW n \in Nodes
               PROVE  /\ tx'[n] # NoFrame => origin'[tx'[n].pkt] = n
                      /\ \A f \in Held(n)' : origin'[f.pkt] # n
    BY DEF Apart
  <2>1. tx'[n] # NoFrame => origin'[tx'[n].pkt] = n
    <3> SUFFICES ASSUME tx'[n] # NoFrame PROVE origin'[tx'[n].pkt] = n
      OBVIOUS
    <3>1. tx'[n] = tx[n] /\ tx[n] \in Frame
      BY <1>0 DEF TypeOK
    <3>2. origin[tx[n].pkt] = n /\ tx[n].pkt \in Packets
      BY <3>1, FrameParts DEF IInv, Apart
    <3> QED
      BY <3>1, <3>2, NodeAssumption DEF OriginsKept
  <2>2. ASSUME NEW f \in Held(n)' PROVE origin'[f.pkt] # n
    <3>1. f \in Held(n) /\ f \in Frames(n)
      BY <1>0, <1>1, FramesType
    <3>2. f.pkt \in Packets /\ origin[f.pkt] \notin {n, NoNode}
      BY <1>0, <3>1, FramesType DEF IInv, Apart, FramesKnown
    <3> QED
      BY <3>2 DEF OriginsKept
  <2> QED
    BY <2>1, <2>2
<1>4. InOrder'
  BY DEF IInv, InOrder
<1>5. InFlight'
  BY <1>1 DEF IInv, InFlight
<1>6. Done'
  BY <1>1 DEF IInv, Done, OriginsKept
<1> QED
  BY <1>2, <1>3, <1>4, <1>5, <1>6 DEF Claims
LEMMA Silence ==
    ASSUME IInv, NEW n \in Nodes, hearing' = [hearing EXCEPT ![n] = NoNode]
    PROVE  \A m \in Nodes : hearing'[m] # m
BY NodeAssumption DEF IInv, TInv, TypeOK, Apart

-----------------------------------------------------------------------------
(***************************************************************************)
(* transmit().                                                             *)
(***************************************************************************)
LEMMA Keyed ==
    ASSUME IInv, NEW n \in Nodes, NEW f \in Frame, FramesKnown', SeqApart',
           OriginsKept, origin'[f.pkt] = n, got' = got, half' = half,
           tx' = [tx EXCEPT ![n] = f], pc' = [pc EXCEPT ![n] = "air"],
           fifo' = [fifo EXCEPT ![n] = Bad], hearing' = [hearing EXCEPT ![n] = NoNode],
           \A m \in Nodes :
              /\ f.pkt \notin Received(m)
              /\ \A h \in Held(m) : h.pkt = f.pkt => h.part = "first" /\ f.part = "second"
    PROVE  Claims'
<1>0. TypeOK
  BY DEF IInv, TInv
<1>1. \A m \in Nodes : Received(m)' = Received(m) /\ Held(m)' \subseteq Held(m)
  BY <1>0, SameReceived DEF TypeOK, Held
<1>2. \A m \in Nodes : tx'[m] = (IF m = n THEN f ELSE tx[m])
                       /\ pc'[m] = (IF m = n THEN "air" ELSE pc[m])
                       /\ fifo'[m] = (IF m = n THEN Bad ELSE fifo[m])
  BY <1>0 DEF TypeOK
<1>3. Apart'
  <2> SUFFICES ASSUME NEW m \in Nodes
               PROVE  /\ tx'[m] # NoFrame => origin'[tx'[m].pkt] = m
                      /\ \A h \in Held(m)' : origin'[h.pkt] # m
    BY Silence DEF Apart
  <2>1. ASSUME m # n, tx'[m] # NoFrame PROVE origin'[tx'[m].pkt] = m
    <3>1. tx'[m] = tx[m] /\ tx[m] \in Frame
      BY <1>0, <1>2, <2>1 DEF TypeOK
    <3>2. origin[tx[m].pkt] = m /\ tx[m].pkt \in Packets
      BY <2>1, <3>1, FrameParts DEF IInv, Apart
    <3> QED
      BY <3>1, <3>2, NodeAssumption DEF OriginsKept
  <2>2. ASSUME NEW h \in Held(m)' PROVE origin'[h.pkt] # m
    <3>1. h \in Held(m) /\ h \in Frames(m)
      BY <1>0, <1>1, FramesType
    <3>2. h.pkt \in Packets /\ origin[h.pkt] \notin {m, NoNode}
      BY <1>0, <3>1, FramesType DEF IInv, Apart, FramesKnown
    <3> QED
      BY <3>2 DEF OriginsKept
  <2> QED
    BY <1>2, <2>1, <2>2
<1>4. InOrder'
  BY <1>2 DEF IInv, InOrder
<1>5. InFlight'
  <2> SUFFICES ASSUME NEW k \in Nodes, NEW m \in Nodes, tx'[k] # NoFrame
               PROVE  /\ tx'[k].pkt \notin Received(m)'
                      /\ \A h \in Held(m)' : h.pkt = tx'[k].pkt =>
                           h.part = "first" /\ (pc'[k] = "gap" \/ tx'[k].part = "second")
    BY DEF InFlight
  <2>1. CASE k = n
    BY <1>1, <1>2, <2>1
  <2>2. CASE k # n
    BY <1>1, <1>2, <2>2 DEF IInv, InFlight
  <2> QED
    BY <2>1, <2>2
<1>6. Done'
  BY <1>1 DEF IInv, Done, OriginsKept
<1> QED
  BY <1>3, <1>4, <1>5, <1>6 DEF Claims

\* The chip is reset and does not come back: transmit() gives up.
LEMMA KeyFails ==
    ASSUME IInv, NEW n \in Nodes, NEW f, Key(n, f), mode' = mode, mode[n] # "tx",
           OriginsKept, got' = got, half' = half
    PROVE  Claims'
<1>1. /\ tx' = [tx EXCEPT ![n] = NoFrame] /\ pc' = [pc EXCEPT ![n] = "idle"]
      /\ hearing' = [hearing EXCEPT ![n] = NoNode] /\ fifo' = [fifo EXCEPT ![n] = Bad]
  BY DEF Key, IInv, TInv, TypeOK
<1>2. \A m \in Nodes : hearing'[m] # m
  BY <1>1, Silence
<1>3. \A m \in Nodes :
              /\ tx'[m] = NoFrame \/ (tx'[m] = tx[m] /\ pc'[m] = pc[m])
              /\ half'[m] \in {half[m], NoFrame}
              /\ fifo'[m] \in {fifo[m], Bad}
  BY <1>1 DEF IInv, TInv, TypeOK
<1> QED
  BY <1>2, <1>3, Dropping

LEMMA OfferKept ==
    ASSUME TypeOK, NEW n \in Nodes, NEW p \in Packets, origin[p] = NoNode,
           origin' = [origin EXCEPT ![p] = n]
    PROVE  OriginsKept /\ origin'[p] = n
BY NodeAssumption DEF TypeOK, OriginsKept

LEMMA TransmitClaims ==
    ASSUME IInv, FreshSeq, NEW n \in Nodes, NEW p \in Packets, Transmit(n, p)
    PROVE  Claims'
<1>0. TypeOK /\ OriginsKept /\ origin'[p] = n /\ origin[p] = NoNode /\ pc[n] = "idle"
      /\ mode[n] # "tx" /\ got' = got /\ half' = half
  BY OfferKept DEF IInv, TInv, Sending, Transmit, InLoop
<1> DEFINE frame(s) == [pkt |-> p, seq |-> s,
                        part |-> IF p \in Long THEN "first" ELSE "whole"]
<1>1. PICK s \in Seqs : s \notin InUse /\ Key(n, frame(s))
  BY DEF Transmit
<1>2. /\ frame(s) \in Frame /\ frame(s).pkt = p /\ frame(s).seq = s
      /\ frame(s).part # "second" /\ WellFormed(frame(s))
  BY DEF Frame, WellFormed
<1> DEFINE f == frame(s)
<1> HIDE DEF f
<1>3. CASE mode' = mode
  BY <1>0, <1>1, <1>3, KeyFails
<1>4. CASE mode' = [mode EXCEPT ![n] = "tx"]
  <2>1. /\ tx' = [tx EXCEPT ![n] = f] /\ pc' = [pc EXCEPT ![n] = "air"]
        /\ fifo' = [fifo EXCEPT ![n] = Bad] /\ hearing' = [hearing EXCEPT ![n] = NoNode]
    BY <1>0, <1>1, <1>4 DEF Key, TypeOK, f
  <2>2. \A m \in Nodes : /\ p \notin Received(m)
                         /\ \A h \in Frames(m) : h.pkt # p /\ h.seq # s
    <3>1. \A m \in Nodes : \A h \in Frames(m) : h.seq \in InUse
      <4> SUFFICES ASSUME NEW m \in Nodes, NEW h \in Frames(m) PROVE h.seq \in InUse
        OBVIOUS
      <4>1. h \in {tx[m], half[m], fifo[m]} /\ h \notin {NoFrame, Bad}
        BY DEF Frames
      <4> DEFINE all == UNION {{tx[k], half[k], fifo[k]} : k \in Nodes}
      <4>2. h \in all
        BY <4>1
      <4> QED
        BY <4>1, <4>2 DEF InUse
    <3> QED
      BY <1>0, <1>1, <3>1 DEF IInv, Done, FramesKnown
  <2>3. \A m \in Nodes : \A h \in Frames(m)' : h \in Frames(m) \/ h = f
    BY <1>0, <2>1 DEF TypeOK, Frames
  <2>4. f \in Frame /\ f.pkt = p /\ f.seq = s /\ WellFormed(f) /\ f.part # "second"
    BY <1>2 DEF f
  <2>5. FramesKnown'
    <3> SUFFICES ASSUME NEW m \in Nodes, NEW h \in Frames(m)'
                 PROVE  WellFormed(h) /\ origin'[h.pkt] # NoNode
      BY DEF FramesKnown, WellFormed
    <3>1. CASE h = f
      BY <3>1, <2>4, <1>0, NodeAssumption
    <3>2. CASE h \in Frames(m)
      BY <3>2, <1>0, FramesType DEF IInv, FramesKnown, OriginsKept
    <3> QED
      BY <2>3, <3>1, <3>2
  <2>6. SeqApart'
    BY <2>2, <2>3, <2>4 DEF IInv, SeqApart
  <2>7. \A m \in Nodes : /\ f.pkt \notin Received(m)
                         /\ \A h \in Held(m) : h.pkt # f.pkt
    BY <1>0, <2>2, <2>4, FramesType
  <2> QED
    BY <1>0, <2>1, <2>4, <2>5, <2>6, <2>7, Keyed
<1> QED
  BY <1>1, <1>3, <1>4 DEF Key

LEMMA SecondHalfClaims ==
    ASSUME IInv, NEW n \in Nodes, SecondHalf(n)
    PROVE  Claims'
<1> DEFINE f == [tx[n] EXCEPT !.part = "second"]
<1>0. /\ TypeOK /\ OriginsKept /\ origin' = origin /\ pc[n] = "gap" /\ mode[n] # "tx"
      /\ got' = got /\ half' = half /\ Key(n, f)
  BY DEF IInv, TInv, TypeOK, OriginsKept, Sending, SecondHalf, stack
<1>1. /\ tx[n] \in Frame /\ tx[n].part = "first" /\ tx[n] \in Frames(n)
      /\ tx[n] # NoFrame
  BY <1>0, NotFrames DEF IInv, TInv, TypeOK, Sending, Frames
<1>2. f \in Frame /\ f.part = "second" /\ f.pkt = tx[n].pkt /\ f.seq = tx[n].seq
  BY <1>1, FrameParts
<1> HIDE DEF f
<1>3. CASE mode' = mode
  BY <1>0, <1>3, KeyFails
<1>4. CASE mode' = [mode EXCEPT ![n] = "tx"]
  <2>1. /\ tx' = [tx EXCEPT ![n] = f] /\ pc' = [pc EXCEPT ![n] = "air"]
        /\ fifo' = [fifo EXCEPT ![n] = Bad] /\ hearing' = [hearing EXCEPT ![n] = NoNode]
    BY <1>0, <1>4 DEF Key, TypeOK
  <2>2. \A m \in Nodes : \A h \in Frames(m)' : h \in Frames(m) \/ h = f
    BY <1>0, <2>1 DEF TypeOK, Frames
  <2>3. WellFormed(f)
    BY <1>1, <1>2 DEF IInv, FramesKnown, WellFormed
  <2>4. FramesKnown' /\ SeqApart'
    <3>1. ASSUME NEW m \in Nodes, NEW h \in Frames(m)'
          PROVE  /\ WellFormed(h)
                 /\ \E k \in Nodes : \E g \in Frames(k) : h.pkt = g.pkt /\ h.seq = g.seq
      <4>1. CASE h = f
        BY <4>1, <1>1, <1>2, <2>3
      <4>2. CASE h \in Frames(m)
        BY <4>2 DEF IInv, FramesKnown
      <4> QED
        BY <2>2, <4>1, <4>2
    <3> QED
      BY <1>0, <3>1, CarriedOver
  <2>5. origin'[f.pkt] = n
    BY <1>0, <1>1, <1>2 DEF IInv, Apart
  <2>6. \A m \in Nodes :
              /\ f.pkt \notin Received(m)
              /\ \A h \in Held(m) : h.pkt = f.pkt => h.part = "first"
    BY <1>1, <1>2 DEF IInv, InFlight
  <2> QED
    BY <1>0, <1>2, <2>1, <2>4, <2>5, <2>6, Keyed
<1> QED
  BY <1>0, <1>3, <1>4 DEF Key
-----------------------------------------------------------------------------
(***************************************************************************)
(* The end of a frame.                                                     *)
(***************************************************************************)
LEMMA FrameEndsClaims ==
    ASSUME IInv, NEW n \in Nodes, FrameEnds(n)
    PROVE  Claims'
<1>0. /\ TypeOK /\ OriginsKept /\ origin' = origin /\ pc[n] = "air"
      /\ got' = got /\ half' = half /\ tx[n] \in Frame /\ tx[n] # NoFrame
      /\ tx[n] \in Frames(n)
  BY NotFrames DEF IInv, TInv, TypeOK, OriginsKept, Sending, FrameEnds, Frames
<1>1. \A m \in Nodes :
          \/ fifo'[m] \in {fifo[m], Bad}
          \/ hearing[m] = n /\ m # n /\ fifo'[m] = tx[n]
  BY DEF FrameEnds, Hand, IInv, Apart
<1>2. \A m \in Nodes : hearing'[m] # m
  BY NodeAssumption DEF FrameEnds, Hand, IInv, Apart
<1>3. IF tx[n].part = "first" THEN tx' = tx /\ pc' = [pc EXCEPT ![n] = "gap"]
      ELSE tx' = [tx EXCEPT ![n] = NoFrame] /\ pc' = [pc EXCEPT ![n] = "idle"]
  BY DEF FrameEnds
<1>4. \A m \in Nodes :
          \/ tx'[m] = NoFrame
          \/ m # n /\ tx'[m] = tx[m] /\ pc'[m] = pc[m]
          \/ m = n /\ tx'[m] = tx[m] /\ tx[n].part = "first" /\ pc'[m] = "gap"
  BY <1>0, <1>3 DEF TypeOK
<1>5. \A m \in Nodes : /\ \A f \in Frames(m)' : f \in Frames(m) \/ f = tx[n]
                       /\ Received(m)' = Received(m)
                       /\ \A f \in Held(m)' : f \in Held(m) \/ (f = tx[n] /\ m # n)
  BY <1>0, <1>1, <1>4, SameReceived DEF Frames, Held
<1>6. FramesKnown' /\ SeqApart'
  <2>1. ASSUME NEW m \in Nodes, NEW h \in Frames(m)'
        PROVE  /\ WellFormed(h)
               /\ \E k \in Nodes : \E g \in Frames(k) : h.pkt = g.pkt /\ h.seq = g.seq
    BY <1>0, <1>5 DEF IInv, FramesKnown
  <2> QED
    BY <1>0, <2>1, CarriedOver
<1>7. Apart'
  <2>1. ASSUME NEW m \in Nodes, tx'[m] # NoFrame PROVE origin'[tx'[m].pkt] = m
    BY <1>0, <1>4, <2>1 DEF IInv, Apart
  <2>2. ASSUME NEW m \in Nodes, NEW f \in Held(m)' PROVE origin'[f.pkt] # m
    BY <1>0, <1>5, <2>2 DEF IInv, Apart
  <2> QED
    BY <1>2, <2>1, <2>2 DEF Apart
<1>8. InOrder'
  <2> SUFFICES ASSUME NEW m \in Nodes, half[m] # NoFrame, fifo'[m] # Bad,
                      half[m].pkt = fifo'[m].pkt
               PROVE  half[m].part = "first" /\ fifo'[m].part = "second"
    BY <1>0 DEF IInv, InOrder
  <2>1. CASE fifo'[m] = tx[n]
    <3>1. half[m] \in Held(m)
      BY <1>0, NotFrames DEF TypeOK, Held
    <3>2. half[m].part = "first" /\ tx[n].part = "second"
      BY <1>0, <2>1, <3>1 DEF IInv, InFlight
    <3> QED
      BY <2>1, <3>2
  <2>2. CASE fifo'[m] = fifo[m]
    BY <2>2 DEF IInv, InOrder
  <2> QED
    BY <1>1, <2>1, <2>2
<1>9. InFlight'
  <2> SUFFICES ASSUME NEW k \in Nodes, NEW m \in Nodes, tx'[k] # NoFrame
               PROVE  /\ tx'[k].pkt \notin Received(m)'
                      /\ \A h \in Held(m)' : h.pkt = tx'[k].pkt =>
                           h.part = "first" /\ (pc'[k] = "gap" \/ tx'[k].part = "second")
    BY DEF InFlight
  <2>1. tx'[k] = tx[k]
    BY <1>4
  <2>2. tx[k].pkt \notin Received(m)'
    BY <1>5, <2>1 DEF IInv, InFlight
  <2>3. ASSUME NEW h \in Held(m)', h.pkt = tx'[k].pkt
        PROVE  h.part = "first" /\ (pc'[k] = "gap" \/ tx'[k].part = "second")
    <3>1. CASE h \in Held(m)
      <4>1. h.part = "first" /\ (pc[k] = "gap" \/ tx[k].part = "second")
        BY <2>1, <2>3, <3>1 DEF IInv, InFlight
      <4> QED
        BY <1>4, <2>1, <4>1
    <3>2. CASE h = tx[n]
      <4>1. k = n
        BY <1>0, <2>1, <2>3, <3>2 DEF IInv, Apart
      <4>2. tx[n].part = "first" /\ pc'[n] = "gap"
        BY <1>4, <4>1
      <4> QED
        BY <3>2, <4>1, <4>2
    <3> QED
      BY <1>5, <2>3, <3>1, <3>2
  <2> QED
    BY <2>1, <2>2, <2>3
<1>10. Done'
  <2>1. ASSUME NEW m \in Nodes, NEW h \in Held(m)' PROVE h.pkt \notin Received(m)'
    <3>1. CASE h \in Held(m)
      BY <1>5, <3>1 DEF IInv, Done
    <3>2. CASE h = tx[n]
      BY <1>0, <1>5, <3>2 DEF IInv, InFlight
    <3> QED
      BY <1>5, <2>1, <3>1, <3>2
  <2> QED
    BY <1>0, <1>5, <2>1 DEF IInv, Done
<1> QED
  BY <1>6, <1>7, <1>8, <1>9, <1>10 DEF Claims

-----------------------------------------------------------------------------
(***************************************************************************)
(* read_pending() and the payloads it hands over.                          *)
(***************************************************************************)
Offered(p) == origin[p] # NoNode

\* A payload made of frames of one packet, in order, is that packet.
LEMMA WholeContent ==
    ASSUME NEW f \in Frame, f.part = "whole"
    PROVE  Content(<<f>>) = f.pkt
BY DEF Content

LEMMA JoinedContent ==
    ASSUME NEW f \in Frame, NEW g \in Frame, f.seq = g.seq, f.pkt = g.pkt,
           f.part = "first", g.part = "second"
    PROVE  Content(<<f, g>>) = f.pkt
<1>1. g = [f EXCEPT !.part = "second"]
  BY DEF Frame
<1> QED
  BY <1>1 DEF Content

LEMMA ReceivedGrows ==
    ASSUME TypeOK, NEW n \in Nodes, NEW payload,
           got' = [got EXCEPT ![n] = @ \cup {payload}]
    PROVE  \A m \in Nodes : Received(m)' = IF m = n THEN Received(n) \cup {Content(payload)}
                                           ELSE Received(m)
<1> SUFFICES ASSUME NEW m \in Nodes
             PROVE  Received(m)' = IF m = n THEN Received(n) \cup {Content(payload)}
                                   ELSE Received(m)
  OBVIOUS
<1>1. got'[m] = IF m = n THEN got[n] \cup {payload} ELSE got[m]
  BY DEF TypeOK
<1> QED
  BY <1>1 DEF Received

LEMMA Delivering ==
    ASSUME IInv, NEW n \in Nodes, NEW payload, NEW p \in Packets,
           Content(payload) = p, Offered(p),
           got' = [got EXCEPT ![n] = @ \cup {payload}], tx' = tx, pc' = pc, origin' = origin,
           fifo' = [fifo EXCEPT ![n] = Bad], hearing' = [hearing EXCEPT ![n] = NoNode],
           \A m \in Nodes : half'[m] \in {half[m], NoFrame},
           half'[n] # NoFrame => half'[n].pkt # p,
           \A k \in Nodes : tx[k] # NoFrame => tx[k].pkt # p
    PROVE  Claims'
<1>0. TypeOK /\ OriginsKept
  BY DEF IInv, TInv, TypeOK, OriginsKept
<1>1. \A m \in Nodes : Received(m)' = IF m = n THEN Received(n) \cup {p} ELSE Received(m)
  BY <1>0, ReceivedGrows
<1>2. \A m \in Nodes : fifo'[m] \in {fifo[m], Bad} /\ (m = n => fifo'[m] = Bad)
  BY <1>0 DEF TypeOK
<1>3. \A m \in Nodes : Frames(m)' \subseteq Frames(m) /\ Held(m)' \subseteq Held(m)
  BY <1>2 DEF Frames, Held
<1>4. \A h \in Held(n)' : h.pkt # p
  BY <1>2 DEF Held
<1>5. FramesKnown' /\ SeqApart'
  BY <1>0, <1>3, CarriedOver DEF IInv, FramesKnown
<1>6. Apart'
  BY <1>3, Silence DEF IInv, Apart
<1>7. InOrder'
  BY <1>2 DEF IInv, InOrder
<1>8. InFlight'
  BY <1>1, <1>3 DEF IInv, InFlight
<1>9. Done'
  <2>1. \A m \in Nodes : Received(m)' \subseteq {q \in Packets : origin'[q] # NoNode}
    BY <1>1 DEF IInv, Done, Offered
  <2>2. \A m \in Nodes : \A h \in Held(m)' : h.pkt \notin Received(m)'
    BY <1>1, <1>3, <1>4 DEF IInv, Done
  <2> QED
    BY <2>1, <2>2 DEF Done
<1> QED
  BY <1>5, <1>6, <1>7, <1>8, <1>9 DEF Claims

LEMMA Holding ==
    ASSUME IInv, NEW n \in Nodes, fifo[n] # Bad, fifo[n].part # "whole",
           got' = got, tx' = tx, pc' = pc, origin' = origin,
           fifo' = [fifo EXCEPT ![n] = Bad], hearing' = [hearing EXCEPT ![n] = NoNode],
           half' = [half EXCEPT ![n] = fifo[n]]
    PROVE  Claims'
<1>0. TypeOK /\ OriginsKept
  BY DEF IInv, TInv, TypeOK, OriginsKept
<1>1. \A m \in Nodes : /\ Received(m)' = Received(m)
                       /\ fifo'[m] = (IF m = n THEN Bad ELSE fifo[m])
                       /\ half'[m] = (IF m = n THEN fifo[n] ELSE half[m])
  BY <1>0, SameReceived DEF TypeOK
<1>2. \A m \in Nodes : Frames(m)' \subseteq Frames(m) /\ Held(m)' \subseteq Held(m)
  BY <1>1 DEF Frames, Held
<1>3. FramesKnown' /\ SeqApart'
  BY <1>0, <1>2, CarriedOver DEF IInv, FramesKnown
<1>4. Apart'
  BY <1>2, Silence DEF IInv, Apart
<1>5. InOrder'
  BY <1>1 DEF IInv, InOrder
<1>6. InFlight'
  BY <1>1, <1>2 DEF IInv, InFlight
<1>7. Done'
  BY <1>1, <1>2 DEF IInv, Done
<1> QED
  BY <1>3, <1>4, <1>5, <1>6, <1>7 DEF Claims
\* What PacketLink calls Receive, in the terms of this module.
Hands(n, p) ==
    /\ origin[p] \in Nodes \ {n} /\ p \notin Received(n)
    /\ \E payload : /\ Content(payload) = p
                    /\ got' = [got EXCEPT ![n] = @ \cup {payload}]
    /\ packets_in' = [packets_in EXCEPT ![n] = @ + 1]
    /\ UNCHANGED origin

Quiet == UNCHANGED <<origin, got, packets_in>>

LEMMA ReadPendingClaims ==
    ASSUME IInv, NEW n \in Nodes, ReadPending(n)
    PROVE  Claims' /\ (Quiet \/ \E p \in Packets : Hands(n, p))
<1>0. /\ TypeOK /\ OriginsKept /\ origin' = origin /\ tx' = tx /\ pc' = pc
  BY DEF IInv, TInv, TypeOK, OriginsKept, ReadPending
<1>1. CASE Expire(n) \/ ReadNothing(n)
  <2>1. /\ \A m \in Nodes : half'[m] \in {half[m], NoFrame}
        /\ \A m \in Nodes : fifo'[m] \in {fifo[m], Bad}
        /\ got' = got /\ packets_in' = packets_in
    BY <1>0, <1>1 DEF TypeOK, Expire, ReadNothing, Keep, Take, Buffered
  <2>2. hearing' = hearing \/ hearing' = [hearing EXCEPT ![n] = NoNode]
    BY <1>1 DEF Expire, ReadNothing, Take
  <2>3. \A m \in Nodes : hearing'[m] # m
    BY <2>2, Silence DEF IInv, Apart
  <2> QED
    BY <1>0, <2>1, <2>3, Dropping DEF Quiet
<1>2. CASE ReadWhole(n) \/ ReadHalf(n)
  <2>1. /\ fifo[n] # Bad /\ fifo[n] \in Frame /\ fifo[n] \in Held(n) /\ fifo[n] \in Frames(n)
        /\ fifo' = [fifo EXCEPT ![n] = Bad] /\ hearing' = [hearing EXCEPT ![n] = NoNode]
    BY <1>0, <1>2, NotFrames DEF TypeOK, ReadWhole, ReadHalf, Take, Held, Frames
  <2> DEFINE p == fifo[n].pkt
  <2>2. p \in Packets /\ Offered(p) /\ origin[p] \in Nodes \ {n} /\ p \notin Received(n)
    <3>1. p \in Packets
      BY <2>1, FrameParts
    <3>2. Offered(p) /\ origin[p] # n /\ p \notin Received(n)
      BY <2>1 DEF IInv, FramesKnown, Offered, Apart, Done
    <3> QED
      BY <1>0, <3>1, <3>2 DEF TypeOK, Offered
  <2>3. fifo[n].part # "first" => \A k \in Nodes : tx[k] # NoFrame => tx[k].pkt # p
    BY <2>1 DEF IInv, InFlight
  <2>4. CASE ReadWhole(n)
    <3>1. fifo[n].part = "whole" /\ Deliver(n, <<fifo[n]>>) /\ Keep(n)
      BY <2>4 DEF ReadWhole
    <3>2. Content(<<fifo[n]>>) = p
      BY <2>1, <3>1, WholeContent
    <3>3. /\ \A m \in Nodes : half'[m] \in {half[m], NoFrame}
          /\ half'[n] # NoFrame => half'[n] = half[n]
      BY <1>0, <3>1 DEF TypeOK, Keep, Buffered
    <3>4. half'[n] # NoFrame => half'[n].pkt # p
      BY <2>1, <3>1, <3>3 DEF IInv, InOrder
    <3>5. Claims'
      BY <1>0, <2>1, <2>2, <2>3, <3>1, <3>2, <3>3, <3>4, Delivering DEF Deliver
    <3>6. Hands(n, p)
      BY <1>0, <2>2, <3>1, <3>2 DEF Hands, Deliver
    <3> QED
      BY <2>2, <3>5, <3>6
  <2>5. CASE ReadHalf(n)
    <3>1. CASE Buffered(n) # NoFrame /\ Buffered(n).seq = fifo[n].seq
      <4>1. half[n] # NoFrame /\ half[n] \in Frame /\ half[n] \in Frames(n)
            /\ half[n].seq = fifo[n].seq
        BY <1>0, <3>1, NotFrames DEF TypeOK, Buffered, Frames
      <4>2. half[n].pkt = p /\ half[n].part = "first" /\ fifo[n].part = "second"
        BY <2>1, <4>1 DEF IInv, SeqApart, InOrder
      <4>3. Deliver(n, <<half[n], fifo[n]>>) /\ Hold(n, NoFrame)
        BY <2>5, <3>1 DEF ReadHalf
      <4>4. Content(<<half[n], fifo[n]>>) = p
        BY <2>1, <4>1, <4>2, JoinedContent
      <4>5. /\ \A m \in Nodes : half'[m] \in {half[m], NoFrame}
            /\ half'[n] = NoFrame
        BY <1>0, <4>3 DEF TypeOK, Hold
      <4>6. Claims'
        BY <1>0, <2>1, <2>2, <2>3, <4>2, <4>3, <4>4, <4>5, Delivering DEF Deliver
      <4>7. Hands(n, p)
        BY <1>0, <2>2, <4>3, <4>4 DEF Hands, Deliver
      <4> QED
        BY <2>2, <4>6, <4>7
    <3>2. CASE ~(Buffered(n) # NoFrame /\ Buffered(n).seq = fifo[n].seq)
      <4>1. Hold(n, fifo[n]) /\ got' = got /\ packets_in' = packets_in
            /\ fifo[n].part # "whole"
        BY <2>5, <3>2 DEF ReadHalf
      <4>2. Claims'
        BY <1>0, <2>1, <4>1, Holding DEF Hold
      <4> QED
        BY <1>0, <4>1, <4>2 DEF Quiet
    <3> QED
      BY <3>1, <3>2
  <2> QED
    BY <1>2, <2>4, <2>5
<1> QED
  BY <1>1, <1>2 DEF ReadPending

-----------------------------------------------------------------------------
(***************************************************************************)
(* The remaining steps, and the two theorems.                              *)
(***************************************************************************)
\* What PacketLink calls Offer.
Offers(n, p) ==
    /\ origin[p] = NoNode
    /\ origin' = [origin EXCEPT ![p] = n]
    /\ UNCHANGED <<got, packets_in>>

LinkStep ==
    \/ \E n \in Nodes, p \in Packets : Offers(n, p) \/ Hands(n, p)
    \/ Quiet

LEMMA FaultClaims ==
    ASSUME IInv, NEW n \in Nodes, Fault(n) PROVE Claims' /\ Quiet
<1>0. TypeOK /\ OriginsKept /\ got' = got /\ half' = half
  BY DEF IInv, TInv, TypeOK, OriginsKept, Fault, stack
<1>1. fifo' = [fifo EXCEPT ![n] = Bad]
  BY DEF Fault
<1>2. \A m \in Nodes : hearing'[m] # m
  BY NodeAssumption DEF Fault, IInv, Apart
<1>3. \A m \in Nodes :
              /\ tx'[m] = NoFrame \/ (tx'[m] = tx[m] /\ pc'[m] = pc[m])
              /\ half'[m] \in {half[m], NoFrame}
              /\ fifo'[m] \in {fifo[m], Bad}
  <2>1. CASE tx' = tx /\ pc' = pc
    BY <1>0, <1>1, <2>1 DEF TypeOK
  <2>2. CASE mode[n] = "tx"
    <3>1. tx' = [tx EXCEPT ![n] = NoFrame] /\ pc' = [pc EXCEPT ![n] = "idle"]
      BY <2>2 DEF Fault
    <3> QED
      BY <1>0, <1>1, <3>1 DEF TypeOK
  <2> QED
    BY <2>1, <2>2 DEF Fault
<1> QED
  BY <1>0, <1>2, <1>3, Dropping DEF Fault, stack, Quiet

LEMMA TickClaims ==
    ASSUME IInv, Tick PROVE Claims' /\ Quiet
<1>0. TypeOK /\ OriginsKept /\ got' = got /\ half' = half /\ tx' = tx /\ pc' = pc
      /\ fifo' = fifo
  BY DEF IInv, TInv, TypeOK, OriginsKept, Tick, stack
<1>1. \A m \in Nodes : hearing'[m] # m
  BY DEF Tick, Starting, IInv, TInv, Sending, Apart
<1> QED
  BY <1>0, <1>1, Dropping DEF Tick, stack, Quiet

LEMMA NextClaims ==
    ASSUME IInv, FreshSeq, [Next]_vars PROVE IInv' /\ LinkStep
<1> SUFFICES Claims' /\ LinkStep
  BY NextTInv DEF IInv, Claims
<1>1. ASSUME NEW n \in Nodes, NEW p \in Packets, Drop(n, p) PROVE Claims' /\ LinkStep
  <2>1. OriginsKept /\ \A m \in Nodes : hearing'[m] # m
    BY <1>1, OfferKept DEF Drop, radio, IInv, TInv, Apart
  <2>2. Claims'
    BY <1>1, <2>1, Dropping DEF Drop, radio, receiver
  <2>3. Offers(n, p)
    BY <1>1 DEF Drop, Offers
  <2> QED
    BY <2>2, <2>3 DEF LinkStep
<1>2. ASSUME NEW n \in Nodes, NEW p \in Packets, Transmit(n, p) PROVE Claims' /\ LinkStep
  <2>1. Offers(n, p)
    BY <1>2 DEF Transmit, Offers
  <2> QED
    BY <1>2, <2>1, TransmitClaims DEF LinkStep
<1>3. ASSUME NEW n \in Nodes, SecondHalf(n) \/ FrameEnds(n) PROVE Claims' /\ LinkStep
  <2>1. Quiet
    BY <1>3 DEF SecondHalf, FrameEnds, stack, Quiet
  <2> QED
    BY <1>3, <2>1, SecondHalfClaims, FrameEndsClaims DEF LinkStep
<1>4. ASSUME NEW n \in Nodes, Fault(n) \/ ReadPending(n) PROVE Claims' /\ LinkStep
  BY <1>4, FaultClaims, ReadPendingClaims DEF LinkStep
<1>5. CASE UNCHANGED <<radio, fifo, half, stack>>
  <2>1. OriginsKept /\ \A m \in Nodes : hearing'[m] # m
    BY <1>5 DEF radio, stack, OriginsKept, IInv, TInv, TypeOK, Apart
  <2> QED
    BY <1>5, <2>1, Dropping DEF radio, stack, LinkStep, Quiet
<1>6. ASSUME NEW n \in Nodes, Pause(n) \/ Resume(n)
      PROVE  UNCHANGED <<radio, fifo, half, stack>>
  BY <1>6 DEF Pause, Resume, receiver
<1>7. CASE Tick
  BY <1>7, TickClaims DEF LinkStep
<1>8. CASE UNCHANGED vars
  <2>1. UNCHANGED <<radio, fifo, half, stack>>
    BY <1>8 DEF vars, receiver
  <2> QED
    BY <1>5, <2>1
<1> QED
  BY <1>1, <1>2, <1>3, <1>4, <1>5, <1>6, <1>7, <1>8 DEF Next

LEMMA InitClaims == Init => IInv
<1> SUFFICES ASSUME Init PROVE IInv
  OBVIOUS
<1>1. \A n \in Nodes : Frames(n) = {} /\ Held(n) = {} /\ Received(n) = {}
  BY DEF Init, Frames, Held, Received
<1> QED
  BY <1>1, InitTInv, NodeAssumption
  DEF Init, IInv, FramesKnown, SeqApart, Apart, InOrder, InFlight, Done

\* With sequence numbers that are not reused while a frame still carries them,
\* every step of the link is a step of PacketLink or invisible to it: no stack is
\* handed a payload made of two packets, a half, or a packet twice.
THEOREM LinkImplemented == FreshSeq => (Spec => ImplementsLink)
<1> SUFFICES ASSUME FreshSeq PROVE Spec => ImplementsLink
  OBVIOUS
<1>1. Init => Link!Init
  BY DEF Init, Link!Init
<1>2. IInv /\ LinkStep => [Link!Next]_<<origin, [n \in Nodes |-> {Content(payload) : payload \in got[n]}], packets_in>>
  <2> SUFFICES ASSUME IInv, LinkStep
               PROVE  [Link!Next]_<<origin, [n \in Nodes |-> {Content(payload) : payload \in got[n]}], packets_in>>
    OBVIOUS
  <2>0. TypeOK
    BY DEF IInv, TInv
  <2> DEFINE linkGot == [n \in Nodes |-> Received(n)]
  <2>1. linkGot = [n \in Nodes |-> {Content(payload) : payload \in got[n]}]
    BY DEF Received
  <2>2. ASSUME NEW n \in Nodes, NEW p \in Packets, Offers(n, p) PROVE Link!Offer(n, p)
    BY <2>2 DEF Offers, Link!Offer
  <2>3. ASSUME NEW n \in Nodes, NEW p \in Packets, Hands(n, p) PROVE Link!Receive(n, p)
    <3>1. PICK payload : Content(payload) = p /\ got' = [got EXCEPT ![n] = @ \cup {payload}]
      BY <2>3 DEF Hands
    <3>2. \A m \in Nodes : Received(m)' = IF m = n THEN Received(n) \cup {p} ELSE Received(m)
      BY <2>0, <3>1, ReceivedGrows
    <3>3. linkGot' = [linkGot EXCEPT ![n] = @ \cup {p}]
      BY <3>2
    <3>4. [m \in Nodes |-> {Content(x) : x \in got[m]}]'
            = [[m \in Nodes |-> {Content(x) : x \in got[m]}] EXCEPT ![n] = @ \cup {p}]
      BY <3>3 DEF Received
    <3> QED
      BY <2>3, <3>4 DEF Hands, Received, Link!Receive
  <2>4. CASE Quiet
    BY <2>4 DEF Quiet
  <2> QED
    BY <2>2, <2>3, <2>4 DEF LinkStep, Link!Next
<1>3. IInv /\ [Next]_vars => IInv' /\ LinkStep
  BY NextClaims
<1> QED
  BY <1>1, <1>2, <1>3, InitClaims, PTL DEF Spec, ImplementsLink, Link!Spec
-----------------------------------------------------------------------------
(***************************************************************************)
(* The packet counter, for whatever sequence numbers random() picks.       *)
(***************************************************************************)
AiredParts(p) == {f.part : f \in {g \in aired : g.pkt = p}}

\* What is in the air is a part of a packet of its sender whose earlier parts,
\* and no others, have gone out.
Airing ==
    /\ \A f \in aired : origin[f.pkt] # NoNode
    /\ \A n \in Nodes : tx[n] # NoFrame =>
          /\ origin[tx[n].pkt] = n /\ WellFormed(tx[n])
          /\ AiredParts(tx[n].pkt) = IF pc[n] = "gap" \/ tx[n].part = "second"
                                     THEN {"first"} ELSE {}

Sent(n) == {p \in Packets : origin[p] = n /\ Complete(p)}

CInv == TInv /\ Airing /\ PacketsOutHonest

LEMMA InitCInv == Init => CInv
<1> SUFFICES ASSUME Init PROVE CInv
  OBVIOUS
<1>1. Airing
  BY DEF Init, Airing
<1>2. \A n \in Nodes : {p \in Packets : origin[p] = n /\ Complete(p)} = {}
  BY NodeAssumption DEF Init
<1>3. PacketsOutHonest
  BY <1>2, FS_EmptySet DEF Init, PacketsOutHonest
<1> QED
  BY <1>1, <1>3, InitTInv DEF CInv

\* A step that airs nothing counts nothing.
LEMMA NothingAired ==
    ASSUME CInv, OriginsKept, aired' = aired, packets_out' = packets_out,
           \A n \in Nodes : tx'[n] # NoFrame =>
               \/ tx'[n] = tx[n] /\ pc'[n] = pc[n]
               \/ /\ origin'[tx'[n].pkt] = n /\ WellFormed(tx'[n])
                  /\ AiredParts(tx'[n].pkt) =
                        IF pc'[n] = "gap" \/ tx'[n].part = "second" THEN {"first"} ELSE {}
    PROVE  Airing' /\ PacketsOutHonest'
<1>0. TypeOK
  BY DEF CInv, TInv
<1>1. \A p : AiredParts(p)' = AiredParts(p) /\ Complete(p)' = Complete(p)
  BY DEF AiredParts, Complete
<1>2. \A f \in aired : f.pkt \in Packets /\ origin'[f.pkt] # NoNode
                                         /\ origin'[f.pkt] = origin[f.pkt]
  BY <1>0, FrameParts DEF CInv, Airing, TypeOK, OriginsKept
<1>3. Airing'
  <2> SUFFICES ASSUME NEW n \in Nodes, tx'[n] = tx[n], pc'[n] = pc[n], tx[n] # NoFrame
               PROVE  origin'[tx[n].pkt] = n
    BY <1>1, <1>2 DEF CInv, Airing, WellFormed
  <2>1. tx[n] \in Frame
    BY <1>0 DEF TypeOK
  <2>2. origin[tx[n].pkt] = n /\ tx[n].pkt \in Packets
    BY <2>1, FrameParts DEF CInv, Airing
  <2> QED
    BY <2>2, NodeAssumption DEF OriginsKept
<1>4. \A p \in Packets : Complete(p) => origin'[p] = origin[p]
  <2> SUFFICES ASSUME NEW p \in Packets, Complete(p) PROVE origin'[p] = origin[p]
    OBVIOUS
  <2>1. PICK part \in Parts(p) : TRUE
    BY DEF Parts
  <2>2. PICK f \in aired : f.pkt = p
    BY <2>1 DEF Complete
  <2> QED
    BY <1>2, <2>2
<1>5. \A n \in Nodes : {p \in Packets : origin'[p] = n /\ Complete(p)'} = Sent(n)
  <2> SUFFICES ASSUME NEW n \in Nodes, NEW p \in Packets
               PROVE  origin'[p] = n /\ Complete(p)' <=> origin[p] = n /\ Complete(p)
    BY DEF Sent
  <2> QED
    BY <1>1, <1>4
<1> QED
  BY <1>3, <1>5 DEF CInv, PacketsOutHonest, Sent

LEMMA FrameEndsCInv ==
    ASSUME CInv, NEW n \in Nodes, FrameEnds(n) PROVE Airing' /\ PacketsOutHonest'
<1>a. TypeOK /\ pc[n] = "air" /\ tx[n] \in Frame
  BY DEF CInv, TInv, TypeOK, Sending, FrameEnds
<1>b. PICK f \in Frame : f = tx[n]
  BY <1>a
<1>c. PICK p \in Packets : p = f.pkt
  BY FrameParts
<1>0. TypeOK /\ pc[n] = "air" /\ origin' = origin /\ aired' = aired \cup {f} /\ f # NoFrame
  BY <1>a, <1>b, NotFrames DEF FrameEnds
<1>1. /\ origin[p] = n /\ WellFormed(f)
      /\ AiredParts(p) = IF f.part = "second" THEN {"first"} ELSE {}
  BY <1>0, <1>b, <1>c DEF CInv, Airing
<1>2. /\ AiredParts(p)' = AiredParts(p) \cup {f.part}
      /\ \A q : q # p => AiredParts(q)' = AiredParts(q)
  BY <1>0, <1>c DEF AiredParts
<1>3. \A q : q # p => Complete(q)' = Complete(q)
  BY <1>2 DEF Complete, AiredParts
<1>4. ~Complete(p) /\ (Complete(p)' <=> f.part # "first")
  <2>1. f.part \in {"whole", "first", "second"} /\ (f.part = "whole" <=> p \notin Long)
    BY <1>1, <1>c, FrameParts DEF WellFormed
  <2>2. Complete(p) <=> Parts(p) = AiredParts(p)
    BY DEF Complete, AiredParts
  <2>3. Complete(p)' <=> Parts(p) = AiredParts(p) \cup {f.part}
    BY <1>2 DEF Complete, AiredParts
  <2> QED
    BY <1>1, <2>1, <2>2, <2>3 DEF Parts
<1>5. \A m \in Nodes : tx'[m] # NoFrame =>
          \/ m # n /\ tx'[m] = tx[m] /\ pc'[m] = pc[m]
          \/ m = n /\ f.part = "first" /\ tx'[m] = f /\ pc'[m] = "gap"
  BY <1>0, <1>b DEF FrameEnds, TypeOK
<1>6. Airing'
  <2>1. \A g \in aired' : origin'[g.pkt] # NoNode
    BY <1>0, <1>1, <1>c, NodeAssumption DEF CInv, Airing
  <2>2. ASSUME NEW m \in Nodes, NEW g, NEW q, tx'[m] = g, g # NoFrame, q = g.pkt
        PROVE  /\ origin'[q] = m /\ WellFormed(g)
               /\ AiredParts(q)' =
                     IF pc'[m] = "gap" \/ g.part = "second" THEN {"first"} ELSE {}
    <3>1. CASE m = n
      BY <1>0, <1>1, <1>2, <1>5, <1>c, <2>2, <3>1
    <3>2. CASE m # n
      <4>1. tx[m] = g /\ pc'[m] = pc[m]
        BY <1>5, <2>2, <3>2
      <4>2. /\ origin[q] = m /\ WellFormed(g) /\ q # p
            /\ AiredParts(q) = IF pc[m] = "gap" \/ g.part = "second" THEN {"first"} ELSE {}
        BY <1>1, <2>2, <3>2, <4>1 DEF CInv, Airing
      <4> QED
        BY <1>0, <1>2, <4>1, <4>2
    <3> QED
      BY <3>1, <3>2
  <2> QED
    BY <2>1, <2>2 DEF Airing, WellFormed
<1>7. \A m \in Nodes : {q \in Packets : origin'[q] = m /\ Complete(q)'} =
          IF m = n /\ f.part # "first" THEN Sent(m) \cup {p} ELSE Sent(m)
  <2> SUFFICES ASSUME NEW m \in Nodes, NEW q \in Packets
               PROVE  origin[q] = m /\ Complete(q)' <=>
                        \/ origin[q] = m /\ Complete(q)
                        \/ m = n /\ f.part # "first" /\ q = p
    BY <1>0 DEF Sent
  <2>1. CASE q = p
    BY <1>1, <1>4, <2>1
  <2>2. CASE q # p
    BY <1>3, <2>2
  <2> QED
    BY <2>1, <2>2
<1>8. PacketsOutHonest'
  <2> SUFFICES ASSUME NEW m \in Nodes
               PROVE  packets_out'[m] = Cardinality({q \in Packets : origin'[q] = m /\ Complete(q)'})
    BY DEF PacketsOutHonest
  <2>1. packets_out[m] = Cardinality(Sent(m)) /\ IsFiniteSet(Sent(m)) /\ p \notin Sent(m)
    BY <1>4, PacketAssumption, FS_Subset DEF CInv, PacketsOutHonest, Sent
  <2>2. Cardinality(Sent(m) \cup {p}) = packets_out[m] + 1
    BY <2>1, FS_AddElement
  <2>3. packets_out'[m] = IF m = n /\ f.part # "first" THEN packets_out[m] + 1
                          ELSE packets_out[m]
    BY <1>0, <1>b DEF FrameEnds, TypeOK
  <2> QED
    BY <1>7, <2>1, <2>2, <2>3
<1> QED
  BY <1>6, <1>8
LEMMA NextCInv == CInv /\ [Next]_vars => CInv'
<1> SUFFICES ASSUME CInv, [Next]_vars PROVE Airing' /\ PacketsOutHonest'
  BY NextTInv DEF CInv
<1>0. TypeOK /\ Sending
  BY DEF CInv, TInv
<1>1. ASSUME NEW n \in Nodes, NEW p \in Packets, Drop(n, p)
      PROVE  Airing' /\ PacketsOutHonest'
  <2>1. OriginsKept
    BY <1>0, <1>1, OfferKept DEF Drop
  <2> QED
    BY <1>1, <2>1, NothingAired DEF Drop, radio
<1>2. ASSUME NEW n \in Nodes, NEW p \in Packets, Transmit(n, p)
      PROVE  Airing' /\ PacketsOutHonest'
  <2>1. OriginsKept /\ origin'[p] = n /\ origin[p] = NoNode /\ aired' = aired
        /\ packets_out' = packets_out
    BY <1>0, <1>2, OfferKept DEF Transmit
  <2>2. PICK s \in Seqs : Key(n, [pkt |-> p, seq |-> s,
                                  part |-> IF p \in Long THEN "first" ELSE "whole"])
    BY <1>2 DEF Transmit
  <2>3. PICK f : f = [pkt |-> p, seq |-> s, part |-> IF p \in Long THEN "first" ELSE "whole"]
    OBVIOUS
  <2>4. f.pkt = p /\ WellFormed(f) /\ f.part # "second" /\ Key(n, f)
    BY <2>2, <2>3 DEF WellFormed
  <2>5. AiredParts(p) = {}
    BY <2>1 DEF CInv, Airing, AiredParts
  <2>6. \/ tx' = [tx EXCEPT ![n] = f] /\ pc' = [pc EXCEPT ![n] = "air"]
        \/ tx' = [tx EXCEPT ![n] = NoFrame] /\ pc' = [pc EXCEPT ![n] = "idle"]
    BY <2>4 DEF Key
  <2>7. \A m \in Nodes : tx'[m] # NoFrame =>
            \/ tx'[m] = tx[m] /\ pc'[m] = pc[m]
            \/ m = n /\ tx'[m] = f /\ pc'[m] = "air"
    BY <1>0, <2>6 DEF TypeOK
  <2> QED
    BY <2>1, <2>4, <2>5, <2>7, NothingAired
<1>3. ASSUME NEW n \in Nodes, SecondHalf(n) PROVE Airing' /\ PacketsOutHonest'
  <2>1. OriginsKept /\ origin' = origin /\ aired' = aired /\ packets_out' = packets_out
        /\ pc[n] = "gap" /\ tx[n] \in Frame /\ tx[n].part = "first" /\ tx[n] # NoFrame
    BY <1>0, <1>3, NotFrames DEF TypeOK, OriginsKept, Sending, SecondHalf, stack
  <2>2. PICK f : f = [tx[n] EXCEPT !.part = "second"]
    OBVIOUS
  <2>3. f.pkt = tx[n].pkt /\ f.part = "second" /\ Key(n, f)
    BY <1>3, <2>1, <2>2, FrameParts DEF SecondHalf
  <2>4. origin'[f.pkt] = n /\ WellFormed(f) /\ AiredParts(f.pkt) = {"first"}
    BY <2>1, <2>3 DEF CInv, Airing, WellFormed
  <2>5. \/ tx' = [tx EXCEPT ![n] = f] /\ pc' = [pc EXCEPT ![n] = "air"]
        \/ tx' = [tx EXCEPT ![n] = NoFrame] /\ pc' = [pc EXCEPT ![n] = "idle"]
    BY <2>3 DEF Key
  <2>6. \A m \in Nodes : tx'[m] # NoFrame =>
            \/ tx'[m] = tx[m] /\ pc'[m] = pc[m]
            \/ m = n /\ tx'[m] = f /\ pc'[m] = "air"
    BY <1>0, <2>5 DEF TypeOK
  <2> QED
    BY <2>1, <2>3, <2>4, <2>6, NothingAired
<1>4. ASSUME NEW n \in Nodes, Fault(n) PROVE Airing' /\ PacketsOutHonest'
  <2>1. OriginsKept /\ aired' = aired /\ packets_out' = packets_out
    BY <1>0, <1>4 DEF TypeOK, OriginsKept, Fault, stack
  <2>2. \A m \in Nodes : tx'[m] # NoFrame => tx'[m] = tx[m] /\ pc'[m] = pc[m]
    <3>1. CASE mode[n] = "tx"
      <4>1. tx' = [tx EXCEPT ![n] = NoFrame] /\ pc' = [pc EXCEPT ![n] = "idle"]
        BY <1>4, <3>1 DEF Fault
      <4> QED
        BY <1>0, <4>1 DEF TypeOK
    <3>2. CASE mode[n] # "tx"
      BY <1>4, <3>2 DEF Fault
    <3> QED
      BY <3>1, <3>2
  <2> QED
    BY <2>1, <2>2, NothingAired
<1>5. CASE UNCHANGED <<pc, tx, origin, aired, packets_out>>
  <2>1. OriginsKept
    BY <1>0, <1>5 DEF TypeOK, OriginsKept
  <2> QED
    BY <1>5, <2>1, NothingAired
<1>6. ASSUME NEW n \in Nodes, ReadPending(n) \/ Pause(n) \/ Resume(n)
      PROVE  UNCHANGED <<pc, tx, origin, aired, packets_out>>
  BY <1>6 DEF ReadPending, Pause, Resume, radio, stack
<1>7. Tick \/ UNCHANGED vars => UNCHANGED <<pc, tx, origin, aired, packets_out>>
  BY DEF Tick, vars, radio, stack
<1> QED
  BY <1>1, <1>2, <1>3, <1>4, <1>5, <1>6, <1>7, FrameEndsCInv DEF Next

\* s_packets_out is the number of packets that went out complete, whatever faults
\* cut transmissions short and whatever was dropped before the radio.
THEOREM CounterHonest == Spec => []PacketsOutHonest
<1>1. CInv => PacketsOutHonest
  BY DEF CInv
<1> QED
  BY InitCInv, NextCInv, <1>1, PTL DEF Spec
-----------------------------------------------------------------------------
(***************************************************************************)
(* Two halves in a row: when the second is read the first is still there.  *)
(***************************************************************************)

\* A node has the flag for every frame in its buffer, hears nothing while it
\* sends, and neither a frame nor the gap before the second takes longer than
\* it should.
Listening ==
    \A n \in Nodes :
        /\ fifo[n] # Bad => rxFlag[n]
        /\ pc[n] = "air" => fifo[n] = Bad /\ hearing[n] = NoNode /\ left[n] <= Airtime
        /\ pc[n] = "gap" => left[n] <= MaxGap

\* The second half that goes with f.
Other(f) == [f EXCEPT !.part = "second"]

\* The packet the last half is of is known, and its first half is not on the
\* air any more.  A pause makes a node forget it.
LastKnown ==
    \A n \in Nodes : last[n] # NoFrame =>
        /\ ~paused[n]
        /\ origin[last[n].pkt] # NoNode
        /\ \A k \in Nodes : tx[k] # NoFrame /\ tx[k].pkt = last[n].pkt =>
              pc[k] = "gap" \/ tx[k].part = "second"

\* The first half is in the buffer, and has been there no longer than its sender
\* has been busy with the second.
Waiting(n) ==
    /\ half[n] = last[n]
    /\ \A k \in Nodes : tx[k] # NoFrame /\ tx[k].pkt = last[n].pkt =>
          /\ pc[k] = "gap" => age[n] + left[k] <= MaxGap
          /\ pc[k] = "air" => age[n] + left[k] <= MaxGap + Airtime
    /\ fifo[n] = Other(last[n]) /\ pc[n] = "idle" => age[n] <= MaxGap + Airtime

\* The second half will not come any more.
Over(n) ==
    /\ fifo[n] # Other(last[n])
    /\ \A k \in Nodes : tx[k] # NoFrame => tx[k].pkt # last[n].pkt

Timely ==
    \A n \in Nodes : last[n] # NoFrame /\ last[n].part = "first" => Waiting(n) \/ Over(n)

JInv == IInv /\ Listening /\ LastKnown /\ Timely

LEMMA JTypes ==
    ASSUME JInv
    PROVE  /\ TypeOK /\ Sending /\ Airtime \in Nat /\ MaxGap \in Nat /\ Timeout \in Nat
           /\ \A n \in Nodes : /\ age[n] \in Nat /\ left[n] \in Nat
                               /\ last[n] \in Frame \cup {NoFrame}
                               /\ tx[n] \in Frame \cup {NoFrame}
           /\ \A f \in Frame : /\ Other(f) \in Frame /\ Other(f) # Bad /\ f # NoFrame
                               /\ Other(f).pkt = f.pkt /\ Other(f).seq = f.seq
                               /\ Other(f).part = "second" /\ f.pkt \in Packets
<1>1. TypeOK /\ Sending /\ Airtime \in Nat /\ MaxGap \in Nat /\ Timeout \in Nat
  BY TimeAssumption, TimeoutType DEF JInv, IInv, TInv
<1>2. \A n \in Nodes : /\ age[n] \in Nat /\ left[n] \in Nat
                       /\ last[n] \in Frame \cup {NoFrame}
                       /\ tx[n] \in Frame \cup {NoFrame}
  BY <1>1 DEF TypeOK
<1> QED
  BY <1>1, <1>2, FrameParts, NotFrames DEF Other

\* Steps that read nothing and end no frame: a transmission is given up, goes on,
\* turns to its second half, or is of a packet offered only now.
LEMMA NothingRead ==
    ASSUME JInv, OriginsKept, half' = half, age' = age,
           \A m \in Nodes :
               /\ last'[m] \in {last[m], NoFrame}
               /\ last'[m] # NoFrame => paused'[m] = paused[m]
               /\ fifo'[m] \in {fifo[m], Bad}
               /\ pc[m] # "idle" /\ pc'[m] = "idle" => fifo'[m] = Bad,
           \A k \in Nodes :
               \/ tx'[k] = NoFrame
               \/ tx'[k] = tx[k] /\ pc'[k] = pc[k] /\ left'[k] = left[k]
               \/ /\ pc[k] = "gap" /\ pc'[k] = "air"
                  /\ tx'[k] = Other(tx[k]) /\ left'[k] \in 1 .. Airtime
               \/ tx'[k].pkt \in Packets /\ origin[tx'[k].pkt] = NoNode
    PROVE  LastKnown' /\ Timely'
<1>0. \A m \in Nodes : last'[m] # NoFrame =>
          /\ last'[m] = last[m] /\ last[m] \in Frame /\ last[m].pkt \in Packets
          /\ origin[last[m].pkt] # NoNode /\ origin'[last[m].pkt] # NoNode
          /\ ~paused[m]
  BY JTypes DEF JInv, LastKnown, OriginsKept
<1>1. \A m, k \in Nodes :
          last'[m] # NoFrame /\ tx'[k] # NoFrame /\ tx'[k].pkt = last[m].pkt =>
             /\ tx[k] # NoFrame /\ tx[k].pkt = last[m].pkt
             /\ \/ tx'[k] = tx[k] /\ pc'[k] = pc[k] /\ left'[k] = left[k]
                \/ /\ pc[k] = "gap" /\ pc'[k] = "air"
                   /\ tx'[k] = Other(tx[k]) /\ left'[k] \in 1 .. Airtime
  BY <1>0, JTypes DEF Sending
<1>2. LastKnown'
  <2> SUFFICES ASSUME NEW m \in Nodes, last'[m] # NoFrame
               PROVE  /\ ~paused'[m] /\ origin'[last'[m].pkt] # NoNode
                      /\ \A k \in Nodes : tx'[k] # NoFrame /\ tx'[k].pkt = last'[m].pkt =>
                            pc'[k] = "gap" \/ tx'[k].part = "second"
    BY DEF LastKnown
  <2>1. \A k \in Nodes : tx[k] # NoFrame /\ tx[k].pkt = last[m].pkt =>
            pc[k] = "gap" \/ tx[k].part = "second"
    BY <1>0 DEF JInv, LastKnown
  <2> QED
    BY <1>0, <1>1, <2>1, JTypes
<1>3. Timely'
  <2> SUFFICES ASSUME NEW m \in Nodes, last'[m] # NoFrame, last'[m].part = "first"
               PROVE  Waiting(m)' \/ Over(m)'
    BY DEF Timely
  <2>1. last'[m] = last[m] /\ (Waiting(m) \/ Over(m))
    BY <1>0 DEF JInv, Timely
  <2>2. fifo'[m] = Other(last[m]) => fifo[m] = Other(last[m])
                                     /\ (pc'[m] = "idle" => pc[m] = "idle")
    BY <1>0, JTypes DEF TypeOK
  <2>3. CASE Waiting(m)
    <3>1. \A k \in Nodes : tx'[k] # NoFrame /\ tx'[k].pkt = last[m].pkt =>
              /\ pc'[k] = "gap" => age[m] + left'[k] <= MaxGap
              /\ pc'[k] = "air" => age[m] + left'[k] <= MaxGap + Airtime
      BY <1>1, <2>1, <2>3, JTypes DEF Waiting
    <3> QED
      BY <2>1, <2>2, <2>3, <3>1 DEF Waiting, Other
  <2>4. CASE Over(m)
    <3>1. \A k \in Nodes : tx'[k] # NoFrame => tx'[k].pkt # last[m].pkt
      BY <1>1, <2>1, <2>4 DEF Over
    <3> QED
      BY <2>1, <2>2, <2>4, <3>1 DEF Over, Other
  <2> QED
    BY <2>1, <2>3, <2>4
<1> QED
  BY <1>2, <1>3

LEMMA KeyListening ==
    ASSUME JInv, NEW n \in Nodes, NEW f \in Frame, Key(n, f)
    PROVE  Listening'
<1>1. /\ fifo' = [fifo EXCEPT ![n] = Bad] /\ hearing' = [hearing EXCEPT ![n] = NoNode]
  BY DEF Key
<1>2. CASE mode' = [mode EXCEPT ![n] = "tx"] /\ pc' = [pc EXCEPT ![n] = "air"]
  <2>1. left' = [left EXCEPT ![n] = FrameTime(f)] /\ rxFlag' = rxFlag
    BY <1>2, JTypes DEF Key, TypeOK
  <2> QED
    BY <1>1, <1>2, <2>1, JTypes, FrameTimes DEF TypeOK, JInv, Listening
<1>3. CASE pc' = [pc EXCEPT ![n] = "idle"]
  <2>1. left' = [left EXCEPT ![n] = 0] /\ rxFlag' = [rxFlag EXCEPT ![n] = FALSE]
    BY <1>3, JTypes DEF Key, TypeOK
  <2> QED
    BY <1>1, <1>3, <2>1, JTypes DEF TypeOK, JInv, Listening
<1> QED
  BY <1>2, <1>3 DEF Key

\* What Key does, for NothingRead.
LEMMA KeyKeeps ==
    ASSUME JInv, NEW n \in Nodes, NEW f \in Frame, Key(n, f)
    PROVE  /\ \A m \in Nodes : /\ fifo'[m] \in {fifo[m], Bad}
                               /\ pc[m] # "idle" /\ pc'[m] = "idle" => fifo'[m] = Bad
           /\ \A k \in Nodes \ {n} : tx'[k] = tx[k] /\ pc'[k] = pc[k] /\ left'[k] = left[k]
           /\ \/ tx'[n] = NoFrame
              \/ tx'[n] = f /\ pc'[n] = "air" /\ left'[n] \in 1 .. Airtime
<1>1. fifo' = [fifo EXCEPT ![n] = Bad]
  BY DEF Key
<1>2. \/ /\ tx' = [tx EXCEPT ![n] = f] /\ pc' = [pc EXCEPT ![n] = "air"]
         /\ left' = [left EXCEPT ![n] = FrameTime(f)]
      \/ /\ tx' = [tx EXCEPT ![n] = NoFrame] /\ pc' = [pc EXCEPT ![n] = "idle"]
         /\ left' = [left EXCEPT ![n] = 0]
  BY DEF Key
<1> QED
  BY <1>1, <1>2, JTypes, FrameTimes DEF TypeOK

LEMMA TransmitJoins ==
    ASSUME JInv, NEW n \in Nodes, NEW p \in Packets, Transmit(n, p)
    PROVE  Listening' /\ LastKnown' /\ Timely'
<1>1. PICK s \in Seqs : Key(n, [pkt |-> p, seq |-> s,
                                part |-> IF p \in Long THEN "first" ELSE "whole"])
  BY DEF Transmit
<1>2. PICK f \in Frame : f.pkt = p /\ Key(n, f)
  <2>1. [pkt |-> p, seq |-> s, part |-> IF p \in Long THEN "first" ELSE "whole"] \in Frame
    BY DEF Frame
  <2> QED
    BY <1>1, <2>1
<1>3. OriginsKept /\ origin[p] = NoNode
  BY JTypes, OfferKept DEF Transmit
<1>4. half' = half /\ age' = age /\ last' = last /\ paused' = paused
  BY DEF Transmit, bounds
<1> QED
  BY <1>2, <1>3, <1>4, KeyListening, KeyKeeps, NothingRead

LEMMA SecondHalfJoins ==
    ASSUME JInv, NEW n \in Nodes, SecondHalf(n)
    PROVE  Listening' /\ LastKnown' /\ Timely'
<1>1. tx[n] \in Frame /\ Key(n, Other(tx[n])) /\ pc[n] = "gap" /\ Other(tx[n]) \in Frame
  BY JTypes DEF Sending, SecondHalf, Other
<1>2. OriginsKept /\ half' = half /\ age' = age /\ last' = last /\ paused' = paused
  BY JTypes DEF SecondHalf, stack, bounds, OriginsKept, TypeOK
<1> QED
  BY <1>1, <1>2, KeyListening, KeyKeeps, NothingRead

LEMMA FaultJoins ==
    ASSUME JInv, NEW n \in Nodes, Fault(n)
    PROVE  Listening' /\ LastKnown' /\ Timely'
<1>1. OriginsKept /\ half' = half /\ age' = age /\ last' = last /\ paused' = paused
  BY JTypes DEF Fault, stack, OriginsKept, TypeOK
<1>2. \A m \in Nodes : fifo'[m] = IF m = n THEN Bad ELSE fifo[m]
  BY JTypes DEF Fault, TypeOK
<1>3. \A m \in Nodes \ {n} : /\ tx'[m] = tx[m] /\ pc'[m] = pc[m]
                             /\ left'[m] = left[m] /\ rxFlag'[m] = rxFlag[m]
  BY JTypes DEF Fault, TypeOK
<1>4. \/ tx'[n] = NoFrame /\ pc'[n] = "idle"
      \/ tx'[n] = tx[n] /\ pc'[n] = pc[n] /\ left'[n] = left[n]
  BY JTypes DEF Fault, TypeOK
<1>5. \A m \in Nodes : hearing'[m] \in {hearing[m], NoNode}
  BY JTypes DEF Fault, TypeOK
<1>6. Listening'
  BY <1>2, <1>3, <1>4, <1>5 DEF JInv, Listening
<1> QED
  BY <1>1, <1>2, <1>3, <1>4, <1>6, NothingRead

\* What the end of n's frame f does to the nodes that hear it and to those that
\* do not.
LEMMA FrameEndsHeard ==
    ASSUME JInv, NEW n \in Nodes, FrameEnds(n)
    PROVE  /\ tx[n] \in Frame /\ pc[n] = "air" /\ left[n] = 0
           /\ \A m \in Nodes : \/ fifo'[m] = fifo[m] /\ hearing[m] # n
                               \/ fifo'[m] \in {Bad, tx[n]} /\ hearing[m] = n
           /\ \A m \in Nodes : rxFlag'[m] = IF m = n THEN tx[n].part = "first"
                                            ELSE rxFlag[m] \/ hearing[m] = n
           /\ \A m \in Nodes : hearing'[m] = IF hearing[m] = n THEN NoNode ELSE hearing[m]
           /\ \A k \in Nodes \ {n} : tx'[k] = tx[k] /\ pc'[k] = pc[k] /\ left'[k] = left[k]
           /\ IF tx[n].part = "first"
              THEN tx'[n] = tx[n] /\ pc'[n] = "gap" /\ left'[n] = MaxGap
              ELSE tx'[n] = NoFrame /\ pc'[n] = "idle"
           /\ UNCHANGED <<half, age, last, origin, paused>>
<1>0. TypeOK /\ pc[n] = "air" /\ left[n] = 0 /\ tx[n] \in Frame
  BY JTypes DEF FrameEnds, TypeOK, Sending
<1>1. PICK bad \in SUBSET {m \in Nodes : hearing[m] = n} :
          fifo' = [m \in Nodes |-> IF m \in bad THEN Bad
                                   ELSE IF m \in {l \in Nodes : hearing[l] = n} THEN tx[n]
                                   ELSE fifo[m]]
  BY DEF FrameEnds, Hand
<1>2. rxFlag' = [m \in Nodes |-> IF m = n THEN tx[n].part = "first"
                                 ELSE rxFlag[m] \/ m \in {l \in Nodes : hearing[l] = n}]
  BY DEF FrameEnds, Hand
<1>3. hearing' = [m \in Nodes |-> IF m \in {l \in Nodes : hearing[l] = n} THEN NoNode
                                  ELSE hearing[m]]
  BY DEF FrameEnds, Hand
<1>4. UNCHANGED <<half, age, last, origin, paused>>
  BY DEF FrameEnds, bounds
<1>5. \/ /\ tx[n].part = "first" /\ tx' = tx
         /\ pc' = [pc EXCEPT ![n] = "gap"] /\ left' = [left EXCEPT ![n] = MaxGap]
      \/ /\ tx[n].part # "first" /\ tx' = [tx EXCEPT ![n] = NoFrame]
         /\ pc' = [pc EXCEPT ![n] = "idle"] /\ left' = left
  BY DEF FrameEnds
<1>6. /\ \A k \in Nodes \ {n} : tx'[k] = tx[k] /\ pc'[k] = pc[k] /\ left'[k] = left[k]
      /\ IF tx[n].part = "first"
         THEN tx'[n] = tx[n] /\ pc'[n] = "gap" /\ left'[n] = MaxGap
         ELSE tx'[n] = NoFrame /\ pc'[n] = "idle"
  BY <1>0, <1>5 DEF TypeOK
<1> QED
  BY <1>0, <1>1, <1>2, <1>3, <1>4, <1>6

LEMMA FrameEndsJoins ==
    ASSUME JInv, NEW n \in Nodes, FrameEnds(n)
    PROVE  Listening' /\ LastKnown' /\ Timely'
<1> DEFINE f == tx[n]
<1>0. f \in Frame /\ f # NoFrame /\ f # Bad /\ pc[n] = "air" /\ left[n] = 0
  BY JTypes, NotFrames, FrameEndsHeard
<1>1. Listening'
  <2> SUFFICES ASSUME NEW m \in Nodes
               PROVE  /\ fifo'[m] # Bad => rxFlag'[m]
                      /\ pc'[m] = "air" => fifo'[m] = Bad /\ hearing'[m] = NoNode
                                           /\ left'[m] <= Airtime
                      /\ pc'[m] = "gap" => left'[m] <= MaxGap
    BY DEF Listening
  <2>1. fifo[n] = Bad /\ hearing[n] = NoNode /\ n # NoNode
    BY <1>0, NodeAssumption DEF JInv, Listening
  <2>2. CASE m = n
    <3>1. fifo'[n] = Bad /\ pc'[n] # "air"
      BY <2>1, FrameEndsHeard
    <3>2. pc'[n] = "gap" => left'[n] <= MaxGap
      BY FrameEndsHeard, TimeAssumption
    <3> QED
      BY <2>2, <3>1, <3>2
  <2>3. CASE m # n
    <3>1. /\ fifo[m] # Bad => rxFlag[m]
          /\ pc[m] = "air" => fifo[m] = Bad /\ hearing[m] = NoNode /\ left[m] <= Airtime
          /\ pc[m] = "gap" => left[m] <= MaxGap
      BY DEF JInv, Listening
    <3>2. pc'[m] = pc[m] /\ left'[m] = left[m]
      BY <2>3, FrameEndsHeard
    <3>3. rxFlag'[m] = (rxFlag[m] \/ hearing[m] = n)
      BY <2>3, FrameEndsHeard
    <3>4. hearing'[m] = (IF hearing[m] = n THEN NoNode ELSE hearing[m])
      BY FrameEndsHeard
    <3>5. fifo'[m] # fifo[m] => hearing[m] = n
      BY FrameEndsHeard
    <3> QED
      BY <2>1, <3>1, <3>2, <3>3, <3>4, <3>5
  <2> QED
    BY <2>2, <2>3
<1>2. \A m \in Nodes : last[m] # NoFrame /\ f.pkt = last[m].pkt => f.part = "second"
  BY <1>0 DEF JInv, LastKnown
<1>3. \A m, k \in Nodes :
          last[m] # NoFrame /\ tx'[k] # NoFrame /\ tx'[k].pkt = last[m].pkt =>
             k # n /\ tx'[k] = tx[k] /\ pc'[k] = pc[k] /\ left'[k] = left[k]
  BY <1>2, FrameEndsHeard
<1>4. LastKnown'
  BY <1>3, FrameEndsHeard DEF JInv, LastKnown
<1>5. Timely'
  <2> SUFFICES ASSUME NEW m \in Nodes, last[m] # NoFrame, last[m].part = "first"
               PROVE  Waiting(m)' \/ Over(m)'
    BY FrameEndsHeard DEF Timely
  <2>0. last'[m] = last[m] /\ half'[m] = half[m] /\ age'[m] = age[m]
    BY FrameEndsHeard
  <2>1. last[m] \in Frame /\ Other(last[m]) # Bad /\ Other(last[m]).pkt = last[m].pkt
    BY JTypes
  <2>2. CASE Waiting(m)
    <3>1. \A k \in Nodes : tx'[k] # NoFrame /\ tx'[k].pkt = last[m].pkt =>
              /\ pc'[k] = "gap" => age[m] + left'[k] <= MaxGap
              /\ pc'[k] = "air" => age[m] + left'[k] <= MaxGap + Airtime
      BY <1>3, <2>2 DEF Waiting
    <3>2. ASSUME fifo'[m] = Other(last[m]), pc'[m] = "idle"
          PROVE  age[m] <= MaxGap + Airtime
      <4>1. CASE fifo'[m] = fifo[m] /\ hearing[m] # n
        <5>1. m # n
          BY <1>0, <2>1, <3>2, <4>1 DEF JInv, Listening
        <5> QED
          BY <2>2, <3>2, <4>1, <5>1, FrameEndsHeard DEF Waiting
      <4>2. CASE fifo'[m] = f
        <5>1. age[m] + left[n] <= MaxGap + Airtime
          BY <1>0, <2>1, <2>2, <3>2, <4>2 DEF Waiting
        <5> QED
          BY <1>0, <5>1, JTypes
      <4> QED
        BY <2>1, <3>2, <4>1, <4>2, FrameEndsHeard
    <3> QED
      BY <2>0, <2>2, <3>1, <3>2 DEF Waiting, Other
  <2>3. CASE Over(m)
    <3>1. f.pkt # last[m].pkt /\ fifo'[m] # Other(last[m])
      BY <1>0, <2>1, <2>3, FrameEndsHeard DEF Over
    <3>2. \A k \in Nodes : tx'[k] # NoFrame => tx'[k].pkt # last[m].pkt
      BY <1>3, <2>3 DEF Over
    <3> QED
      BY <2>0, <3>1, <3>2 DEF Over, Other
  <2> QED
    BY <2>2, <2>3 DEF JInv, Timely
<1> QED
  BY <1>1, <1>4, <1>5

\* Time that passes while a half waits is time its sender is busy: nobody who has
\* the second half in hand lets a tick pass without reading it.
LEMMA TickJoins ==
    ASSUME JInv, Prompt, Tick PROVE Listening' /\ LastKnown' /\ Timely'
<1>0. UNCHANGED <<pc, tx, mode, fifo, rxFlag, half, last, origin, paused>>
  BY DEF Tick, stack, bounds
<1>1. \A m \in Nodes : /\ left'[m] = IF left[m] = 0 THEN 0 ELSE left[m] - 1
                       /\ pc[m] # "idle" => left[m] > 0
  BY DEF Tick
<1>2. \A m \in Nodes : half[m] # NoFrame => age'[m] \in {age[m], age[m] + 1}
  BY DEF Tick
<1>3. Listening'
  <2>1. \A m \in Nodes : pc[m] = "air" => hearing'[m] = hearing[m]
    BY JTypes DEF Tick, Sending
  <2> QED
    BY <1>0, <1>1, <2>1, JTypes DEF JInv, Listening
<1>4. LastKnown'
  BY <1>0 DEF JInv, LastKnown
<1>5. Timely'
  <2> SUFFICES ASSUME NEW m \in Nodes, last[m] # NoFrame, last[m].part = "first"
               PROVE  Waiting(m)' \/ Over(m)'
    BY <1>0 DEF Timely
  <2>1. CASE Waiting(m)
    <3>1. age'[m] \in {age[m], age[m] + 1} /\ age[m] \in Nat
      BY <1>2, <2>1, JTypes DEF Waiting
    <3>2. \A k \in Nodes : tx[k] # NoFrame /\ tx[k].pkt = last[m].pkt =>
              /\ pc[k] = "gap" => age'[m] + left'[k] <= MaxGap
              /\ pc[k] = "air" => age'[m] + left'[k] <= MaxGap + Airtime
      <4> SUFFICES ASSUME NEW k \in Nodes, tx[k] # NoFrame, tx[k].pkt = last[m].pkt,
                          pc[k] # "idle"
                   PROVE  /\ pc[k] = "gap" => age'[m] + left'[k] <= MaxGap
                          /\ pc[k] = "air" => age'[m] + left'[k] <= MaxGap + Airtime
        OBVIOUS
      <4>1. left'[k] = left[k] - 1 /\ left[k] \in Nat
        BY <1>1, JTypes
      <4> QED
        BY <2>1, <3>1, <4>1, JTypes DEF Waiting
    <3>3. ~(fifo[m] = Other(last[m]) /\ pc[m] = "idle")
      <4>1. last[m] \in Frame /\ Other(last[m]) # Bad /\ ~paused[m]
        BY JTypes DEF JInv, LastKnown
      <4> QED
        BY <4>1 DEF Tick, InLoop, JInv, Listening
    <3> QED
      BY <1>0, <2>1, <3>2, <3>3 DEF Waiting, Other
  <2>2. CASE Over(m)
    BY <1>0, <2>2 DEF Over, Other
  <2> QED
    BY <2>1, <2>2 DEF JInv, Timely
<1> QED
  BY <1>3, <1>4, <1>5

\* A deadline that covers the gap and a frame, as it does unless the frame takes
\* longer than the upper limit of s_split_timeout_ms.
Covered == Airtime + MaxGap <= Timeout

\* What read_pending() does to n, and that it leaves the other nodes alone.
LEMMA ReadPendingEffect ==
    ASSUME JInv, NEW n \in Nodes, ReadPending(n)
    PROVE  /\ UNCHANGED <<pc, tx, left, origin, paused>> /\ pc[n] = "idle" /\ ~paused[n]
           /\ \A m \in Nodes \ {n} : /\ half'[m] = half[m] /\ age'[m] = age[m]
                                     /\ last'[m] = last[m] /\ fifo'[m] = fifo[m]
                                     /\ hearing'[m] = hearing[m] /\ rxFlag'[m] = rxFlag[m]
           /\ hearing'[n] \in {hearing[n], NoNode}
           /\ \/ fifo'[n] = Bad
              \/ fifo'[n] = fifo[n] /\ fifo[n] = Bad
           /\ \/ /\ last'[n] = last[n] /\ age'[n] = age[n] /\ half'[n] = Buffered(n)
                 /\ fifo[n] = Bad \/ fifo[n].part = "whole"
              \/ /\ fifo[n] # Bad /\ fifo[n].part # "whole" /\ last'[n] = fifo[n]
                 /\ IF Buffered(n) # NoFrame /\ Buffered(n).seq = fifo[n].seq
                    THEN <<half[n], fifo[n]>> \in got'[n]
                    ELSE half'[n] = fifo[n] /\ age'[n] = 0
<1>0. TypeOK /\ UNCHANGED <<pc, tx, left, origin, paused>> /\ pc[n] = "idle" /\ ~paused[n]
  BY JTypes DEF ReadPending, InLoop, bounds
<1>1. CASE Expire(n)
  <2>1. fifo[n] = Bad
    BY <1>1 DEF Expire, JInv, Listening
  <2> QED
    BY <1>0, <1>1, <2>1 DEF Expire, Keep, TypeOK
<1>2. CASE ReadNothing(n) \/ ReadWhole(n)
  <2>1. /\ Take(n) /\ Keep(n) /\ last' = last
        /\ fifo[n] = Bad \/ fifo[n].part = "whole"
    BY <1>2 DEF ReadNothing, ReadWhole
  <2> QED
    BY <1>0, <2>1 DEF Take, Keep, TypeOK
<1>3. CASE ReadHalf(n)
  <2>1. Take(n) /\ fifo[n] # Bad /\ fifo[n].part # "whole" /\ last' = [last EXCEPT ![n] = fifo[n]]
    BY <1>3 DEF ReadHalf
  <2>2. CASE Buffered(n) # NoFrame /\ Buffered(n).seq = fifo[n].seq
    <3>1. /\ got' = [got EXCEPT ![n] = @ \cup {<<half[n], fifo[n]>>}]
          /\ half' = [half EXCEPT ![n] = NoFrame] /\ age' = [age EXCEPT ![n] = 0]
      BY <1>3, <2>2 DEF ReadHalf, Deliver, Hold
    <3> QED
      BY <1>0, <2>1, <2>2, <3>1 DEF Take, TypeOK
  <2>3. CASE ~(Buffered(n) # NoFrame /\ Buffered(n).seq = fifo[n].seq)
    <3>1. half' = [half EXCEPT ![n] = fifo[n]] /\ age' = [age EXCEPT ![n] = 0]
      BY <1>3, <2>3 DEF ReadHalf, Hold
    <3> QED
      BY <1>0, <2>1, <2>3, <3>1 DEF Take, TypeOK
  <2> QED
    BY <2>2, <2>3
<1> QED
  BY <1>1, <1>2, <1>3 DEF ReadPending

\* The half a node may let go is one whose second half will not come, and one
\* that is first buffered is of a packet whose sender has just finished with it.
LEMMA ReadPendingJoins ==
    ASSUME JInv, Covered, NEW n \in Nodes, ReadPending(n)
    PROVE  Listening' /\ LastKnown' /\ Timely'
<1>0. UNCHANGED <<pc, tx, left, origin, paused>> /\ pc[n] = "idle" /\ ~paused[n]
  BY ReadPendingEffect
<1>1. fifo'[n] = Bad
  BY ReadPendingEffect
<1>2. Listening'
  <2>1. \A m \in Nodes : hearing'[m] \in {hearing[m], NoNode} /\ fifo'[m] \in {fifo[m], Bad}
                         /\ (m # n => rxFlag'[m] = rxFlag[m])
    BY ReadPendingEffect
  <2> QED
    BY <1>0, <1>1, <2>1 DEF JInv, Listening
<1>3. ASSUME last'[n] # last[n]
      PROVE  /\ fifo[n] \in Frame /\ last'[n] = fifo[n] /\ fifo[n].part # "whole"
             /\ origin[fifo[n].pkt] # NoNode
             /\ \A k \in Nodes : tx[k] # NoFrame /\ tx[k].pkt = fifo[n].pkt =>
                   fifo[n].part = "first" /\ (pc[k] = "gap" \/ tx[k].part = "second")
  <2>1. fifo[n] # Bad /\ last'[n] = fifo[n] /\ fifo[n].part # "whole"
    BY <1>3, ReadPendingEffect
  <2>2. fifo[n] \in Frame /\ fifo[n] \in Held(n) /\ fifo[n] \in Frames(n)
    BY <2>1, JTypes, NotFrames DEF TypeOK, Held, Frames
  <2>3. origin[fifo[n].pkt] # NoNode
    BY <2>2 DEF JInv, IInv, FramesKnown
  <2>4. \A k \in Nodes : tx[k] # NoFrame /\ tx[k].pkt = fifo[n].pkt =>
            fifo[n].part = "first" /\ (pc[k] = "gap" \/ tx[k].part = "second")
    BY <2>2 DEF JInv, IInv, InFlight
  <2> QED
    BY <2>1, <2>2, <2>3, <2>4
<1>4. LastKnown'
  <2> SUFFICES ASSUME NEW m \in Nodes, last'[m] # NoFrame
               PROVE  /\ ~paused[m] /\ origin[last'[m].pkt] # NoNode
                      /\ \A k \in Nodes : tx[k] # NoFrame /\ tx[k].pkt = last'[m].pkt =>
                            pc[k] = "gap" \/ tx[k].part = "second"
    BY <1>0 DEF LastKnown
  <2>1. CASE last'[m] = last[m]
    BY <2>1 DEF JInv, LastKnown
  <2>2. CASE last'[m] # last[m]
    <3>1. m = n
      BY <2>2, ReadPendingEffect
    <3> QED
      BY <1>0, <1>3, <2>2, <3>1
  <2> QED
    BY <2>1, <2>2
<1>5. Timely'
  <2> SUFFICES ASSUME NEW m \in Nodes, last'[m] # NoFrame, last'[m].part = "first"
               PROVE  Waiting(m)' \/ Over(m)'
    BY DEF Timely
  <2>1. CASE m # n
    <3>1. half'[m] = half[m] /\ age'[m] = age[m] /\ last'[m] = last[m] /\ fifo'[m] = fifo[m]
      BY <2>1, ReadPendingEffect
    <3>2. Waiting(m) \/ Over(m)
      BY <3>1 DEF JInv, Timely
    <3> QED
      BY <1>0, <3>1, <3>2 DEF Waiting, Over, Other
  <2>2. CASE m = n /\ last'[n] = fifo[n] /\ fifo[n] # Bad
    <3> DEFINE f == fifo[n]
    <3>1. /\ f \in Frame /\ f.part = "first" /\ f \in Held(n) /\ f \in Frames(n)
          /\ f # NoFrame /\ Other(f) # Bad
      BY <2>2, JTypes, NotFrames DEF TypeOK, Held, Frames
    <3>2. ~(Buffered(n) # NoFrame /\ Buffered(n).seq = f.seq)
      <4> SUFFICES ASSUME half[n] # NoFrame, half[n].seq = f.seq PROVE FALSE
        BY DEF Buffered
      <4>1. half[n] \in Frames(n)
        BY JTypes, NotFrames DEF Frames, TypeOK
      <4>2. half[n].pkt = f.pkt
        BY <3>1, <4>1 DEF JInv, IInv, SeqApart
      <4> QED
        BY <2>2, <3>1, <4>2 DEF JInv, IInv, InOrder
    <3>3. half'[n] = f /\ age'[n] = 0
      BY <2>2, <3>1, <3>2, ReadPendingEffect
    <3>4. \A k \in Nodes : tx[k] # NoFrame /\ tx[k].pkt = f.pkt =>
              /\ pc[k] = "gap" => age'[n] + left[k] <= MaxGap
              /\ pc[k] = "air" => age'[n] + left[k] <= MaxGap + Airtime
      <4>1. \A k \in Nodes : /\ pc[k] = "gap" => left[k] <= MaxGap
                             /\ pc[k] = "air" => left[k] <= Airtime
        BY DEF JInv, Listening
      <4> QED
        BY <3>3, <4>1, JTypes
    <3> QED
      BY <1>0, <1>1, <2>2, <3>1, <3>3, <3>4 DEF Waiting, Other
  <2>3. CASE m = n /\ last'[n] = last[n] /\ age'[n] = age[n] /\ half'[n] = Buffered(n)
             /\ (fifo[n] = Bad \/ fifo[n].part = "whole")
    <3>1. last[n] \in Frame /\ Other(last[n]) # Bad
      BY <2>3, JTypes
    <3>2. CASE Waiting(n) /\ half'[n] = half[n]
      BY <1>0, <1>1, <2>3, <3>1, <3>2 DEF Waiting, Other
    <3>3. CASE Waiting(n) /\ half'[n] # half[n]
      <4>1. age[n] > MaxGap + Airtime
        BY <2>3, <3>3, JTypes DEF Buffered, Expired, Covered
      <4>2. \A k \in Nodes : tx[k] # NoFrame => tx[k].pkt # last[n].pkt
        <5> SUFFICES ASSUME NEW k \in Nodes, tx[k] # NoFrame, tx[k].pkt = last[n].pkt
                     PROVE  FALSE
          OBVIOUS
        <5>1. pc[k] \in {"gap", "air"} /\ left[k] \in Nat /\ age[n] \in Nat
          BY JTypes DEF TypeOK, Sending
        <5> QED
          BY <3>3, <4>1, <5>1, JTypes DEF Waiting
      <4> QED
        BY <1>0, <1>1, <2>3, <3>1, <4>2 DEF Over, Other
    <3>4. CASE Over(n)
      BY <1>0, <1>1, <2>3, <3>1, <3>4 DEF Over, Other
    <3> QED
      BY <2>3, <3>2, <3>3, <3>4 DEF JInv, Timely
  <2> QED
    BY <2>1, <2>2, <2>3, ReadPendingEffect
<1> QED
  BY <1>2, <1>4, <1>5

Joined ==
    \A n \in Nodes : /\ last[n] # NoFrame /\ last[n].part = "first"
                     /\ last'[n] = Other(last[n])
                     => <<last[n], last'[n]>> \in got'[n]

LEMMA ReadPendingJoined ==
    ASSUME JInv, Covered, NEW n \in Nodes, ReadPending(n) PROVE Joined
<1> SUFFICES ASSUME NEW m \in Nodes, last[m] # NoFrame, last[m].part = "first",
                    last'[m] = Other(last[m])
             PROVE  <<last[m], last'[m]>> \in got'[m]
  BY DEF Joined
<1>1. last[m] \in Frame /\ Other(last[m]) # last[m] /\ Other(last[m]).seq = last[m].seq
  BY JTypes
<1>2. m = n /\ fifo[n] = Other(last[n])
  BY <1>1, ReadPendingEffect
<1>3. Waiting(n)
  BY <1>2 DEF JInv, Timely, Over
<1>4. Buffered(n) = last[n]
  <2>1. pc[n] = "idle"
    BY ReadPendingEffect
  <2>2. half[n] = last[n] /\ age[n] <= MaxGap + Airtime
    BY <1>2, <1>3, <2>1 DEF Waiting
  <2> QED
    BY <2>2, JTypes DEF Buffered, Expired, Covered
<1>5. last'[n] = fifo[n] /\ <<half[n], fifo[n]>> \in got'[n]
  BY <1>1, <1>2, <1>4, ReadPendingEffect
<1> QED
  BY <1>2, <1>3, <1>5 DEF Waiting

LEMMA SameLastJoined ==
    ASSUME JInv, \A n \in Nodes : last'[n] \in {last[n], NoFrame} PROVE Joined
BY JTypes DEF Joined

LEMMA NextJInv ==
    ASSUME FreshSeq, Prompt, Covered, JInv, [Next]_vars PROVE JInv' /\ Joined
<1> SUFFICES Listening' /\ LastKnown' /\ Timely' /\ Joined
  BY NextClaims DEF JInv
<1>1. ASSUME UNCHANGED <<radio, fifo, rxFlag, half, age>>, OriginsKept,
             \A m \in Nodes : /\ last'[m] \in {last[m], NoFrame}
                              /\ last'[m] # NoFrame => paused'[m] = paused[m]
      PROVE  Listening' /\ LastKnown' /\ Timely' /\ Joined
  <2>1. Listening'
    BY <1>1 DEF JInv, Listening, radio
  <2> QED
    BY <1>1, <2>1, NothingRead, SameLastJoined DEF radio
<1>2. ASSUME NEW n \in Nodes, NEW p \in Packets, Drop(n, p)
      PROVE  Listening' /\ LastKnown' /\ Timely' /\ Joined
  <2>1. OriginsKept
    BY <1>2, JTypes, OfferKept DEF Drop
  <2> QED
    BY <1>1, <1>2, <2>1 DEF Drop, receiver, bounds
<1>3. ASSUME NEW n \in Nodes, Pause(n) \/ Resume(n)
      PROVE  Listening' /\ LastKnown' /\ Timely' /\ Joined
  <2>1. UNCHANGED <<radio, fifo, rxFlag, half, age>> /\ OriginsKept
    BY <1>3, JTypes DEF Pause, Resume, receiver, stack, OriginsKept, TypeOK
  <2>2. \A m \in Nodes : /\ last'[m] \in {last[m], NoFrame}
                         /\ last'[m] # NoFrame => paused'[m] = paused[m]
    BY <1>3, JTypes DEF Pause, Resume, receiver, TypeOK, JInv, LastKnown
  <2> QED
    BY <1>1, <2>1, <2>2
<1>4. CASE UNCHANGED vars
  <2>1. OriginsKept
    BY <1>4, JTypes DEF vars, stack, OriginsKept, TypeOK
  <2> QED
    BY <1>1, <1>4, <2>1 DEF vars, receiver, bounds
<1>5. ASSUME \/ \E n \in Nodes : \/ \E p \in Packets : Transmit(n, p)
                                 \/ SecondHalf(n) \/ FrameEnds(n) \/ Fault(n)
             \/ Tick
      PROVE  Listening' /\ LastKnown' /\ Timely' /\ Joined
  <2>1. last' = last
    BY <1>5 DEF Transmit, SecondHalf, FrameEnds, Fault, Tick
  <2> QED
    BY <1>5, <2>1, SameLastJoined, TransmitJoins, SecondHalfJoins, FrameEndsJoins,
       FaultJoins, TickJoins
<1> QED
  BY <1>2, <1>3, <1>4, <1>5, ReadPendingJoins, ReadPendingJoined DEF Next

LEMMA InitJInv == Init => JInv
BY InitClaims DEF Init, JInv, Listening, LastKnown, Timely

\* Two halves that a node reads in a row are joined, on whatever number of nodes
\* that send over each other, fault and stall, if the gap between them is no
\* longer than the frame and the slack the deadline has room for, and the deadline
\* is not cut down below them by its upper limit.  They are read in a row when
\* random() reuses no number too early and a loop that is not paused reads a frame
\* within the tick it came in.
THEOREM HalvesAlwaysJoin ==
    ASSUME MaxGap <= Airtime + Slack, Airtime + MaxGap <= MaxTimeout
    PROVE  Spec => HalvesInTimeJoin
<1>1. Covered
  BY TimeAssumption DEF Covered, Timeout
<1>2. CASE FreshSeq /\ Prompt
  <2>1. JInv /\ [Next]_vars => JInv' /\ Joined
    BY <1>1, <1>2, NextJInv
  <2>2. Joined => [ FreshSeq /\ Prompt =>
          \A n \in Nodes :
             /\ last[n] # NoFrame
             /\ last[n].part = "first"
             /\ last'[n] = [last[n] EXCEPT !.part = "second"]
             => <<last[n], last'[n]>> \in got'[n] ]_vars
    BY DEF Joined, Other
  <2> QED
    BY <2>1, <2>2, InitJInv, PTL DEF Spec, HalvesInTimeJoin
<1>3. CASE ~(FreshSeq /\ Prompt)
  <2>1. [ FreshSeq /\ Prompt =>
          \A n \in Nodes :
             /\ last[n] # NoFrame
             /\ last[n].part = "first"
             /\ last'[n] = [last[n] EXCEPT !.part = "second"]
             => <<last[n], last'[n]>> \in got'[n] ]_vars
    BY <1>3
  <2> QED
    BY <2>1, PTL DEF HalvesInTimeJoin
<1> QED
  BY <1>2, <1>3
=============================================================================
