------------------------------ MODULE SplitLink -----------------------------
(***************************************************************************)
(* The LoRa link between nodes that all run src/src/Radio.cpp under the    *)
(* LoRaInterface of src/src/Transport.cpp: packets too long for a frame    *)
(* are split in two halves with one random 4-bit sequence number, and a    *)
(* receiver joins two halves it reads in a row.  Frames are lost, garbled  *)
(* or overwritten before the loop reads them; the loop stalls while a BLE  *)
(* session is open; the SX1262 faults and is reset.                        *)
(***************************************************************************)
EXTENDS Naturals, FiniteSets, Sequences

CONSTANTS
    Nodes, TxEnabled,         \* the nodes, and those whose TX gate is open
    Packets, Long, Oversized, \* above 254 bytes; above 508 bytes
    Seqs,                     \* sequence numbers
    Airtime, MaxGap,          \* ticks: a full frame, and the turnaround between
                              \* two halves
    LastAirtime,              \* a packet's last or only frame, which is shorter
                              \* unless it is full too
    Slack, MaxTimeout,        \* the second added to s_split_timeout_ms, and its
                              \* upper limit
    NoNode, NoFrame, Bad,     \* Bad: a frame with a CRC error, or no data
    FreshSeq,                 \* random() never picks a number still in use
    Prompt,                   \* an unpaused loop reads a frame within a tick
    MaxFaults, MaxPauses      \* bounds of the exploration

ASSUME NodeAssumption ==
    /\ TxEnabled \subseteq Nodes /\ NoNode \notin Nodes
    /\ IsFiniteSet(Nodes)
ASSUME PacketAssumption ==
    /\ Long \subseteq Packets /\ Oversized \subseteq Packets \ Long
    /\ IsFiniteSet(Packets)
ASSUME TimeAssumption == /\ Airtime \in Nat \ {0} /\ MaxGap \in Nat
                         /\ LastAirtime \in [Packets -> 1 .. Airtime]
                         /\ Slack \in Nat /\ MaxTimeout \in Nat
ASSUME BoundAssumption == MaxFaults \in Nat /\ MaxPauses \in Nat

\* s_split_timeout_ms.  Its lower limit is the second of slack.
Timeout == IF 2 * Airtime + Slack > MaxTimeout THEN MaxTimeout ELSE 2 * Airtime + Slack

Frame == [pkt : Packets, seq : Seqs, part : {"whole", "first", "second"}]

ASSUME FrameAssumption == {NoFrame, Bad} \cap Frame = {} /\ NoFrame # Bad

VARIABLES
    pc,      \* each node's place in transmit(): "idle", "air", or between halves
    tx,      \* the frame transmit() last keyed
    left,    \* ticks until that frame, or the pause after it, is over
    mode,    \* the SX1262: "rx", "tx", "fault", or "off" when begin() failed
    hearing, \* the node whose frame the chip is receiving
    fifo,    \* the chip's receive buffer
    rxFlag,  \* s_rx_flag
    half,    \* the buffered first half (s_split_buf and s_split_seq)
    age,     \* ticks since it was buffered, up to Timeout + 1
    paused,  \* a BLE session keeps the loop from the radio
    origin,  \* the node whose stack offered a packet
    got,     \* the payloads handed to each node's stack, as tuples of frames
    packets_in, packets_out,
    aired,   \* history: frames that went out complete
    last,    \* history: the last half read, since the last pause
    faults, pauses  \* counters for the bounds

radio == <<pc, tx, left, mode, hearing>>
receiver == <<fifo, rxFlag, half, age, last>>
stack == <<origin, got, packets_in, packets_out, aired>>
bounds == <<paused, faults, pauses>>
vars == <<radio, receiver, stack, bounds>>

Init ==
    /\ pc = [n \in Nodes |-> "idle"]
    /\ tx = [n \in Nodes |-> NoFrame]
    /\ left = [n \in Nodes |-> 0]
    /\ mode \in [Nodes -> {"rx", "fault", "off"}]
    /\ hearing = [n \in Nodes |-> NoNode]
    /\ fifo = [n \in Nodes |-> Bad]
    /\ rxFlag = [n \in Nodes |-> FALSE]
    /\ half = [n \in Nodes |-> NoFrame]
    /\ age = [n \in Nodes |-> 0]
    /\ paused = [n \in Nodes |-> FALSE]
    /\ origin = [p \in Packets |-> NoNode]
    /\ got = [n \in Nodes |-> {}]
    /\ packets_in = [n \in Nodes |-> 0]
    /\ packets_out = [n \in Nodes |-> 0]
    /\ aired = {}
    /\ last = [n \in Nodes |-> NoFrame]
    /\ Cardinality({n \in Nodes : mode[n] # "rx"}) <= MaxFaults
    /\ faults = Cardinality({n \in Nodes : mode[n] # "rx"})
    /\ pauses = 0

\* The loop task of n is between two calls into the radio.
InLoop(n) == pc[n] = "idle" /\ ~paused[n]

\* Sequence numbers a receiver or a sender still holds.
InUse == {f.seq : f \in (UNION {{tx[n], half[n], fifo[n]} : n \in Nodes})
                         \ {NoFrame, Bad}}

-----------------------------------------------------------------------------
(***************************************************************************)
(* transmit(), called from the stack through send_outgoing().              *)
(***************************************************************************)

\* Mutant: a dropped packet is counted as sent.
DropCounted(n, p) ==
    /\ InLoop(n)
    /\ origin[p] = NoNode
    /\ p \in Oversized \/ n \notin TxEnabled \/ mode[n] = "off"
    /\ origin' = [origin EXCEPT ![p] = n]
    /\ packets_out' = [packets_out EXCEPT ![n] = @ + 1]
    /\ UNCHANGED <<radio, receiver, got, packets_in, aired, bounds>>

\* send_outgoing() reports success to the stack, but nothing is sent.
Drop(n, p) ==
    /\ InLoop(n)
    /\ origin[p] = NoNode
    /\ p \in Oversized \/ n \notin TxEnabled \/ mode[n] = "off"
    /\ origin' = [origin EXCEPT ![p] = n]
    /\ UNCHANGED <<radio, receiver, got, packets_in, packets_out, aired, bounds>>

\* A first half is always full.
FrameTime(f) == IF f.part = "first" THEN Airtime ELSE LastAirtime[f.pkt]

\* _ensure_standby() and _tx_frame() up to the start of the frame.  A chip that
\* does not answer is reset and set up again, which works or fails silently;
\* if it fails, so do transmit() and the startReceive() after it.
Key(n, f) ==
    /\ hearing' = [hearing EXCEPT ![n] = NoNode]
    /\ fifo' = [fifo EXCEPT ![n] = Bad]
    /\ \/ /\ mode' = [mode EXCEPT ![n] = "tx"]
          /\ pc' = [pc EXCEPT ![n] = "air"]
          /\ tx' = [tx EXCEPT ![n] = f]
          /\ left' = [left EXCEPT ![n] = FrameTime(f)]
          /\ UNCHANGED rxFlag
       \/ /\ mode[n] = "fault"
          /\ pc' = [pc EXCEPT ![n] = "idle"]
          /\ tx' = [tx EXCEPT ![n] = NoFrame]
          /\ left' = [left EXCEPT ![n] = 0]
          /\ rxFlag' = [rxFlag EXCEPT ![n] = FALSE]
          /\ UNCHANGED mode

Transmit(n, p) ==
    /\ InLoop(n)
    /\ origin[p] = NoNode
    /\ p \notin Oversized /\ n \in TxEnabled /\ mode[n] # "off"
    /\ origin' = [origin EXCEPT ![p] = n]
    /\ \E s \in Seqs :
          /\ FreshSeq => s \notin InUse
          /\ Key(n, [pkt |-> p, seq |-> s,
                     part |-> IF p \in Long THEN "first" ELSE "whole"])
    /\ UNCHANGED <<half, age, last, got, packets_in, packets_out, aired, bounds>>

\* Mutant: keep trying a chip that does not answer instead of giving up.
SecondHalfRetries(n) ==
    /\ pc[n] = "gap"
    /\ IF mode[n] = "fault"
       THEN left' = [left EXCEPT ![n] = MaxGap] /\ UNCHANGED <<pc, tx, mode, hearing, fifo, rxFlag>>
       ELSE Key(n, [tx[n] EXCEPT !.part = "second"])
    /\ UNCHANGED <<half, age, last, stack, bounds>>

\* After startReceive() and delay(1).
SecondHalf(n) ==
    /\ pc[n] = "gap"
    /\ Key(n, [tx[n] EXCEPT !.part = "second"])
    /\ UNCHANGED <<half, age, last, stack, bounds>>

\* Whoever has been hearing the frame now has it in the chip's buffer, perhaps
\* with a CRC error, in place of a frame the loop has not read yet.  The sender's
\* own flag is raised by the end of the transmission, and cleared after the last.
Hand(n, f) ==
    LET hearers == {m \in Nodes : hearing[m] = n}
    IN  /\ \E bad \in SUBSET hearers :
              fifo' = [m \in Nodes |-> IF m \in bad THEN Bad
                                       ELSE IF m \in hearers THEN f ELSE fifo[m]]
        /\ rxFlag' = [m \in Nodes |-> IF m = n THEN f.part = "first"
                                     ELSE rxFlag[m] \/ m \in hearers]
        /\ hearing' = [m \in Nodes |-> IF m \in hearers THEN NoNode ELSE hearing[m]]

\* Mutant: every frame counts as a packet.
FrameEndsCounted(n) ==
    /\ pc[n] = "air" /\ left[n] = 0
    /\ Hand(n, tx[n])
    /\ mode' = [mode EXCEPT ![n] = "rx"]
    /\ aired' = aired \cup {tx[n]}
    /\ packets_out' = [packets_out EXCEPT ![n] = @ + 1]
    /\ IF tx[n].part = "first"
       THEN /\ pc' = [pc EXCEPT ![n] = "gap"]
            /\ left' = [left EXCEPT ![n] = MaxGap]
            /\ UNCHANGED tx
       ELSE /\ pc' = [pc EXCEPT ![n] = "idle"]
            /\ tx' = [tx EXCEPT ![n] = NoFrame]
            /\ UNCHANGED left
    /\ UNCHANGED <<half, age, last, origin, got, packets_in, bounds>>

\* The frame is out; startReceive() either way.
FrameEnds(n) ==
    /\ pc[n] = "air" /\ left[n] = 0
    /\ Hand(n, tx[n])
    /\ mode' = [mode EXCEPT ![n] = "rx"]
    /\ aired' = aired \cup {tx[n]}
    /\ IF tx[n].part = "first"
       THEN /\ pc' = [pc EXCEPT ![n] = "gap"]
            /\ left' = [left EXCEPT ![n] = MaxGap]
            /\ UNCHANGED <<tx, packets_out>>
       ELSE /\ pc' = [pc EXCEPT ![n] = "idle"]
            /\ tx' = [tx EXCEPT ![n] = NoFrame]
            /\ packets_out' = [packets_out EXCEPT ![n] = @ + 1]
            /\ UNCHANGED left
    /\ UNCHANGED <<half, age, last, origin, got, packets_in, bounds>>

\* The SX1262 stops answering over SPI.  A transmission is cut short and
\* transmit() gives up, whichever half it was sending.
Fault(n) ==
    /\ faults < MaxFaults /\ faults' = faults + 1
    /\ mode[n] \in {"rx", "tx"}
    /\ mode' = [mode EXCEPT ![n] = "fault"]
    /\ fifo' = [fifo EXCEPT ![n] = Bad]
    /\ hearing' = [m \in Nodes |-> IF m = n \/ hearing[m] = n THEN NoNode ELSE hearing[m]]
    /\ IF mode[n] = "tx"
       THEN /\ pc' = [pc EXCEPT ![n] = "idle"]
            /\ tx' = [tx EXCEPT ![n] = NoFrame]
            /\ left' = [left EXCEPT ![n] = 0]
            /\ rxFlag' = [rxFlag EXCEPT ![n] = FALSE]
       ELSE UNCHANGED <<pc, tx, left, rxFlag>>
    /\ UNCHANGED <<half, age, last, stack, paused, pauses>>

-----------------------------------------------------------------------------
(***************************************************************************)
(* read_pending(), called from tick().  The stale half is dropped whether  *)
(* or not a frame is waiting.                                              *)
(***************************************************************************)
\* Mutant: a flat deadline, shorter than a frame at high spreading factors.
ExpiredFlat(n) == half[n] # NoFrame /\ age[n] >= Airtime

Expired(n) == half[n] # NoFrame /\ age[n] > Timeout

Buffered(n) == IF Expired(n) THEN NoFrame ELSE half[n]

Deliver(n, payload) ==
    /\ got' = [got EXCEPT ![n] = @ \cup {payload}]
    /\ packets_in' = [packets_in EXCEPT ![n] = @ + 1]

Keep(n) ==
    /\ half' = [half EXCEPT ![n] = Buffered(n)]
    /\ UNCHANGED age

Hold(n, f) ==
    /\ half' = [half EXCEPT ![n] = f]
    /\ age' = [age EXCEPT ![n] = 0]

\* Re-entering receive makes the chip abandon a frame it is in the middle of.
Take(n) ==
    /\ rxFlag[n]
    /\ rxFlag' = [rxFlag EXCEPT ![n] = FALSE]
    /\ fifo' = [fifo EXCEPT ![n] = Bad]
    /\ hearing' = [hearing EXCEPT ![n] = NoNode]

\* Mutant: the deadline is only looked at when a frame is waiting.
ExpireOnFrame(n) ==
    /\ rxFlag[n] /\ Expired(n)
    /\ Keep(n)
    /\ UNCHANGED <<fifo, rxFlag, hearing, last, got, packets_in>>

Expire(n) ==
    /\ ~rxFlag[n] /\ Expired(n)
    /\ Keep(n)
    /\ UNCHANGED <<fifo, rxFlag, hearing, last, got, packets_in>>

\* Mutant: a frame with a CRC error is buffered.
ReadNothingBuffers(n) ==
    /\ Take(n)
    /\ fifo[n] = Bad
    /\ Hold(n, fifo[n])
    /\ UNCHANGED <<last, got, packets_in>>

ReadNothing(n) ==
    /\ Take(n)
    /\ fifo[n] = Bad
    /\ Keep(n)
    /\ UNCHANGED <<last, got, packets_in>>

\* Mutant: the frame stays pending once it has been handed over.
ReadWholeAgain(n) ==
    /\ rxFlag[n]
    /\ fifo[n] # Bad /\ fifo[n].part = "whole"
    /\ Deliver(n, <<fifo[n]>>)
    /\ Keep(n)
    /\ UNCHANGED <<last, rxFlag, fifo, hearing>>

ReadWhole(n) ==
    /\ Take(n)
    /\ fifo[n] # Bad /\ fifo[n].part = "whole"
    /\ Deliver(n, <<fifo[n]>>)
    /\ Keep(n)
    /\ UNCHANGED last

\* Mutant: any two halves are joined.
ReadHalfAnySeq(n) ==
    /\ Take(n)
    /\ fifo[n] # Bad /\ fifo[n].part # "whole"
    /\ last' = [last EXCEPT ![n] = fifo[n]]
    /\ IF Buffered(n) # NoFrame
       THEN Deliver(n, <<half[n], fifo[n]>>) /\ Hold(n, NoFrame)
       ELSE Hold(n, fifo[n]) /\ UNCHANGED <<got, packets_in>>

ReadHalf(n) ==
    /\ Take(n)
    /\ fifo[n] # Bad /\ fifo[n].part # "whole"
    /\ last' = [last EXCEPT ![n] = fifo[n]]
    /\ IF Buffered(n) # NoFrame /\ Buffered(n).seq = fifo[n].seq
       THEN Deliver(n, <<half[n], fifo[n]>>) /\ Hold(n, NoFrame)
       ELSE Hold(n, fifo[n]) /\ UNCHANGED <<got, packets_in>>

ReadPending(n) ==
    /\ InLoop(n) /\ mode[n] # "off"
    /\ Expire(n) \/ ReadNothing(n) \/ ReadWhole(n) \/ ReadHalf(n)
    /\ UNCHANGED <<pc, tx, left, mode, origin, packets_out, aired, bounds>>

-----------------------------------------------------------------------------
\* loop() skips the radio from here on, as soon as its current call returns.
Pause(n) ==
    /\ pauses < MaxPauses /\ pauses' = pauses + 1
    /\ ~paused[n]
    /\ paused' = [paused EXCEPT ![n] = TRUE]
    /\ last' = [last EXCEPT ![n] = NoFrame]
    /\ UNCHANGED <<radio, fifo, rxFlag, half, age, stack, faults>>

Resume(n) ==
    /\ paused[n]
    /\ paused' = [paused EXCEPT ![n] = FALSE]
    /\ UNCHANGED <<radio, receiver, stack, faults, pauses>>

\* A tick passes.  A chip in receive catches a frame in its first tick or
\* not at all, and keeps to the one it has caught.
Starting(n) == pc[n] = "air" /\ left[n] = FrameTime(tx[n])

Tick ==
    /\ \A n \in Nodes : pc[n] # "idle" => left[n] > 0
    /\ Prompt => \A n \in Nodes : rxFlag[n] => ~InLoop(n)
    /\ left' = [n \in Nodes |-> IF left[n] = 0 THEN 0 ELSE left[n] - 1]
    /\ age' = [n \in Nodes |-> IF half[n] = NoFrame THEN 0
                               ELSE IF Expired(n) THEN age[n] ELSE age[n] + 1]
    /\ hearing' \in [Nodes -> Nodes \cup {NoNode}]
    /\ \A m \in Nodes :
          \/ hearing'[m] = hearing[m]
          \/ /\ mode[m] = "rx" /\ hearing[m] = NoNode
             /\ hearing'[m] \in Nodes /\ Starting(hearing'[m])
    /\ UNCHANGED <<pc, tx, mode, fifo, rxFlag, half, last, stack, bounds>>

Next ==
    \/ \E n \in Nodes :
          \/ \E p \in Packets : Drop(n, p) \/ Transmit(n, p)
          \/ SecondHalf(n) \/ FrameEnds(n) \/ Fault(n)
          \/ ReadPending(n) \/ Pause(n) \/ Resume(n)
    \/ Tick

Spec == Init /\ [][Next]_vars

\* What the loops and the radio do whatever the stacks ask for.
Fairness ==
    /\ WF_vars(Tick)
    /\ \A n \in Nodes : /\ WF_vars(SecondHalf(n)) /\ WF_vars(FrameEnds(n))
                        /\ WF_vars(ReadPending(n)) /\ WF_vars(Resume(n))

FairSpec == Spec /\ Fairness

-----------------------------------------------------------------------------
TypeOK ==
    /\ pc \in [Nodes -> {"idle", "air", "gap"}]
    /\ tx \in [Nodes -> Frame \cup {NoFrame}]
    /\ left \in [Nodes -> Nat]
    /\ mode \in [Nodes -> {"rx", "tx", "fault", "off"}]
    /\ hearing \in [Nodes -> Nodes \cup {NoNode}]
    /\ fifo \in [Nodes -> Frame \cup {Bad}]
    /\ rxFlag \in [Nodes -> BOOLEAN]
    /\ half \in [Nodes -> Frame \cup {NoFrame}]
    /\ age \in [Nodes -> 0 .. Timeout + 1]
    /\ paused \in [Nodes -> BOOLEAN]
    /\ origin \in [Packets -> Nodes \cup {NoNode}]
    /\ got \in [Nodes -> SUBSET (Seq(Frame))]
    /\ packets_in \in [Nodes -> Nat] /\ packets_out \in [Nodes -> Nat]
    /\ aired \subseteq Frame
    /\ last \in [Nodes -> Frame \cup {NoFrame}]
    /\ faults \in 0..MaxFaults /\ pauses \in 0..MaxPauses

\* Two halves of a packet that a node reads in a row are handed to its stack:
\* the deadline, set from the airtime of a full frame, covers the second frame,
\* however long, and the sender's turnaround, and an orphan half in the buffer costs only itself
\* (Radio.cpp:57-66, 187-203, 249-253).
HalvesInTimeJoin ==
    [][ FreshSeq /\ Prompt =>
          \A n \in Nodes :
             /\ last[n] # NoFrame
             /\ last[n].part = "first"
             /\ last'[n] = [last[n] EXCEPT !.part = "second"]
             => <<last[n], last'[n]>> \in got'[n] ]_vars

\* s_packets_out counts the packets that went out complete: neither those
\* dropped by the TX gate, for their size or by a dead radio, nor those whose
\* second half failed (Transport.cpp:84-118, Radio.cpp:446-458).
Parts(p) == IF p \in Long THEN {"first", "second"} ELSE {"whole"}
Complete(p) == Parts(p) = {f.part : f \in {g \in aired : g.pkt = p}}

PacketsOutHonest ==
    \A n \in Nodes :
        packets_out[n] = Cardinality({p \in Packets : origin[p] = n /\ Complete(p)})

\* transmit() returns, whatever becomes of the radio (Radio.cpp:410-472).
TransmitReturns == \A n \in Nodes : pc[n] # "idle" ~> pc[n] = "idle"

\* A first half whose second half never comes is let go, whether or not another
\* frame is ever heard (Radio.cpp:247-253).
HalfReleased == \A n \in Nodes : half[n] # NoFrame ~> half[n] = NoFrame

\* README.md:102-103: "Automatic radio recovery - if the SX1262 becomes
\* unresponsive after flash I/O, the firmware hardware-resets and reconfigures
\* it".  Only transmit() resets it (Radio.cpp:378-393), so a receive-only node,
\* which is what every node is until its operator enables TX, stays deaf.
RadioRecovers == \A n \in Nodes : mode[n] = "fault" ~> mode[n] # "fault"

\* The packet a payload is the whole of, or Bad.
Content(payload) ==
    IF \/ payload[1].part = "whole"
       \/ /\ payload[1].part = "first"
          /\ payload[2] = [payload[1] EXCEPT !.part = "second"]
    THEN payload[1].pkt ELSE Bad

\* Under the assumption on sequence numbers no stack is ever handed a payload
\* made of two packets, a half, or the same packet twice (Radio.cpp:279-346).
Link == INSTANCE PacketLink WITH
            got <- [n \in Nodes |-> {Content(payload) : payload \in got[n]}],
            count <- packets_in
ImplementsLink == Link!Spec
=============================================================================
