----------------------------- MODULE PacketLink -----------------------------
(***************************************************************************)
(* What the radio link promises the Reticulum stacks above it: a packet    *)
(* one of them offers is handed to any other whole, at most once, or not   *)
(* at all.  SplitLink implements it with one or two LoRa frames a packet.  *)
(***************************************************************************)
EXTENDS Naturals

CONSTANTS Nodes, Packets, NoNode

VARIABLES
    origin, \* origin[p]: the node whose stack offered p, or NoNode
    got,    \* got[n]: the packets n's stack has been handed
    count   \* count[n]: how often it was handed one

Init ==
    /\ origin = [p \in Packets |-> NoNode]
    /\ got = [n \in Nodes |-> {}]
    /\ count = [n \in Nodes |-> 0]

Offer(n, p) ==
    /\ origin[p] = NoNode
    /\ origin' = [origin EXCEPT ![p] = n]
    /\ UNCHANGED <<got, count>>

Receive(n, p) ==
    /\ origin[p] \in Nodes \ {n}
    /\ p \notin got[n]
    /\ got' = [got EXCEPT ![n] = @ \cup {p}]
    /\ count' = [count EXCEPT ![n] = @ + 1]
    /\ UNCHANGED origin

Next == \E n \in Nodes, p \in Packets : Offer(n, p) \/ Receive(n, p)

Spec == Init /\ [][Next]_<<origin, got, count>>
=============================================================================
