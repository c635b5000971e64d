----------------------------- MODULE MCLxmfInbox ----------------------------
(* Instances of LxmfInbox for TLC: three messages, the first two of one      *)
(* sender, and one or two links, the first of that sender.             *)
EXTENDS LxmfTraffic

CONSTANTS a, b, m1, m2, m3, l1, l2

MCSource == [m \in Msgs |-> IF m = m3 THEN b ELSE a]
MCOwner == [l \in Links |-> IF l = l1 \/ b \notin Senders THEN a ELSE b]
=============================================================================
