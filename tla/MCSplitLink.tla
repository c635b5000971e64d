----------------------------- MODULE MCSplitLink ----------------------------
(* Instances of SplitLink for TLC: packets of the same frames, sequence     *)
(* numbers and the nodes with the same TX gate are interchangeable.         *)
EXTENDS SplitLink, TLC

CONSTANT Brief  \* packets whose last frame takes a single tick

MCLastAirtime == [p \in Packets |-> IF p \in Brief THEN 1 ELSE Airtime]

Symmetry == Permutations(TxEnabled) \cup Permutations(Seqs)
            \cup UNION {Permutations(kind) :
                         kind \in {Long \ Brief, Long \cap Brief,
                                  Packets \ (Long \cup Brief), Brief \ Long}}
=============================================================================
