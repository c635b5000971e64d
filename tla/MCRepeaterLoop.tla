--------------------------- MODULE MCRepeaterLoop ---------------------------
(***************************************************************************)
(* Settings of RepeaterLoop to model-check.                                *)
(***************************************************************************)
EXTENDS RepeaterLoop, TLC

\* Bluetooth off; a client, with a PIN; a client, without one, and a sender.
Alone == [bt |-> FALSE, pin |-> FALSE, on |-> Tasks]
Paired == [bt |-> TRUE, pin |-> TRUE, on |-> {}]
Shared == [bt |-> TRUE, pin |-> FALSE, on |-> {"telemetry"}]
AllSettings == {Alone, Paired, Shared}

Symmetry == Permutations(Records)
=============================================================================
