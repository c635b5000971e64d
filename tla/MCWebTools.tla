----------------------------- MODULE MCWebTools -----------------------------
(***************************************************************************)
(* A configuration to model-check WebTools with.                           *)
(***************************************************************************)
EXTENDS WebTools

CONSTANTS f1, f2, v1, v2

\* config::defaults()
MCFactory == [f \in Fields |-> v1]
=============================================================================
