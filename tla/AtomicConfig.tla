---------------------------- MODULE AtomicConfig ----------------------------
(***************************************************************************)
(* What src/src/Config.cpp promises of the persisted configuration,        *)
(* without the files that carry it.  The flash holds one configuration (or *)
(* none yet), the one the next boot will run.  Operators offer             *)
(* configurations; whatever happens, power loss included, the stored one   *)
(* is the last acknowledged configuration or one offered since, and an     *)
(* acknowledgement discards everything older for good.                     *)
(***************************************************************************)
CONSTANTS Config, NoConfig

VARIABLES stored,   \* the configuration the next boot will run, or NoConfig
          allowed   \* the last acknowledged one and those offered since

Outcomes == Config \cup {NoConfig}

Init == /\ stored \in Outcomes
        /\ allowed = {stored}

Offer(c) == /\ allowed' = allowed \cup {c}
            /\ UNCHANGED stored

\* An offered configuration takes effect, or one that was never
\* acknowledged is given up.
Settle(c) == /\ c \in allowed
             /\ stored' = c
             /\ UNCHANGED allowed

\* Everything but the stored configuration and the offers still under way.
Acknowledge(S) == /\ stored \in S
                  /\ allowed' = S
                  /\ UNCHANGED stored

Next == \/ \E c \in Config : Offer(c)
        \/ \E c \in Outcomes : Settle(c)
        \/ \E S \in SUBSET (allowed \cap Config) : Acknowledge(S)

Spec == Init /\ [][Next]_<<stored, allowed>>
=============================================================================
