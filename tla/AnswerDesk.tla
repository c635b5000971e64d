------------------------------ MODULE AnswerDesk -----------------------------
(***************************************************************************)
(* What the LXMF inbox promises those who send it commands, without the    *)
(* tables it keeps for that.  A message is taken on or refused once, and   *)
(* refused only when its sender was let through too recently or the desk   *)
(* is full.  One taken on is answered once or, after all patience, given   *)
(* up; for each the way to its sender is asked for at most once, and the   *)
(* desk transmits one thing at a time, with a rest in between.             *)
(***************************************************************************)
EXTENDS Naturals, FiniteSets

CONSTANTS Senders, Msgs, Source, Room, Cooldown, Rest, Patience

VARIABLES
    queue,    \* those taken on and not yet done with: how long ago, and whether
              \* the way to the sender has been asked for
    refused,  \* messages turned away
    answered, \* messages answered
    lost,     \* messages given up
    since,    \* time since each sender was let through, up to Cooldown
    rest      \* time since the last transmission, up to Rest

Waiting == DOMAIN queue
Keep(S) == [m \in S |-> queue[m]]
Later(t, bound) == IF t < bound THEN t + 1 ELSE t

Init ==
    /\ queue = [m \in {} |-> 0]
    /\ refused = {} /\ answered = {} /\ lost = {}
    /\ since = [s \in Senders |-> Cooldown]
    /\ rest = Rest

New(m) == m \notin Waiting \cup refused \cup answered \cup lost

TakeOn(m) ==
    /\ New(m)
    /\ since[Source[m]] = Cooldown /\ Cardinality(Waiting) < Room
    /\ queue' = [k \in Waiting \cup {m} |->
                    IF k = m THEN [age |-> 0, asked |-> FALSE] ELSE queue[k]]
    /\ since' = [since EXCEPT ![Source[m]] = 0]
    /\ UNCHANGED <<refused, answered, lost, rest>>

Refuse(m) ==
    /\ New(m)
    /\ \/ since[Source[m]] < Cooldown /\ UNCHANGED since
       \/ /\ since[Source[m]] = Cooldown /\ Cardinality(Waiting) = Room
          /\ since' = [since EXCEPT ![Source[m]] = 0]
    /\ refused' = refused \cup {m}
    /\ UNCHANGED <<queue, answered, lost, rest>>

\* Those in gone are given up, and at most one other is worked at.
Serve(gone) ==
    /\ rest = Rest
    /\ \A m \in gone : queue[m].age = Patience
    /\ lost' = lost \cup gone
    /\ \/ \E m \in Waiting \ gone :
             /\ queue' = Keep(Waiting \ (gone \cup {m}))
             /\ answered' = answered \cup {m} /\ rest' = 0
       \/ \E m \in Waiting \ gone :
             /\ ~queue[m].asked
             /\ queue' = [k \in Waiting \ gone |->
                             IF k = m THEN [age |-> queue[k].age, asked |-> TRUE] ELSE queue[k]]
             /\ rest' = 0 /\ UNCHANGED answered
       \/ queue' = Keep(Waiting \ gone) /\ UNCHANGED <<answered, rest>>
    /\ UNCHANGED <<refused, since>>

Pass ==
    /\ queue' = [m \in Waiting |-> [queue[m] EXCEPT !.age = Later(@, Patience)]]
    /\ since' = [s \in Senders |-> Later(since[s], Cooldown)]
    /\ rest' = Later(rest, Rest)
    /\ UNCHANGED <<refused, answered, lost>>

Next ==
    \/ \E m \in Msgs : TakeOn(m) \/ Refuse(m)
    \/ \E gone \in SUBSET Waiting : Serve(gone)
    \/ Pass

Spec == Init /\ [][Next]_<<queue, refused, answered, lost, since, rest>>
=============================================================================
