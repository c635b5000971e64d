-------------------------- MODULE LxmfInbox_proofs --------------------------
(***************************************************************************)
(* Safety of the LXMF inbox for any number of messages, senders and links, *)
(* any sizes of its tables and any times.                                  *)
(***************************************************************************)
EXTENDS LxmfTraffic, LxmfWire_proofs, FiniteSetTheorems, FunctionTheorems, WellFoundedInduction

\* A tracked link is up, and an up link is tracked once.
LinksTracked ==
    /\ \A i, j \in Tracks : links[i] # NoLink /\ links[i] = links[j] => i = j
    /\ \A l \in Links : Up(status[l]) <=> \E i \in Tracks : links[i] = l
    /\ accepts = (Cardinality(LiveIn(links, status)) < MaxLinks)

LInv == TypeOK /\ LinksTracked

\* The ring holds different messages, from its first slot on until it is full.
RingFilled ==
    /\ \A i, j \in Recent : recent[i] # NoMsg /\ recent[i] = recent[j] => i = j
    /\ \/ \A i \in Recent : recent[i] # NoMsg
       \/ \A i \in Recent : recent[i] # NoMsg <=> i < next

\* A message is recorded before it is queued and queued before it is answered.
QueuedOnce ==
    /\ \A m \in Msgs : ~Seen(m) => replies[m] = 0
    /\ \A m \in Msgs : replies[m] <= 1
    /\ \A i \in Queued : Seen(pending[i].msg) /\ replies[pending[i].msg] = 0
    /\ \A i, j \in Queued : pending[i].msg = pending[j].msg => i = j

RInv == TypeOK /\ RingFilled /\ QueuedOnce

\* A sender let through within the cooldown is remembered, with the right age.
SendersKnown ==
    /\ \A i, j \in Slots : senders[i].src # NoSender /\ senders[i].src = senders[j].src => i = j
    /\ \A i \in Slots : senders[i].src = NoSender => senders[i].age = SenderCooldown
    /\ \A s \in Senders : lastLet[s] < SenderCooldown =>
          \E i \in Slots : senders[i].src = s /\ senders[i].age = lastLet[s]

SInv == TypeOK /\ SendersKnown
-----------------------------------------------------------------------------
(***************************************************************************)
(* The choices the code makes with a loop over an array.                   *)
(***************************************************************************)
LEMMA LeastIndex ==
    ASSUME NEW S \in SUBSET Nat, S # {}
    PROVE  \E i \in S : \A j \in S : i <= j
<1>1. PICK R : R = OpToRel(<, Nat)
  OBVIOUS
<1>2. IsWellFoundedOn(R, Nat)
  BY <1>1, NatLessThanWellFounded
<1>3. PICK i \in S : \A j \in S : <<j, i>> \notin R
  BY <1>2, WFMin
<1>4. \A j \in S : ~(j < i)
  BY <1>1, <1>3 DEF OpToRel
<1> QED
  BY <1>3, <1>4

LEMMA FirstTrack ==
    ASSUME NEW S \in SUBSET Tracks, S # {}
    PROVE  (CHOOSE i \in S : \A j \in S : i <= j) \in S
<1>1. \E i \in S : \A j \in S : i <= j
  BY LeastIndex, SizeAssumption DEF Tracks
<1> QED
  BY <1>1

\* The sender's own slot, or one that no other is older than.
LEMMA SlotChosen ==
    ASSUME TypeOK, NEW s \in Senders
    PROVE  /\ Slot(s) \in Slots
           /\ \/ senders[Slot(s)].src = s
              \/ /\ \A i \in Slots : senders[i].src # s
                 /\ \A i \in Slots : senders[i].age <= senders[Slot(s)].age
<1>1. CASE \E i \in Slots : senders[i].src = s
  BY <1>1 DEF Slot
<1>2. CASE \A i \in Slots : senders[i].src # s
  <2> DEFINE Oldest(i) == \A j \in Slots : \/ senders[i].age > senders[j].age
                                           \/ senders[i].age = senders[j].age /\ i <= j
             Distance == {SenderCooldown - senders[i].age : i \in Slots}
  <2>1. Slots # {} /\ Slots \subseteq Nat /\ SenderCooldown \in Nat
    <3>1. SenderSlots \in Nat \ {0} /\ SenderCooldown \in Nat
      BY SizeAssumption, TimeAssumption
    <3>2. 1 \in Slots
      BY <3>1 DEF Slots
    <3> QED
      BY <3>1, <3>2 DEF Slots
  <2>2. \A i \in Slots : senders[i].age \in 0..SenderCooldown
    BY DEF TypeOK
  <2>3. Distance \in SUBSET Nat /\ Distance # {}
    <3>1. \A i \in Slots : SenderCooldown - senders[i].age \in Nat
      BY <2>1, <2>2
    <3> QED
      BY <2>1, <3>1
  <2>4. PICK d \in Distance : \A e \in Distance : d <= e
    BY <2>3, LeastIndex
  <2> DEFINE S == {i \in Slots : SenderCooldown - senders[i].age = d}
  <2>5. S \in SUBSET Nat /\ S # {}
    BY <2>1, <2>4
  <2>6. PICK i \in S : \A j \in S : i <= j
    BY <2>5, LeastIndex
  <2>7. Oldest(i) /\ i \in Slots
    <3> SUFFICES ASSUME NEW j \in Slots
                 PROVE  \/ senders[i].age > senders[j].age
                        \/ senders[i].age = senders[j].age /\ i <= j
      BY <2>6
    <3>1. SenderCooldown - senders[i].age = d /\ d <= SenderCooldown - senders[j].age
      BY <2>4, <2>6
    <3>2. SenderCooldown - senders[j].age = d => i <= j
      BY <2>6
    <3>3. senders[i].age \in Nat /\ senders[j].age \in Nat
      BY <2>2, <2>6
    <3> QED
      BY <2>1, <3>1, <3>2, <3>3
  <2>8. Slot(s) = CHOOSE k \in Slots : Oldest(k)
    BY <1>2 DEF Slot
  <2>9. Slot(s) \in Slots /\ Oldest(Slot(s))
    BY <2>7, <2>8
  <2>10. \A j \in Slots : senders[j].age <= senders[Slot(s)].age
    BY <2>2, <2>9
  <2> QED
    BY <1>2, <2>9, <2>10
<1> QED
  BY <1>1, <1>2
-----------------------------------------------------------------------------
(***************************************************************************)
(* Types.                                                                  *)
(***************************************************************************)
LEMMA Constants ==
    /\ MaxPending \in Nat \ {0} /\ MaxLinks \in Nat \ {0}
    /\ RecentIds \in Nat \ {0} /\ SenderSlots \in Nat \ {0}
    /\ SenderCooldown \in Nat \ {0} /\ ReplySpacing \in Nat \ {0}
    /\ HalfGiveUp \in Nat \ {0} /\ LinkIdle \in Nat \ {0}
    /\ GiveUp \in Nat \ {0}
BY SizeAssumption, TimeAssumption DEF GiveUp

LEMMA OlderType ==
    ASSUME NEW bound \in Nat, NEW a \in 0..bound
    PROVE  Older(a, bound) \in 0..bound
BY DEF Older

LEMMA InitType == Init => TypeOK
BY Constants DEF Init, TypeOK, Recent, Slots, Statuses

LEMMA RecordType ==
    ASSUME TypeOK, NEW m \in Msgs, Record(m)
    PROVE  recent' \in [Recent -> Msgs \cup {NoMsg}] /\ next' \in Recent
<1>1. next \in Nat /\ (next + 1) % RecentIds \in 0 .. RecentIds - 1
  BY Constants DEF TypeOK, Recent
<1> QED
  BY <1>1 DEF TypeOK, Record, Recent

LEMMA LetThroughType ==
    ASSUME TypeOK, NEW s \in Senders, LetThrough(s)
    PROVE  /\ senders' \in [Slots -> [src : Senders \cup {NoSender}, age : 0..SenderCooldown]]
           /\ lastLet' \in [Senders -> 0..SenderCooldown]
<1>1. Slot(s) \in Slots /\ [src |-> s, age |-> 0] \in
          [src : Senders \cup {NoSender}, age : 0..SenderCooldown]
  BY SlotChosen, Constants
<1> QED
  BY <1>1, Constants DEF TypeOK, LetThrough

LEMMA HandleType ==
    ASSUME TypeOK, NEW m \in Msgs, NEW l \in Links \cup {NoLink}, HandleMessage(m, l)
    PROVE  /\ recent' \in [Recent -> Msgs \cup {NoMsg}] /\ next' \in Recent
           /\ senders' \in [Slots -> [src : Senders \cup {NoSender}, age : 0..SenderCooldown]]
           /\ lastLet' \in [Senders -> 0..SenderCooldown]
           /\ pending' \in [Pending -> Reply \cup {NoReply}]
           /\ fate' \in [Msgs -> {"new", "queued", "refused"}]
           /\ UNCHANGED <<spacing, replies, lastReply>>
<1>1. Source[m] \in Senders
  BY MessageAssumption
<1>2. UNCHANGED <<spacing, replies, lastReply>>
  BY DEF HandleMessage
<1>3. CASE HandleDuplicate(m)
  <2>1. fate' \in [Msgs -> {"new", "queued", "refused"}]
    BY <1>3 DEF TypeOK, HandleDuplicate, admission
  <2> QED
    BY <1>2, <1>3, <2>1 DEF TypeOK, HandleDuplicate, admission
<1>4. CASE HandleTooSoon(m)
  BY <1>2, <1>4, RecordType DEF TypeOK, HandleTooSoon
<1>5. CASE HandleQueueFull(m)
  BY <1>1, <1>2, <1>5, RecordType, LetThroughType DEF TypeOK, HandleQueueFull
<1>6. CASE HandleQueue(m, l)
  <2>1. [msg |-> m, link |-> l, age |-> 0, asked |-> FALSE] \in Reply
    BY Constants DEF Reply
  <2>2. pending' \in [Pending -> Reply \cup {NoReply}]
    BY <1>6, <2>1 DEF TypeOK, HandleQueue
  <2>3. fate' \in [Msgs -> {"new", "queued", "refused"}]
    BY <1>6 DEF TypeOK, HandleQueue
  <2> QED
    BY <1>1, <1>2, <1>6, <2>2, <2>3, RecordType, LetThroughType DEF HandleQueue
<1> QED
  BY <1>3, <1>4, <1>5, <1>6 DEF HandleMessage

LEMMA MessageType ==
    ASSUME TypeOK, NEW m \in Msgs,
           OnOpportunistic(m) \/ \E l \in Links : OnLinkPacket(m, l)
    PROVE  TypeOK'
<1>1. CASE OnOpportunistic(m)
  BY <1>1, HandleType DEF TypeOK, OnOpportunistic, linkVars, mesh
<1>2. ASSUME NEW l \in Links, OnLinkPacket(m, l) PROVE TypeOK'
  <2>1. idle' \in [Links -> 0 .. LinkIdle + 1]
    BY <1>2, Constants DEF TypeOK, OnLinkPacket
  <2> QED
    BY <1>2, <2>1, HandleType DEF TypeOK, OnLinkPacket, mesh
<1> QED
  BY <1>1, <1>2

LEMMA LinkType ==
    ASSUME TypeOK, NEW l \in Links,
           \/ LinkRequest(l) \/ LinkFails(l) \/ OnLinkEstablished(l)
           \/ OnLinkClosed(l) \/ Identify(l)
    PROVE  TypeOK'
<1> USE DEF admission, replyVars, mesh
<1>1. status' \in [Links -> Statuses]
  BY DEF TypeOK, Statuses, LinkRequest, LinkFails, OnLinkEstablished, OnLinkClosed, Identify
<1>2. idle' \in [Links -> 0 .. LinkIdle + 1]
  BY Constants DEF TypeOK, LinkRequest, LinkFails, OnLinkEstablished, OnLinkClosed, Identify
<1>3. links' \in [Tracks -> Links \cup {NoLink}] /\ accepts' \in BOOLEAN
  <2>1. CASE OnLinkEstablished(l)
    <3> DEFINE open == Tracks \ LiveIn(links, status)
    <3>1. open # {} => (CHOOSE i \in open : \A j \in open : i <= j) \in Tracks
      BY FirstTrack
    <3>2. \/ links' = links
          \/ \E i \in Tracks : links' = [links EXCEPT ![i] = l]
      BY <2>1, <3>1 DEF OnLinkEstablished
    <3>3. links' \in [Tracks -> Links \cup {NoLink}]
      BY <3>2 DEF TypeOK
    <3> QED
      BY <2>1, <3>3 DEF OnLinkEstablished, UpdateAdmission
  <2>2. CASE OnLinkClosed(l)
    BY <2>2 DEF TypeOK, OnLinkClosed, Forget, UpdateAdmission
  <2> QED
    BY <2>1, <2>2 DEF TypeOK, LinkRequest, LinkFails, Identify
<1> QED
  BY <1>1, <1>2, <1>3 DEF TypeOK, LinkRequest, LinkFails, OnLinkEstablished,
     OnLinkClosed, Identify

LEMMA ServiceType ==
    ASSUME TypeOK, NEW st, Service(st)
    PROVE  /\ pending' \in [Pending -> Reply \cup {NoReply}]
           /\ spacing' \in 0..ReplySpacing
           /\ replies' \in [Msgs -> 0..2] /\ lastReply' \in [Senders -> 0..SenderCooldown]
           /\ idle' \in [Links -> 0 .. LinkIdle + 1]
<1>1. \A i \in First(st) : pending[i] \in Reply /\ [pending[i] EXCEPT !.asked = TRUE] \in Reply
  BY DEF TypeOK, First, Active, Queued, Reply
<1>2. pending' \in [Pending -> Reply \cup {NoReply}]
  BY <1>1 DEF TypeOK, Service
<1>3. \A m \in Msgs : Older(replies[m], 2) \in 0..2
  BY OlderType DEF TypeOK
<1>4. replies' \in [Msgs -> 0..2]
  BY <1>3 DEF TypeOK, Service
<1> QED
  BY <1>2, <1>4, Constants DEF TypeOK, Service

LEMMA TickType ==
    ASSUME TypeOK, TickInbox PROVE TypeOK'
<1>1. status' \in [Links -> Statuses] /\ links' \in [Tracks -> Links \cup {NoLink}]
  BY DEF TypeOK, TickInbox, Statuses
<1>2. /\ pending' \in [Pending -> Reply \cup {NoReply}]
      /\ spacing' \in 0..ReplySpacing
      /\ replies' \in [Msgs -> 0..2] /\ lastReply' \in [Senders -> 0..SenderCooldown]
      /\ idle' \in [Links -> 0 .. LinkIdle + 1]
  BY ServiceType DEF TypeOK, TickInbox, replyVars
<1> QED
  BY <1>1, <1>2 DEF TypeOK, TickInbox, UpdateAdmission, admission, mesh

LEMMA ClockType ==
    ASSUME TypeOK, Clock PROVE TypeOK'
<1>1. senders' \in [Slots -> [src : Senders \cup {NoSender}, age : 0..SenderCooldown]]
  <2>1. \A i \in Slots : Older(senders[i].age, SenderCooldown) \in 0..SenderCooldown
    BY OlderType, Constants DEF TypeOK
  <2> QED
    BY <2>1 DEF TypeOK, Clock
<1>2. pending' \in [Pending -> Reply \cup {NoReply}]
  <2>1. \A r \in Reply : Older(r.age, GiveUp) \in 0..GiveUp
    BY OlderType, Constants DEF Reply
  <2>2. \A r \in Reply : [r EXCEPT !.age = Older(@, GiveUp)] \in Reply
    BY <2>1 DEF Reply
  <2> QED
    BY <2>2 DEF TypeOK, Clock
<1>3. idle' \in [Links -> 0 .. LinkIdle + 1]
  <2>1. \A l \in Links : Older(idle[l], LinkIdle + 1) \in 0 .. LinkIdle + 1
    BY OlderType, Constants DEF TypeOK
  <2> QED
    BY <2>1, Constants DEF TypeOK, Clock
<1>4. /\ lastReply' \in [Senders -> 0..SenderCooldown] /\ spacing' \in 0..ReplySpacing
      /\ lastLet' \in [Senders -> 0..SenderCooldown]
  BY OlderType, Constants DEF TypeOK, Clock
<1> QED
  BY <1>1, <1>2, <1>3, <1>4 DEF TypeOK, Clock, mesh

LEMMA NextType == TypeOK /\ [Next]_vars => TypeOK'
<1> SUFFICES ASSUME TypeOK, [Next]_vars PROVE TypeOK'
  OBVIOUS
<1>1. ASSUME NEW s \in Senders, Announce(s) \/ PathLost(s) PROVE TypeOK'
  BY <1>1 DEF TypeOK, Announce, PathLost, admission, linkVars, replyVars
<1>2. CASE UNCHANGED vars
  BY <1>2 DEF TypeOK, vars, admission, linkVars, replyVars, mesh
<1> QED
  BY <1>1, <1>2, MessageType, LinkType, TickType, ClockType DEF Next

\* Every variable keeps its type: the ring's index wraps, and each table index
\* the code chooses is one of the table's.
THEOREM TypeCorrect == Spec => []TypeOK
BY InitType, NextType, PTL DEF Spec
-----------------------------------------------------------------------------
(***************************************************************************)
(* Links.                                                                  *)
(***************************************************************************)
LEMMA TrackedLive ==
    ASSUME LInv PROVE LiveIn(links, status) = {i \in Tracks : links[i] # NoLink}
BY DEF LInv, TypeOK, LinksTracked, LiveIn, Up

LEMMA InitLInv == Init => LInv
<1> SUFFICES ASSUME Init PROVE LInv
  OBVIOUS
<1>1. LiveIn(links, status) = {}
  BY DEF Init, LiveIn
<1>2. Cardinality(LiveIn(links, status)) = 0 /\ 0 < MaxLinks
  BY <1>1, FS_EmptySet, Constants
<1>3. accepts = (Cardinality(LiveIn(links, status)) < MaxLinks)
  BY <1>2 DEF Init
<1>4. LinksTracked
  BY <1>3, LinkAssumption DEF Init, LinksTracked, Up
<1> QED
  BY <1>4, InitType DEF LInv

\* A step that tracks the same links, which stay up, admits as before.
LEMMA LinksSame ==
    ASSUME LInv, links' = links, accepts' = accepts,
           \A l \in Links : Up(status'[l]) <=> Up(status[l])
    PROVE  LinksTracked'
<1>1. LiveIn(links, status) = LiveIn(links', status')
  BY DEF LInv, TypeOK, LinksTracked, LiveIn, Up
<1>2. LiveIn(links, status)' = LiveIn(links', status')
  BY DEF LiveIn
<1> QED
  BY <1>1, <1>2 DEF LInv, LinksTracked, Up

LEMMA LinkLInv ==
    ASSUME LInv, NEW l \in Links,
           \/ LinkRequest(l) \/ LinkFails(l) \/ OnLinkEstablished(l)
           \/ OnLinkClosed(l) \/ Identify(l)
    PROVE  LinksTracked'
<1>0. TypeOK
  BY DEF LInv
<1>1. CASE LinkRequest(l) \/ LinkFails(l) \/ Identify(l)
  <2>1. \A k \in Links : Up(status'[k]) <=> Up(status[k])
    BY <1>0, <1>1 DEF TypeOK, LinkRequest, LinkFails, Identify, Up
  <2> QED
    BY <1>1, <2>1, LinksSame DEF LinkRequest, LinkFails, Identify
<1>2. CASE OnLinkEstablished(l)
  <2> DEFINE open == Tracks \ LiveIn(links, status)
  <2>1. ~Up(status[l]) /\ \A i \in Tracks : links[i] # l
    BY <1>2 DEF OnLinkEstablished, Up, LInv, LinksTracked
  <2>2. CASE open = {}
    <3>1. status' = [status EXCEPT ![l] = "closed"] /\ links' = links
      BY <1>2, <2>2 DEF OnLinkEstablished
    <3>2. \A k \in Links : Up(status'[k]) <=> Up(status[k])
      BY <1>0, <2>1, <3>1 DEF TypeOK, Up
    <3> QED
      BY <1>2, <3>1, <3>2 DEF LInv, LinksTracked, OnLinkEstablished, UpdateAdmission, LiveIn, Up
  <2>3. CASE open # {}
    <3>1. PICK i \in open : /\ status' = [status EXCEPT ![l] = "active"]
                            /\ links' = [links EXCEPT ![i] = l]
      BY <1>2, <2>3, FirstTrack DEF OnLinkEstablished
    <3>2. i \in Tracks /\ links[i] = NoLink
      BY TrackedLive
    <3>3. /\ \A k \in Links : Up(status'[k]) <=> Up(status[k]) \/ k = l
          /\ \A j \in Tracks : links'[j] = IF j = i THEN l ELSE links[j]
      BY <1>0, <3>1, <3>2 DEF TypeOK, Up
    <3>4. /\ \A j, k \in Tracks : links'[j] # NoLink /\ links'[j] = links'[k] => j = k
          /\ \A k \in Links : Up(status'[k]) <=> \E j \in Tracks : links'[j] = k
      BY <2>1, <3>2, <3>3, LinkAssumption DEF LInv, LinksTracked
    <3> QED
      BY <1>2, <3>4 DEF LinksTracked, OnLinkEstablished, UpdateAdmission, LiveIn, Up
  <2> QED
    BY <2>2, <2>3
<1>3. CASE OnLinkClosed(l)
  <2>1. /\ \A k \in Links : Up(status'[k]) <=> Up(status[k]) /\ k # l
        /\ \A j \in Tracks : links'[j] = IF links[j] = l THEN NoLink ELSE links[j]
    BY <1>0, <1>3 DEF TypeOK, OnLinkClosed, Forget, Up
  <2>2. /\ \A j, k \in Tracks : links'[j] # NoLink /\ links'[j] = links'[k] => j = k
        /\ \A k \in Links : Up(status'[k]) <=> \E j \in Tracks : links'[j] = k
    BY <2>1, LinkAssumption DEF LInv, LinksTracked
  <2> QED
    BY <1>3, <2>2 DEF LinksTracked, OnLinkClosed, UpdateAdmission, LiveIn, Up
<1> QED
  BY <1>1, <1>2, <1>3

LEMMA TickLInv ==
    ASSUME LInv, TickInbox PROVE LinksTracked'
<1>0. TypeOK
  BY DEF LInv
<1>1. /\ \A k \in Links : Up(status'[k]) <=> Up(status[k]) /\ ~Reaped(k)
      /\ \A k \in Links : Up(status[k]) => (status'[k] = "closed" <=> Reaped(k))
  BY <1>0 DEF TypeOK, TickInbox, Up
<1>2. \A i \in Tracks : links[i] # NoLink => links[i] \in Links /\ Up(status[links[i]])
  BY <1>0 DEF LInv, LinksTracked, TypeOK
<1>3. \A i \in Tracks : links'[i] = IF links[i] # NoLink /\ Reaped(links[i])
                                    THEN NoLink ELSE links[i]
  BY <1>1, <1>2 DEF TickInbox
<1>4. /\ \A j, k \in Tracks : links'[j] # NoLink /\ links'[j] = links'[k] => j = k
      /\ \A k \in Links : Up(status'[k]) <=> \E j \in Tracks : links'[j] = k
  BY <1>1, <1>3, LinkAssumption DEF LInv, LinksTracked
<1> QED
  BY <1>4 DEF LinksTracked, TickInbox, UpdateAdmission, LiveIn, Up

LEMMA NextLInv == LInv /\ [Next]_vars => LInv'
<1> SUFFICES ASSUME LInv, [Next]_vars PROVE LinksTracked'
  BY NextType DEF LInv
<1>1. CASE UNCHANGED <<links, status, accepts>>
  BY <1>1, LinksSame
<1>2. ASSUME NEW m \in Msgs, OnOpportunistic(m) \/ \E l \in Links : OnLinkPacket(m, l)
      PROVE  UNCHANGED <<links, status, accepts>>
  BY <1>2 DEF OnOpportunistic, OnLinkPacket, linkVars
<1>3. ASSUME NEW s \in Senders, Announce(s) \/ PathLost(s)
      PROVE  UNCHANGED <<links, status, accepts>>
  BY <1>3 DEF Announce, PathLost, linkVars
<1>4. Clock \/ UNCHANGED vars => UNCHANGED <<links, status, accepts>>
  BY DEF Clock, vars, linkVars
<1> QED
  BY <1>1, <1>2, <1>3, <1>4, LinkLInv, TickLInv DEF Next

\* No link is left to cost keepalives: an active one is tracked exactly once.
THEOREM LinksAllTracked == Spec => []ActiveLinksTracked
<1>1. LInv => ActiveLinksTracked
  <2> SUFFICES ASSUME LInv, NEW l \in Links, Up(status[l])
               PROVE  Cardinality({i \in Tracks : links[i] = l}) = 1
    BY DEF ActiveLinksTracked
  <2>1. PICK i \in Tracks : links[i] = l
    BY DEF LInv, LinksTracked
  <2>2. {j \in Tracks : links[j] = l} = {i}
    BY <2>1, LinkAssumption DEF LInv, LinksTracked
  <2> QED
    BY <2>2, FS_Singleton
<1> QED
  BY InitLInv, NextLInv, <1>1, PTL DEF Spec

\* Links are accepted exactly when one more can be tracked.
THEOREM AdmissionAlwaysCurrent == Spec => []AdmissionCurrent
<1>1. LInv => AdmissionCurrent
  <2> SUFFICES ASSUME LInv PROVE AdmissionCurrent
    OBVIOUS
  <2> DEFINE Live == {i \in Tracks : links[i] # NoLink}
             Open == {l \in Links : Up(status[l])}
             f == [i \in Live |-> links[i]]
  <2>1. IsFiniteSet(Live)
    <3>1. IsFiniteSet(Tracks)
      BY FS_Interval, Constants DEF Tracks
    <3>2. Live \in SUBSET Tracks
      OBVIOUS
    <3> QED
      BY <3>1, <3>2, FS_Subset
  <2>2. f \in Bijection(Live, Open)
    <3>1. f \in [Live -> Open]
      BY DEF LInv, TypeOK, LinksTracked
    <3>2. \A i, j \in Live : f[i] = f[j] => i = j
      BY DEF LInv, LinksTracked
    <3>3. \A l \in Open : \E i \in Live : f[i] = l
      BY LinkAssumption DEF LInv, LinksTracked
    <3> QED
      BY <3>1, <3>2, <3>3, Fun_IsBij
  <2>3. Cardinality(Open) = Cardinality(Live)
    BY <2>1, <2>2, FS_Bijection, Fun_ExistsBij
  <2> QED
    BY <2>3, TrackedLive DEF LInv, LinksTracked, AdmissionCurrent
<1> QED
  BY InitLInv, NextLInv, <1>1, PTL DEF Spec
-----------------------------------------------------------------------------
(***************************************************************************)
(* The ring of recent messages, and the queue of replies.                  *)
(***************************************************************************)
Remembers == Cardinality(Msgs) <= RecentIds

LEMMA InitRInv == Init => RInv
<1> SUFFICES ASSUME Init PROVE RInv
  OBVIOUS
<1>1. RingFilled
  BY DEF Init, RingFilled, Recent
<1>2. QueuedOnce
  BY DEF Init, QueuedOnce, Queued
<1> QED
  BY <1>1, <1>2, InitType DEF RInv

LEMMA SeenIn ==
    ASSUME TypeOK, NEW m \in Msgs
    PROVE  Seen(m) <=> \E i \in Recent : recent[i] = m
BY DEF TypeOK, Seen, Range

\* A ring as large as the set of messages is full only when all are in it.
LEMMA FullRing ==
    ASSUME RInv, Remembers, \A i \in Recent : recent[i] # NoMsg, NEW m \in Msgs
    PROVE  Seen(m)
<1>1. recent \in Injection(Recent, Msgs)
  <2>1. recent \in [Recent -> Msgs]
    BY DEF RInv, TypeOK
  <2>2. \A i, j \in Recent : recent[i] = recent[j] => i = j
    BY DEF RInv, RingFilled
  <2> QED
    BY <2>1, <2>2, Fun_IsInj
<1>2. Cardinality(Recent) = RecentIds /\ IsFiniteSet(Recent)
  BY FS_Interval, Constants DEF Recent
<1>3. IsFiniteSet(Msgs) /\ Cardinality(Msgs) \in Nat
  BY MessageAssumption, FS_CardinalityType
<1>4. recent \in Surjection(Recent, Msgs)
  BY <1>1, <1>2, <1>3, FS_Injection, Constants DEF Remembers
<1>5. \E i \in Recent : recent[i] = m
  BY <1>4, Fun_SurjectionProperties
<1> QED
  BY <1>5, SeenIn DEF RInv

\* Recording overwrites nothing.
LEMMA RecordRing ==
    ASSUME RInv, Remembers, NEW m \in Msgs, ~Seen(m), Record(m)
    PROVE  /\ RingFilled'
           /\ \A k \in Msgs : Seen(k)' <=> Seen(k) \/ k = m
<1>0. TypeOK /\ next \in 0 .. RecentIds - 1 /\ RecentIds \in Nat \ {0}
  BY Constants DEF RInv, TypeOK, Recent
<1>1. \A i \in Recent : recent[i] # NoMsg <=> i < next
  BY FullRing DEF RInv, RingFilled
<1>2. recent[next] = NoMsg /\ next \in Recent
  BY <1>0, <1>1 DEF Recent
<1>3. \A i \in Recent : recent'[i] = IF i = next THEN m ELSE recent[i]
  BY <1>0 DEF Record, TypeOK
<1>4. recent' \in [Recent -> Msgs \cup {NoMsg}] /\ next' \in Recent
  BY <1>0, RecordType
<1>5. \A i \in Recent : recent[i] # m
  BY <1>0, SeenIn
<1>6. \A i, j \in Recent : recent'[i] # NoMsg /\ recent'[i] = recent'[j] => i = j
  BY <1>3, <1>5 DEF RInv, RingFilled
<1>7. next' = IF next = RecentIds - 1 THEN 0 ELSE next + 1
  <2>1. CASE next = RecentIds - 1
    BY <1>0, <2>1 DEF Record
  <2>2. CASE next # RecentIds - 1
    <3>1. next + 1 \in 0 .. RecentIds - 1
      BY <1>0, <2>2
    <3>2. (next + 1) % RecentIds = next + 1
      BY <1>0, <3>1
    <3> QED
      BY <2>2, <3>2 DEF Record
  <2> QED
    BY <2>1, <2>2
<1>8. \/ \A i \in Recent : recent'[i] # NoMsg
      \/ \A i \in Recent : recent'[i] # NoMsg <=> i < next'
  <2>1. m # NoMsg
    BY MessageAssumption
  <2>2. CASE next = RecentIds - 1
    BY <1>0, <1>1, <1>3, <2>1, <2>2 DEF Recent
  <2>3. CASE next # RecentIds - 1
    BY <1>0, <1>1, <1>3, <1>7, <2>1, <2>3 DEF Recent
  <2> QED
    BY <2>2, <2>3
<1>9. \A k \in Msgs : (\E i \in Recent : recent'[i] = k) <=>
                        (\E i \in Recent : recent[i] = k) \/ k = m
  <2>1. ASSUME NEW k \in Msgs PROVE (\E i \in Recent : recent'[i] = k) <=>
                        (\E i \in Recent : recent[i] = k) \/ k = m
    <3>1. k # NoMsg
      BY MessageAssumption
    <3> QED
      BY <1>2, <1>3, <3>1
  <2> QED
    BY <2>1
<1>10. \A k \in Msgs : Seen(k)' <=> \E i \in Recent : recent'[i] = k
  BY <1>4 DEF Seen, Range
<1> QED
  BY <1>0, <1>6, <1>8, <1>9, <1>10, SeenIn DEF RingFilled

LEMMA MessageRInv ==
    ASSUME RInv, Remembers, NEW m \in Msgs, NEW l \in Links \cup {NoLink}, HandleMessage(m, l)
    PROVE  RingFilled' /\ QueuedOnce'
<1>0. TypeOK /\ replies' = replies
  BY DEF RInv, HandleMessage
<1>1. CASE HandleDuplicate(m)
  <2>1. \A k \in Msgs : Seen(k)' = Seen(k)
    BY <1>1 DEF HandleDuplicate, admission, Seen
  <2> QED
    BY <1>0, <1>1, <2>1 DEF HandleDuplicate, admission, RInv, RingFilled, QueuedOnce, Queued, Seen
<1>2. CASE ~Seen(m) /\ Record(m) /\ pending' = pending
  <2>1. RingFilled' /\ \A k \in Msgs : Seen(k)' <=> Seen(k) \/ k = m
    BY <1>2, RecordRing
  <2>2. \A i \in Queued : pending[i].msg \in Msgs
    BY <1>0 DEF TypeOK, Queued, Reply
  <2> QED
    BY <1>0, <1>2, <2>1, <2>2 DEF RInv, QueuedOnce, Queued
<1>3. CASE HandleQueue(m, l)
  <2>1. RingFilled' /\ \A k \in Msgs : Seen(k)' <=> Seen(k) \/ k = m
    BY <1>3, RecordRing DEF HandleQueue
  <2>2. \A i \in Queued : pending[i].msg \in Msgs /\ pending[i].msg # m
    BY <1>0, <1>3 DEF TypeOK, Queued, Reply, RInv, QueuedOnce, HandleQueue
  <2>3. PICK n \in Pending : pending' = [pending EXCEPT ![n] =
                            [msg |-> m, link |-> l, age |-> 0, asked |-> FALSE]]
    BY <1>3 DEF HandleQueue
  <2>4. \A i \in Pending : pending'[i] = IF i = n THEN [msg |-> m, link |-> l, age |-> 0, asked |-> FALSE]
                                         ELSE pending[i]
    BY <1>0, <2>3 DEF TypeOK
  <2>5. \A i \in Queued' : (i = n /\ pending'[i].msg = m) \/ (i # n /\ i \in Queued /\ pending'[i] = pending[i])
    BY <2>4 DEF Queued
  <2>6. replies[m] = 0
    BY <1>3 DEF RInv, QueuedOnce, HandleQueue
  <2> QED
    BY <1>0, <2>1, <2>2, <2>5, <2>6 DEF RInv, QueuedOnce
<1> QED
  BY <1>1, <1>2, <1>3 DEF HandleMessage, HandleTooSoon, HandleQueueFull
\* A reply that is sent leaves the queue in the same step.
LEMMA ServiceRInv ==
    ASSUME RInv, NEW st, Service(st), UNCHANGED <<recent, next>>
    PROVE  QueuedOnce'
<1> DEFINE sent == {i \in First(st) : Answerable(pending[i], st)}
           answered == {pending[i].msg : i \in sent}
<1>0. TypeOK /\ \A m \in Msgs : Seen(m)' = Seen(m)
  BY DEF RInv, Seen
<1>1. sent \subseteq Queued /\ \A i \in Queued : pending[i] \in Reply /\ pending[i].msg \in Msgs
  BY <1>0 DEF First, Active, Queued, TypeOK, Reply
<1>2. \A m \in Msgs : replies'[m] = IF m \in answered THEN Older(replies[m], 2) ELSE replies[m]
  BY DEF Service
<1>3. \A m \in Msgs : m \in answered => Seen(m) /\ replies[m] = 0
  BY <1>1 DEF RInv, QueuedOnce
<1>4. Older(0, 2) = 1
  BY DEF Older
<1>5. \A m \in Msgs : replies'[m] = IF m \in answered THEN 1 ELSE replies[m]
  BY <1>2, <1>3, <1>4
<1>6. \A i \in Pending : pending'[i] = IF i \in sent \cup Dropped(st) THEN NoReply
                                       ELSE IF i \in First(st) THEN [pending[i] EXCEPT !.asked = TRUE]
                                       ELSE pending[i]
  BY DEF Service
<1>7. \A i \in Queued' : i \in Queued /\ i \notin sent /\ pending'[i].msg = pending[i].msg
  <2> SUFFICES ASSUME NEW i \in Queued'
               PROVE  i \in Queued /\ i \notin sent /\ pending'[i].msg = pending[i].msg
    OBVIOUS
  <2>1. i \in Pending /\ pending'[i] # NoReply
    BY DEF Queued
  <2>2. CASE i \in First(st)
    <3>1. i \in Queued /\ i \notin sent /\ pending'[i] = [pending[i] EXCEPT !.asked = TRUE]
      BY <1>6, <2>1, <2>2 DEF First, Active
    <3> QED
      BY <1>1, <3>1 DEF Reply
  <2>3. CASE i \notin First(st)
    BY <1>6, <2>1, <2>3 DEF Queued
  <2> QED
    BY <2>2, <2>3
<1>8. \A i \in Queued' : pending[i].msg \notin answered
  BY <1>1, <1>7 DEF RInv, QueuedOnce
<1>9. \A i \in Queued' : pending'[i].msg \in Range(recent') /\ replies'[pending'[i].msg] = 0
  <2> SUFFICES ASSUME NEW i \in Queued'
               PROVE  pending'[i].msg \in Range(recent') /\ replies'[pending'[i].msg] = 0
    OBVIOUS
  <2>1. i \in Queued /\ pending[i].msg \in Msgs /\ pending'[i].msg = pending[i].msg
    BY <1>1, <1>7
  <2>2. Seen(pending[i].msg) /\ replies[pending[i].msg] = 0
    BY <2>1 DEF RInv, QueuedOnce
  <2>3. pending[i].msg \in Range(recent')
    BY <2>2 DEF Seen
  <2> QED
    BY <1>5, <1>8, <2>1, <2>2, <2>3
<1>10. \A i, j \in Queued' : pending'[i].msg = pending'[j].msg => i = j
  BY <1>7 DEF RInv, QueuedOnce
<1>11. \A m \in Msgs : (~Seen(m)' => replies'[m] = 0) /\ replies'[m] <= 1
  BY <1>0, <1>3, <1>5 DEF RInv, QueuedOnce
<1> QED
  BY <1>9, <1>10, <1>11 DEF QueuedOnce, Seen

LEMMA QueueAged ==
    ASSUME RInv, UNCHANGED <<recent, next, replies>>,
           \A i \in Pending : /\ pending'[i] = NoReply <=> pending[i] = NoReply
                              /\ pending[i] # NoReply => pending'[i].msg = pending[i].msg
    PROVE  RingFilled' /\ QueuedOnce'
<1>1. \A m : Seen(m)' = Seen(m)
  BY DEF Seen
<1>2. Queued' = Queued /\ \A i \in Queued : pending'[i].msg = pending[i].msg
  BY DEF Queued
<1> QED
  BY <1>1, <1>2 DEF RInv, RingFilled, QueuedOnce

LEMMA NextRInv ==
    ASSUME RInv, Remembers, [Next]_vars PROVE RingFilled' /\ QueuedOnce'
<1>0. TypeOK
  BY DEF RInv
<1>1. ASSUME NEW m \in Msgs, OnOpportunistic(m) \/ \E l \in Links : OnLinkPacket(m, l)
      PROVE  RingFilled' /\ QueuedOnce'
  BY <1>1, MessageRInv DEF OnOpportunistic, OnLinkPacket
<1>2. CASE UNCHANGED <<recent, next, replies, pending>>
  BY <1>2, QueueAged
<1>3. ASSUME NEW l \in Links, \/ LinkRequest(l) \/ LinkFails(l) \/ OnLinkEstablished(l)
                              \/ OnLinkClosed(l) \/ Identify(l)
      PROVE  UNCHANGED <<recent, next, replies, pending>>
  BY <1>3 DEF LinkRequest, LinkFails, OnLinkEstablished, OnLinkClosed, Identify,
     admission, replyVars
<1>4. ASSUME NEW s \in Senders, Announce(s) \/ PathLost(s)
      PROVE  UNCHANGED <<recent, next, replies, pending>>
  BY <1>4 DEF Announce, PathLost, admission, replyVars
<1>5. CASE TickInbox
  <2>1. CASE UNCHANGED replyVars
    BY <1>2, <1>5, <2>1 DEF TickInbox, admission, replyVars
  <2>2. CASE Service(status')
    BY <1>5, <2>2, ServiceRInv DEF TickInbox, admission, RInv, RingFilled
  <2> QED
    BY <1>5, <2>1, <2>2 DEF TickInbox
<1>6. CASE Clock
  <2>1. \A i \in Pending : /\ pending'[i] = NoReply <=> pending[i] = NoReply
                           /\ pending[i] # NoReply => pending'[i].msg = pending[i].msg
    <3> SUFFICES ASSUME NEW i \in Pending, pending[i] # NoReply
                 PROVE  pending'[i] # NoReply /\ pending'[i].msg = pending[i].msg
      BY <1>6 DEF Clock
    <3>1. pending[i] \in Reply /\ pending'[i] = [pending[i] EXCEPT !.age = Older(@, GiveUp)]
      BY <1>0, <1>6 DEF Clock, TypeOK
    <3>2. Older(pending[i].age, GiveUp) \in 0..GiveUp
      BY <3>1, OlderType, Constants DEF Reply
    <3>3. pending'[i] \in Reply /\ pending'[i].msg = pending[i].msg
      BY <3>1, <3>2 DEF Reply
    <3> QED
      BY <3>3, ReplyAssumption
  <2> QED
    BY <1>6, <2>1, QueueAged DEF Clock
<1>7. UNCHANGED vars => UNCHANGED <<recent, next, replies, pending>>
  BY DEF vars, admission, replyVars
<1> QED
  BY <1>1, <1>2, <1>3, <1>4, <1>5, <1>6, <1>7 DEF Next

\* A message is answered at most once, however often its sender repeats it and
\* whatever happens to links, paths and the queue in between, if the ring has room
\* for every message that is sent.
THEOREM AnsweredOnce == Spec => []AnsweredAtMostOnce
<1>1. CASE Remembers
  <2>1. RInv /\ [Next]_vars => RInv'
    BY <1>1, NextType, NextRInv DEF RInv
  <2>2. RInv => AnsweredAtMostOnce
    BY DEF RInv, QueuedOnce, AnsweredAtMostOnce
  <2> QED
    BY InitRInv, <2>1, <2>2, PTL DEF Spec
<1>2. CASE ~Remembers
  <2>1. AnsweredAtMostOnce
    BY <1>2 DEF Remembers, AnsweredAtMostOnce
  <2> QED
    BY <2>1, PTL
<1> QED
  BY <1>1, <1>2
-----------------------------------------------------------------------------
(***************************************************************************)
(* The cooldown of each sender.                                            *)
(***************************************************************************)
EnoughSlots == Cardinality(Senders) <= SenderSlots

LEMMA InitSInv == Init => SInv
<1> SUFFICES ASSUME Init PROVE SInv
  OBVIOUS
<1>1. SendersKnown
  BY Constants DEF Init, SendersKnown
<1> QED
  BY <1>1, InitType DEF SInv

\* With a slot for every sender, a new sender evicts only one whose cooldown has
\* passed.
LEMMA EvictsCold ==
    ASSUME SInv, EnoughSlots, NEW s \in Senders, senders[Slot(s)].src # s
    PROVE  senders[Slot(s)].age = SenderCooldown
<1>0. TypeOK /\ SenderCooldown \in Nat
  BY Constants DEF SInv
<1>1. /\ Slot(s) \in Slots /\ \A i \in Slots : senders[i].src # s
      /\ \A i \in Slots : senders[i].age <= senders[Slot(s)].age
  BY <1>0, SlotChosen
<1>2. \A i \in Slots : senders[i].age \in 0..SenderCooldown /\ senders[i].src \in Senders \cup {NoSender}
  BY <1>0 DEF TypeOK
<1> SUFFICES ASSUME senders[Slot(s)].age # SenderCooldown PROVE FALSE
  OBVIOUS
<1>3. \A i \in Slots : senders[i].age < SenderCooldown
  BY <1>0, <1>1, <1>2
<1>4. \A i \in Slots : senders[i].src \in Senders \ {s}
  BY <1>1, <1>2, <1>3 DEF SInv, SendersKnown
<1> DEFINE f == [i \in Slots |-> senders[i].src]
<1>5. f \in Injection(Slots, Senders \ {s})
  <2>1. f \in [Slots -> Senders \ {s}]
    BY <1>4
  <2>2. \A i, j \in Slots : f[i] = f[j] => i = j
    BY <1>4, SenderAssumption DEF SInv, SendersKnown
  <2> QED
    BY <2>1, <2>2, Fun_IsInj
<1>6. /\ IsFiniteSet(Senders \ {s}) /\ Cardinality(Senders \ {s}) = Cardinality(Senders) - 1
      /\ Cardinality(Senders) \in Nat
  BY SenderAssumption, FS_RemoveElement, FS_CardinalityType
<1>7. Cardinality(Slots) = SenderSlots /\ SenderSlots \in Nat
  BY FS_Interval, Constants DEF Slots
<1>8. Cardinality(Slots) <= Cardinality(Senders \ {s})
  BY <1>5, <1>6, FS_Injection
<1> QED
  BY <1>6, <1>7, <1>8 DEF EnoughSlots

LEMMA LetThroughSInv ==
    ASSUME SInv, EnoughSlots, NEW s \in Senders, ~Cooling(s), LetThrough(s)
    PROVE  /\ SendersKnown' /\ lastLet[s] = SenderCooldown
           /\ \A t \in Senders : t # s => lastLet'[t] = lastLet[t]
<1>0. TypeOK /\ Slot(s) \in Slots /\ SenderCooldown \in Nat
  BY SlotChosen, Constants DEF SInv
<1>1. PICK k \in Slots : k = Slot(s)
  BY <1>0
<1>2. \A i \in Slots : senders'[i] = IF i = k THEN [src |-> s, age |-> 0] ELSE senders[i]
  BY <1>0, <1>1 DEF TypeOK, LetThrough
<1>3. \A t \in Senders : lastLet'[t] = IF t = s THEN 0 ELSE lastLet[t]
  BY <1>0 DEF TypeOK, LetThrough
<1>4. senders[k].src = s \/ ((\A i \in Slots : senders[i].src # s) /\ senders[k].age = SenderCooldown)
  BY <1>0, <1>1, SlotChosen, EvictsCold
<1>5. \A i, j \in Slots : senders'[i].src # NoSender /\ senders'[i].src = senders'[j].src => i = j
  BY <1>2, <1>4 DEF SInv, SendersKnown
<1>6. \A i \in Slots : senders'[i].src = NoSender => senders'[i].age = SenderCooldown
  BY <1>2, SenderAssumption DEF SInv, SendersKnown
<1>7. ASSUME NEW t \in Senders, lastLet'[t] < SenderCooldown
      PROVE  \E i \in Slots : senders'[i].src = t /\ senders'[i].age = lastLet'[t]
  <2>1. CASE t = s
    BY <1>2, <1>3, <2>1
  <2>2. CASE t # s
    <3>1. PICK i \in Slots : senders[i].src = t /\ senders[i].age = lastLet[t]
      BY <1>3, <1>7, <2>2 DEF SInv, SendersKnown
    <3>2. lastLet[t] \in 0..SenderCooldown /\ lastLet[t] < SenderCooldown
      BY <1>0, <1>3, <1>7, <2>2 DEF TypeOK
    <3>3. i # k
      BY <1>0, <1>4, <2>2, <3>1, <3>2
    <3> QED
      BY <1>2, <1>3, <2>2, <3>1, <3>3
  <2> QED
    BY <2>1, <2>2
<1>8. lastLet[s] = SenderCooldown
  <2>1. lastLet[s] \in 0..SenderCooldown
    BY <1>0 DEF TypeOK
  <2>2. ~(lastLet[s] < SenderCooldown)
    BY DEF SInv, SendersKnown, Cooling
  <2> QED
    BY <1>0, <2>1, <2>2
<1> QED
  BY <1>3, <1>5, <1>6, <1>7, <1>8 DEF SendersKnown

Spaced == \A s \in Senders : lastLet'[s] = 0 /\ lastLet[s] # 0 => lastLet[s] = SenderCooldown

LEMMA MessageSInv ==
    ASSUME SInv, EnoughSlots, NEW m \in Msgs, NEW l \in Links \cup {NoLink}, HandleMessage(m, l)
    PROVE  SendersKnown' /\ Spaced
<1>1. CASE UNCHANGED <<senders, lastLet>>
  BY <1>1 DEF SInv, SendersKnown, Spaced
<1>2. CASE HandleQueueFull(m) \/ HandleQueue(m, l)
  <2>1. Source[m] \in Senders /\ ~Cooling(Source[m]) /\ LetThrough(Source[m])
    BY <1>2, MessageAssumption DEF HandleQueueFull, HandleQueue
  <2> QED
    BY <2>1, LetThroughSInv DEF Spaced
<1> QED
  BY <1>1, <1>2 DEF HandleMessage, HandleDuplicate, HandleTooSoon, admission

LEMMA ClockSInv ==
    ASSUME SInv, Clock PROVE SendersKnown' /\ Spaced
<1>0. TypeOK /\ SenderCooldown \in Nat \ {0}
  BY Constants DEF SInv
<1>1. \A i \in Slots : /\ senders'[i].src = senders[i].src
                       /\ senders'[i].age = Older(senders[i].age, SenderCooldown)
  BY <1>0 DEF Clock, TypeOK
<1>2. \A s \in Senders : lastLet'[s] = Older(lastLet[s], SenderCooldown)
                         /\ lastLet[s] \in 0..SenderCooldown
  BY <1>0 DEF Clock, TypeOK
<1>3. Older(SenderCooldown, SenderCooldown) = SenderCooldown
      /\ \A a \in 0..SenderCooldown : /\ Older(a, SenderCooldown) # 0
                                      /\ Older(a, SenderCooldown) < SenderCooldown => a < SenderCooldown
  BY <1>0 DEF Older
<1>4. \A s \in Senders : lastLet'[s] < SenderCooldown =>
          \E i \in Slots : senders'[i].src = s /\ senders'[i].age = lastLet'[s]
  BY <1>1, <1>2, <1>3 DEF SInv, SendersKnown
<1> QED
  BY <1>1, <1>2, <1>3, <1>4 DEF SInv, SendersKnown, Spaced

LEMMA NextSInv ==
    ASSUME SInv, EnoughSlots, [Next]_vars PROVE SendersKnown' /\ Spaced
<1>1. ASSUME NEW m \in Msgs, OnOpportunistic(m) \/ \E l \in Links : OnLinkPacket(m, l)
      PROVE  SendersKnown' /\ Spaced
  BY <1>1, MessageSInv DEF OnOpportunistic, OnLinkPacket
<1>2. CASE UNCHANGED <<senders, lastLet>>
  BY <1>2 DEF SInv, SendersKnown, Spaced
<1>3. ASSUME NEW l \in Links, \/ LinkRequest(l) \/ LinkFails(l) \/ OnLinkEstablished(l)
                              \/ OnLinkClosed(l) \/ Identify(l)
      PROVE  UNCHANGED <<senders, lastLet>>
  BY <1>3 DEF LinkRequest, LinkFails, OnLinkEstablished, OnLinkClosed, Identify, admission
<1>4. ASSUME NEW s \in Senders, Announce(s) \/ PathLost(s) PROVE UNCHANGED <<senders, lastLet>>
  BY <1>4 DEF Announce, PathLost, admission
<1>5. TickInbox \/ UNCHANGED vars => UNCHANGED <<senders, lastLet>>
  BY DEF TickInbox, vars, admission
<1> QED
  BY <1>1, <1>2, <1>3, <1>4, <1>5, ClockSInv DEF Next

\* Two messages of one sender are let through at least a cooldown apart, as long
\* as there is a slot for every sender.
THEOREM CooldownKept == Spec => SendersSpaced
<1>1. CASE EnoughSlots
  <2>1. SInv /\ [Next]_vars => SInv' /\ [Spaced]_vars
    BY <1>1, NextType, NextSInv DEF SInv
  <2>2. [Spaced]_vars =>
          [Cardinality(Senders) <= SenderSlots =>
             \A s \in Senders : lastLet'[s] = 0 /\ lastLet[s] # 0 =>
                                   lastLet[s] = SenderCooldown]_vars
    BY DEF Spaced
  <2> QED
    BY InitSInv, <2>1, <2>2, PTL DEF Spec, SendersSpaced
<1>2. CASE ~EnoughSlots
  <2>1. [Cardinality(Senders) <= SenderSlots =>
             \A s \in Senders : lastLet'[s] = 0 /\ lastLet[s] # 0 =>
                                   lastLet[s] = SenderCooldown]_vars
    BY <1>2 DEF EnoughSlots
  <2> QED
    BY <2>1, PTL DEF SendersSpaced
<1> QED
  BY <1>1, <1>2
-----------------------------------------------------------------------------
(***************************************************************************)
(* The desk.  What became of a message agrees with what the ring, the      *)
(* queue and the history say of it, and a slot tells its sender's age.     *)
(***************************************************************************)
FateAgrees ==
    /\ \A m \in Msgs : Seen(m) <=> fate[m] # "new"
    /\ \A m \in Msgs : fate[m] # "queued" => replies[m] = 0
    /\ \A i \in Queued : fate[pending[i].msg] = "queued"

SlotsTell ==
    \A i \in Slots : senders[i].src # NoSender => senders[i].age = lastLet[senders[i].src]

DInv == TypeOK /\ RingFilled /\ QueuedOnce /\ SendersKnown /\ FateAgrees /\ SlotsTell

LEMMA DParts == DInv <=> RInv /\ SInv /\ FateAgrees /\ SlotsTell
BY DEF DInv, RInv, SInv

LEMMA InitDInv == Init => DInv
<1> SUFFICES ASSUME Init PROVE DInv
  OBVIOUS
<1>1. FateAgrees
  <2>1. \A m \in Msgs : ~Seen(m)
    BY SeenIn, InitType, MessageAssumption DEF Init
  <2> QED
    BY <2>1 DEF Init, FateAgrees, Queued
<1>2. SlotsTell
  BY DEF Init, SlotsTell
<1> QED
  BY <1>1, <1>2, InitRInv, InitSInv, DParts

LEMMA QueuedReply ==
    ASSUME TypeOK
    PROVE  \A i \in Queued : /\ i \in Pending /\ pending[i] \in Reply /\ pending[i].msg \in Msgs
                             /\ pending[i].age \in 0..GiveUp /\ pending[i].asked \in BOOLEAN
BY DEF TypeOK, Queued, Reply

\* A sender's slot, if it has one that is not cold, says when it was let through.
LEMMA CoolingIs ==
    ASSUME DInv, NEW s \in Senders
    PROVE  /\ Cooling(s) <=> lastLet[s] < SenderCooldown
           /\ ~Cooling(s) => lastLet[s] = SenderCooldown
<1>1. lastLet[s] \in 0..SenderCooldown /\ SenderCooldown \in Nat /\ s # NoSender
  BY Constants, SenderAssumption DEF DInv, TypeOK
<1>2. Cooling(s) => lastLet[s] < SenderCooldown
  BY <1>1 DEF Cooling, DInv, SlotsTell
<1>3. lastLet[s] < SenderCooldown => Cooling(s)
  BY DEF Cooling, DInv, SendersKnown
<1> QED
  BY <1>1, <1>2, <1>3

LEMMA LetThroughTells ==
    ASSUME DInv, EnoughSlots, NEW s \in Senders, LetThrough(s)
    PROVE  SlotsTell'
<1>0. TypeOK /\ Slot(s) \in Slots
  BY SlotChosen DEF DInv
<1>1. PICK k \in Slots : k = Slot(s)
  BY <1>0
<1>2. \A i \in Slots : senders'[i] = IF i = k THEN [src |-> s, age |-> 0] ELSE senders[i]
  BY <1>0, <1>1 DEF TypeOK, LetThrough
<1>3. \A t \in Senders : lastLet'[t] = IF t = s THEN 0 ELSE lastLet[t]
  BY <1>0 DEF TypeOK, LetThrough
<1>4. senders[k].src = s \/ \A i \in Slots : senders[i].src # s
  BY <1>0, <1>1, SlotChosen
<1>5. \A i \in Slots : i # k => senders[i].src # s
  BY <1>4, SenderAssumption DEF DInv, SendersKnown
<1>6. \A i \in Slots : senders[i].src \in Senders \cup {NoSender}
  BY <1>0 DEF TypeOK
<1> QED
  BY <1>2, <1>3, <1>5, <1>6 DEF SlotsTell, DInv

LEMMA MessageDInv ==
    ASSUME DInv, Remembers, EnoughSlots, NEW m \in Msgs, NEW l \in Links \cup {NoLink},
           HandleMessage(m, l)
    PROVE  FateAgrees' /\ SlotsTell'
<1>0. TypeOK /\ RInv /\ Source[m] \in Senders /\ replies' = replies
  BY DParts, MessageAssumption DEF DInv, HandleMessage
<1>a. /\ \A k \in Msgs : Seen(k) <=> fate[k] # "new"
      /\ \A k \in Msgs : fate[k] # "queued" => replies[k] = 0
      /\ \A i \in Queued : fate[pending[i].msg] = "queued" /\ pending[i].msg \in Msgs
      /\ fate \in [Msgs -> {"new", "queued", "refused"}]
  BY <1>0, QueuedReply DEF DInv, FateAgrees, TypeOK
<1>1. CASE HandleDuplicate(m)
  <2>1. UNCHANGED <<recent, pending, fate, senders, lastLet>>
    BY <1>1 DEF HandleDuplicate, admission
  <2>2. /\ Queued' = Queued /\ pending' = pending
        /\ \A k : Seen(k)' = Seen(k)
    BY <2>1 DEF Queued, Seen
  <2>3. FateAgrees'
    BY <1>0, <1>a, <2>1, <2>2 DEF FateAgrees
  <2>4. SlotsTell'
    BY <2>1 DEF SlotsTell, DInv
  <2> QED BY <2>3, <2>4
<1>2. ASSUME ~Seen(m), Record(m) PROVE \A k \in Msgs : Seen(k)' <=> Seen(k) \/ k = m
  BY <1>0, <1>2, RecordRing
<1>3. CASE HandleTooSoon(m) \/ HandleQueueFull(m)
  <2>1. /\ ~Seen(m) /\ Record(m) /\ pending' = pending /\ fate' = [fate EXCEPT ![m] = "refused"]
    BY <1>3 DEF HandleTooSoon, HandleQueueFull
  <2>2. \A k \in Msgs : fate'[k] = IF k = m THEN "refused" ELSE fate[k]
    BY <1>a, <2>1
  <2>3. Queued' = Queued /\ fate[m] = "new"
    BY <1>a, <2>1 DEF Queued
  <2>4. FateAgrees'
    BY <1>0, <1>2, <1>a, <2>1, <2>2, <2>3 DEF FateAgrees
  <2>5. SlotsTell'
    BY <1>0, <1>3, LetThroughTells DEF HandleTooSoon, HandleQueueFull, SlotsTell, DInv
  <2> QED BY <2>4, <2>5
<1>4. CASE HandleQueue(m, l)
  <2>1. ~Seen(m) /\ Record(m) /\ fate' = [fate EXCEPT ![m] = "queued"]
    BY <1>4 DEF HandleQueue
  <2>2. \A k \in Msgs : fate'[k] = IF k = m THEN "queued" ELSE fate[k]
    BY <1>a, <2>1
  <2>3. PICK n \in Pending : pending' = [pending EXCEPT ![n] =
                            [msg |-> m, link |-> l, age |-> 0, asked |-> FALSE]]
    BY <1>4 DEF HandleQueue
  <2>4. \A i \in Pending : pending'[i] = IF i = n THEN [msg |-> m, link |-> l, age |-> 0, asked |-> FALSE]
                                         ELSE pending[i]
    BY <1>0, <2>3 DEF TypeOK
  <2>5. \A i \in Queued' : pending'[i].msg = m \/ (i \in Queued /\ pending'[i] = pending[i])
    BY <2>4 DEF Queued
  <2>6. \A i \in Queued' : fate'[pending'[i].msg] = "queued"
    BY <1>a, <2>2, <2>5
  <2>7. FateAgrees'
    BY <1>0, <1>2, <1>a, <2>1, <2>2, <2>6 DEF FateAgrees
  <2>8. SlotsTell'
    BY <1>0, <1>4, LetThroughTells DEF HandleQueue
  <2> QED BY <2>7, <2>8
<1> QED
  BY <1>1, <1>3, <1>4 DEF HandleMessage

LEMMA AgedFate ==
    ASSUME DInv, UNCHANGED <<recent, fate, replies>>,
           \A i \in Pending : /\ pending'[i] = NoReply <=> pending[i] = NoReply
                              /\ pending[i] # NoReply => pending'[i].msg = pending[i].msg
    PROVE  FateAgrees'
<1>1. \A m : Seen(m)' = Seen(m)
  BY DEF Seen
<1>2. Queued' = Queued /\ \A i \in Queued : pending'[i].msg = pending[i].msg
  BY DEF Queued
<1> QED
  BY <1>1, <1>2 DEF DInv, FateAgrees

\* What a pass of the queue does to each place in it.
LEMMA Served ==
    ASSUME DInv, NEW st, Service(st)
    PROVE  LET sent == {i \in First(st) : Answerable(pending[i], st)}
               left == Queued \ (sent \cup Dropped(st))
           IN  /\ First(st) \subseteq Queued /\ Dropped(st) \subseteq Queued
               /\ First(st) \cap Dropped(st) = {}
               /\ \A i, j \in First(st) : i = j
               /\ \A i \in First(st) \ sent : ~pending[i].asked
               /\ \A i \in Dropped(st) : pending[i].age = GiveUp
               /\ Queued' = left
               /\ \A i \in left : /\ pending'[i].msg = pending[i].msg
                                  /\ pending'[i].age = pending[i].age
                                  /\ i \in First(st) => pending'[i].asked = TRUE
                                  /\ i \notin First(st) => pending'[i].asked = pending[i].asked
<1> DEFINE sent == {i \in First(st) : Answerable(pending[i], st)}
           left == Queued \ (sent \cup Dropped(st))
<1>0. TypeOK /\ Pending \subseteq Nat /\ GiveUp \in Nat
  BY Constants DEF DInv, Pending
<1>1. First(st) \subseteq Queued /\ Dropped(st) \subseteq Queued /\ Queued \subseteq Pending
  BY DEF First, Active, Dropped, Queued
<1>2. \A i, j \in First(st) : i = j
  <2> SUFFICES ASSUME NEW i \in First(st), NEW j \in First(st) PROVE i = j
    OBVIOUS
  <2>1. i <= j /\ j <= i
    BY DEF First
  <2>2. i \in Nat /\ j \in Nat
    BY <1>0, <1>1
  <2> QED BY <2>1, <2>2
<1>3. First(st) \cap Dropped(st) = {}
  <2> SUFFICES ASSUME NEW i \in First(st), i \in Dropped(st) PROVE FALSE
    OBVIOUS
  <2>1. i < i /\ i \in Nat
    BY <1>0, <1>1 DEF Dropped
  <2> QED BY <2>1
<1>4. \A i \in First(st) \ sent : ~pending[i].asked
  BY DEF First, Active, NeedsPath
<1>5. \A i \in Dropped(st) : pending[i].age = GiveUp
  <2> SUFFICES ASSUME NEW i \in Dropped(st) PROVE pending[i].age = GiveUp
    OBVIOUS
  <2>1. pending[i].age >= GiveUp
    BY DEF Dropped, Hopeless
  <2>2. pending[i].age \in 0..GiveUp
    BY <1>0, <1>1, QueuedReply
  <2> QED BY <1>0, <2>1, <2>2
<1>6. \A i \in Pending : pending'[i] = IF i \in sent \cup Dropped(st) THEN NoReply
                                       ELSE IF i \in First(st) THEN [pending[i] EXCEPT !.asked = TRUE]
                                       ELSE pending[i]
  BY DEF Service
<1>7. ASSUME NEW i \in left
      PROVE  /\ pending'[i] \in Reply
             /\ pending'[i].msg = pending[i].msg /\ pending'[i].age = pending[i].age
             /\ i \in First(st) => pending'[i].asked = TRUE
             /\ i \notin First(st) => pending'[i].asked = pending[i].asked
  <2>1. pending[i] \in Reply /\ i \in Pending /\ pending[i].asked \in BOOLEAN
    BY <1>0, QueuedReply
  <2>2. CASE i \in First(st)
    <3>1. pending'[i] = [pending[i] EXCEPT !.asked = TRUE]
      BY <1>6, <2>1, <2>2
    <3> QED BY <2>1, <2>2, <3>1 DEF Reply
  <2>3. CASE i \notin First(st)
    <3>1. pending'[i] = pending[i]
      BY <1>6, <2>1, <2>3
    <3> QED BY <2>1, <2>3, <3>1
  <2> QED BY <2>2, <2>3
<1>8. Queued' = left
  <2>1. \A i \in left : i \in Queued'
    BY <1>1, <1>7, ReplyAssumption DEF Queued
  <2>2. \A i \in Queued' : i \in Pending /\ pending'[i] # NoReply
    BY DEF Queued
  <2>3. \A i \in Queued' : i \in left
    <3> SUFFICES ASSUME NEW i \in Queued' PROVE i \in left
      OBVIOUS
    <3>1. i \in Pending /\ pending'[i] # NoReply /\ i \notin sent \cup Dropped(st)
      BY <1>6, <2>2
    <3>2. i \in Queued
      BY <1>1, <1>6, <3>1 DEF Queued
    <3> QED BY <3>1, <3>2
  <2> QED BY <2>1, <2>3
<1> QED
  BY <1>1, <1>2, <1>3, <1>4, <1>5, <1>7, <1>8

\* Who is answered in it.
LEMMA AnsweredThen ==
    ASSUME DInv, NEW st, Service(st)
    PROVE  LET sent == {i \in First(st) : Answerable(pending[i], st)}
           IN  Answered' = Answered \cup {pending[i].msg : i \in sent}
<1> DEFINE sent == {i \in First(st) : Answerable(pending[i], st)}
           answered == {pending[i].msg : i \in sent}
<1>1. \A m \in Msgs : replies'[m] = IF m \in answered THEN Older(replies[m], 2) ELSE replies[m]
  BY DEF Service
<1>2. \A m \in Msgs : replies[m] \in 0..2 /\ (replies[m] \in 0..2 => Older(replies[m], 2) > 0)
  BY DEF DInv, TypeOK, Older
<1>3. answered \subseteq Msgs
  BY QueuedReply DEF DInv, First, Active
<1> QED
  BY <1>1, <1>2, <1>3 DEF Answered

LEMMA ServiceFate ==
    ASSUME DInv, NEW st, Service(st), UNCHANGED <<recent, fate>>
    PROVE  FateAgrees'
<1> DEFINE sent == {i \in First(st) : Answerable(pending[i], st)}
           answered == {pending[i].msg : i \in sent}
<1>1. \A m : Seen(m)' = Seen(m)
  BY DEF Seen
<1>2. Queued' \subseteq Queued /\ \A i \in Queued' : pending'[i].msg = pending[i].msg
  BY Served
<1>3. \A m \in Msgs : replies'[m] = IF m \in answered THEN Older(replies[m], 2) ELSE replies[m]
  BY DEF Service
<1>4. \A m \in answered : fate[m] = "queued"
  BY DEF DInv, FateAgrees, First, Active
<1> QED
  BY <1>1, <1>2, <1>3, <1>4 DEF DInv, FateAgrees

LEMMA ClockKeeps ==
    ASSUME TypeOK, Clock
    PROVE  \A i \in Pending : /\ pending'[i] = NoReply <=> pending[i] = NoReply
                              /\ pending[i] # NoReply =>
                                    /\ pending'[i].msg = pending[i].msg
                                    /\ pending'[i].age = Older(pending[i].age, GiveUp)
                                    /\ pending'[i].asked = pending[i].asked
<1> SUFFICES ASSUME NEW i \in Pending, pending[i] # NoReply
             PROVE  /\ pending'[i] # NoReply
                    /\ pending'[i].msg = pending[i].msg
                    /\ pending'[i].age = Older(pending[i].age, GiveUp)
                    /\ pending'[i].asked = pending[i].asked
  BY DEF Clock
<1>1. pending[i] \in Reply /\ pending'[i] = [pending[i] EXCEPT !.age = Older(@, GiveUp)]
  BY DEF Clock, TypeOK
<1>2. Older(pending[i].age, GiveUp) \in 0..GiveUp
  BY <1>1, OlderType, Constants DEF Reply
<1>3. pending'[i] \in Reply
  BY <1>1, <1>2 DEF Reply
<1> QED
  BY <1>1, <1>3, ReplyAssumption DEF Reply

LEMMA NextDInv ==
    ASSUME DInv, Remembers, EnoughSlots, [Next]_vars
    PROVE  DInv'
<1>0. TypeOK' /\ RingFilled' /\ QueuedOnce' /\ SendersKnown'
  BY DParts, NextType, NextRInv, NextSInv DEF DInv
<1> SUFFICES FateAgrees' /\ SlotsTell'
  BY <1>0 DEF DInv
<1>1. ASSUME NEW m \in Msgs, OnOpportunistic(m) \/ \E l \in Links : OnLinkPacket(m, l)
      PROVE  FateAgrees' /\ SlotsTell'
  BY <1>1, MessageDInv DEF OnOpportunistic, OnLinkPacket
<1>2. CASE UNCHANGED <<recent, fate, replies, pending, senders, lastLet>>
  BY <1>2, AgedFate DEF DInv, SlotsTell
<1>3. ASSUME NEW l \in Links, \/ LinkRequest(l) \/ LinkFails(l) \/ OnLinkEstablished(l)
                              \/ OnLinkClosed(l) \/ Identify(l)
      PROVE  UNCHANGED <<recent, fate, replies, pending, senders, lastLet>>
  BY <1>3 DEF LinkRequest, LinkFails, OnLinkEstablished, OnLinkClosed, Identify,
     admission, replyVars
<1>4. ASSUME NEW s \in Senders, Announce(s) \/ PathLost(s)
      PROVE  UNCHANGED <<recent, fate, replies, pending, senders, lastLet>>
  BY <1>4 DEF Announce, PathLost, admission, replyVars
<1>5. CASE TickInbox
  <2>1. UNCHANGED <<recent, fate, senders, lastLet>>
    BY <1>5 DEF TickInbox, admission
  <2>2. CASE UNCHANGED replyVars
    BY <1>2, <2>1, <2>2 DEF replyVars
  <2>3. CASE Service(status')
    BY <2>1, <2>3, ServiceFate DEF DInv, SlotsTell
  <2> QED
    BY <1>5, <2>2, <2>3 DEF TickInbox
<1>6. CASE Clock
  <2>1. FateAgrees'
    BY <1>6, ClockKeeps, AgedFate DEF Clock, DInv
  <2>2. \A i \in Slots : /\ senders'[i].src = senders[i].src
                         /\ senders'[i].age = Older(senders[i].age, SenderCooldown)
    BY <1>6 DEF Clock, DInv, TypeOK
  <2>3. \A s \in Senders : lastLet'[s] = Older(lastLet[s], SenderCooldown)
    BY <1>6 DEF Clock
  <2>4. \A i \in Slots : senders[i].src \in Senders \cup {NoSender}
    BY DEF DInv, TypeOK
  <2>5. SlotsTell'
    BY <2>2, <2>3, <2>4 DEF DInv, SlotsTell
  <2> QED
    BY <2>1, <2>5
<1>7. UNCHANGED vars => UNCHANGED <<recent, fate, replies, pending, senders, lastLet>>
  BY DEF vars, admission, replyVars
<1> QED
  BY <1>1, <1>2, <1>3, <1>4, <1>5, <1>6, <1>7 DEF Next

\* The queue as the desk sees it: each message that waits is in one place.
Entries ==
    /\ Waiting \subseteq Msgs /\ Queue = [m \in Waiting |-> Queue[m]]
    /\ DOMAIN Queue = Waiting
    /\ \A i \in Queued : /\ pending[i].msg \in Waiting
                         /\ Queue[pending[i].msg] = [age |-> pending[i].age,
                                                     asked |-> pending[i].asked]

LEMMA EntriesAre == DInv => Entries
<1> SUFFICES ASSUME DInv PROVE Entries
  OBVIOUS
<1>1. \A i \in Queued : pending[i].msg \in Waiting /\ pending[i].msg \in Msgs
  BY QueuedReply DEF DInv, Waiting
<1>2. ASSUME NEW i \in Queued PROVE Place(pending[i].msg) = i
  BY DEF Place, DInv, QueuedOnce
<1>3. \A i \in Queued : Queue[pending[i].msg] = [age |-> pending[i].age, asked |-> pending[i].asked]
  BY <1>1, <1>2 DEF Queue, Entry
<1>4. Waiting \subseteq Msgs
  BY <1>1 DEF Waiting
<1>5. DOMAIN Queue = Waiting /\ Queue = [m \in Waiting |-> Queue[m]]
  BY DEF Queue
<1> QED
  BY <1>1, <1>3, <1>4, <1>5 DEF Entries

\* As many messages wait as places are taken.
LEMMA Crowd ==
    ASSUME DInv
    PROVE  /\ Cardinality(Waiting) <= MaxPending
           /\ NoReply \notin Range(pending) => Cardinality(Waiting) = MaxPending
           /\ NoReply \in Range(pending) => Cardinality(Waiting) < MaxPending
<1> DEFINE f == [i \in Queued |-> pending[i].msg]
<1>1. IsFiniteSet(Pending) /\ Cardinality(Pending) = MaxPending /\ MaxPending \in Nat
  BY FS_Interval, Constants DEF Pending
<1>2. Queued \subseteq Pending
  BY DEF Queued
<1>3. IsFiniteSet(Queued) /\ Cardinality(Queued) <= MaxPending /\ Cardinality(Queued) \in Nat
  BY <1>1, <1>2, FS_Subset, FS_CardinalityType
<1>4. f \in Bijection(Queued, Waiting)
  <2>1. f \in [Queued -> Waiting]
    BY DEF Waiting
  <2>2. \A i, j \in Queued : f[i] = f[j] => i = j
    BY DEF DInv, QueuedOnce
  <2>3. \A m \in Waiting : \E i \in Queued : f[i] = m
    BY DEF Waiting
  <2> QED BY <2>1, <2>2, <2>3, Fun_IsBij
<1>5. Cardinality(Waiting) = Cardinality(Queued)
  BY <1>3, <1>4, FS_Bijection, Fun_ExistsBij
<1>6. NoReply \in Range(pending) <=> \E i \in Pending : pending[i] = NoReply
  BY DEF DInv, TypeOK, Range
<1>7. CASE NoReply \notin Range(pending)
  <2>1. Queued = Pending
    BY <1>6, <1>7 DEF Queued
  <2> QED BY <1>1, <1>5, <1>7, <2>1
<1>8. CASE NoReply \in Range(pending)
  <2>1. Queued # Pending
    BY <1>6, <1>8 DEF Queued
  <2>2. Cardinality(Queued) # Cardinality(Pending)
    BY <1>1, <1>2, <2>1, FS_Subset
  <2> QED BY <1>1, <1>3, <1>5, <1>8, <2>2
<1> QED
  BY <1>7, <1>8

DeskVars == <<Queue, Refused, Answered, Lost, lastLet, spacing>>

LEMMA DeskStays ==
    ASSUME UNCHANGED <<pending, replies, lastLet, spacing, fate>>
    PROVE  UNCHANGED DeskVars
<1>1. Queued' = Queued
  BY DEF Queued
<1>2. Waiting' = Waiting
  BY <1>1 DEF Waiting
<1>3. \A m : Entry(m)' = Entry(m)
  BY <1>1 DEF Entry, Place
<1>4. Queue' = Queue
  BY <1>2, <1>3 DEF Queue
<1>5. Refused' = Refused /\ Answered' = Answered /\ Lost' = Lost
  BY <1>2 DEF Refused, Answered, Lost
<1> QED
  BY <1>4, <1>5 DEF DeskVars

\* A message that nothing has happened to.
LEMMA NewIs ==
    ASSUME DInv, NEW m \in Msgs, fate[m] = "new"
    PROVE  m \notin Waiting \cup Refused \cup Answered \cup Lost
<1>1. \A i \in Queued : pending[i].msg # m
  BY DEF DInv, FateAgrees
<1>2. replies[m] = 0
  BY DEF DInv, FateAgrees
<1> QED
  BY <1>1, <1>2 DEF Waiting, Refused, Answered, Lost

\* The desk counts as the inbox does.
LEMMA SameCount == \A S : Desk!Cardinality(S) = Cardinality(S)
BY DEF Desk!Cardinality, Cardinality

LEMMA MessageDesk ==
    ASSUME DInv, DInv', NEW m \in Msgs, NEW l \in Links \cup {NoLink}, HandleMessage(m, l)
    PROVE  Desk!TakeOn(m) \/ Desk!Refuse(m) \/ UNCHANGED DeskVars
<1>0. /\ fate \in [Msgs -> {"new", "queued", "refused"}] /\ Source[m] \in Senders
      /\ spacing' = spacing /\ replies' = replies /\ lastLet \in [Senders -> 0..SenderCooldown]
  BY MessageAssumption DEF DInv, TypeOK, HandleMessage
<1>a. Entries /\ Entries'
  <2>1. (DInv => Entries)'
    BY EntriesAre, PTL
  <2> QED BY <2>1, EntriesAre
<1>b. /\ DOMAIN Queue = Waiting /\ DOMAIN Queue' = Waiting'
      /\ Queue' = [k \in Waiting' |-> Queue'[k]]
      /\ \A i \in Queued : Queue[pending[i].msg] = [age |-> pending[i].age,
                                                    asked |-> pending[i].asked]
      /\ \A i \in Queued' : Queue'[pending'[i].msg] = [age |-> pending'[i].age,
                                                       asked |-> pending'[i].asked]
  BY <1>a DEF Entries
<1>1. CASE HandleDuplicate(m)
  <2>1. UNCHANGED <<pending, lastLet, fate>>
    BY <1>1 DEF HandleDuplicate, admission
  <2> QED BY <1>0, <2>1, DeskStays
<1>2. ASSUME ~Seen(m) PROVE fate[m] = "new" /\ m \notin Waiting \cup Refused \cup Answered \cup Lost
  <2>1. fate[m] = "new"
    BY <1>2 DEF DInv, FateAgrees
  <2> QED BY <2>1, NewIs
<1>3. CASE HandleTooSoon(m) \/ HandleQueueFull(m)
  <2>1. /\ ~Seen(m) /\ pending' = pending /\ fate' = [fate EXCEPT ![m] = "refused"]
    BY <1>3 DEF HandleTooSoon, HandleQueueFull
  <2>2. Queue' = Queue /\ Waiting' = Waiting
    <3>1. Queued' = Queued
      BY <2>1 DEF Queued
    <3>2. Waiting' = Waiting /\ \A k : Entry(k)' = Entry(k)
      BY <2>1, <3>1 DEF Waiting, Entry, Place
    <3> QED BY <3>2 DEF Queue
  <2>3. \A k \in Msgs : fate'[k] = IF k = m THEN "refused" ELSE fate[k]
    BY <1>0, <2>1
  <2>4. Refused' = Refused \cup {m}
    BY <2>3 DEF Refused
  <2>5. Answered' = Answered
    BY <1>0 DEF Answered
  <2>6. Lost' = Lost
    <3>1. fate[m] = "new"
      BY <1>2, <2>1
    <3> QED BY <2>2, <2>3, <2>5, <3>1 DEF Lost
  <2>7. \/ lastLet[Source[m]] < SenderCooldown /\ UNCHANGED lastLet
        \/ /\ lastLet[Source[m]] = SenderCooldown /\ Cardinality(Waiting) = MaxPending
           /\ lastLet' = [lastLet EXCEPT ![Source[m]] = 0]
    BY <1>0, <1>3, CoolingIs, Crowd DEF HandleTooSoon, HandleQueueFull, LetThrough
  <2>8. Desk!New(m)
    BY <1>2, <1>a, <2>1 DEF Desk!New, Desk!Waiting, Entries
  <2>9. DOMAIN Queue = Waiting
    BY <1>b
  <2>10. Desk!Refuse(m)
    BY <1>0, <2>2, <2>4, <2>5, <2>6, <2>7, <2>8, <2>9, SameCount DEF Desk!Refuse, Desk!Waiting
  <2> QED BY <2>10
<1>4. CASE HandleQueue(m, l)
  <2>1. ~Seen(m) /\ fate' = [fate EXCEPT ![m] = "queued"]
    BY <1>4 DEF HandleQueue
  <2>2. PICK n \in Pending :
          /\ pending[n] = NoReply
          /\ pending' = [pending EXCEPT ![n] = [msg |-> m, link |-> l, age |-> 0, asked |-> FALSE]]
    BY <1>4 DEF HandleQueue, Free
  <2>3. \A i \in Pending : pending'[i] = IF i = n THEN [msg |-> m, link |-> l, age |-> 0, asked |-> FALSE]
                                         ELSE pending[i]
    BY <2>2 DEF DInv, TypeOK
  <2>4. pending'[n] # NoReply
    <3>1. pending'[n] = [msg |-> m, link |-> l, age |-> 0, asked |-> FALSE]
      BY <2>3
    <3>2. pending'[n] \in Reply
      BY <3>1, Constants DEF Reply
    <3> QED BY <3>2, ReplyAssumption
  <2>5. Queued' = Queued \cup {n} /\ n \notin Queued
    BY <2>2, <2>3, <2>4 DEF Queued
  <2>6. Queue'[m] = [age |-> 0, asked |-> FALSE] /\ pending'[n].msg = m
    <3>1. n \in Queued' /\ pending'[n].msg = m /\ pending'[n].age = 0 /\ pending'[n].asked = FALSE
      BY <2>3, <2>5
    <3>2. Queue'[pending'[n].msg] = [age |-> pending'[n].age, asked |-> pending'[n].asked]
      BY <1>b, <3>1
    <3> QED BY <3>1, <3>2
  <2>7. \A i \in Queued : pending'[i] = pending[i]
    BY <2>3, <2>5 DEF Queued
  <2>8. Waiting' = Waiting \cup {m}
    BY <2>5, <2>6, <2>7 DEF Waiting
  <2>9. \A k \in Waiting : Queue'[k] = Queue[k]
    <3> SUFFICES ASSUME NEW k \in Waiting PROVE Queue'[k] = Queue[k]
      OBVIOUS
    <3>1. PICK i \in Queued : pending[i].msg = k
      BY DEF Waiting
    <3>2. Queue[k] = [age |-> pending[i].age, asked |-> pending[i].asked]
      BY <1>b, <3>1
    <3>3. i \in Queued' /\ pending'[i] = pending[i]
      BY <2>5, <2>7
    <3>4. Queue'[pending'[i].msg] = [age |-> pending'[i].age, asked |-> pending'[i].asked]
      BY <1>b, <3>3
    <3> QED BY <3>1, <3>2, <3>3, <3>4
  <2>10. m \notin Waiting
    BY <1>2, <2>1
  <2>11. Queue' = [k \in Waiting \cup {m} |-> IF k = m THEN [age |-> 0, asked |-> FALSE] ELSE Queue[k]]
    BY <1>b, <2>6, <2>8, <2>9, <2>10
  <2>12. \A k \in Msgs : fate'[k] = IF k = m THEN "queued" ELSE fate[k]
    BY <1>0, <2>1
  <2>13. Refused' = Refused /\ Answered' = Answered
    <3>1. fate[m] = "new"
      BY <1>2, <2>1
    <3> QED BY <1>0, <2>12, <3>1 DEF Refused, Answered
  <2>14. Lost' = Lost
    <3>1. fate[m] = "new"
      BY <1>2, <2>1
    <3> QED BY <2>8, <2>12, <2>13, <3>1 DEF Lost
  <2>15. /\ lastLet[Source[m]] = SenderCooldown
         /\ lastLet' = [lastLet EXCEPT ![Source[m]] = 0]
    BY <1>0, <1>4, CoolingIs DEF HandleQueue, LetThrough
  <2>16. Cardinality(Waiting) < MaxPending
    <3>1. NoReply \in Range(pending)
      BY <2>2 DEF DInv, TypeOK, Range
    <3> QED BY <3>1, Crowd
  <2>17. Desk!New(m)
    BY <1>2, <1>a, <2>1 DEF Desk!New, Desk!Waiting, Entries
  <2>18. DOMAIN Queue = Waiting
    BY <1>b
  <2>19. Desk!TakeOn(m)
    BY <1>0, <2>11, <2>13, <2>14, <2>15, <2>16, <2>17, <2>18, SameCount DEF Desk!TakeOn, Desk!Waiting
  <2> QED BY <2>19
<1> QED
  BY <1>1, <1>3, <1>4 DEF HandleMessage

LEMMA ServiceDesk ==
    ASSUME DInv, DInv', NEW st, Service(st), UNCHANGED <<fate, lastLet>>, spacing = ReplySpacing
    PROVE  \E gone \in SUBSET Waiting : Desk!Serve(gone)
<1> DEFINE sent == {i \in First(st) : Answerable(pending[i], st)}
           left == Queued \ (sent \cup Dropped(st))
           gone == {pending[i].msg : i \in Dropped(st)}
           answered == {pending[i].msg : i \in sent}
<1>a. Entries /\ Entries'
  <2>1. (DInv => Entries)'
    BY EntriesAre, PTL
  <2> QED BY <2>1, EntriesAre
<1>b. /\ DOMAIN Queue = Waiting
      /\ Queue' = [k \in Waiting' |-> Queue'[k]]
      /\ \A i \in Queued : Queue[pending[i].msg] = [age |-> pending[i].age,
                                                    asked |-> pending[i].asked]
      /\ \A i \in Queued' : Queue'[pending'[i].msg] = [age |-> pending'[i].age,
                                                       asked |-> pending'[i].asked]
  BY <1>a DEF Entries
<1>0. \A i, j \in Queued : pending[i].msg = pending[j].msg => i = j
  BY DEF DInv, QueuedOnce
<1>1. /\ First(st) \subseteq Queued /\ Dropped(st) \subseteq Queued
      /\ First(st) \cap Dropped(st) = {}
      /\ \A i, j \in First(st) : i = j
      /\ \A i \in First(st) \ sent : ~pending[i].asked
      /\ \A i \in Dropped(st) : pending[i].age = GiveUp
      /\ Queued' = left
      /\ \A i \in left : /\ pending'[i].msg = pending[i].msg
                         /\ pending'[i].age = pending[i].age
                         /\ i \in First(st) => pending'[i].asked = TRUE
                         /\ i \notin First(st) => pending'[i].asked = pending[i].asked
  BY Served
<1>2. Answered' = Answered \cup answered
  BY AnsweredThen
<1>3. spacing' = IF First(st) = {} THEN spacing ELSE 0
  BY DEF Service
<1> HIDE DEF left
<1>4. left = Queued \ (sent \cup Dropped(st))
  BY DEF left
<1>5. gone \subseteq Waiting /\ answered \subseteq Waiting /\ Waiting \subseteq Msgs
  BY <1>1, <1>a DEF Waiting, Entries
<1>6. Waiting' = Waiting \ (gone \cup answered)
  <2>1. \A m : m \in Waiting' <=> \E i \in left : pending[i].msg = m
    BY <1>1 DEF Waiting
  <2>2. \A m : m \in Waiting <=> \E i \in Queued : pending[i].msg = m
    BY DEF Waiting
  <2>3. ASSUME NEW i \in Queued
        PROVE  i \in left <=> pending[i].msg \notin gone \cup answered
    BY <1>0, <1>1, <1>4
  <2>4. left \subseteq Queued
    BY <1>4
  <2> QED BY <2>1, <2>2, <2>3, <2>4
<1>7. ASSUME NEW i \in left
      PROVE  /\ i \in First(st) => Queue'[pending[i].msg] = [age |-> Queue[pending[i].msg].age,
                                                            asked |-> TRUE]
             /\ i \notin First(st) => Queue'[pending[i].msg] = Queue[pending[i].msg]
  <2>1. i \in Queued /\ i \in Queued'
    BY <1>1, <1>4
  <2>2. Queue[pending[i].msg] = [age |-> pending[i].age, asked |-> pending[i].asked]
    BY <1>b, <2>1
  <2>3. Queue'[pending'[i].msg] = [age |-> pending'[i].age, asked |-> pending'[i].asked]
    BY <1>b, <2>1
  <2>4. pending'[i].msg = pending[i].msg /\ pending'[i].age = pending[i].age
    BY <1>1
  <2>5. CASE i \in First(st)
    <3>1. pending'[i].asked = TRUE
      BY <1>1, <2>5
    <3>2. Queue'[pending[i].msg] = [age |-> pending[i].age, asked |-> TRUE]
      BY <2>3, <2>4, <3>1, Zenon
    <3>3. Queue[pending[i].msg].age = pending[i].age
      BY <2>2
    <3> QED BY <2>5, <3>2, <3>3, Zenon
  <2>6. CASE i \notin First(st)
    <3>1. pending'[i].asked = pending[i].asked
      BY <1>1, <2>6
    <3> QED BY <2>2, <2>3, <2>4, <2>6, <3>1
  <2> QED BY <2>5, <2>6
<1>8. ASSUME NEW i \in left
      PROVE  /\ pending[i].msg \in Waiting'
             /\ Queue[pending[i].msg] \in [age : 0..GiveUp, asked : BOOLEAN]
  <2>1. i \in Queued /\ i \in Queued' /\ pending'[i].msg = pending[i].msg
    BY <1>1, <1>4
  <2>2. Queue[pending[i].msg] = [age |-> pending[i].age, asked |-> pending[i].asked]
    BY <1>b, <2>1
  <2> QED BY <2>1, <2>2, QueuedReply DEF DInv, Waiting
<1>9. \A m \in Waiting' : \E i \in left : pending[i].msg = m
  BY <1>1 DEF Waiting
<1>10. ASSUME NEW i \in left, i \notin First(st)
       PROVE  Queue'[pending[i].msg] = Queue[pending[i].msg]
  BY <1>7, <1>10
<1>11. Lost' = Lost \cup gone
  <2>1. \A m \in gone \cup answered : fate[m] = "queued"
    BY <1>1 DEF DInv, FateAgrees
  <2>2. answered \cap gone = {}
    BY <1>0, <1>1
  <2>3. gone \cap Answered = {}
    BY <1>1 DEF Answered, DInv, QueuedOnce
  <2>4. \A m \in Msgs : m \in Lost <=> fate[m] = "queued" /\ m \notin Waiting \cup Answered
    BY DEF Lost
  <2>5. \A m \in Msgs : m \in Lost' <=> fate[m] = "queued" /\ m \notin Waiting' \cup Answered'
    BY DEF Lost
  <2>6. Lost \subseteq Msgs /\ Lost' \subseteq Msgs
    BY DEF Lost
  <2> HIDE DEF gone, answered
  <2>7. \A m \in Msgs : m \in Lost' <=> m \in Lost \cup gone
    BY <1>2, <1>5, <1>6, <2>1, <2>2, <2>3, <2>4, <2>5
  <2> QED BY <1>5, <2>6, <2>7
<1>12. \A m \in gone : Queue[m].age = GiveUp
  <2>1. ASSUME NEW i \in Dropped(st) PROVE Queue[pending[i].msg].age = GiveUp
    <3>1. i \in Queued /\ pending[i].age = GiveUp
      BY <1>1
    <3>2. Queue[pending[i].msg] = [age |-> pending[i].age, asked |-> pending[i].asked]
      BY <1>b, <3>1
    <3> QED BY <3>1, <3>2
  <2> QED BY <2>1
<1>13. Refused' = Refused
  BY DEF Refused
<1>14. \/ \E m \in Waiting \ gone :
             /\ Queue' = [k \in Waiting \ (gone \cup {m}) |-> Queue[k]]
             /\ Answered' = Answered \cup {m} /\ spacing' = 0
       \/ \E m \in Waiting \ gone :
             /\ ~Queue[m].asked
             /\ Queue' = [k \in Waiting \ gone |->
                           IF k = m THEN [age |-> Queue[k].age, asked |-> TRUE] ELSE Queue[k]]
             /\ spacing' = 0 /\ UNCHANGED Answered
       \/ Queue' = [k \in Waiting \ gone |-> Queue[k]] /\ UNCHANGED <<Answered, spacing>>
  <2>1. CASE First(st) = {}
    <3>1. answered = {} /\ spacing' = spacing
      BY <1>3, <2>1
    <3>2. Waiting' = Waiting \ gone /\ Answered' = Answered
      BY <1>2, <1>6, <3>1
    <3>3. \A m \in Waiting' : Queue'[m] = Queue[m]
      BY <1>9, <1>10, <2>1
    <3>4. Queue' = [k \in Waiting \ gone |-> Queue[k]]
      BY <1>b, <3>2, <3>3
    <3> QED BY <3>1, <3>2, <3>4
  <2>2. ASSUME NEW j \in First(st), Answerable(pending[j], st)
        PROVE  \E m \in Waiting \ gone :
                   /\ Queue' = [k \in Waiting \ (gone \cup {m}) |-> Queue[k]]
                   /\ Answered' = Answered \cup {m} /\ spacing' = 0
    <3>1. sent = {j}
      BY <1>1, <2>2
    <3>2. answered = {pending[j].msg} /\ spacing' = 0
      BY <1>3, <3>1
    <3>3. pending[j].msg \in Waiting \ gone
      BY <1>0, <1>1, <1>5, <3>2
    <3>4. Waiting' = Waiting \ (gone \cup {pending[j].msg}) /\ Answered' = Answered \cup {pending[j].msg}
      BY <1>2, <1>6, <3>2
    <3>5. \A i \in left : i \notin First(st)
      BY <1>1, <1>4, <3>1
    <3>6. \A m \in Waiting' : Queue'[m] = Queue[m]
      BY <1>9, <1>10, <3>5
    <3>7. Queue' = [k \in Waiting \ (gone \cup {pending[j].msg}) |-> Queue[k]]
      BY <1>b, <3>4, <3>6
    <3> QED BY <3>2, <3>3, <3>4, <3>7
  <2>3. ASSUME NEW j \in First(st), ~Answerable(pending[j], st)
        PROVE  \E m \in Waiting \ gone :
                   /\ ~Queue[m].asked
                   /\ Queue' = [k \in Waiting \ gone |->
                           IF k = m THEN [age |-> Queue[k].age, asked |-> TRUE] ELSE Queue[k]]
                   /\ spacing' = 0 /\ UNCHANGED Answered
    <3>1. sent = {} /\ spacing' = 0
      BY <1>1, <1>3, <2>3
    <3>2. answered = {}
      BY <3>1
    <3>3. Waiting' = Waiting \ gone /\ Answered' = Answered
      BY <1>2, <1>6, <3>2
    <3>4. j \in left /\ j \in Queued /\ ~pending[j].asked
      BY <1>1, <1>4, <2>3, <3>1
    <3> DEFINE m == pending[j].msg
    <3>5. m \in Waiting \ gone /\ ~Queue[m].asked
      <4>1. Queue[m] = [age |-> pending[j].age, asked |-> pending[j].asked]
        BY <1>b, <3>4
      <4>2. m \in Waiting'
        BY <1>8, <3>4
      <4> QED BY <3>3, <3>4, <4>1, <4>2
    <3>6. Queue'[m] = [age |-> Queue[m].age, asked |-> TRUE]
      BY <1>7, <3>4
    <3>7. \A k \in Waiting' : k # m => Queue'[k] = Queue[k]
      <4> SUFFICES ASSUME NEW k \in Waiting', k # m PROVE Queue'[k] = Queue[k]
        OBVIOUS
      <4>1. PICK i \in left : pending[i].msg = k
        BY <1>9
      <4>2. i \notin First(st)
        BY <1>1, <4>1
      <4> QED BY <1>10, <4>1, <4>2
    <3> HIDE DEF m
    <3>8. Queue' = [k \in Waiting \ gone |->
                           IF k = m THEN [age |-> Queue[k].age, asked |-> TRUE] ELSE Queue[k]]
      BY <1>b, <3>3, <3>5, <3>6, <3>7
    <3> QED BY <3>1, <3>3, <3>5, <3>8
  <2> QED BY <2>1, <2>2, <2>3
<1> HIDE DEF gone
<1>15. Desk!Serve(gone)
  BY <1>b, <1>11, <1>12, <1>13, <1>14 DEF Desk!Serve, Desk!Keep, Desk!Waiting
<1> QED BY <1>5, <1>15

LEMMA ClockDesk ==
    ASSUME DInv, DInv', Clock PROVE Desk!Pass
<1>a. Entries /\ Entries'
  <2>1. (DInv => Entries)'
    BY EntriesAre, PTL
  <2> QED BY <2>1, EntriesAre
<1>b. /\ DOMAIN Queue = Waiting
      /\ Queue' = [k \in Waiting' |-> Queue'[k]]
      /\ \A i \in Queued : Queue[pending[i].msg] = [age |-> pending[i].age,
                                                    asked |-> pending[i].asked]
      /\ \A i \in Queued' : Queue'[pending'[i].msg] = [age |-> pending'[i].age,
                                                       asked |-> pending'[i].asked]
  BY <1>a DEF Entries
<1>1. /\ Queued' = Queued
      /\ \A i \in Queued : /\ pending'[i].msg = pending[i].msg
                           /\ pending'[i].age = Older(pending[i].age, GiveUp)
                           /\ pending'[i].asked = pending[i].asked
  BY ClockKeeps DEF Queued, DInv
<1>2. Waiting' = Waiting
  BY <1>1 DEF Waiting
<1>3. ASSUME NEW k \in Waiting
      PROVE  Queue'[k] = [Queue[k] EXCEPT !.age = Older(@, GiveUp)]
  <2>1. PICK i \in Queued : pending[i].msg = k
    BY DEF Waiting
  <2>2. Queue[k] = [age |-> pending[i].age, asked |-> pending[i].asked]
    BY <1>b, <2>1
  <2>3. Queue'[k] = [age |-> Older(pending[i].age, GiveUp), asked |-> pending[i].asked]
    BY <1>1, <1>b, <2>1
  <2> QED BY <2>2, <2>3
<1>4. \A x, bound : Desk!Later(x, bound) = Older(x, bound)
  BY DEF Desk!Later, Older
<1>5. Queue' = [k \in Waiting |-> [Queue[k] EXCEPT !.age = Desk!Later(@, GiveUp)]]
  BY <1>b, <1>2, <1>3, <1>4
<1>6. Refused' = Refused /\ Answered' = Answered /\ Lost' = Lost
  BY <1>2 DEF Clock, Refused, Answered, Lost
<1>7. lastLet' = [s \in Senders |-> Desk!Later(lastLet[s], SenderCooldown)]
  BY <1>4 DEF Clock
<1>8. spacing' = Desk!Later(spacing, ReplySpacing)
  BY <1>4 DEF Clock
<1> QED
  BY <1>b, <1>5, <1>6, <1>7, <1>8 DEF Desk!Pass, Desk!Waiting

\* With a ring for every message and a slot for every sender the inbox is a desk
\* that refuses no message without a reason, loses none it took on before its time,
\* answers none twice, and rests between two transmissions.
THEOREM DeskImplemented ==
    ASSUME Remembers, EnoughSlots PROVE Spec => ImplementsDesk
<1>1. Init => Desk!Init
  <2> SUFFICES ASSUME Init PROVE Desk!Init
    OBVIOUS
  <2>1. Queued = {}
    BY DEF Init, Queued
  <2>2. Waiting = {}
    BY <2>1 DEF Waiting
  <2>3. Queue = [m \in {} |-> 0]
    BY <2>2 DEF Queue
  <2>4. Refused = {} /\ Answered = {} /\ Lost = {}
    BY DEF Init, Refused, Answered, Lost
  <2> QED
    BY <2>3, <2>4 DEF Init, Desk!Init
<1>2. DInv /\ DInv' /\ [Next]_vars => [Desk!Next]_DeskVars
  <2> SUFFICES ASSUME DInv, DInv', [Next]_vars PROVE Desk!Next \/ UNCHANGED DeskVars
    OBVIOUS
  <2>1. ASSUME NEW m \in Msgs, OnOpportunistic(m) \/ \E l \in Links : OnLinkPacket(m, l)
        PROVE  Desk!Next \/ UNCHANGED DeskVars
    BY <2>1, MessageDesk DEF OnOpportunistic, OnLinkPacket, Desk!Next
  <2>2. CASE UNCHANGED <<pending, replies, lastLet, spacing, fate>>
    BY <2>2, DeskStays
  <2>3. ASSUME NEW l \in Links, \/ LinkRequest(l) \/ LinkFails(l) \/ OnLinkEstablished(l)
                                \/ OnLinkClosed(l) \/ Identify(l)
        PROVE  UNCHANGED <<pending, replies, lastLet, spacing, fate>>
    BY <2>3 DEF LinkRequest, LinkFails, OnLinkEstablished, OnLinkClosed, Identify,
       admission, replyVars
  <2>4. ASSUME NEW s \in Senders, Announce(s) \/ PathLost(s)
        PROVE  UNCHANGED <<pending, replies, lastLet, spacing, fate>>
    BY <2>4 DEF Announce, PathLost, admission, replyVars
  <2>5. CASE TickInbox
    <3>1. UNCHANGED <<fate, lastLet>>
      BY <2>5 DEF TickInbox, admission
    <3>2. CASE UNCHANGED replyVars
      BY <2>2, <3>1, <3>2 DEF replyVars
    <3>3. CASE ~(spacing < ReplySpacing) /\ Service(status')
      <4>1. spacing = ReplySpacing
        BY <3>3, Constants DEF DInv, TypeOK
      <4>2. \E gone \in SUBSET Waiting : Desk!Serve(gone)
        BY <3>1, <3>3, <4>1, ServiceDesk
      <4>3. DOMAIN Queue = Waiting
        BY DEF Queue
      <4> QED BY <4>2, <4>3 DEF Desk!Next, Desk!Waiting
    <3> QED BY <2>5, <3>2, <3>3 DEF TickInbox
  <2>6. CASE Clock
    BY <2>6, ClockDesk DEF Desk!Next
  <2>7. UNCHANGED vars => UNCHANGED <<pending, replies, lastLet, spacing, fate>>
    BY DEF vars, admission, replyVars
  <2> QED
    BY <2>1, <2>2, <2>3, <2>4, <2>5, <2>6, <2>7 DEF Next
<1>3. DInv /\ [Next]_vars => DInv'
  BY NextDInv
<1> QED
  BY InitDInv, <1>1, <1>2, <1>3, PTL DEF Spec, ImplementsDesk, Desk!Spec, DeskVars
-----------------------------------------------------------------------------
(***************************************************************************)
(* More senders than slots.  Whoever was let through within the cooldown   *)
(* and has no slot any more was crowded out by as many others as there are *)
(* slots, each let through no earlier.                                     *)
(***************************************************************************)
NoEarlier(s) == {t \in Senders \ {s} : lastLet[t] <= lastLet[s]}
CrowdedOut(s) == Cardinality(NoEarlier(s)) >= SenderSlots

SlotOrCrowd ==
    \A s \in Senders :
        lastLet[s] < SenderCooldown => (\E i \in Slots : senders[i].src = s) \/ CrowdedOut(s)

CInv ==
    /\ TypeOK /\ SlotsTell /\ SlotOrCrowd
    /\ \A i, j \in Slots : senders[i].src # NoSender /\ senders[i].src = senders[j].src => i = j
    /\ \A i \in Slots : senders[i].src = NoSender => senders[i].age = SenderCooldown

\* A sender that is let through again within its cooldown, so that a reply of its
\* is taken on early, was crowded out of the slots (LxmfInbox.cpp:106-125).
TakenOnInTurn ==
    [][ \A i \in Pending : pending[i] = NoReply /\ pending'[i] # NoReply =>
            LET s == Source[pending'[i].msg]
            IN  lastLet[s] = SenderCooldown \/ CrowdedOut(s) ]_vars

LEMMA MoreCrowded ==
    ASSUME NEW s \in Senders, CrowdedOut(s), NoEarlier(s) \subseteq NoEarlier(s)'
    PROVE  CrowdedOut(s)'
<1>1. IsFiniteSet(NoEarlier(s)')
  BY SenderAssumption, FS_Subset, FS_RemoveElement DEF NoEarlier
<1>2. /\ Cardinality(NoEarlier(s)) <= Cardinality(NoEarlier(s)')
      /\ Cardinality(NoEarlier(s)') \in Nat /\ Cardinality(NoEarlier(s)) \in Nat
  BY <1>1, FS_Subset, FS_CardinalityType
<1> QED
  BY <1>2, Constants DEF CrowdedOut

LEMMA LetThroughCInv ==
    ASSUME CInv, NEW s \in Senders, ~Cooling(s), LetThrough(s), TypeOK'
    PROVE  CInv' /\ (lastLet[s] = SenderCooldown \/ CrowdedOut(s))
<1>0. TypeOK /\ Slot(s) \in Slots /\ SenderCooldown \in Nat \ {0} /\ s # NoSender
  BY SlotChosen, Constants, SenderAssumption DEF CInv
<1>1. PICK k \in Slots : k = Slot(s)
  BY <1>0
<1>2. \A i \in Slots : senders'[i] = IF i = k THEN [src |-> s, age |-> 0] ELSE senders[i]
  BY <1>0, <1>1 DEF TypeOK, LetThrough
<1>3. \A t \in Senders : lastLet'[t] = IF t = s THEN 0 ELSE lastLet[t]
  BY <1>0 DEF TypeOK, LetThrough
<1>4. \/ senders[k].src = s
      \/ /\ \A i \in Slots : senders[i].src # s
         /\ \A i \in Slots : senders[i].age <= senders[k].age
  BY <1>0, <1>1, SlotChosen
<1>5. \A t \in Senders : lastLet[t] \in 0..SenderCooldown
  BY <1>0 DEF TypeOK
<1>6. \A i \in Slots : senders[i].src \in Senders \cup {NoSender}
  BY <1>0 DEF TypeOK
<1>7. lastLet[s] = SenderCooldown \/ CrowdedOut(s)
  <2> SUFFICES ASSUME lastLet[s] # SenderCooldown PROVE CrowdedOut(s)
    OBVIOUS
  <2>1. lastLet[s] < SenderCooldown
    BY <1>0, <1>5
  <2>2. \A i \in Slots : senders[i].src # s
    BY <1>0, <2>1 DEF Cooling, CInv, SlotsTell
  <2> QED
    BY <2>1, <2>2 DEF CInv, SlotOrCrowd
<1>8. \A i, j \in Slots : senders'[i].src # NoSender /\ senders'[i].src = senders'[j].src => i = j
  BY <1>0, <1>2, <1>4 DEF CInv
<1>9. \A i \in Slots : senders'[i].src = NoSender => senders'[i].age = SenderCooldown
  BY <1>0, <1>2 DEF CInv
<1>10. SlotsTell'
  <2>1. \A i \in Slots : i # k => senders[i].src # s
    BY <1>0, <1>4 DEF CInv
  <2> QED BY <1>2, <1>3, <1>6, <2>1 DEF SlotsTell, CInv
<1>11. ASSUME NEW t \in Senders, t # s, CrowdedOut(t) PROVE CrowdedOut(t)'
  <2>1. NoEarlier(t) \subseteq NoEarlier(t)'
    <3> SUFFICES ASSUME NEW u \in Senders, u # t, lastLet[u] <= lastLet[t]
                 PROVE  lastLet'[u] <= lastLet'[t]
      BY DEF NoEarlier
    <3>1. lastLet'[t] = lastLet[t] /\ lastLet[t] \in Nat
      BY <1>0, <1>3, <1>5, <1>11
    <3>2. lastLet'[u] = 0 \/ lastLet'[u] = lastLet[u]
      BY <1>3
    <3> QED BY <3>1, <3>2
  <2> QED BY <1>11, <2>1, MoreCrowded
<1>12. ASSUME NEW t \in Senders, t # s, lastLet[t] < SenderCooldown, senders[k].src = t
       PROVE  CrowdedOut(t)'
  <2>1. /\ \A i \in Slots : senders[i].src # s
        /\ \A i \in Slots : senders[i].age <= senders[k].age
    BY <1>4, <1>12
  <2>2. senders[k].age = lastLet[t]
    BY <1>12, SenderAssumption DEF CInv, SlotsTell
  <2>3. \A i \in Slots : /\ senders[i].src \in Senders /\ lastLet[senders[i].src] <= lastLet[t]
                         /\ senders[i].src # s
    <3> SUFFICES ASSUME NEW i \in Slots
                 PROVE  senders[i].src \in Senders /\ lastLet[senders[i].src] <= lastLet[t]
      BY <2>1
    <3>1. senders[i].age <= lastLet[t] /\ senders[i].age # SenderCooldown
      BY <1>0, <1>5, <1>12, <2>1, <2>2
    <3>2. senders[i].src # NoSender
      BY <3>1 DEF CInv
    <3> QED BY <1>6, <3>1, <3>2 DEF CInv, SlotsTell
  <2> DEFINE f == [i \in Slots |-> IF i = k THEN s ELSE senders[i].src]
  <2>4. f \in Injection(Slots, NoEarlier(t)')
    <3>1. ASSUME NEW i \in Slots PROVE f[i] \in NoEarlier(t)'
      <4>1. lastLet'[t] = lastLet[t] /\ lastLet[t] \in Nat
        BY <1>0, <1>3, <1>5, <1>12
      <4>2. CASE i = k
        <5>1. f[i] = s /\ lastLet'[s] = 0
          BY <1>3, <4>2
        <5> QED BY <1>12, <4>1, <5>1 DEF NoEarlier
      <4>3. CASE i # k
        <5>1. f[i] = senders[i].src /\ senders[i].src \in Senders /\ senders[i].src # s
              /\ lastLet[senders[i].src] <= lastLet[t]
          BY <2>3, <4>3
        <5>2. senders[i].src # t
          BY <1>12, <4>3, SenderAssumption DEF CInv
        <5>3. lastLet'[senders[i].src] = lastLet[senders[i].src]
          BY <1>3, <5>1
        <5> QED BY <4>1, <5>1, <5>2, <5>3 DEF NoEarlier
      <4> QED BY <4>2, <4>3
    <3>2. \A i, j \in Slots : f[i] = f[j] => i = j
      BY <2>3, SenderAssumption DEF CInv
    <3>3. f \in [Slots -> NoEarlier(t)']
      BY <3>1
    <3> QED BY <3>2, <3>3, Fun_IsInj
  <2>5. IsFiniteSet(NoEarlier(t)')
    BY SenderAssumption, FS_Subset, FS_RemoveElement DEF NoEarlier
  <2>6. Cardinality(Slots) = SenderSlots
    BY FS_Interval, Constants DEF Slots
  <2>7. Cardinality(Slots) <= Cardinality(NoEarlier(t)')
    BY <2>4, <2>5, FS_Injection
  <2>8. Cardinality(NoEarlier(t)') \in Nat
    BY <2>5, FS_CardinalityType
  <2> QED BY <2>6, <2>7, <2>8, Constants DEF CrowdedOut
<1>13. SlotOrCrowd'
  <2> SUFFICES ASSUME NEW t \in Senders, lastLet'[t] < SenderCooldown
               PROVE  (\E i \in Slots : senders'[i].src = t) \/ CrowdedOut(t)'
    BY DEF SlotOrCrowd
  <2>1. CASE t = s
    BY <1>2, <2>1
  <2>2. CASE t # s
    <3>1. lastLet[t] < SenderCooldown
      BY <1>3, <2>2
    <3>2. CASE CrowdedOut(t)
      BY <1>11, <2>2, <3>2
    <3>3. ASSUME NEW i \in Slots, senders[i].src = t
          PROVE  (\E j \in Slots : senders'[j].src = t) \/ CrowdedOut(t)'
      <4>1. CASE i = k
        BY <1>12, <2>2, <3>1, <3>3, <4>1
      <4>2. CASE i # k
        BY <1>2, <3>3, <4>2
      <4> QED BY <4>1, <4>2
    <3> QED BY <3>1, <3>2, <3>3 DEF CInv, SlotOrCrowd
  <2> QED BY <2>1, <2>2
<1> QED
  BY <1>7, <1>8, <1>9, <1>10, <1>13 DEF CInv

LEMMA CSame ==
    ASSUME CInv, TypeOK', UNCHANGED <<senders, lastLet>> PROVE CInv'
<1>1. \A s \in Senders : CrowdedOut(s)' <=> CrowdedOut(s)
  BY DEF CrowdedOut, NoEarlier
<1> QED
  BY <1>1 DEF CInv, SlotsTell, SlotOrCrowd

LEMMA ClockCInv ==
    ASSUME CInv, TypeOK', Clock PROVE CInv'
<1>0. TypeOK /\ SenderCooldown \in Nat \ {0}
  BY Constants DEF CInv
<1>1. \A i \in Slots : /\ senders'[i].src = senders[i].src
                       /\ senders'[i].age = Older(senders[i].age, SenderCooldown)
  BY <1>0 DEF Clock, TypeOK
<1>2. \A s \in Senders : lastLet'[s] = Older(lastLet[s], SenderCooldown)
                         /\ lastLet[s] \in 0..SenderCooldown
  BY <1>0 DEF Clock, TypeOK
<1>3. /\ Older(SenderCooldown, SenderCooldown) = SenderCooldown
      /\ \A a, b \in 0..SenderCooldown :
            /\ Older(a, SenderCooldown) < SenderCooldown => a < SenderCooldown
            /\ a <= b => Older(a, SenderCooldown) <= Older(b, SenderCooldown)
  BY <1>0 DEF Older
<1>4. \A i \in Slots : senders[i].src \in Senders \cup {NoSender}
  BY <1>0 DEF TypeOK
<1>5. SlotsTell'
  BY <1>1, <1>2, <1>4 DEF CInv, SlotsTell
<1>6. ASSUME NEW s \in Senders, CrowdedOut(s) PROVE CrowdedOut(s)'
  <2>1. NoEarlier(s) \subseteq NoEarlier(s)'
    BY <1>2, <1>3 DEF NoEarlier
  <2> QED BY <1>6, <2>1, MoreCrowded
<1>7. SlotOrCrowd'
  BY <1>1, <1>2, <1>3, <1>6 DEF CInv, SlotOrCrowd
<1> QED
  BY <1>1, <1>3, <1>5, <1>7 DEF CInv

InTurn ==
    \A i \in Pending : pending[i] = NoReply /\ pending'[i] # NoReply =>
        lastLet[Source[pending'[i].msg]] = SenderCooldown \/ CrowdedOut(Source[pending'[i].msg])

LEMMA MessageInTurn ==
    ASSUME CInv, TypeOK', NEW m \in Msgs, NEW l \in Links \cup {NoLink}, HandleMessage(m, l)
    PROVE  CInv' /\ InTurn
<1>0. Source[m] \in Senders
  BY MessageAssumption
<1>1. CASE HandleDuplicate(m) \/ HandleTooSoon(m)
  <2>1. UNCHANGED <<senders, lastLet, pending>>
    BY <1>1 DEF HandleDuplicate, HandleTooSoon, admission
  <2> QED BY <2>1, CSame DEF InTurn
<1>2. CASE HandleQueueFull(m)
  <2>1. pending' = pending /\ ~Cooling(Source[m]) /\ LetThrough(Source[m])
    BY <1>2 DEF HandleQueueFull
  <2> QED BY <1>0, <2>1, LetThroughCInv DEF InTurn
<1>3. CASE HandleQueue(m, l)
  <2>1. ~Cooling(Source[m]) /\ LetThrough(Source[m])
    BY <1>3 DEF HandleQueue
  <2>2. CInv' /\ (lastLet[Source[m]] = SenderCooldown \/ CrowdedOut(Source[m]))
    BY <1>0, <2>1, LetThroughCInv
  <2>3. \A i \in Pending : pending'[i] = pending[i] \/ pending'[i].msg = m
    BY <1>3 DEF HandleQueue, CInv, TypeOK
  <2> QED BY <2>2, <2>3 DEF InTurn
<1> QED
  BY <1>1, <1>2, <1>3 DEF HandleMessage

LEMMA NextInTurn ==
    ASSUME CInv, [Next]_vars PROVE CInv' /\ InTurn
<1>0. TypeOK /\ TypeOK'
  BY NextType DEF CInv
<1>1. ASSUME NEW m \in Msgs, OnOpportunistic(m) \/ \E l \in Links : OnLinkPacket(m, l)
      PROVE  CInv' /\ InTurn
  BY <1>0, <1>1, MessageInTurn DEF OnOpportunistic, OnLinkPacket
<1>2. ASSUME UNCHANGED <<senders, lastLet>>,
             \A i \in Pending : pending[i] = NoReply => pending'[i] = NoReply
      PROVE  CInv' /\ InTurn
  BY <1>0, <1>2, CSame DEF InTurn
<1>3. ASSUME NEW l \in Links, \/ LinkRequest(l) \/ LinkFails(l) \/ OnLinkEstablished(l)
                              \/ OnLinkClosed(l) \/ Identify(l)
      PROVE  UNCHANGED <<senders, lastLet, pending>>
  BY <1>3 DEF LinkRequest, LinkFails, OnLinkEstablished, OnLinkClosed, Identify, admission, replyVars
<1>4. ASSUME NEW s \in Senders, Announce(s) \/ PathLost(s)
      PROVE  UNCHANGED <<senders, lastLet, pending>>
  BY <1>4 DEF Announce, PathLost, admission, replyVars
<1>5. CASE TickInbox
  <2>1. UNCHANGED <<senders, lastLet>>
    BY <1>5 DEF TickInbox, admission
  <2>2. ASSUME NEW i \in Pending, pending[i] = NoReply PROVE pending'[i] = NoReply
    <3>1. CASE UNCHANGED replyVars
      BY <2>2, <3>1 DEF replyVars
    <3>2. CASE Service(status')
      <4>1. i \notin First(status')
        BY <2>2 DEF First, Active, Queued
      <4> QED BY <2>2, <3>2, <4>1 DEF Service
    <3> QED BY <1>5, <3>1, <3>2 DEF TickInbox
  <2> QED BY <1>2, <2>1, <2>2
<1>6. CASE Clock
  <2>1. \A i \in Pending : pending[i] = NoReply => pending'[i] = NoReply
    BY <1>6 DEF Clock
  <2> QED BY <1>0, <1>6, <2>1, ClockCInv DEF InTurn
<1>7. UNCHANGED vars => UNCHANGED <<senders, lastLet, pending>>
  BY DEF vars, admission, replyVars
<1> QED
  BY <1>1, <1>2, <1>3, <1>4, <1>5, <1>6, <1>7 DEF Next

\* Whatever the number of senders: one that is let through again within its
\* cooldown was crowded out, that is, as many others as there are slots were let
\* through since, none of them earlier than it (LxmfInbox.cpp:106-125).
THEOREM AlwaysInTurn == Spec => TakenOnInTurn
<1>1. Init => CInv
  <2> SUFFICES ASSUME Init PROVE CInv
    OBVIOUS
  <2>1. SlotsTell /\ SlotOrCrowd
    BY Constants DEF Init, SlotsTell, SlotOrCrowd
  <2> QED BY <2>1, InitSInv DEF CInv, SInv, SendersKnown
<1>2. CInv /\ [Next]_vars => CInv' /\ [InTurn]_vars
  BY NextInTurn
<1>3. [InTurn]_vars =>
        [\A i \in Pending : pending[i] = NoReply /\ pending'[i] # NoReply =>
            LET s == Source[pending'[i].msg]
            IN  lastLet[s] = SenderCooldown \/ CrowdedOut(s)]_vars
  BY DEF InTurn
<1> QED
  BY <1>1, <1>2, <1>3, PTL DEF Spec, TakenOnInTurn
-----------------------------------------------------------------------------
\* What is let in is what its sender packed (Msgpack.cpp:47-180, Lxmf.cpp:54-123,
\* LxmfCommand.cpp:13-58): the two promises of the wire hold as they are, of
\* whatever state.
THEOREM LetInAsSent == Spec => []QueuedAsSent
<1>1. QueuedAsSent
  BY CasesReadBack, CasesUnpack DEF QueuedAsSent
<1> QED BY <1>1, PTL
=============================================================================
