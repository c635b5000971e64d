------------------------------ MODULE LxmfInbox -----------------------------
(***************************************************************************)
(* src/src/LxmfInbox.cpp: the node answers LXMF commands.  Reticulum's     *)
(* callbacks admit messages into a small queue and track inbound links;    *)
(* tick() reaps idle links and sends at most one reply.  Both run in the   *)
(* loop task, so each is one step.  Senders, their links, retried copies   *)
(* of their messages and what the mesh knows of them are the environment.  *)
(* Every age is counted in ticks and stops at the bound it is compared to: *)
(* that an age of sender_allowed() is a difference modulo 2^32 ms, young   *)
(* again after 49 days, is left out.  A message claims its sender; over a  *)
(* link it may claim another than the one who opened the link.             *)
(***************************************************************************)
EXTENDS Naturals, FiniteSets, Functions

CONSTANTS
    Senders, Msgs, Source,  \* Source[m]: the sender of message m
    Links, Owner,           \* Owner[l]: the sender that opens link l
    MaxPending, MaxLinks, RecentIds, SenderSlots,
    SenderCooldown, ReplySpacing, BackchannelWait, HalfGiveUp, LinkIdle,
    NoMsg, NoSender, NoLink, NoReply

GiveUp == 2 * HalfGiveUp

ASSUME MessageAssumption ==
    /\ Source \in [Msgs -> Senders] /\ NoMsg \notin Msgs
    /\ IsFiniteSet(Msgs)
ASSUME LinkAssumption == Owner \in [Links -> Senders] /\ NoLink \notin Links
ASSUME SenderAssumption == NoSender \notin Senders /\ IsFiniteSet(Senders)
ASSUME SizeAssumption ==
    {MaxPending, MaxLinks, RecentIds, SenderSlots} \subseteq Nat \ {0}
ASSUME TimeAssumption ==
    {SenderCooldown, ReplySpacing, BackchannelWait, HalfGiveUp, LinkIdle}
        \subseteq Nat \ {0}

Pending == 1 .. MaxPending
Recent == 0 .. RecentIds - 1
Slots == 1 .. SenderSlots
Tracks == 1 .. MaxLinks

\* A queued reply: the message, the link it came over, its age, path_requested.
Reply == [msg : Msgs, link : Links \cup {NoLink}, age : 0..GiveUp, asked : BOOLEAN]

ASSUME ReplyAssumption == NoReply \notin Reply

VARIABLES
    recent, next,  \* s_recent, s_recent_next
    senders,       \* s_senders: who was let through, and how long ago
    pending,       \* s_pending
    spacing,       \* ticks since s_last_reply_ms
    links,         \* s_links
    accepts,       \* the destination's accepts_links
    status,        \* each link: "new", "pending", "active", "identified" (active,
                   \* and the remote end has identified itself) or "closed"
    idle,          \* ticks since each link carried anything
    known, path,   \* senders whose identity, and a path to whom, is known
    replies,       \* history: replies sent to each message, up to 2
    lastReply,     \* history: ticks since each sender was sent a reply
    lastLet,       \* history: ticks since a message of each was let through
    fate           \* history: "new", "queued" or "refused"

admission == <<recent, next, senders, lastLet, fate>>
linkVars == <<links, accepts, status, idle>>
replyVars == <<pending, spacing, replies, lastReply>>
mesh == <<known, path>>
vars == <<admission, linkVars, replyVars, mesh>>

Statuses == {"new", "pending", "active", "identified", "closed"}
Up(st) == st \in {"active", "identified"}

Older(a, bound) == IF a < bound THEN a + 1 ELSE a

Init ==
    /\ recent = [i \in Recent |-> NoMsg] /\ next = 0
    /\ senders = [i \in Slots |-> [src |-> NoSender, age |-> SenderCooldown]]
    /\ pending = [i \in Pending |-> NoReply]
    /\ spacing = ReplySpacing
    /\ links = [i \in Tracks |-> NoLink]
    /\ accepts = TRUE
    /\ status = [l \in Links |-> "new"]
    /\ idle = [l \in Links |-> 0]
    /\ known = {} /\ path = {}
    /\ replies = [m \in Msgs |-> 0]
    /\ lastReply = [s \in Senders |-> SenderCooldown]
    /\ lastLet = [s \in Senders |-> SenderCooldown]
    /\ fate = [m \in Msgs |-> "new"]

-----------------------------------------------------------------------------
(***************************************************************************)
(* handle_message(), for a well-formed message that holds a command.       *)
(***************************************************************************)

\* Mutant: a new sender evicts the one seen last.
SlotLatest(s) ==
    IF \E i \in Slots : senders[i].src = s
    THEN CHOOSE i \in Slots : senders[i].src = s
    ELSE CHOOSE i \in Slots : \A j \in Slots :
            \/ senders[i].age < senders[j].age
            \/ senders[i].age = senders[j].age /\ i <= j

\* The sender's own slot, or else one of those unused for longest.  A slot
\* that was never used counts as one whose cooldown has passed.
Slot(s) ==
    IF \E i \in Slots : senders[i].src = s
    THEN CHOOSE i \in Slots : senders[i].src = s
    ELSE CHOOSE i \in Slots : \A j \in Slots :
            \/ senders[i].age > senders[j].age
            \/ senders[i].age = senders[j].age /\ i <= j

Cooling(s) == \E i \in Slots : senders[i].src = s /\ senders[i].age < SenderCooldown

\* Mutant: only the latest message is remembered.
SeenLatest(m) == m = recent[(next + RecentIds - 1) % RecentIds]

Seen(m) == m \in Range(recent)

\* Mutant: the ring's index does not wrap.
RecordNoWrap(m) ==
    /\ recent' = [recent EXCEPT ![next] = m]
    /\ next' = next + 1

Record(m) ==
    /\ recent' = [recent EXCEPT ![next] = m]
    /\ next' = (next + 1) % RecentIds

LetThrough(s) ==
    /\ senders' = [senders EXCEPT ![Slot(s)] = [src |-> s, age |-> 0]]
    /\ lastLet' = [lastLet EXCEPT ![s] = 0]

Free(i) == pending[i] = NoReply /\ \A j \in Pending : j < i => pending[j] # NoReply

HandleDuplicate(m) ==
    /\ Seen(m)
    /\ UNCHANGED <<admission, pending>>

HandleTooSoon(m) ==
    /\ ~Seen(m) /\ Record(m)
    /\ Cooling(Source[m])
    /\ fate' = [fate EXCEPT ![m] = "refused"]
    /\ UNCHANGED <<senders, lastLet, pending>>

HandleQueueFull(m) ==
    /\ ~Seen(m) /\ Record(m)
    /\ ~Cooling(Source[m]) /\ LetThrough(Source[m])
    /\ NoReply \notin Range(pending)
    /\ fate' = [fate EXCEPT ![m] = "refused"]
    /\ UNCHANGED pending

HandleQueue(m, l) ==
    /\ ~Seen(m) /\ Record(m)
    /\ ~Cooling(Source[m]) /\ LetThrough(Source[m])
    /\ \E i \in Pending :
          /\ Free(i)
          /\ pending' = [pending EXCEPT ![i] =
                            [msg |-> m, link |-> l, age |-> 0, asked |-> FALSE]]
    /\ fate' = [fate EXCEPT ![m] = "queued"]

HandleMessage(m, l) ==
    /\ HandleDuplicate(m) \/ HandleTooSoon(m) \/ HandleQueueFull(m) \/ HandleQueue(m, l)
    /\ UNCHANGED <<spacing, replies, lastReply>>

OnOpportunistic(m) ==
    /\ HandleMessage(m, NoLink)
    /\ UNCHANGED <<linkVars, mesh>>

OnLinkPacket(m, l) ==
    /\ Up(status[l])
    /\ HandleMessage(m, l)
    /\ idle' = [idle EXCEPT ![l] = 0]
    /\ UNCHANGED <<links, accepts, status, mesh>>

-----------------------------------------------------------------------------
(***************************************************************************)
(* Inbound links.                                                          *)
(***************************************************************************)
LiveIn(ls, st) == {i \in Tracks : ls[i] # NoLink /\ st[ls[i]] # "closed"}

\* update_link_admission(), at the end of every handler that changes the links.
UpdateAdmission == accepts' = (Cardinality(LiveIn(links', status')) < MaxLinks)

\* Reticulum answers a link request; it is established when the proof arrives.
LinkRequest(l) ==
    /\ status[l] = "new" /\ accepts
    /\ status' = [status EXCEPT ![l] = "pending"]
    /\ UNCHANGED <<links, accepts, idle, admission, replyVars, mesh>>

LinkFails(l) ==
    /\ status[l] = "pending"
    /\ status' = [status EXCEPT ![l] = "closed"]
    /\ UNCHANGED <<links, accepts, idle, admission, replyVars, mesh>>

\* Mutant: a link there is no room to track stays open.
OnLinkEstablishedKeeps(l) ==
    /\ status[l] = "pending"
    /\ status' = [status EXCEPT ![l] = "active"]
    /\ LET open == Tracks \ LiveIn(links, status)
       IN  IF open # {}
           THEN links' = [links EXCEPT ![CHOOSE i \in open : \A j \in open : i <= j] = l]
           ELSE UNCHANGED links
    /\ UpdateAdmission
    /\ UNCHANGED <<idle, admission, replyVars, mesh>>

OnLinkEstablished(l) ==
    /\ status[l] = "pending"
    /\ LET open == Tracks \ LiveIn(links, status)
       IN  IF open # {}
           THEN /\ status' = [status EXCEPT ![l] = "active"]
                /\ links' = [links EXCEPT ![CHOOSE i \in open : \A j \in open : i <= j] = l]
           ELSE /\ status' = [status EXCEPT ![l] = "closed"]   \* teardown()
                /\ UNCHANGED links
    /\ UpdateAdmission
    /\ UNCHANGED <<idle, admission, replyVars, mesh>>

Forget(ls, l) == [i \in Tracks |-> IF ls[i] = l THEN NoLink ELSE ls[i]]

\* Mutant: the room a closed link took is not offered again.
OnLinkClosedStale(l) ==
    /\ Up(status[l])
    /\ status' = [status EXCEPT ![l] = "closed"]
    /\ links' = Forget(links, l)
    /\ UNCHANGED <<accepts, idle, admission, replyVars, mesh>>

\* The peer closes it, or its keepalives stop.
OnLinkClosed(l) ==
    /\ Up(status[l])
    /\ status' = [status EXCEPT ![l] = "closed"]
    /\ links' = Forget(links, l)
    /\ UpdateAdmission
    /\ UNCHANGED <<idle, admission, replyVars, mesh>>

Identify(l) ==
    /\ status[l] = "active"
    /\ status' = [status EXCEPT ![l] = "identified"]
    /\ idle' = [idle EXCEPT ![l] = 0]
    /\ UNCHANGED <<links, accepts, admission, replyVars, mesh>>

-----------------------------------------------------------------------------
(***************************************************************************)
(* tick(): reap idle links, then serve the queue in order until a reply or *)
(* a path request has used the radio.                                      *)
(***************************************************************************)
Src(r) == Source[r.msg]

BackchannelReady(r, st) ==
    r.link # NoLink /\ st[r.link] = "identified" /\ Owner[r.link] = Src(r)

Over(r, l, st) == r.link = l /\ BackchannelReady(r, st)

AwaitsIdentity(r, st) ==
    /\ r.link # NoLink /\ Up(st[r.link])
    /\ ~BackchannelReady(r, st) /\ r.age < BackchannelWait

Answerable(r, st) ==
    \/ BackchannelReady(r, st)
    \/ /\ ~AwaitsIdentity(r, st)
       /\ Src(r) \in known
       /\ Src(r) \in path \/ r.age >= HalfGiveUp

\* Mutant: the path is requested again and again.
NeedsPathAgain(r, st) ==
    /\ ~Answerable(r, st) /\ ~AwaitsIdentity(r, st)
    /\ Src(r) \notin path

NeedsPath(r, st) ==
    /\ ~Answerable(r, st) /\ ~AwaitsIdentity(r, st)
    /\ Src(r) \notin path /\ ~r.asked

Hopeless(r, st) ==
    /\ ~Answerable(r, st) /\ ~AwaitsIdentity(r, st) /\ ~NeedsPath(r, st)
    /\ r.age >= GiveUp

\* The first queued reply service() transmits something for, and those it
\* drops on the way there.
Queued == {i \in Pending : pending[i] # NoReply}
Active(st) == {i \in Queued : Answerable(pending[i], st) \/ NeedsPath(pending[i], st)}
First(st) == {i \in Active(st) : \A j \in Active(st) : i <= j}
Dropped(st) == {i \in Queued : /\ Hopeless(pending[i], st)
                               /\ \A j \in First(st) : i < j}

Service(st) ==
    LET sent == {i \in First(st) : Answerable(pending[i], st)}
        answered == {pending[i].msg : i \in sent}
    IN  /\ pending' = [i \in Pending |->
                          IF i \in sent \cup Dropped(st) THEN NoReply
                          ELSE IF i \in First(st) THEN [pending[i] EXCEPT !.asked = TRUE]
                          ELSE pending[i]]
        /\ spacing' = IF First(st) = {} THEN spacing ELSE 0
        /\ replies' = [m \in Msgs |-> IF m \in answered THEN Older(replies[m], 2)
                                      ELSE replies[m]]
        /\ lastReply' = [s \in Senders |-> IF \E m \in answered : Source[m] = s
                                           THEN 0 ELSE lastReply[s]]
        /\ idle' = [l \in Links |-> IF \E i \in First(st) : Over(pending[i], l, st)
                                    THEN 0 ELSE idle[l]]

\* Mutant: a link that has identified itself is kept open.
ReapedUnidentified(l) ==
    (\E i \in Tracks : links[i] = l) /\ status[l] = "active" /\ idle[l] > LinkIdle

\* A link idle for too long is torn down, which calls OnLinkClosed's code.
Reaped(l) == (\E i \in Tracks : links[i] = l) /\ Up(status[l]) /\ idle[l] > LinkIdle

TickInbox ==
    /\ status' = [l \in Links |-> IF Reaped(l) THEN "closed" ELSE status[l]]
    /\ links' = [i \in Tracks |-> IF links[i] # NoLink /\ status'[links[i]] = "closed"
                                  THEN NoLink ELSE links[i]]
    /\ UpdateAdmission
    /\ IF spacing < ReplySpacing THEN UNCHANGED <<replyVars, idle>> ELSE Service(status')
    /\ UNCHANGED <<admission, mesh>>

-----------------------------------------------------------------------------
\* The sender's announce, or the answer to a path request, is heard.
Announce(s) ==
    /\ known' = known \cup {s} /\ path' = path \cup {s}
    /\ UNCHANGED <<admission, linkVars, replyVars>>

PathLost(s) ==
    /\ s \in path /\ path' = path \ {s}
    /\ UNCHANGED <<known, admission, linkVars, replyVars>>

Clock ==
    /\ senders' = [i \in Slots |-> [senders[i] EXCEPT !.age = Older(@, SenderCooldown)]]
    /\ pending' = [i \in Pending |-> IF pending[i] = NoReply THEN NoReply
                                     ELSE [pending[i] EXCEPT !.age = Older(@, GiveUp)]]
    /\ spacing' = Older(spacing, ReplySpacing)
    /\ idle' = [l \in Links |-> IF Up(status[l]) THEN Older(idle[l], LinkIdle + 1)
                                ELSE 0]
    /\ lastReply' = [s \in Senders |-> Older(lastReply[s], SenderCooldown)]
    /\ lastLet' = [s \in Senders |-> Older(lastLet[s], SenderCooldown)]
    /\ UNCHANGED <<recent, next, fate, links, accepts, status, replies, mesh>>

Next ==
    \/ \E m \in Msgs : OnOpportunistic(m) \/ \E l \in Links : OnLinkPacket(m, l)
    \/ \E l \in Links : \/ LinkRequest(l) \/ LinkFails(l) \/ OnLinkEstablished(l)
                        \/ OnLinkClosed(l) \/ Identify(l)
    \/ \E s \in Senders : Announce(s) \/ PathLost(s)
    \/ TickInbox \/ Clock

Spec == Init /\ [][Next]_vars

\* The loop keeps calling tick(), and time passes.
FairSpec == Spec /\ WF_vars(TickInbox) /\ WF_vars(Clock)

-----------------------------------------------------------------------------
TypeOK ==
    /\ recent \in [Recent -> Msgs \cup {NoMsg}] /\ next \in Recent
    /\ senders \in [Slots -> [src : Senders \cup {NoSender}, age : 0..SenderCooldown]]
    /\ pending \in [Pending -> Reply \cup {NoReply}]
    /\ spacing \in 0..ReplySpacing
    /\ links \in [Tracks -> Links \cup {NoLink}]
    /\ accepts \in BOOLEAN
    /\ status \in [Links -> Statuses]
    /\ idle \in [Links -> 0 .. LinkIdle + 1]
    /\ known \subseteq Senders /\ path \subseteq Senders
    /\ replies \in [Msgs -> 0..2]
    /\ lastReply \in [Senders -> 0..SenderCooldown]
    /\ lastLet \in [Senders -> 0..SenderCooldown]
    /\ fate \in [Msgs -> {"new", "queued", "refused"}]

\* No link is left to cost keepalives: one that is active is tracked, once,
\* and so will be reaped (LxmfInbox.cpp:194-232, 342-348).
ActiveLinksTracked ==
    \A l \in Links : Up(status[l]) => Cardinality({i \in Tracks : links[i] = l}) = 1

\* Links are accepted exactly when there is room to track one more, whatever
\* order they are established, closed and reaped in (LxmfInbox.cpp:202-204).
AdmissionCurrent == accepts <=> Cardinality({l \in Links : Up(status[l])}) < MaxLinks

\* A message is answered at most once however often it is retried, as long as
\* no more messages are sent than the ring remembers (LxmfInbox.cpp:96-103).
AnsweredAtMostOnce ==
    Cardinality(Msgs) <= RecentIds => \A m \in Msgs : replies[m] <= 1

\* Two messages of one sender are let through at least a cooldown apart, as
\* long as there are no more senders than slots (LxmfInbox.cpp:106-125).
SendersSpaced ==
    [][ Cardinality(Senders) <= SenderSlots =>
          \A s \in Senders : lastLet'[s] = 0 /\ lastLet[s] # 0 =>
                                lastLet[s] = SenderCooldown ]_vars

\* Queued replies are all sent or given up in the end, when no message counts
\* as new for ever: none waits for ever behind another (LxmfInbox.cpp:271-311).
PendingSettled == Queued # {} ~> Queued = {}

\* A link nothing is heard on is closed after its idle time, and the room it
\* took is given back (LxmfInbox.cpp:342-348).
IdleLinkClosed == \A l \in Links : Up(status[l]) ~> ~Up(status[l]) \/ idle[l] = 0

\* README.md:122: "a sender gets at most one reply per 15 s".
OneReplyPerCooldown ==
    [][ \A s \in Senders : lastReply'[s] = 0 /\ lastReply[s] # 0 =>
                              lastReply[s] = SenderCooldown ]_vars

-----------------------------------------------------------------------------
(***************************************************************************)
(* What this comes to for those who send commands.                         *)
(***************************************************************************)
Waiting == {pending[i].msg : i \in Queued}
Place(m) == CHOOSE i \in Queued : pending[i].msg = m
Entry(m) == [age |-> pending[Place(m)].age, asked |-> pending[Place(m)].asked]
Queue == [m \in Waiting |-> Entry(m)]
Refused == {m \in Msgs : fate[m] = "refused"}
Answered == {m \in Msgs : replies[m] > 0}
Lost == {m \in Msgs : fate[m] = "queued" /\ m \notin Waiting \cup Answered}

Desk == INSTANCE AnswerDesk WITH
            queue <- Queue, refused <- Refused, answered <- Answered, lost <- Lost,
            since <- lastLet, rest <- spacing, Room <- MaxPending,
            Cooldown <- SenderCooldown, Rest <- ReplySpacing, Patience <- GiveUp

\* Through the ring, the slots, the queue and the retries the inbox is a desk that
\* takes on or refuses every message once, refuses none without a reason, and
\* answers or gives up each it took on, one transmission at a time, when there are
\* no more messages than the ring remembers and no more senders than slots
\* (LxmfInbox.cpp:96-166, 271-311, 350-354).
ImplementsDesk == Desk!Spec
=============================================================================
