SPECIFICATION Spec
CONSTANTS
    a = a
    b = b
    m1 = m1
    m2 = m2
    m3 = m3
    l1 = l1
    l2 = l2
    Senders = {a, b}
    Msgs = {m1, m2, m3}
    Source <- MCSource
    Links = {l1}
    Owner <- MCOwner
    MaxPending = 2
    MaxLinks = 1
    RecentIds = 3
    SenderSlots = 2
    SenderCooldown = 2
    ReplySpacing = 1
    BackchannelWait = 1
    HalfGiveUp = 1
    LinkIdle = 1
    NoMsg = NoMsg
    NoSender = NoSender
    NoLink = NoLink
    NoReply = NoReply
INVARIANTS
    TypeOK
    AnsweredAtMostOnce
    QueuedAsSent
PROPERTIES
    SendersSpaced
    ImplementsDesk
