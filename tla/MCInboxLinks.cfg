SPECIFICATION FairSpec
CONSTANTS
    a = a
    b = b
    m1 = m1
    m2 = m2
    m3 = m3
    l1 = l1
    l2 = l2
    Senders = {a}
    Msgs = {m1, m2}
    Source <- MCSource
    Links = {l1, l2}
    Owner <- MCOwner
    MaxPending = 2
    MaxLinks = 1
    RecentIds = 2
    SenderSlots = 1
    SenderCooldown = 1
    ReplySpacing = 1
    BackchannelWait = 1
    HalfGiveUp = 1
    LinkIdle = 1
    NoMsg = NoMsg
    NoSender = NoSender
    NoLink = NoLink
    NoReply = NoReply
INVARIANTS
    ActiveLinksTracked
    AdmissionCurrent
PROPERTIES
    PendingSettled
    IdleLinkClosed
