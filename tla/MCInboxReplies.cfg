SPECIFICATION Spec
CONSTANTS
    a = a
    b = b
    m1 = m1
    m2 = m2
    m3 = m3
    l1 = l1
    l2 = l2
    Senders = {a}
    Msgs = {m1, m2}
    Source <- MCSource
    Links = {}
    Owner <- MCOwner
    MaxPending = 2
    MaxLinks = 3
    RecentIds = 8
    SenderSlots = 4
    SenderCooldown = 3
    ReplySpacing = 1
    BackchannelWait = 2
    HalfGiveUp = 6
    LinkIdle = 24
    NoMsg = NoMsg
    NoSender = NoSender
    NoLink = NoLink
    NoReply = NoReply
PROPERTIES
    OneReplyPerCooldown
