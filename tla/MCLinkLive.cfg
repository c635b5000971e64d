SPECIFICATION FairSpec
CONSTANTS
    Nodes = {n1, n2}
    TxEnabled = {n1}
    Packets = {p1, p2, p3}
    Long = {p1}
    Oversized = {p3}
    Seqs = {s1, s2}
    Airtime = 2
    LastAirtime <- MCLastAirtime
    Brief = {p1}
    MaxGap = 1
    Slack = 1
    MaxTimeout = 8
    NoNode = NoNode
    NoFrame = NoFrame
    Bad = Bad
    FreshSeq = TRUE
    Prompt = FALSE
    MaxFaults = 1
    MaxPauses = 1
INVARIANTS
    PacketsOutHonest
PROPERTIES
    TransmitReturns
    HalfReleased
