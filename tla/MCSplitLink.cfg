SPECIFICATION Spec
CONSTANTS
    Nodes = {n1, n2, n3}
    TxEnabled = {n1, n2}
    Packets = {p1, p2}
    Long = {p1, p2}
    Oversized = {}
    Seqs = {s1, s2}
    Airtime = 2
    LastAirtime <- MCLastAirtime
    Brief = {}
    MaxGap = 1
    Slack = 1
    MaxTimeout = 8
    NoNode = NoNode
    NoFrame = NoFrame
    Bad = Bad
    FreshSeq = TRUE
    Prompt = TRUE
    MaxFaults = 1
    MaxPauses = 1
INVARIANTS
    TypeOK
    PacketsOutHonest
PROPERTIES
    HalvesInTimeJoin
    ImplementsLink
SYMMETRY Symmetry
