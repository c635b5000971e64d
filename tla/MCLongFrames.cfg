SPECIFICATION Spec
CONSTANTS
    Nodes = {n1, n2}
    TxEnabled = {n1}
    Packets = {p1, p2}
    Long = {p1, p2}
    Oversized = {}
    Seqs = {s1, s2}
    Airtime = 4
    LastAirtime <- MCLastAirtime
    Brief = {p2}
    MaxGap = 1
    Slack = 1
    MaxTimeout = 3
    NoNode = NoNode
    NoFrame = NoFrame
    Bad = Bad
    FreshSeq = TRUE
    Prompt = TRUE
    MaxFaults = 0
    MaxPauses = 0
PROPERTIES
    HalvesInTimeJoin
SYMMETRY Symmetry
