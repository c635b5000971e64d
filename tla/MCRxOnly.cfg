SPECIFICATION FairSpec
CONSTANTS
    Nodes = {n1, n2}
    TxEnabled = {}
    Packets = {p1, p2}
    Long = {p1}
    Oversized = {}
    Seqs = {s1}
    Airtime = 1
    LastAirtime <- MCLastAirtime
    Brief = {}
    MaxGap = 1
    Slack = 1
    MaxTimeout = 8
    NoNode = NoNode
    NoFrame = NoFrame
    Bad = Bad
    FreshSeq = TRUE
    Prompt = FALSE
    MaxFaults = 1
    MaxPauses = 0
PROPERTIES
    RadioRecovers
