\* Two fields of two values; a page that is a session behind by one answer; a
\* firmware of up to five packets.
CONSTANTS
    f1 = f1
    f2 = f2
    v1 = v1
    v2 = v2
    Fields = {f1, f2}
    Head1 = f1
    Last1 = f2
    Values = {v1, v2}
    Garbled = garbled
    Factory <- MCFactory
    MaxLines = 3
    MaxNoise = 1
    MaxLate = 1
    MaxQueued = 1
    MaxPackets = 5
    MaxMisses = 2
    MaxStale = 1
SPECIFICATION WebSpec
INVARIANTS ConsoleTypeOK DfuTypeOK OriginalIsStaged CommitReported SilenceNoticed HeardSomething
PROPERTIES AnsweredOwn
