\* One operator, one console at a time; every file operation may fail.
CONSTANTS
    Radios = {r0}
    DefaultRadio = r0
    Unset = unset
    Batts = {b0, b1}
    DefaultBatt = b0
    LegacyBatt = b1
    Absent = absent
    Torn = torn
    NoConfig = noconfig
    FieldedSchemas = {1, 2, 3}
    OneConsole = TRUE
    RemoveMayFail = TRUE
    MaxCommits = 2
    MaxPowerLoss = 1
SPECIFICATION Spec
INVARIANTS TypeOK Durable FailureLeavesLive TxNeedsConsent
PROPERTIES CurrentNeverLost BootsDurable
