\* Both consoles commit at any time; removing a file works.
CONSTANTS
    Radios = {r0}
    DefaultRadio = r0
    Unset = unset
    Batts = {b0, b1}
    DefaultBatt = b0
    LegacyBatt = b1
    Absent = absent
    Torn = torn
    NoConfig = noconfig
    FieldedSchemas = {3}
    OneConsole = FALSE
    RemoveMayFail = FALSE
    MaxCommits = 2
    MaxPowerLoss = 2
SPECIFICATION Spec
PROPERTIES CurrentNeverLost Atomic
