\* A node in the field with an old record, first powered on this firmware.
CONSTANTS
    Radios = {r0}
    DefaultRadio = r0
    Unset = unset
    Batts = {b0, b1}
    DefaultBatt = b0
    LegacyBatt = b1
    Absent = absent
    Torn = torn
    NoConfig = noconfig
    FieldedSchemas = {1, 2}
    OneConsole = TRUE
    RemoveMayFail = FALSE
    MaxCommits = 1
    MaxPowerLoss = 1
SPECIFICATION Spec
PROPERTIES NeverNeither
