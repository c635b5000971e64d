\* A node whose senders are on and whose Bluetooth is off, and nodes with a
\* client, with and without a PIN.
CONSTANTS
    Wrap = 5
    IdleTimeout = 1
    First = 1
    Interval = 2
    Stall = 1
    Handles = {h0}
    NoHandle = none
    Records = {r1, r2}
    Zero = zero
    Settings <- AllSettings
    MaxEvents = 2
SPECIFICATION Spec
INVARIANTS TypeOK SessionIsCurrent ReadIsCurrent SendsInTime IdleSessionEnds
PROPERTIES DroppedOnlyIdle AnnouncesAlone IntervalKept
SYMMETRY Symmetry
