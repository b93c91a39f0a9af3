SPECIFICATION BandwidthSpec
CONSTANTS
    Sessions = {session1, session2}
    Limit = 2
    Sizes = {1, 2}
    Second = 2
    Period = 2
    NoRow = NoRow
    MaxClock = 3
    MaxLogins = 3
    MaxTransfers = 2
SYMMETRY Symmetry
INVARIANTS
    BandwidthTypeOK
    NeverOvercharged
PROPERTY RefusalsJustified
