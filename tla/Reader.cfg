SPECIFICATION ReaderSpec
CONSTANTS
    Groups = {group1, group2}
    NoGroup = NoGroup
    Unknown = Unknown
    MaxNumber = 3
SYMMETRY Symmetry
INVARIANTS
    ReaderTypeOK
    WalkComplete
    ClientAgrees
    RangeComplete
