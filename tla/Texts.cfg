SPECIFICATION TextSpec
CHECK_DEADLOCK FALSE
CONSTANTS
    Kinds = {"pattern", "rules", "number", "head", "body", "id", "milter"}
    MaxLength <- MCLength
    Char <- MCChar
    AtomChars = {"a", "b", "."}
    Absent = Absent
    Refused = Refused
    Word = 65536
    Headers = 1
INVARIANTS
    WildmatMeans
    OrderIrrelevant
    UnitsExact
    RelaysFaithfully
    IdsSettle
    MilterFailsClosed
