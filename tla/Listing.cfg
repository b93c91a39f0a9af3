SPECIFICATION TextSpec
CHECK_DEADLOCK FALSE
CONSTANTS
    Kinds = {"pattern"}
    MaxLength <- MCLength
    Char <- MCChar
    AtomChars = {"a", "b", "."}
    Absent = Absent
    Refused = Refused
    Word = 65536
    Headers = 1
INVARIANT GroupsListed
