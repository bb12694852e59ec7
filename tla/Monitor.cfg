SPECIFICATION FairSpec
CONSTANTS
    TextFile = {a, b}
    OtherFile = {o}
    PlainFile = {p}
    a = a
    b = b
    o = o
    p = p
    Attempts = 5
    Timeout = 1
    May = {"truncate", "delete", "fail", "silent", "encode"}
    MaxWrites = 2
INVARIANTS
    TypeOK
    AttemptsBounded
PROPERTIES
    BackToRead
CHECK_DEADLOCK FALSE
