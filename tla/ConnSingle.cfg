SPECIFICATION FairSpec
CONSTANTS
    MaxSap = 2
    Service = {1}
    Accepting = {1}
    Peer = {p}
    Target = {1, 2}
    Outgoing = 0
    Talker = {p}
    FirstStep = "recv"
    May = {"answer", "reject", "close"}
    Modulus = 4
    MaxConn = 1
INVARIANTS TypeOK
PROPERTIES ConnectAnswered DiscAnswered 
CHECK_DEADLOCK FALSE
