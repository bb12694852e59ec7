SPECIFICATION FairSpec
CONSTANTS
    MaxSap = 2
    Service = {1, 2}
    Accepting = {1, 2}
    Peer = {p}
    Target = {}
    Outgoing = 2
    Talker = {p}
    FirstStep = "recv"
    May = {"stop"}
    Modulus = 4
    MaxConn = 1
PROPERTIES ClientReturns
CHECK_DEADLOCK FALSE
