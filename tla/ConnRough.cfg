SPECIFICATION Spec
CONSTANTS
    MaxSap = 2
    Service = {1, 2}
    Accepting = {1}
    Peer = {p}
    Target = {1, 2}
    Outgoing = 2
    Talker = {}
    FirstStep = "send"
    May = {"reject", "close", "drop"}
    Modulus = 1
    MaxConn = 2
INVARIANTS SlotTable
CHECK_DEADLOCK FALSE
