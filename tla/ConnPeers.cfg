SPECIFICATION Spec
CONSTANTS
    MaxSap = 2
    Service = {1, 2}
    Accepting = {1}
    Peer = {p, q}
    Target = {1, 2}
    Outgoing = 0
    Talker = {p, q}
    FirstStep = "recv"
    May = {"stop", "reject", "close"}
    Modulus = 1
    MaxConn = 2
INVARIANTS ThreadsReachable NoCrash OpenIsServed
PROPERTIES StatusDiagram
CHECK_DEADLOCK FALSE
