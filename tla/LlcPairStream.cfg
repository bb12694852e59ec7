SPECIFICATION Spec
CONSTANTS
    a = a
    b = b
    End <- MCEnd
    NoInfo = NoInfo
    Payload <- MCPayload
    Oversize <- MCOversize
    Window <- MCWindow
    Program <- MCProgram
    RwrA = 1
    RwrB = 2
    ProgA = "source"
    ProgB = "sink"
    Start = 14
    MaxSend = 3
    Rounds = 0
    CanOverrun = TRUE
INVARIANTS DeliveredInOrder
CHECK_DEADLOCK FALSE
