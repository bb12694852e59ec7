SPECIFICATION FairSpec
CONSTANTS
    a = a
    b = b
    End <- MCEnd
    NoInfo = NoInfo
    Payload <- MCPayload
    Oversize <- MCOversize
    Window <- MCWindow
    Program <- MCProgram
    RwrA = 1
    RwrB = 2
    ProgA = "client"
    ProgB = "echo"
    Start = 15
    MaxSend = 2
    Rounds = 2
    CanOverrun = FALSE
INVARIANTS AckedWasAccepted NoAbort
PROPERTIES BothAreChannels ClientsFinish
CHECK_DEADLOCK FALSE
