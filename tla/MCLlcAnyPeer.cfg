SPECIFICATION AnyPeerSpec
CONSTANTS
    End = {e1}
    NoInfo = NoInfo
    Payload <- MCPayload
    Oversize <- MCOversize
    Window <- MCWindow
    Incoming <- MCIncoming
    Start = 15
    MaxSend = 3
    MaxAccept = 3
INVARIANTS AnyPeerTypeOK Gapless SendOrder
CHECK_DEADLOCK FALSE
