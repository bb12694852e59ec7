SPECIFICATION FairSpec
CONSTANTS
    Roles = {"initiator", "target"}
    Polls = 2
    MaxStarts = 2
    MaxAborts = 1
    MaxStrangers = 1
    MaxLost = 1
INVARIANTS TypeOK PowerKnown ReplyIsMine SettingsFirst
PROPERTY CallsReturn
CHECK_DEADLOCK FALSE
