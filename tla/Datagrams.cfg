SPECIFICATION FairSpec
CONSTANTS
  MaxSlot = 1
  MaxMsg = 2
  Name <- MCName
  EchoSap = 16
  Asked <- MCAsked
  Targets = {16}
  Announcers <- MCAnnouncers
  Malformed <- MCMalformed
  MaxFrame = 2
  MaxRequest = 3
  MaxPax = 1
  Slow = TRUE
  Busy = FALSE
  MayLackThread = TRUE
INVARIANTS TypeOK AnswersTrue AnsweredOnce DispatchOrder AnnouncedIsTaken
PROPERTIES StartedIsAnswered
CHECK_DEADLOCK FALSE
