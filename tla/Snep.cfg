SPECIFICATION FairSpec
CONSTANTS
  UriIdentifiers <- MCUriIdentifiers
  Texts <- MCTexts
  Offers <- MCOffers
  Conns = {c1}
  Miu = 256
  Parts <- MCParts
  Leftovers <- MCLeftovers
  MaxLinks = 2
  ReceiptMayFail = TRUE
  StoreMayFail = TRUE
INVARIANTS TypeOK StoredIntact DoneMeansReceived
PROPERTIES AnswerComes
CHECK_DEADLOCK FALSE
