SPECIFICATION FairSpec
CONSTANTS
  SIZE = 6
  LenSize = 2
  TypeSize = 1
  MaxLength = 7
  Rounds = 3
  MaxHandled = 10
  PayloadLength <- MCPayloadLength
  OtherType = "other"
  WholeDelivery = TRUE
  MayBreak = TRUE
INVARIANT StreamIntact
INVARIANT BodyAfterRecvIsPdu
PROPERTY ImplementsConversation
PROPERTY AllAnswersShown
PROPERTY SessionEnds
CHECK_DEADLOCK FALSE
