SPECIFICATION FairSpec
CONSTANTS
  SIZE = 6
  LenSize = 2
  TypeSize = 1
  MaxLength = 7
  Rounds = 1
  MaxHandled = 10
  PayloadLength <- MCPayloadLength
  OtherType = "other"
  WholeDelivery = FALSE
  MayBreak = FALSE
PROPERTY AllAnswersShown
CHECK_DEADLOCK FALSE
