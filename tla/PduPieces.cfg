SPECIFICATION Spec
CONSTANTS
  SIZE = 5
  LenSize = 2
  TypeSize = 1
  MaxLength = 5
  Rounds = 1
  MaxHandled = 2
  PayloadLength <- MCShortLength
  OtherType = "other"
  WholeDelivery = FALSE
  MayBreak = FALSE
INVARIANT BodyInBounds
INVARIANT RecvFits
CHECK_DEADLOCK FALSE
