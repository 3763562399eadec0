CONSTANTS
  LineLength = 76
  Bytes = {90, 255}
  MaxSize = 120
  MaxText = 0
  Data <- MCLongData
  Texts <- MCTexts
CHECK_DEADLOCK FALSE
SPECIFICATION Spec
INVARIANT EncodedSizeExact
