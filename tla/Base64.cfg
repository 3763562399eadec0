CONSTANTS
  LineLength = 8
  Bytes = {90, 255}
  MaxSize = 10
  MaxText = 6
  Data <- MCData
  Texts <- MCTexts
CHECK_DEADLOCK FALSE
SPECIFICATION MCSpec
INVARIANTS TypeOK EncodedSizeShort RoundTrip DecodeFits DecodeMatchesBits
