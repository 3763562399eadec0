CONSTANTS
  Before <- MCBefore
  After <- MCAfter
  Texts <- MCTexts
  Plain <- MCPlain
  Flags <- MCFlags
  UnsignedRange <- MCUnsignedRange
  Names <- MCNames
  TextsIn <- MCTextsIn
  Foreign <- MCForeign
  MaxElements = 4
  MaxPieces = 3
  MaxMarkup = 3
  MaxPlain = 4
SPECIFICATION MCSpec
INVARIANTS ParserTypeOK StaysInside PrintedTextSurvives Unspoilt NothingLost RoundTrip
PROPERTY Terminates
CHECK_DEADLOCK FALSE
