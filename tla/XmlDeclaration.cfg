CONSTANTS
  Before <- MCBefore
  After <- MCAfter
  Texts <- MCNoTexts
  Plain <- MCNoTexts
  Flags <- MCFlags
  UnsignedRange <- MCUnsignedRange
  Names <- MCNames
  TextsIn <- MCTextsIn
  Foreign <- MCForeign
  MaxElements = 0
  MaxPieces = 3
  MaxMarkup = 3
  MaxPlain = 4
SPECIFICATION MCSpec
INVARIANT DeclarationFirst
CHECK_DEADLOCK FALSE
