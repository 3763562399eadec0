CONSTANTS
  Int32 = 1000
  Int64 = 5000
  FastPath = 90
  Precision = 3
  MaxDouble = 30000
  MaxExponent = 12
  Texts <- MCLongTexts
  Names <- MCNames
  Scalars <- MCScalars
  MaxWritten = 0
  MaxPieces = 4
  MaxNumber = 4
  MaxEscapes = 4
  MaxDigits = 5
SPECIFICATION FairSpec
INVARIANT ExponentFits
CHECK_DEADLOCK FALSE
