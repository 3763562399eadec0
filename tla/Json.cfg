CONSTANTS
  Int32 = 1000
  Int64 = 5000
  FastPath = 90
  Precision = 3
  MaxDouble = 30000
  MaxExponent = 12
  Texts <- MCTexts
  Names <- MCNames
  Scalars <- MCScalars
  MaxWritten = 7
  MaxPieces = 4
  MaxNumber = 4
  MaxEscapes = 4
  MaxDigits = 5
SPECIFICATION FairSpec
INVARIANTS NumberTypeOK NumberExact PlacesKept ExponentInTable StackSound RoundTrip AcceptsJson
PROPERTY Terminates
CHECK_DEADLOCK FALSE
