CONSTANTS
  c1 = c1
  c2 = c2
  Int32Max = 40000
  Int64Max = 80000
  Dates <- MCDates
  Doubles <- MCDoubles
  StrtodNormalPrecision <- MCStrtod
  MaxUlps = 3
  Clients <- MCClients
  FormatOf <- MCFormatOf
  Calls <- MCCalls
  Apps <- MCApps
  InitialApp = 0
  Responses <- MCResponses
  MaxId = 0
  MaxExchanges = 2
  UsesId <- MCUsesId
  WriteRequest <- MCWriteRequest
  ReadRequest <- MCReadRequest
  WriteResponse <- MCWriteResponse
  ReadResponse <- MCReadResponse
  Invoke <- MCInvoke
SPECIFICATION Spec
INVARIANTS TypeOK LateIfAbandoned
PROPERTY ImplementsRemoteCalls
CHECK_DEADLOCK FALSE
