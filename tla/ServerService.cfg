CONSTANTS
  c1 = c1
  c2 = c2
  a1 = a1
  a2 = a2
  xml = xml
  json = json
  rpc = rpc
  other = other
  x = x
  y = y
  NULL = NULL
  Conns <- MCConns
  Addr <- MCAddr
  Handlers <- MCHandlers
  Methods <- MCMethods
  Routes <- MCRoutes
  CanHandleRequest <- MCCanHandleRequest
  Byte <- MCByte
  Chunks <- MCChunks
  MAX_REQUEST_SIZE = 2
  MidUploadReply = {TRUE}
  MaxHandlers = 1
  MaxUpload = 3
SPECIFICATION FairSpec
PROPERTY ImplementsService
INVARIANT OversizeRefused
