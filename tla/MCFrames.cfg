\* Requests and responses as frames over a stream that is cut anywhere.
SPECIFICATION Spec
CONSTANTS
  NoValue = NoValue
  Malformed = Malformed
  Dimensions = 2
  MaxString = 1
  Requests <- MCRequests
  Responses <- MCResponses
  kMaxFrameSize = 12
  SocketBuffer = 4
  MaxFrames = 3
INVARIANTS RefusedForCause OnlyAcceptable
PROPERTIES ImplementsQueue EveryFrameRead
CHECK_DEADLOCK FALSE
