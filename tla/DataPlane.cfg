SPECIFICATION Spec
CONSTANTS
  p1 = p1
  p2 = p2
  p3 = p3
  Processes = {p1}
  Possible <- Tables
  SharesHost <- OneHost
  SinkIds = {1, 2, 3, 4}
  Conns = {1, 2}
  Segments = {1, 2}
  MaxLog = 1
  MayFail = FALSE
INVARIANT TcpChannels
INVARIANT ShmChannels
CHECK_DEADLOCK FALSE
