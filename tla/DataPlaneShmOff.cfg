SPECIFICATION Spec
CONSTANTS
  p1 = p1
  p2 = p2
  p3 = p3
  Processes = {p1, p2}
  Possible <- OneTopic
  SharesHost <- ShmOffAtP2
  SinkIds = {1, 2}
  Conns = {1}
  Segments = {1, 2}
  MaxLog = 1
  MayFail = FALSE
INVARIANT BothEndsAct
CHECK_DEADLOCK FALSE
