SPECIFICATION Spec
CONSTANTS
  p1 = p1
  p2 = p2
  p3 = p3
  Processes = {p1, p2}
  Possible <- Lookalikes
  SharesHost <- OneHost
  SinkIds = {1, 2}
  Conns = {1}
  Segments = {1, 2}
  MaxLog = 1
  MayFail = FALSE
INVARIANT TopicsKept
CHECK_DEADLOCK FALSE
