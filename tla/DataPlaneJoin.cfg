SPECIFICATION FairSpec
CONSTANTS
  p1 = p1
  p2 = p2
  p3 = p3
  Processes = {p1, p2}
  Possible <- TwoEnds
  SharesHost <- OneHost
  SinkIds = {1, 2}
  Conns = {1}
  Segments = {1, 2}
  MaxLog = 1
  MayFail = TRUE
INVARIANT ShmReaders
INVARIANT NoLeak
PROPERTY ReaderJoins
CHECK_DEADLOCK FALSE
