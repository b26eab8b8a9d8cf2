SPECIFICATION FairSpec
CONSTANTS
  Base = 2
  HEADER_SIZE = 2
  MAX_PAYLOAD_SIZE = 2
  Senders = {t1, t2}
  Payloads <- Edges
  MaxSends = 2
  PipeSize = 3
INVARIANT Conserved
PROPERTY QuietAfterStop
PROPERTY StopReturns
PROPERTY Arrives
CHECK_DEADLOCK FALSE
