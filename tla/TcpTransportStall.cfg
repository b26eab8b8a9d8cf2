SPECIFICATION FairSpec
CONSTANTS
  Base = 2
  HEADER_SIZE = 2
  MAX_PAYLOAD_SIZE = 2
  Senders = {t1}
  Payloads <- Two
  MaxSends = 1
  PipeSize = 3
PROPERTY ReliableDelivers
CHECK_DEADLOCK FALSE
