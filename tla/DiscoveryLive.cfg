SPECIFICATION FairSpec
CONSTANTS
  p1 = p1
  p2 = p2
  Participants = {p1, p2}
  Endpoints <- OneTopic
  MaxEndpoints = 1
  MaxInbox = 1
PROPERTY Discovered
PROPERTY HaltDetected
CHECK_DEADLOCK FALSE
