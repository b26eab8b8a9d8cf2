SPECIFICATION Spec
CONSTANTS
  p1 = p1
  p2 = p2
  Participants = {p1, p2}
  Endpoints <- BothReliabilities
  MaxEndpoints = 2
  MaxInbox = 1
INVARIANT RoutesAgree
CHECK_DEADLOCK FALSE
