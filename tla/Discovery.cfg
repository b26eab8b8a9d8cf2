SPECIFICATION Spec
CONSTANTS
  p1 = p1
  p2 = p2
  Participants = {p1, p2}
  Endpoints <- OneTopic
  MaxEndpoints = 1
  MaxInbox = 2
INVARIANT NoMissedMatch
INVARIANT MatchesSound
PROPERTY MatchesStick
CHECK_DEADLOCK FALSE
