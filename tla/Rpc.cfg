SPECIFICATION FairSpec
CONSTANTS
  Callers = {c1, c2}
  Services = {s1, s2}
  Remote = {s1, s2}
  MaxCalls = 2
  Lasting = {s2}
  Lossy = {s2}
  Patient = {c2}
INVARIANTS OwnReply PendingExact
PROPERTY Answered
CHECK_DEADLOCK FALSE
