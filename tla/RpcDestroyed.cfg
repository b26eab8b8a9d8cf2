SPECIFICATION Spec
CONSTANTS
  Callers = {c1}
  Services = {s1}
  Remote = {s1}
  MaxCalls = 1
  Lasting = {}
  Lossy = {}
  Patient = {}
INVARIANT NoCallbackIntoDestroyed
CHECK_DEADLOCK FALSE
