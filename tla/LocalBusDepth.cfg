SPECIFICATION Spec
CONSTANTS
  s1 = s1
  s2 = s2
  t1 = t1
  t2 = t2
  n1 = n1
  Subs = {s1, s2}
  TypeOf <- OneType
  History <- LastAndAll
  Depth <- LastZero
  Publishing = {}
  Threads = {t1}
  PubType <- PublishA
  Network = {}
  MaxMsgs = 2
INVARIANT DepthIsLimit
CHECK_DEADLOCK FALSE
