SPECIFICATION Spec
CONSTANTS
  s1 = s1
  s2 = s2
  t1 = t1
  t2 = t2
  n1 = n1
  Subs = {s1, s2}
  TypeOf <- TwoTypes
  History <- LastAndAll
  Depth <- LastOne
  Publishing = {}
  Threads = {t1}
  PubType <- PublishAB
  Network = {n1}
  MaxMsgs = 1
INVARIANT TypeSafe
CHECK_DEADLOCK FALSE
