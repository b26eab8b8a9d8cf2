SPECIFICATION FairSpec
CONSTANTS
  s1 = s1
  s2 = s2
  t1 = t1
  t2 = t2
  n1 = n1
  Subs = {s1, s2}
  TypeOf <- OneType
  History <- LastAndAll
  Depth <- LastOne
  Publishing = {s1}
  Threads = {t1}
  PubType <- PublishA
  Network = {n1}
  MaxMsgs = 2
INVARIANT KeepLast
INVARIANT PublisherOrder
INVARIANT NoUseAfterDestroy
PROPERTY DestructorReturns
PROPERTY Handled
CHECK_DEADLOCK FALSE
