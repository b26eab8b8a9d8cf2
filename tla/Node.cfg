SPECIFICATION FairSpec
CONSTANTS
  Programs <- SomePrograms
  Node_name <- SomeName
  Depth = 1
INVARIANTS PlaneReady NoStrayCallback
PROPERTIES DestructorReturns RepliesRouted
CHECK_DEADLOCK FALSE
