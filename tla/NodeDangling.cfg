SPECIFICATION Spec
CONSTANTS
  Programs <- SomePrograms
  Node_name <- SomeName
  Depth = 1
INVARIANT NoDangling
CHECK_DEADLOCK FALSE
