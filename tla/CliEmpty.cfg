SPECIFICATION Spec
CONSTANTS
  Argvs <- SomeArgvs
  Lines <- SomeLines
  MaxLines = 4
  MaxU16 = 65535
  MaxU32 = 65535
  IntMax = 127
  LongMax = 32767
  MaxMessages = 4
INVARIANT InvalidRejected
CHECK_DEADLOCK FALSE
