SPECIFICATION FairSpec
CONSTANTS
  Argvs <- SomeArgvs
  Lines <- SomeLines
  MaxLines = 4
  MaxU16 = 65535
  MaxU32 = 65535
  IntMax = 127
  LongMax = 32767
  MaxMessages = 4
INVARIANTS ReadsAsReference ArgsAsUsage PrintsFirst
PROPERTY Returns
CHECK_DEADLOCK FALSE
