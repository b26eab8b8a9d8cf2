CONSTANTS
  DefaultCount = 5  MaxCount = 11  ULongMax = 67108863
  Argvs <- SomeArgvs
  Window = 2  Slots = 3  MaxForeign = 1  Latencies = {0, 1}
SPECIFICATION FairSpec
INVARIANTS PayloadFits NoOverrun ReportFinal
PROPERTIES Ends KeepsGoing
CHECK_DEADLOCK FALSE
