SPECIFICATION FairSpec
CONSTANTS
  Writers = {w1}
  Readers = {r1}
  slot_count = 2
  slot_size = 1
  Lens = {1}
  MaxWrites = 2
PROPERTY DropOnlyOverwritten
CHECK_DEADLOCK FALSE
