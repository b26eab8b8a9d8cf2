SPECIFICATION Spec
CONSTANTS
  Writers = {w1, w2}
  Readers = {r1}
  slot_count = 2
  slot_size = 2
  Lens = {2}
  MaxWrites = 3
INVARIANT NoTornRead
CHECK_DEADLOCK FALSE
