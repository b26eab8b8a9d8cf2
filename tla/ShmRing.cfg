SPECIFICATION FairSpec
CONSTANTS
  Writers = {w1}
  Readers = {r1}
  slot_count = 2
  slot_size = 2
  Lens = {1, 2, 3}
  MaxWrites = 5
INVARIANT NoTornRead
INVARIANT RingInv
PROPERTY DropJustified
PROPERTY ImplementsBroadcast
PROPERTY CatchesUp
CHECK_DEADLOCK FALSE
