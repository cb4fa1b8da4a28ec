CONSTANTS
  Capacity = 3
  BlockSizes <- MCBlockSizes
  ReadSizes <- MCReadSizes
  MaxFrames = 8
  MaxUnderrun = 3
SPECIFICATION Spec
INVARIANTS RaceFree DeliversInOrder
PROPERTY ImplementsFifo
