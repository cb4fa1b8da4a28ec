CONSTANTS
  Sessions <- MCSessions
  Capacity = 2
  PerChunk = 1
  Bootstrap = 1
  MaxRequests = 1
SPECIFICATION Spec
INVARIANTS TriggerFollowsWriter
PROPERTIES DecoderIsServed QuitEnds SelfClockedComesBack
CHECK_DEADLOCK FALSE
