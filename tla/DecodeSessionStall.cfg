CONSTANTS
  Sessions <- MCOutputClocked
  Capacity = 2
  PerChunk = 1
  Bootstrap = 1
  MaxRequests = 1
SPECIFICATION Spec
PROPERTIES WriterComesBack
CHECK_DEADLOCK FALSE
