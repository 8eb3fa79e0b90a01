SPECIFICATION Spec
CONSTANTS
  Buffers <- MCBuffers
  Wanted <- MCWanted
PROPERTIES SearchReturns
CHECK_DEADLOCK FALSE
