SPECIFICATION Spec
CONSTANTS
  Buffers <- MCBuffers
  Wanted <- MCWanted
INVARIANTS FindsFirst
PROPERTIES FoundIfThere
CHECK_DEADLOCK FALSE
