SPECIFICATION FairSpec
CONSTANTS
  MAXPKT = 32
  EP <- MCEP
  DescSize <- MCDescSize
  MAXNAKS = 3
  Requests <- MCRequests
  InSizes = {32}
  Responses = {"ACK"}
  MaxOut = 20
  Calls <- Mixed
  MaxCalls = 5
  MaxFrame = 1
  ResetSeenAs = {"RESET"}
  MaxFaults = 0
  MaxRestarts = 0
  Wild = FALSE
INVARIANTS Lockstep DeviceAtRest
PROPERTIES ServiceSpec CallsReturn
