SPECIFICATION FairSpec
CONSTANTS
  MAXPKT = 32
  EP <- MCEP
  DescSize <- MCDescSize
  MAXNAKS = 3
  Requests <- MCRequests
  InSizes = {96}
  Responses = {"ACK"}
  MaxOut = 20
  Calls <- Everything
  MaxCalls = 3
  MaxFrame = 2
  ResetSeenAs = {}
  MaxFaults = 0
  MaxRestarts = 0
  Wild = FALSE
INVARIANTS TypeOK Lockstep DeviceRuns ToggleSync
PROPERTIES ReadWhole ReadFits CallsReturn HalfDuplex
