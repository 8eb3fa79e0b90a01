SPECIFICATION FairSpec
CONSTANTS
  MAXPKT = 32
  EP <- MCEP
  DescSize <- MCDescSize
  MAXNAKS = 3
  Requests <- MCRequests
  InSizes = {32}
  Responses = {"NAK"}
  MaxOut = 20
  Calls <- IsoOut
  MaxCalls = 2
  MaxFrame = 1
  ResetSeenAs = {}
  MaxFaults = 0
  MaxRestarts = 0
  Wild = FALSE
PROPERTIES CallsReturn
