SPECIFICATION Spec
CONSTANTS
  MAXPKT = 32
  EP <- MCEP
  DescSize <- MCDescSize
  MAXNAKS = 1
  Requests <- MCRequests
  InSizes = {0, 40}
  Responses = {"ACK", "NAK", "STALL"}
  MaxOut = 2
  HostPackets <- MCHostPackets
  Frequent <- MCFrequent
  MaxSent = 10
PROPERTIES PidChecked
CHECK_DEADLOCK FALSE
