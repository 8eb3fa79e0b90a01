SPECIFICATION Spec
CONSTANTS
  MAXPKT = 32
  EP <- MCEP
  DescSize <- MCDescSize
  MAXNAKS = 3
  Requests <- MCRequests
  InSizes = {64}
  Responses = {"ACK", "NAK", "STALL"}
  MaxOut = 20
  Calls <- Noisy
  MaxCalls = 4
  MaxFrame = 1
  ResetSeenAs = {"ERROR"}
  MaxFaults = 2
  MaxRestarts = 1
  Wild = TRUE
INVARIANTS InAgrees OutInOrder OutWithinOnePacket
PROPERTIES AddressSet OutExactlyOnce InInOrder
CHECK_DEADLOCK FALSE
