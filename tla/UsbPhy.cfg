SPECIFICATION Spec
CONSTANTS
  MAXPKT = 32
  MINRSTCOUNT = 6
  MINSUSPENDCOUNT = 12
  TIMEOUT = 20
  MaxRun = 20
  MaxBits = 300
  MaxIdle = 30
  RAWBITS = 96
  Traffic <- MCTraffic
  MaxStrikes = 1
INVARIANTS NeverReadsAhead Delivered DataGenuine CorruptEopRefused WithinBuffers
