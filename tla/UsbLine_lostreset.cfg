SPECIFICATION Spec
CONSTANTS
  MINRSTCOUNT = 10
  MINSUSPENDCOUNT = 4
  TIMEOUT = 0
  MaxRun = 30
  MaxBits = 5
  MaxIdle = 20
PROPERTIES ResetDetected
