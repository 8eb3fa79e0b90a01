SPECIFICATION Spec
CONSTANTS
  MINRSTCOUNT = 3
  MINSUSPENDCOUNT = 12
  TIMEOUT = 24
  MaxRun = 20
  MaxBits = 6
  MaxIdle = 30
INVARIANTS Inv LossNoticed
PROPERTIES ResetIsLong UncutResetReported
