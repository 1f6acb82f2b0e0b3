SPECIFICATION MCSpec
CONSTANTS
  Responses = {r1, r2}
  Writers = {w1, w2}
  None = none
  MinLength = 2
  MaxBytes = 3
INVARIANTS Delivered PoolConserved AllOrNothing
PROPERTIES CompressorsReturn
CHECK_DEADLOCK FALSE
