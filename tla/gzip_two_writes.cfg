SPECIFICATION Spec
CONSTANTS
  Responses = {r1}
  Writers = {w1}
  None = none
  MinLength = 2
  MaxBytes = 3
INVARIANTS PassedThrough
CHECK_DEADLOCK FALSE
