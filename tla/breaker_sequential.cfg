SPECIFICATION Spec
CONSTANTS
  Upstreams = {u1, u2}
  Goroutines = {g1}
  FailureThreshold = 2
  OpenDurationSeconds = 2
  HalfOpenRequests = 1
INVARIANTS TypeOK
PROPERTIES SequentialBreaker
