SPECIFICATION RaceSpec
CONSTANTS
  Upstreams = {u1}
  Goroutines = {g1, g2}
  FailureThreshold = 1
  OpenDurationSeconds = 1
  HalfOpenRequests = 1
INVARIANTS ProbeSlotExclusive
CHECK_DEADLOCK FALSE
