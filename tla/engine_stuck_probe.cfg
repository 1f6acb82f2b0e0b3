SPECIFICATION FairSpec
CONSTANTS
  Upstreams = {1, 2}
  Goroutines = {g1}
  FailureThreshold = 1
  OpenDurationSeconds = 1
  HalfOpenRequests = 1
  Algorithm = "round_robin"
  Weight <- Even
  CounterPeriod = 2
  MaxRetries = 2
  Kinds = {"unsafe"}
  MaxPanics = 0
PROPERTIES Recovers
