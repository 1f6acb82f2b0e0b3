SPECIFICATION FairSpec
CONSTANTS
  Upstreams = {1}
  Goroutines = {g1, g2}
  FailureThreshold = 2
  OpenDurationSeconds = 1
  HalfOpenRequests = 1
  Algorithm = "round_robin"
  Weight <- Even
  CounterPeriod = 1
  MaxRetries = 2
  Kinds = {"unsafe"}
  MaxPanics = 1
INVARIANTS ProbeBudget NoMissedTrip ConnsMatchHolders NoWedge
PROPERTIES Recovers
