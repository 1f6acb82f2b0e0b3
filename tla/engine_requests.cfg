SPECIFICATION Spec
CONSTANTS
  Upstreams = {1, 2}
  Goroutines = {g1}
  FailureThreshold = 2
  OpenDurationSeconds = 1
  HalfOpenRequests = 1
  Algorithm = "least_conn"
  Weight <- Even
  CounterPeriod = 1
  MaxRetries = 2
  Kinds = {"safe", "unsafe", "upgrade"}
  MaxPanics = 1
INVARIANTS TypeOK SentAtMost ConnsMatchHolders
PROPERTIES AnsweredOnce
