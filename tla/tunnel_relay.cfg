SPECIFICATION FairSpec
CONSTANTS
  Writers = {"server", "router", "routerGzip"}
  MaxBytes = 2
INVARIANTS ResultsFit ClosedOnReturn UpstreamStream
PROPERTIES TasksEnd
CHECK_DEADLOCK FALSE
