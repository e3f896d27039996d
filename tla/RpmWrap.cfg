SPECIFICATION RpmSpec
CONSTANTS
  Wrap = 4
  Modulus = 12
  StaleMs = 2
  Latency = 1
  LateEvents = TRUE
  MaxTime = 18
INVARIANT PeriodExact
CHECK_DEADLOCK FALSE
