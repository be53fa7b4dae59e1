SPECIFICATION Spec
CONSTANTS
  Streams = {s1, s2}
  Observed = s1
  Buffer = 1
  MaxChanges = 2
  Paths = {p1, p2}
  PerMinute = 2
  Minute = 2
  Horizon = 4
  MaxReports = 3
  Values = {v1, v2}
  Unset = v1
  LastPage = 3
  MaxCalls = 3
INVARIANTS ReportsKept ShownAsRan
PROPERTIES StreamsAreServed
CHECK_DEADLOCK FALSE
