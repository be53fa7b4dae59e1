\* Two servers, a call, a crash and a late answer, and what a stop comes to.
SPECIFICATION FairSpec
CONSTANTS
  Servers = {s1, s2}
  Calls = {c1}
  MaxCrashes = 1
  MaxSlow = 1
INVARIANTS ServingIsFound
PROPERTIES StopsOnlySo StopEnds
CHECK_DEADLOCK FALSE
