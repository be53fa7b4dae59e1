SPECIFICATION SidecarsSpec
CONSTANTS
  Runs = {r1, r2}
  Versions = {"v1", "v2"}
  Need <- MCNeed
  Remote = {"canal"}
  MaxStarts = 3
  MaxKills = 1
INVARIANTS LeavesNothing
PROPERTIES AloneRunsWhole StartEnds
CHECK_DEADLOCK FALSE
