\* A server and a CLI run sharing the folder, with an export of either, and a
\* wall clock that may jump once, either way.
SPECIFICATION FairSpec
CONSTANTS
  Servers = {s1}
  Clis = {c1}
  Exports = {e1}
  TTL = 2
  Timeout = 1
  MaxTime = 4
  MaxJumps = 1
INVARIANTS LostOnlySo
PROPERTIES StaleFilesGo

CHECK_DEADLOCK FALSE
