\* One routine of each kind, a task and two calls of Stop.
SPECIFICATION FairSpec
CONSTANTS
  Everys = {e1}
  Loops = {l1}
  Workers = {w1}
  Tasks = {t1}
  Recovered = {e1}
  Stoppers = {s1, s2}
INVARIANTS StopIsHarmless
PROPERTIES AtMostOneLateRun ImplementsContract StopReturns
\* A stopped group, and a process that crashed, do nothing more.
CHECK_DEADLOCK FALSE
