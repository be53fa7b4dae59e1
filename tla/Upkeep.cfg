SPECIFICATION UpkeepSpec
CONSTANTS
  Slots = {p1}
  Newest = 3
  Automatic = TRUE
  MaxEvents = 2
  Users = {u1, u2}
  Own = {o1}
  MaxLines = 5
  MaxEdits = 4
  MaxLost = 1
PROPERTIES SaidSparingly BlockIsSetups LatestIsKnown
CHECK_DEADLOCK FALSE
