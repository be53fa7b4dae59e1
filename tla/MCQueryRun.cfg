SPECIFICATION LiveSpec
CONSTANTS
  MaxPageSize = 2
  HostRows = {1, 3}
  PageBytes = 3
  BatchRows = 2
  BatchBytes = 3
  RowSizes = {1, 3}
  MaxResult = 4
  Limits = {0, 1, 3}
  MaxStatus = 1
INVARIANTS AnsweredInFull ToldAsAnswered
PROPERTIES RunEnds
CHECK_DEADLOCK FALSE
