SPECIFICATION OfferSpec
CONSTANTS
  Warehouse = {"pg", "bq", "mart"}
  Files = {"sales.duckdb", "stock.duckdb"}
  SourcesOf <- MCSourcesOf
  Accounts = {"alice", "team"}
  OrgHas = {"mart"}
  Taken <- MCTaken
  MaxNames = 2
  MaxOthers = 1
INVARIANTS EndIsTold
PROPERTIES DoesAsAgreed
CHECK_DEADLOCK FALSE
