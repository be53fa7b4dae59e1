\* Two processes and two organizations in one file, with one failure.
SPECIFICATION FairSpec
CONSTANTS
  Procs = {p1, p2}
  Orgs = {acme, beta}
  MaxTokens = 2
  MaxFaults = 1
VIEW Relevant
INVARIANTS NoDeadToken SurvivesPowerLoss
PROPERTIES OthersUntouched OperationsEnd
