SPECIFICATION Spec
CONSTANTS
  W = 6
  MaxAttempts = 10
  Texts <- SampleTexts
  Names <- SampleNames
  Terminals = {0, 16, 24}
  PathsDrawn <- SamplePaths
  Codes <- TheCodes
  Internal = "internal_server_error"
  Plain = "plain"
  PublicOf <- ThePublicOf
  ScopeOf <- TheScopeOf
  PublicSteps = {"start_sidecar"}
  Serves <- TheServes
  Invalid = "invalid_request"
  Refused = "validation_failed"
  Denied = "denied"
  Down = "sidecar_unavailable"
  Gone = "not_found"
  Unreachable = "unreachable"
  Interrupted = "interrupted"
  Late = "timed_out"
  MostWrong = 3
  Finer = "finer"
  Foreign = "lib_failed"
  Declarations <- TheDeclarations
  FlagsTyped <- TheFlags
  MaxFlags = 3
  Defs <- TheDefs
  Mountable <- TheMountable
  GroupNames = {"models", "query"}
  WellNamed = {"models.list", "models.share", "query.run", "query.watch", "query.poll"}
  HostErrors = {"denied", "lib_failed"}
  ServedCodes = {"invalid_request", "internal_server_error", "not_found", "denied"}
  StatusOf <- DocStatus
  MaxOps = 4
  Graphs <- TheGraphs
  Documents <- TheDocuments
INVARIANTS PrettyIsRead CallIsTold InputIsRead DiscoveryAgrees StandsAlone
PROPERTIES DelayAsDocumented
CHECK_DEADLOCK FALSE
