SPECIFICATION Spec
CONSTANTS
  Kept = 2
  OldLines = {5}
  MaxEntries = 2
  MaxOthers = 1
  MaxServers = 2
  Orgs = {org1, org2}
  NoOrg = NoOrg
  Depth = 3
  ClaudeCode = ClaudeCode
  Codex = Codex
  ByHand = {Cursor}
  Other = Other
  Folders = {Skills}
  ReadBy <- CopiesReadBy
  Releases = 2
  MaxNamed = 1
  Shells = {sh1, sh2}
  HintAfter = 3
  HintWithin = 2
  MaxTime = 3
INVARIANTS RunsAsEntered LeavesItsEntriesOnly SignInIsTrue SkillsAreSaid
CHECK_DEADLOCK FALSE
