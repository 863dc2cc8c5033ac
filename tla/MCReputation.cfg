CONSTANTS
  r1 = r1
  r2 = r2
  NONE = NONE
  Addrs = {r1, r2}
  U64_MAX = 1023
  MIN_INCLUSION_RATE_DENOMINATOR = 2
  THROTTLING_SLACK = 0
  BAN_SLACK = 1
  Whitelist = {}
  Blacklist = {}
  AdminEntries <- MCAdminEntries
  OverflowChecks = FALSE
  CursorFaults = TRUE
  Rank <- MCRank
  MaxCalls = 3
SPECIFICATION Spec
PROPERTIES
  BanIsTemporary
