SPECIFICATION FairSpec
CONSTANTS
  Call = {c1, c2, c3, c4}
  Limit = 2
  Env = {"redis_error", "api_crash"}
INVARIANTS LimiterTypeOK AdmitsAtMostLimit
PROPERTY WindowEnds
