SPECIFICATION Spec
CONSTANTS
  FailureThreshold = 1
  FailureWindow = 1
  OpenTimeout = 1
  HalfOpenRequests = 1
  Request = {r1, r2}
  None = None
  Order <- TwoKeys
  Tier <- ApiOnly
  Binding <- AnyKey
  RetryAfter = {0, 2}
  CoolingDuration = 1
  AuthCooling = 1
  QuotaRecovery = "poll"
  Strategy = "sticky"
  BreakerFactory = TRUE
  SameKeyRetries = 1
  ErrorType = {"server_error", "auth", "quota_exceeded"}
  k1 = k1
  k2 = k2
SYMMETRY Symmetry
VIEW Uncounted
PROPERTIES HighestPriority CoolDownHonoured
