SPECIFICATION CheckFairSpec
CONSTANTS
  FailureThreshold = 1
  FailureWindow = 1
  OpenTimeout = 1
  HalfOpenRequests = 1
  Request = {r1}
  None = None
  Admin = admin
  Order <- OneKey
  Tier <- ApiOnly
  Binding <- AnyKey
  RetryAfter = {0}
  CoolingDuration = 1
  AuthCooling = 1
  QuotaRecovery = "probe"
  Strategy = "sticky"
  BreakerFactory = FALSE
  SameKeyRetries = 0
  ErrorType = {"quota_exceeded"}
  Balance <- Plain
  k1 = k1
  k2 = k2
VIEW NoHistory
PROPERTIES QuotaReturns
