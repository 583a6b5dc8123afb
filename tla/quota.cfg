SPECIFICATION CheckSpec
CONSTANTS
  FailureThreshold = 1
  FailureWindow = 1
  OpenTimeout = 1
  HalfOpenRequests = 1
  Request = {r1}
  None = None
  Admin = admin
  Order <- OneKey
  Tier <- PlanOnly
  Binding <- AnyKey
  RetryAfter = {0}
  CoolingDuration = 1
  AuthCooling = 1
  QuotaRecovery = "poll"
  Strategy = "sticky"
  BreakerFactory = FALSE
  SameKeyRetries = 1
  ErrorType = {"auth", "quota_exceeded"}
  Balance <- Plain
  k1 = k1
  k2 = k2
PROPERTIES Spec TwoReads
