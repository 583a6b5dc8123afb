SPECIFICATION FairSpec
CONSTANTS
  FailureThreshold = 3
  FailureWindow = 3
  OpenTimeout = 2
  HalfOpenRequests = 2
  Caller = {c1, c2, c3}
  Outcome = {"success", "server_error", "rate_limit"}
INVARIANTS
  ClosedBelowThreshold
  TrialsWithinSlots
PROPERTIES
  OpensAtThreshold
  TrialRate
  HalfOpenDecides
