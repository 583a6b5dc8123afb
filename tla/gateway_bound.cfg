SPECIFICATION GatewayFairSpec
CONSTANTS
  Routes <- OfferedRoutes
  MaxRetry = {0, 1}
  SameKeyRetries = 2
  Registry <- FourFaces
  AnyModel = "*"
  Configs <- FourConfigs
  KeySets <- SomeKeys
  Requests <- SomeRequests
CHECK_DEADLOCK FALSE
PROPERTIES
  BoundToKey
