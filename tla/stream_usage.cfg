SPECIFICATION StreamSpec
CONSTANTS
  Requests <- TheRequest
  Others <- TheOthers
  Tracings <- AloneOrShared
  Routes <- Ways
  Chunks = 2
  MaxStreams = 1
INVARIANTS UsageBilled
