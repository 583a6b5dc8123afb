SPECIFICATION RecordsSpec
CONSTANTS
  Entries = {e1, e2}
  UsageCap = 1
  UsageBatch = 2
  LogCap = 1
  LogBatch = 2
  PageSize = 1
INVARIANTS DrainedUsageKept
