SPECIFICATION StreamFairSpec
CONSTANTS
  Requests <- TheRequest
  Others <- TheOthers
  Tracings <- AloneOrShared
  Routes <- Ways
  Chunks = 2
  MaxStreams = 1
INVARIANTS SlotsPaired CutsTold CountedOnce
PROPERTIES NoBlameForLeaving NoSwitchAfterBytes StreamEnds
