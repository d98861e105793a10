SPECIFICATION FairSpec
CONSTANTS
  Raisers = {r1, r2}
  MaxGeneration = 4
INVARIANTS TypeOK NoLostWake NoLostNotify KillKept
PROPERTIES LaneClimbs RefusalIsFinal KillEndsTheRun
CHECK_DEADLOCK FALSE
