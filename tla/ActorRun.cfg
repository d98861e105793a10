SPECIFICATION FairSpec
CONSTANTS
  MaxGeneration = 3
  MaxReports = 2
INVARIANTS TypeOK KillIsFinal
PROPERTIES NoHookAfterKill RequestIsAsked EveryWaiterResolves KeepsItsPromise
CHECK_DEADLOCK FALSE
