SPECIFICATION FairSpec
CONSTANT
    OutsideReasons = {"Kill"}
INVARIANTS
    TypeOK
    FateAndVerdictAreTrue
    KillComesFirst
    CancelBuildsNothing
    HandedOverClean
PROPERTIES
    OrderIsCarriedOut
    NoOrphan
    EndIsReported
    MarkIsReleased
    WaitReturns
CHECK_DEADLOCK FALSE
