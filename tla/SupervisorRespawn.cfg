SPECIFICATION Spec
CONSTANTS
    Keys = {"a", "b"}
    StartOrder <- PairOrder
    RestartType <- PairTypes
    Strategy = "OneForAll"
    MaxRestarts = 1
    EndReasons = {"Failure", "ParentRequest"}
    Calls = {"stop", "delete", "spawn"}
    Stubborn = {"b"}
    MaxTokens = 4
INVARIANTS
    LedgerHoldsTheLiving
    EachEndToldOnce
    EveryDebtIsPaid
CHECK_DEADLOCK FALSE
