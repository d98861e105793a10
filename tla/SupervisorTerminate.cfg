SPECIFICATION Spec
CONSTANTS
    Keys = {"a", "b"}
    StartOrder <- PairOrder
    RestartType <- PairTypes
    Strategy = "OneForAll"
    MaxRestarts = 1
    EndReasons = {"Failure"}
    Calls = {"terminate", "restart"}
    Stubborn = {}
    MaxTokens = 5
INVARIANTS
    EachEndToldOnce
    EveryDebtIsPaid
    
PROPERTIES
    ManualStopsAreFree
    ReleasedStaysDown
CHECK_DEADLOCK FALSE
