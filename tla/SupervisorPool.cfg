SPECIFICATION Spec
CONSTANTS
    Keys = {"a", "b"}
    StartOrder <- PairOrder
    RestartType <- PairTypes
    Strategy = "SimpleOneForOne"
    MaxRestarts = 1
    EndReasons = {"Failure", "ParentRequest"}
    Calls = {"stop", "terminate", "restart", "delete", "spawn"}
    Stubborn = {}
    MaxTokens = 4
INVARIANTS
    TypeOK
    EachEndToldOnce
CHECK_DEADLOCK FALSE
