SPECIFICATION Spec
CONSTANTS
    Keys = {"a", "b", "c"}
    StartOrder <- TrioOrder
    RestartType <- TrioTypes
    Strategy = "RestForOne"
    MaxRestarts = 2
    EndReasons = {"Failure"}
    Calls = {}
    Stubborn = {"b", "c"}
    MaxTokens = 7
INVARIANTS
    EachEndToldOnce
PROPERTIES
    GroupEnds
    EndsAreTold
CHECK_DEADLOCK FALSE
