SPECIFICATION Spec
CONSTANTS
    Keys = {"a", "b", "c"}
    StartOrder <- TrioOrder
    RestartType <- TrioTypes
    Strategy = "RestForOne"
    MaxRestarts = 2
    EndReasons = {"Failure"}
    Calls = {"restart"}
    Stubborn = {}
    MaxTokens = 6
INVARIANTS
    AdoptionWasCommitted
CHECK_DEADLOCK FALSE
