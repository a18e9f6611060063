SPECIFICATION Spec
CONSTANTS
    GroupSize = 2
    Sizes <- MCSizes
    MaxRetries = 1
INVARIANTS PanelsInv GroupLimit ResultsAreOwn
PROPERTIES BatchEnds
CHECK_DEADLOCK FALSE
