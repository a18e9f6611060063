SPECIFICATION Spec
CONSTANTS
    Templates <- MCTemplates
    AddKinds = {"if", "iter"}
    MaxBranches = 2
    OpsOn <- MCOpsOn
    MaxId = 14
INVARIANTS CanvasInv OrphansHaveCause CyclesHaveCause HistoryIsCanvas
CHECK_DEADLOCK FALSE
