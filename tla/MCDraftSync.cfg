SPECIFICATION Spec
SYMMETRY IdSymmetry
CONSTANTS
    t1 = t1
    t2 = t2
    e1 = e1
    e2 = e2
    e3 = e3
    p1 = p1
    p2 = p2
    p3 = p3
    Old = Old
    Tabs <- MCTabs
    Edits <- MCEdits
    EditorOf <- MCEditorOf
    Ids <- MCIds
    Viewers = {t1}
    Runners = {t1}
    Wanderers = {t1}
    MaxLooks = 2
INVARIANTS HashInv ShownIsSaved
PROPERTIES SavedEditsStay
CHECK_DEADLOCK FALSE
