\* The company adapts a system skill that a planned step has pinned.
SPECIFICATION Spec
CONSTANTS
    Ids = {a, b}
    Texts = {shipped, adapted}
    System = System
    SystemText = shipped
    Editors = {e1, e2}
    Steps = {t1}
    InWorkspace = {t1}
    None = None
    MaxVersion = 3
INVARIANT FollowsItsPin
CHECK_DEADLOCK FALSE
