\* An order may execute in part and expire; nothing is lost or rejected.
SPECIFICATION Spec
CONSTANTS
    EntryIds = {e1}
    RevisionIds = {r1}
    CloseIds = {c1}
    MaxQuantity = 2
    Orchestrators = {o1}
    Resubmission = FALSE
    MaxSubmissions = 1
    NONE = NONE
    Fills = {"full", "partial"}
    Faults = {}
INVARIANTS FillsAreProtected
CHECK_DEADLOCK FALSE
