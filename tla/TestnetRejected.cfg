\* The venue may reject; nothing is ambiguous.
SPECIFICATION Spec
CONSTANTS
    EntryIds = {e1}
    RevisionIds = {r1}
    CloseIds = {c1}
    MaxQuantity = 1
    Orchestrators = {o1}
    Resubmission = FALSE
    MaxSubmissions = 1
    NONE = NONE
    Fills = {"full"}
    Faults = {"rejected"}
PROPERTIES RejectionEndsTheEntry
CHECK_DEADLOCK FALSE
