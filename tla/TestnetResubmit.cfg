\* A plan may be handed in again while its outcome is open.
SPECIFICATION Spec
CONSTANTS
    EntryIds = {e1}
    RevisionIds = {r1}
    CloseIds = {c1}
    MaxQuantity = 1
    Orchestrators = {o1}
    Resubmission = TRUE
    MaxSubmissions = 2
    NONE = NONE
    Fills = {"full"}
    Faults = {"ambiguous"}
INVARIANTS SubmittedOnce
CHECK_DEADLOCK FALSE
