\* One process: every operation ends, also when orders fill after their answer.
SPECIFICATION FairSpec
CONSTANTS
    EntryIds = {e1}
    RevisionIds = {r1}
    CloseIds = {c1}
    MaxQuantity = 2
    Orchestrators = {o1}
    Resubmission = FALSE
    MaxSubmissions = 1
    NONE = NONE
    Fills = {"full", "working"}
    Faults = {"ambiguous", "rejected", "unavailable", "abandoned"}
PROPERTIES OperationsEnd
CHECK_DEADLOCK FALSE
