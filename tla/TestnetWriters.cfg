\* Two processes over one store: two entries, a revision and a close.
SPECIFICATION OrchSpec
CONSTANTS
    EntryIds = {e1, e2}
    RevisionIds = {r1}
    CloseIds = {c1}
    MaxQuantity = 2
    Orchestrators = {o1, o2}
    Resubmission = FALSE
    MaxSubmissions = 2
    NONE = NONE
INVARIANTS SubmittedOnce
PROPERTIES SingleWriter PointerFollowsRequest
CHECK_DEADLOCK FALSE
