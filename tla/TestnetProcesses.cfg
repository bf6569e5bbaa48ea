\* Two processes, every fault; no entry fills after its answer.
SPECIFICATION Spec
CONSTANTS
    EntryIds = {e1}
    RevisionIds = {r1}
    CloseIds = {c1}
    MaxQuantity = 2
    Orchestrators = {o1, o2}
    Resubmission = FALSE
    MaxSubmissions = 1
    NONE = NONE
    Fills = {"full", "stalled"}
    Faults = {"ambiguous", "rejected", "unavailable", "abandoned"}
SYMMETRY Processes
INVARIANTS ExposureIsOwned OwnedPositionIsCovered TargetNeedsStop
CHECK_DEADLOCK FALSE
