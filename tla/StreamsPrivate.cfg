\* One start, three changes of the account, two faults, a buffer of two.
SPECIFICATION FairReplaySpec
CONSTANTS
    MaxBuffered = 2
    MaxStarts = 1
    MaxChanges = 3
    MaxFaults = 2
    NONE = NONE
    EXPIRED = EXPIRED
    REFUSED = REFUSED
INVARIANTS RunningIsReconciled KeyIsAccounted SessionKeepsKey StopLeavesNothing
    ReplayMirrorsAccount
PROPERTIES LaneRecovers StreamLossIsNoticed
CHECK_DEADLOCK FALSE
