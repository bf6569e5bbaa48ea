\* Two starts; the account stands still.
SPECIFICATION FairSpec
CONSTANTS
    MaxBuffered = 2
    MaxStarts = 2
    MaxChanges = 0
    MaxFaults = 2
    NONE = NONE
    EXPIRED = EXPIRED
    REFUSED = REFUSED
PROPERTIES LaneRecovers
CHECK_DEADLOCK FALSE
