\* Three updates on two price levels, two faults, any number of restarts.
SPECIFICATION FairReplaySpec
CONSTANTS
    Prices = {p1, p2}
    NONE = NONE
    MaxUpdates = 3
    MaxFaults = 2
INVARIANTS BookIsTrue ReplayMirrorsBook ReplayIsTrue
PROPERTIES BookNeverGoesBack LaneRecovers
CHECK_DEADLOCK FALSE
