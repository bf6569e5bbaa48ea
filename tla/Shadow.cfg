\* Two intents; an event outlives the review interval, but not the cooldown.
\* Captures: so small a limit that a journal is rotated twice.
SPECIFICATION MCSpec
CONSTANTS
    IntentIds = {i1, i2}
    CandidateCooldown = 3
    PositionReview = 1
    EventLifetime = 2
    MaximumMarketAge = 1
    MaximumPacketBindings = 2
    NONE = NONE
    Kinds <- MCKinds
    LineBytes <- MCLineBytes
    MaxBytes = 6
    MinimumAggregateTrades = 1
    MinimumMarkPrices = 1
    MaxTraffic = 4
    MaxFaults = 1
INVARIANTS EventUsedOnce CandidateMeansFlat JournalKeepsTheLatest AcceptedIsFaithful SummariesAreOwn
PROPERTIES ExposureUsesEvent ReviewsKeepCadence HealthyMarketIsReviewed
