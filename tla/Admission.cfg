\* A tick is the age limit of a proof; a reconciliation counts for the tick it was made in.
SPECIFICATION Spec
CONSTANTS
    QuantityScale = 5
    Bps = 1000
    RateScale = 1000
    Policy <- MCPolicy
    Contract <- MCContract
    EntryIds = {e1}
    RevisionIds = {r1}
    CloseIds = {c1}
    MaxQuantity = 150
    OtherQuantities = {24}
    NONE = NONE
    Observed <- MCObserved
    Proposals <- MCProposals
    Days <- MCDays
    ShownHoldings <- MCHoldings
    NextProtections <- MCProtections
    ReductionChoices = {0, 500}
    CompileAge = 1
    ProofAge = 1
    MarketAge = 0
    ReconciliationAge = 0
    PreflightAge = 1
    PermitLife = 2
    Tolerance = 0
    MaxTime = 3
    MaxTransitions = 3
INVARIANTS EntryRestsOnFreshFacts ManagementSeesItsRecord LossIsBudgeted RevisionKeepsProtection
CHECK_DEADLOCK FALSE
