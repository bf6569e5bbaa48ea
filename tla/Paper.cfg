SPECIFICATION MCSpec
CONSTANTS
    QuantityScale = 100
    Bps = 1000
    i1 = i1
    i2 = i2
    i3 = i3
    i4 = i4
    NONE = NONE
    IntentIds <- MCIds
    Intents <- AllIntents
    Prices <- MCPrices
    PolicyChoices <- MCPolicies
    InitialPolicy <- DefaultPolicy
    InitialBalance = 10000
    InitialMark = 100
    Modes = {"shadow", "disabled"}
    MaxDay = 1
    MaxCrashes = 1
INVARIANTS MoneyConserved ReceiptMatchesEffect ProtectionBracketsMark StopHasReceipt
PROPERTIES ReceiptStable AmendmentCommitsWhole PlannedLossHolds DayRatchet LossBoundaryEnforced
