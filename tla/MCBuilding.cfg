CONSTANTS
    Elements <- MCElements
    MaxTokens = 6
    MaxDepth = 3
    Unprefixed = Unprefixed
SPECIFICATION Spec
INVARIANTS
    BuiltAsDescribed
    ReducedForGood
    RedundantIdsRefused
    StacksInStep
    TextIsPassedOn
CHECK_DEADLOCK FALSE
