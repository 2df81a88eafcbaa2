CONSTANTS
    Steps <- MCSteps
    Evaluations <- MCEvaluations
    Slips <- MCSlips
    MaxSteps = 3
    MaxLength = 11
    MaxDamaged = 7
SPECIFICATION Spec
INVARIANTS
    WrittenIsRead
    GroupingKeepsTokens
    NoWordIsIgnored
