CONSTANTS
    Trees <- MCTrees
    Options <- MCOptions
    NIL = NIL
SPECIFICATION Spec
INVARIANTS
    LayoutIsReducedAway
    WrappingIsReducedAway
    LinesAreFilledAndFit
CHECK_DEADLOCK FALSE
