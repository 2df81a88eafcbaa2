CONSTANTS
    Trees <- MCTrees
    Options <- MCOptions
    NIL = NIL
SPECIFICATION Spec
INVARIANT
    NormalizedComesBack
CHECK_DEADLOCK FALSE
