CONSTANTS
    N = 6
    Removals <- MCRemovals
    NIL = NIL
SPECIFICATION Spec
INVARIANTS
    YieldsTheAxis
    OrderSurvivesRemovals
    ResultsMayBeRemoved
PROPERTIES
    NextReturns
CHECK_DEADLOCK FALSE
