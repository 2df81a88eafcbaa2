CONSTANTS
    Clients = {c1, c2}
    FilterSets <- MCFilterSets
    TagNodes = {r, a, b}
    Ids = {x, y}
    NIL = NIL
SPECIFICATION SpecIds
INVARIANTS
    RestoredAtLast
PROPERTIES
    OnlyJoiningDuplicates
