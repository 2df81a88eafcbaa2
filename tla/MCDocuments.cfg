CONSTANTS
    Plugins = {p1, p2}
    Placements <- MCPlacements
    Classes = {A, B}
    Testing = {A, B}
    Sources <- MCSources
    NIL = NIL
    UNSET = UNSET
    tag1 = tag1
    A = A
    B = B
    p1 = p1
    p2 = p2
SPECIFICATION Spec
INVARIANTS
    LoadersKeepTheirPlaces
    MostSpecificClassIsChosen
    SourceUrlIsTheOrigin
    FailuresHaveReasons
SYMMETRY
    MCSymmetry
