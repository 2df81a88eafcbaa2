CONSTANTS
    Mappings = {m1, m2}
    Attributes = {x, y, z}
    Namespaces = {"", "u"}
    LocalNames = {"k", "l"}
    NIL = NIL
SYMMETRY Interchangeable
SPECIFICATION Spec
INVARIANTS
    InOnePlace
PROPERTIES
    OnlyAssignmentMisnames
