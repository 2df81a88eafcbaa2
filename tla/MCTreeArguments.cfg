CONSTANTS
    d = d
    e = e
    r = r
    q = q
    a = a
    t = t
    c = c
    Docs = {d}
    Tags = {r, a}
    Texts = {}
    Misc = {c, t}
    Root <- MCRoot
    MaxArgs = 2
    NIL = NIL
SPECIFICATION Spec
PROPERTIES
    FailureRemovesNothing
    OnlyRetainedNodesMove
    DocumentOrderKept
    ImplementsForest
