CONSTANTS
    d = d
    e = e
    r = r
    q = q
    a = a
    t = t
    c = c
    Docs = {d, e}
    Tags = {r, q, a}
    Texts = {t}
    Misc = {c}
    Root <- MCRoots
    MaxArgs = 1
    NIL = NIL
SPECIFICATION Spec
INVARIANTS
    PointersAgree
    Grounded
    OneRoot
