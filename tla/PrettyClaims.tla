----------------------------- MODULE PrettyClaims -----------------------------
(* What the documentation guarantees of formatted streams and the code doesn't *)
EXTENDS Pretty

\* "Furthermore it is guaranteed that a serialized stream from a document that was
\* normalized according to this set of rules will be parsed back to the identical tree
\* if these rules are applied again" (docs/api/serialization.rst).
NormalizedComesBack ==
    loaded # NIL /\ Wraps /\ tree = ReducedTree(tree, "default") => LoadedReduced = tree
=============================================================================
