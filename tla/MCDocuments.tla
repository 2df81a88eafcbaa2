----------------------------- MODULE MCDocuments -----------------------------
(* Documents with two plugins, two derived classes and a few sources, for TLC *)
EXTENDS Documents

CONSTANTS tag1, A, B, p1, p2

Source(kind) == [kind |-> kind, node |-> NIL, found |-> TRUE, named |-> TRUE, wellformed |-> TRUE]

MCSources ==
    {[Source("tag") EXCEPT !.node = tag1], Source("path"), Source("url"),
     [Source("buffer") EXCEPT !.named = FALSE], [Source("url") EXCEPT !.found = FALSE]}

MCPlacements == {<<>>, <<"before", "text">>, <<"after", "text">>}

MCSymmetry == Permutations({p1, p2}) \cup Permutations({A, B})
=============================================================================
