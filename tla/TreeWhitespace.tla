--------------------------- MODULE TreeWhitespace ---------------------------
(***************************************************************************)
(* Document.reduce_whitespace, on a tree that exists (_delb/nodes.py).     *)
(***************************************************************************)
EXTENDS Whitespace

\* TagNode._reduce_whitespace_of_descendants
RECURSIVE ReducedTree(_, _)
ReducedTree(node, default) ==
    IF node.kind # "tag" THEN node
    ELSE LET directive == Directive(node, default)
             merged    == MergedTexts(node.kids)
             kids      == IF directive = "default" THEN ReducedSiblings(merged) ELSE merged
         IN  [node EXCEPT !.kids = [i \in DOMAIN kids |-> ReducedTree(kids[i], directive)]]
=============================================================================
