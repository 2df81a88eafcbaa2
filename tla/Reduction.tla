------------------------------ MODULE Reduction ------------------------------
(***************************************************************************)
(* What a stream describes, and what has to become of it in Building.      *)
(***************************************************************************)
EXTENDS Building, TreeWhitespace

-----------------------------------------------------------------------------
(* The nodes that a stream describes, by the nesting of its tags *)

Content(token) == IF token.type = "text" THEN TextNode(<<token.content>>)
                  ELSE [kind |-> "comment"]

RECURSIVE Described(_, _)
Described(i, j) ==
    IF i > j THEN <<>>
    ELSE IF tokens[i].type = "start"
    THEN <<TagNode(tokens[i].element, MergedTexts(Described(i + 1, EndOf(i) - 1)))>>
         \o Described(EndOf(i) + 1, j)
    ELSE <<Content(tokens[i])>> \o Described(i + 1, j)

-----------------------------------------------------------------------------
(* Properties *)

Finished == closed /\ ~emitting

\* Whichever adapter is used and wherever chunks end, the nodes are those that the
\* stream describes, with each portion of text at its place, once.  When whitespace is
\* reduced while the nodes are built, it is like reducing it afterwards.
BuiltAsDescribed ==
    Finished =>
        LET nodes == Described(1, Len(tokens)) IN
        results = IF setting.reduce
                  THEN [k \in DOMAIN nodes |-> ReducedTree(nodes[k], "default")]
                  ELSE nodes

\* Reducing once more changes nothing.
ReducedForGood ==
    Finished /\ setting.reduce =>
        \A k \in DOMAIN results : ReducedTree(results[k], "default") = results[k]
=============================================================================
