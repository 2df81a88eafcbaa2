------------------------------ MODULE MCPretty ------------------------------
(* Trees with up to three levels and various layouts, for TLC *)
EXTENDS PrettyClaims

Text(content) == TextNode(content)
SomeTexts == {Text(<<"w">>), Text(<<"b">>), Text(<<"w", "n">>), Text(<<"b", "w">>)}
Texts == SomeTexts \cup {Text(<<"n">>), Text(<<"w", "w", "n", "w">>),
                         Text(<<"w", "b", "w", "w", "b">>)}
CommentNode == [kind |-> "comment"]

Tag(space, kids) == [TagWith(space) EXCEPT !.kids = kids]
Tags(spaces, kids) == {Tag(s, k) : s \in spaces, k \in kids}

Inner == Tags({"none", "preserve"}, SeqOf(SomeTexts \cup {CommentNode}, 2))
Nesting == Tags({"none", "preserve"},
                {<<Tag(s, <<t>>)>> : s \in {"none", "default", "preserve"}, t \in SomeTexts})

MCTrees ==
    Tags({"none"}, SeqOf(Texts \cup {CommentNode}, 3))
    \cup Tags({"none"}, {<<i>> : i \in Inner \cup Nesting})
    \cup Tags({"none", "preserve"}, {<<i, t>> : i \in Inner \cup Nesting, t \in Texts})
    \cup Tags({"none"}, {<<t, i>> : i \in Inner, t \in Texts})
    \cup Tags({"none"}, {<<t, i, u>> : i \in Inner, t \in SomeTexts, u \in SomeTexts})

Option(width, indentation) == [width |-> width, indentation |-> indentation]
MCOptions == {NIL, Option(0, 0), Option(0, 2), Option(1, 0), Option(3, 1), Option(4, 4),
              Option(7, 2), Option(16, 2), Option(40, 4)}
=============================================================================
