------------------------------ MODULE Whitespace ------------------------------
(***************************************************************************)
(* How delb reduces whitespace among siblings (_delb/nodes.py).            *)
(*                                                                         *)
(* A text's content is a sequence of words and blanks.  A node is a        *)
(* record: a text with its content, a comment, or a tag with its           *)
(* attributes and its child nodes.                                         *)
(***************************************************************************)
EXTENDS Naturals, Sequences, SequencesExt

Blank == "b"   \* a space character
Newline == "n" \* a blank, too
Blanks == {Blank, Newline}
Word  == "w"   \* any other character

TextNode(content) == [kind |-> "text", content |-> content]
IsText(node) == node.kind = "text"

-----------------------------------------------------------------------------

\* _crunch_whitespace: each run of blanks becomes a space
Crunched(content) ==
    FoldLeft(LAMBDA result, c :
                IF c \notin Blanks THEN Append(result, c)
                ELSE IF result # <<>> /\ Last(result) = Blank THEN result
                ELSE Append(result, Blank),
             <<>>, content)

\* str.strip on crunched content
Stripped(content) ==
    LET words == {i \in DOMAIN content : content[i] = Word} IN
    IF words = {} THEN <<>>
    ELSE SubSeq(content, Min(words), Max(words))

KeepsTrailingBlank(isFirst, isLast, hasWords) ==
    \/ ~isFirst /\ ~isLast
    \/ isFirst /\ ~isLast /\ hasWords

Reduced(content, isFirst, isLast) ==
    LET collapsed == Crunched(content)
        stripped  == Stripped(collapsed)
        hasWords  == stripped # <<>>
        leading   == ~isFirst /\ hasWords /\ collapsed[1] = Blank
        trailing  == /\ collapsed # <<>> /\ Last(collapsed) = Blank
                     /\ KeepsTrailingBlank(isFirst, isLast, hasWords)
        onlyChild == isFirst /\ isLast /\ ~hasWords
    IN  (IF leading THEN <<Blank>> ELSE <<>>) \o stripped
        \o (IF trailing \/ onlyChild THEN <<Blank>> ELSE <<>>)

\* mutant: texts stay when nothing is left of them
WithEmptyTexts(nodes) == nodes

WithoutEmptyTexts(nodes) == SelectSeq(nodes, LAMBDA n : ~IsText(n) \/ n.content # <<>>)

\* Texts are reduced by their place among the siblings as they were before those
\* without content are removed.
ReducedSiblings(nodes) ==
    LET reduced == [i \in DOMAIN nodes |->
                       IF IsText(nodes[i])
                       THEN TextNode(Reduced(nodes[i].content, i = 1, i = Len(nodes)))
                       ELSE nodes[i]]
    IN  WithoutEmptyTexts(reduced)

\* TagNode.merge_text_nodes
MergedTexts(nodes) ==
    LET merged == FoldLeft(LAMBDA result, n :
                       IF IsText(n) /\ result # <<>> /\ IsText(Last(result))
                       THEN Append(Front(result), TextNode(Last(result).content \o n.content))
                       ELSE Append(result, n),
                    <<>>, nodes)
    IN  SelectSeq(merged, LAMBDA n : ~IsText(n) \/ n.content # <<>>)

-----------------------------------------------------------------------------
(* What a tag's attributes ask for *)

Has(attributes, name) == name \in DOMAIN attributes
XmlSpace == <<"xml", "space">>

\* TagNode._get_normalize_space_directive
Directive(node, default) ==
    IF Has(node.attributes, XmlSpace) /\ node.attributes[XmlSpace] \in {"default", "preserve"}
    THEN node.attributes[XmlSpace] ELSE default
=============================================================================
