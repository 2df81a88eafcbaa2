-------------------------------- MODULE Pretty --------------------------------
(***************************************************************************)
(* Serializations of a tree, with and without whitespace that is added to  *)
(* lay it out, and what is loaded from the result (_delb/serializer.py).   *)
(*                                                                         *)
(* A stream is a sequence of characters, as in module Whitespace, and of   *)
(* markup.  There's one element name, with one letter, elements have no    *)
(* attribute or xml:space, comments have one content.                      *)
(***************************************************************************)
EXTENDS TreeWhitespace, Integers, FiniteSetsExt

CONSTANTS Trees,    \* what is serialized
          Options,  \* the width and the size of an indentation; NIL is for no formatting
          NIL

VARIABLES
    tree,     \* a root node
    options,  \* the FormatOptions of the serialization
    stream,   \* what was written
    loaded    \* the root of the tree that was parsed from it

vars == <<tree, options, stream, loaded>>

-----------------------------------------------------------------------------
(* Nodes, denoted by their path from the root: positions among siblings *)

RECURSIVE Below(_, _)
Below(node, path) == IF path = <<>> THEN node ELSE Below(node.kids[Head(path)], Tail(path))

At(path) == Below(tree, path)
Root == <<>>

KidsOf(path) == [i \in DOMAIN At(path).kids |-> Append(path, i)]
IsTextAt(path) == IsText(At(path))
ContentOf(path) == At(path).content

IsFirst(path) == Last(path) = 1
IsLast(path)  == Last(path) = Len(At(Front(path)).kids)
Neighbour(path, distance) == Append(Front(path), Last(path) + distance)

RECURSIVE Behind(_)
Behind(path) ==
    IF path = Root THEN {}
    ELSE IF IsLast(path) THEN Behind(Front(path))
    ELSE {Neighbour(path, 1)}

\* _fetch_following: the next node, which is a descendant if there are any
Following(path) ==
    IF At(path).kind = "tag" /\ At(path).kids # <<>> THEN {Append(path, 1)} ELSE Behind(path)

IsPreserving(path) == At(path).kind = "tag" /\ Directive(At(path), "default") = "preserve"

-----------------------------------------------------------------------------
(* Characters and markup *)

Spaces(n) == [i \in 1..n |-> Blank]

\* str.lstrip, str.rstrip
LStripped(text) ==
    LET words == {i \in DOMAIN text : text[i] \notin Blanks} IN
    IF words = {} THEN <<>> ELSE SubSeq(text, Min(words), Len(text))
RStripped(text) ==
    LET words == {i \in DOMAIN text : text[i] \notin Blanks} IN
    IF words = {} THEN <<>> ELSE SubSeq(text, 1, Max(words))

Comment == "<!--c-->"
EndTag  == "</a>"
Starts  == [none |-> "<a>", default |-> "<a default>", preserve |-> "<a preserve>"]
Empties == [none |-> "<a/>", default |-> "<a default/>", preserve |-> "<a preserve/>"]

SpaceOf(node) == Directive(node, "none")

\* an attribute xml:space takes 20 or 21 characters
Lengths == [b |-> 1, n |-> 1, w |-> 1] @@ Comment :> 8 @@ EndTag :> 4
           @@ "<a>" :> 3 @@ "<a default>" :> 23 @@ "<a preserve>" :> 24
           @@ "<a/>" :> 4 @@ "<a default/>" :> 24 @@ "<a preserve/>" :> 25

Offset(parts, start) ==
    FoldLeft(LAMBDA offset, part : IF part = Newline THEN 0 ELSE offset + Lengths[part],
             start, parts)

-----------------------------------------------------------------------------
(* _SerializationWriter and _LengthTrackingWriter; the latter is used for wrapping *)

Formats == options # NIL
Wraps   == Formats /\ options.width > 0
Indents == Formats /\ options.indentation > 0

Fresh == [out |-> <<>>, offset |-> 0, preserve_space |-> FALSE]

\* mutant: newlines are always written
AllNewlines(data) == data

\* data.lstrip("\n")
WithoutNewlines(data) ==
    LET others == {i \in DOMAIN data : data[i] # Newline} IN
    IF others = {} THEN <<>> ELSE SubSeq(data, Min(others), Len(data))

Write(writer, data) ==
    LET kept == IF Wraps /\ ~writer.preserve_space /\ writer.offset = 0
                THEN WithoutNewlines(data) ELSE data
    IN  [writer EXCEPT !.out = @ \o kept, !.offset = Offset(kept, @)]

Preserving(writer, on) == [writer EXCEPT !.preserve_space = on]

WriteIf(writer, condition, data) == IF condition THEN Write(writer, data) ELSE writer

IndentIf(writer, condition, level) ==
    WriteIf(writer, Indents /\ condition, Spaces(level * options.indentation))

-----------------------------------------------------------------------------
(* Serializer *)

StartOf(node) == <<IF node.kids = <<>> THEN Empties[SpaceOf(node)] ELSE Starts[SpaceOf(node)]>>
EndOf(node)   == IF node.kids = <<>> THEN <<>> ELSE <<EndTag>>

RECURSIVE Plain(_, _)

Plain(writer, path) ==
    LET node == At(path) IN
    CASE node.kind = "text"    -> Write(writer, node.content)
      [] node.kind = "comment" -> Write(writer, <<Comment>>)
      [] node.kind = "tag"     ->
            Write(FoldLeft(Plain, Write(writer, StartOf(node)), KidsOf(path)), EndOf(node))

\* _LineFittingSerializer; the flag of the writer is set for "default"
RECURSIVE Fitting(_, _, _)
Fitting(writer, path, space) ==
    LET node  == At(path)
        inner == Directive(node, space)
        Switched(w, s) == IF inner = space THEN w ELSE Preserving(w, s = "default")
    IN  CASE node.kind = "text"    ->
                Write(writer, IF space = "default" THEN Crunched(node.content) ELSE node.content)
          [] node.kind = "comment" -> Write(writer, <<Comment>>)
          [] node.kind = "tag"     ->
                LET opened == Write(Switched(writer, inner), StartOf(node))
                    filled == FoldLeft(LAMBDA w, kid : Fitting(w, kid, inner),
                                       opened, KidsOf(path))
                IN  Switched(Write(filled, EndOf(node)), space)

-----------------------------------------------------------------------------
(* PrettySerializer *)

\* Whitespace may be added next to a node where a reduction removes it: at the edges of
\* a tag and next to whitespace.
LegitBefore(path) ==
    /\ path # Root
    /\ \/ IsFirst(path)
       \/ IsTextAt(path) /\ Head(ContentOf(path)) \in Blanks
       \/ /\ ~IsFirst(path) /\ ~IsTextAt(path) /\ IsTextAt(Neighbour(path, -1))
          /\ Last(ContentOf(Neighbour(path, -1))) \in Blanks

\* mutant: any text may be followed by whitespace
LegitAfterTexts(path) ==
    /\ path # Root
    /\ \/ IsLast(path)
       \/ IsTextAt(path)
       \/ /\ ~IsLast(path) /\ ~IsTextAt(path) /\ IsTextAt(Neighbour(path, 1))
          /\ Head(ContentOf(Neighbour(path, 1))) \in Blanks

LegitAfter(path) ==
    /\ path # Root
    /\ \/ IsLast(path)
       \/ IsTextAt(path) /\ Last(ContentOf(path)) \in Blanks
       \/ /\ ~IsLast(path) /\ ~IsTextAt(path) /\ IsTextAt(Neighbour(path, 1))
          /\ Head(ContentOf(Neighbour(path, 1))) \in Blanks

Joined(texts) == Crunched(FlattenSeq([i \in DOMAIN texts |-> ContentOf(texts[i])]))

\* _serialize_text, for neighbouring texts
PrettyText(writer, texts, content, level) ==
    LET indented == IF Indents /\ LegitBefore(Head(texts))
                    THEN Spaces(level * options.indentation) \o LStripped(content)
                    ELSE content
        ended    == IF LegitAfter(Last(texts)) THEN RStripped(indented) \o <<Newline>>
                    ELSE indented
    IN  IF content = <<Blank>> THEN writer ELSE Write(writer, ended)

-----------------------------------------------------------------------------
(* TextWrappingSerializer *)

LineOffset(writer, level) ==
    IF writer.offset = 0 THEN 0 ELSE writer.offset - level * options.indentation

AvailableSpace(writer, level) == Max({0, options.width - LineOffset(writer, level)})

\* str.find(" "), but what doesn't occur is found at the end
FirstSpace(text) ==
    LET spaces == {i \in DOMAIN text : text[i] = Blank} IN
    IF spaces = {} THEN Len(text) ELSE Min(spaces) - 1

TextSpace(path) ==
    LET content == Crunched(ContentOf(path))
        begun   == IF LegitBefore(path) THEN LStripped(content) ELSE content
    IN  Len(IF LegitAfter(path) THEN RStripped(begun) ELSE begun)

\* _required_space, without the limit that ends the computation early.  By the default
\* filters a tag that only contains comments counts as empty.
RECURSIVE RequiredSpace(_)
RequiredSpace(path) ==
    LET node   == At(path)
        markup == Lengths[Starts[SpaceOf(node)]]
                  + IF \E kid \in Range(node.kids) : kid.kind # "comment"
                    THEN Lengths[EndTag] ELSE 1
        behind == IF LegitAfter(path) THEN {} ELSE Following(path)
        words  == {FirstSpace(ContentOf(f)) : f \in {f \in behind : IsTextAt(f)}} IN
    CASE node.kind = "text"    -> TextSpace(path)
      [] node.kind = "comment" -> Lengths[Comment]
      [] node.kind = "tag"     ->
            FoldLeft(LAMBDA space, n : space + RequiredSpace(n),
                     markup + Max(words \cup {0}),
                     KidsOf(path) \o SetToSeq({f \in behind : ~IsTextAt(f)}))

Fits(path, space) == RequiredSpace(path) <= space

\* _serialize_appendable_node
AppendableNode(writer, path, level) ==
    LET indented == IndentIf(writer, writer.offset = 0, level) IN
    IF At(path).kind # "tag" THEN Plain(indented, path)
    ELSE Preserving(IF IsPreserving(path) THEN Plain(Preserving(indented, TRUE), path)
                    ELSE Fitting(indented, path, "default"),
                    FALSE)

\* _wrap_text: lines that are broken at spaces.  The last one to the left of the width
\* is looked for, or the first one from there.
RECURSIVE Wrapped(_, _)

\* mutant: words that are too long are broken, too
WrappedAtWidth(text, width) ==
    LET within == {i \in DOMAIN text : text[i] = Blank /\ i <= width + 1}
        at     == IF within = {} THEN Max({1, width}) ELSE Max(within) IN
    IF Len(text) <= Max({0, width}) THEN IF text = <<>> THEN <<>> ELSE <<text>>
    ELSE <<SubSeq(text, 1, IF within = {} THEN at ELSE at - 1)>>
         \o Wrapped(SubSeq(text, at + 1, Len(text)), width)

Wrapped(text, width) ==
    LET within  == {i \in DOMAIN text : text[i] = Blank /\ i <= width + 1}
        from    == IF width < 0 THEN Max({0, Len(text) + width}) ELSE width
        beyond  == {i \in DOMAIN text : text[i] = Blank /\ i > Max({from, 1})}
        at      == IF within # {} THEN Max(within) ELSE Min(beyond)
    IN  IF Len(text) <= width THEN IF text = <<>> THEN <<>> ELSE <<text>>
        ELSE IF within \cup beyond = {} THEN <<text>>
        ELSE <<SubSeq(text, 1, at - 1)>>
             \o Wrapped(SubSeq(text, at + 1, Len(text)), width)

\* _consolidate_text_lines, in three parts
Closed(lines, last) ==
    IF Head(lines) = <<>> /\ IsLast(last) /\ LegitAfter(last) THEN Append(lines, <<>>) ELSE lines

Begun(lines, isFresh) == IF isFresh /\ Head(lines) = <<>> THEN Tail(lines) ELSE lines

Ended(lines) ==
    IF Len(lines) >= 2 /\ Last(lines) = <<>>
    THEN [lines EXCEPT ![Len(lines) - 1] = RStripped(@)] ELSE lines

Consolidated(lines, writer, last, level) ==
    Ended(Begun(Closed(lines, last), LineOffset(writer, level) = 0))

WriteAll(writer, lines, level) ==
    LET prefix == Spaces(level * options.indentation)
        WriteLine(w, line) ==
            Write(w, (IF line = <<>> THEN <<>> ELSE prefix \o line) \o <<Newline>>)
    IN  WriteIf(FoldLeft(WriteLine, writer, Front(lines)),
                Last(lines) # <<>>, prefix \o Last(lines))

\* the end of _serialize_text_over_lines: a line that ends with a blank isn't continued
\* if what follows doesn't fit
WriteLines(writer, lines, last, level) ==
    LET isDone ==
            /\ Last(lines) # <<>> /\ Last(Last(lines)) = Blank
            /\ LegitAfter(last) /\ ~IsLast(last)
            /\ ~Fits(Neighbour(last, 1), options.width - Len(Last(lines)))
    IN  WriteAll(writer,
                 Consolidated(IF isDone THEN Append(lines, <<>>) ELSE lines, writer, last, level),
                 level)

\* what the current line is filled up with before others are begun
Filling(content, space) ==
    IF Head(content) = Blank THEN <<Blank>> \o Head(Wrapped(Tail(content), space - 1))
    ELSE Head(Wrapped(content, space))

RestTo(writer, texts, content, level) ==
    IF content = <<>> THEN writer
    ELSE WriteLines(writer, <<<<>>>> \o Wrapped(content, options.width), Last(texts), level)

FillLine(writer, texts, content, filling, level) ==
    IF Len(filling) > AvailableSpace(writer, level) /\ LegitBefore(Head(texts))
    THEN RestTo(writer, texts, content, level)
    ELSE RestTo(Write(writer, filling), texts,
                SubSeq(content, Len(filling) + 2, Len(content)), level)

\* _serialize_text_over_lines
TextOverLines(writer, texts, content, level) ==
    IF LineOffset(writer, level) = 0
    THEN WriteLines(writer,
                    (IF LegitBefore(Head(texts)) THEN <<<<>>>> ELSE <<>>)
                        \o Wrapped(LStripped(content), options.width),
                    Last(texts), level)
    ELSE FillLine(writer, texts, content, Filling(content, AvailableSpace(writer, level)), level)

\* what fits the current line
TextOnLine(writer, last, content, level) ==
    LET indented == IF LineOffset(writer, level) = 0
                    THEN Spaces(level * options.indentation) \o LStripped(content)
                    ELSE content
        ends     == \/ IsLast(last)
                    \/ \E f \in Following(last) :
                          /\ LegitBefore(f)
                          /\ ~Fits(f, AvailableSpace(writer, level) - Len(indented))
    IN  Write(writer, IF ends THEN RStripped(indented) \o <<Newline>> ELSE indented)

\* _serialize_text
WrappedText(writer, texts, content, level) ==
    LET space == AvailableSpace(writer, level) IN
    IF space = Len(RStripped(content)) /\ LegitAfter(Last(texts))
    THEN Write(writer, RStripped(content) \o <<Newline>>)
    ELSE IF space > Len(content) THEN TextOnLine(writer, Last(texts), content, level)
    ELSE IF content = <<Blank>> THEN Write(writer, <<Newline>>)
    ELSE TextOverLines(writer, texts, content, level)

TextTo(writer, texts, level) ==
    IF Wraps THEN WrappedText(writer, texts, Joined(texts), level)
    ELSE PrettyText(writer, texts, Joined(texts), level)

-----------------------------------------------------------------------------
(* What both have in common *)

RECURSIVE NodeTo(_, _, _)

\* the child nodes of a tag, with neighbouring texts, which are written at once, in one group
Groups(path) ==
    FoldLeft(LAMBDA groups, kid :
                 IF IsTextAt(kid) /\ groups # <<>> /\ IsTextAt(Last(Last(groups)))
                 THEN Append(Front(groups), Append(Last(groups), kid))
                 ELSE Append(groups, <<kid>>),
             <<>>, KidsOf(path))

\* _handle_child_nodes and _serialize_child_nodes
KidsTo(writer, path, level) ==
    LET kids == KidsOf(path)
        Serialize(w, group) == IF IsTextAt(Head(group)) THEN TextTo(w, group, level + 1)
                               ELSE NodeTo(w, Head(group), level + 1)
    IN  IndentIf(FoldLeft(Serialize, WriteIf(writer, LegitBefore(Head(kids)), <<Newline>>),
                          Groups(path)),
                 LegitAfter(Last(kids)), level)

ContentTo(writer, path, level) ==
    IF At(path).kids = <<>> THEN writer ELSE KidsTo(writer, path, level)

\* a tag whose content may be laid out
LaidOutTag(writer, path, level) ==
    Write(ContentTo(Write(writer, StartOf(At(path))), path, level), EndOf(At(path)))

\* _serialize_tag, with what wrapping puts before it
TagTo(writer, path, level) ==
    IF Wraps /\ path # Root /\ Fits(path, AvailableSpace(writer, level))
    THEN AppendableNode(writer, path, level)
    ELSE IF IsPreserving(path) THEN Plain(writer, path) ELSE LaidOutTag(writer, path, level)

\* Serializer.serialize_node
Other(writer, path, level) ==
    IF At(path).kind = "tag" THEN TagTo(writer, path, level) ELSE Plain(writer, path)

\* PrettySerializer.serialize_node
PrettyNode(writer, path, level) ==
    WriteIf(Other(IndentIf(writer, LegitBefore(path), level), path, level),
            LegitAfter(path), <<Newline>>)

\* TextWrappingSerializer.serialize_node, in three parts: a node that doesn't fit goes to
\* the next line, and a line ends where what follows doesn't fit.
LineFor(writer, path, level) ==
    WriteIf(writer,
            /\ ~Fits(path, AvailableSpace(writer, level))
            /\ LineOffset(writer, level) > 0 /\ LegitBefore(path),
            <<Newline>>)

EndLine(writer, path, level, appended) ==
    WriteIf(writer,
            /\ LegitAfter(path)
            /\ \/ appended /\ (AvailableSpace(writer, level) = 0 \/ IsLast(path))
               \/ ~\E f \in Following(path) : Fits(f, AvailableSpace(writer, level)),
            <<Newline>>)

OnLine(writer, path, level) ==
    IF Fits(path, AvailableSpace(writer, level))
    THEN EndLine(AppendableNode(writer, path, level), path, level, TRUE)
    ELSE LET indented == IndentIf(writer, writer.offset = 0 /\ LegitBefore(path), level) IN
         EndLine(Preserving(Other([indented EXCEPT !.preserve_space = @ \/ IsPreserving(path)],
                                  path, level), FALSE),
                 path, level, FALSE)

WrappingNode(writer, path, level) == OnLine(LineFor(writer, path, level), path, level)

NodeTo(writer, path, level) ==
    IF Wraps THEN WrappingNode(writer, path, level) ELSE PrettyNode(writer, path, level)

\* serialize_root
Serialized == (IF Formats THEN TagTo(Fresh, Root, 0) ELSE Plain(Fresh, Root)).out

-----------------------------------------------------------------------------
(* What is parsed from a stream, with neighbouring characters in one text *)

TagWith(space) ==
    [kind |-> "tag", kids |-> <<>>,
     attributes |-> IF space = "none" THEN <<>> ELSE XmlSpace :> space]

WithNode(open, node) == Append(Front(open), [Last(open) EXCEPT !.kids = Append(@, node)])

WithCharacter(open, c) ==
    LET kids == Last(open).kids IN
    IF kids # <<>> /\ IsText(Last(kids))
    THEN Append(Front(open),
                [Last(open) EXCEPT !.kids[Len(kids)] = TextNode(Append(@.content, c))])
    ELSE WithNode(open, TextNode(<<c>>))

SpaceIn(tags, part) == CHOOSE s \in DOMAIN tags : tags[s] = part

Read(open, part) ==
    CASE part = EndTag  -> WithNode(Front(open), Last(open))
      [] part = Comment -> WithNode(open, [kind |-> "comment"])
      [] part \in Range(Starts)  -> Append(open, TagWith(SpaceIn(Starts, part)))
      [] part \in Range(Empties) -> WithNode(open, TagWith(SpaceIn(Empties, part)))
      [] OTHER -> WithCharacter(open, part)

Parsed(parts) == Head(Last(FoldLeft(Read, <<TagWith("none")>>, parts)).kids)

-----------------------------------------------------------------------------

Init == tree \in Trees /\ options \in Options /\ stream = <<>> /\ loaded = NIL

\* Document.reduce_whitespace
Reduce ==
    /\ stream = <<>>
    /\ tree' = ReducedTree(tree, "default")
    /\ UNCHANGED <<options, stream, loaded>>

Serialize ==
    /\ stream = <<>>
    /\ stream' = Serialized
    /\ UNCHANGED <<tree, options, loaded>>

Load ==
    /\ stream # <<>> /\ loaded = NIL
    /\ loaded' = Parsed(stream)
    /\ UNCHANGED <<tree, options, stream>>

Next == Reduce \/ Serialize \/ Load

Spec == Init /\ [][Next]_vars

-----------------------------------------------------------------------------
(* Properties *)

RECURSIVE Merged(_)
Merged(node) ==
    IF node.kind # "tag" THEN node
    ELSE LET kids == MergedTexts(node.kids)
         IN  [node EXCEPT !.kids = [i \in DOMAIN kids |-> Merged(kids[i])]]

\* what's loaded with whitespace being reduced
LoadedReduced == ReducedTree(loaded, "default")

\* Without formatting all of a tree comes back, except for the borders between texts.
\* Laying out a tree only adds whitespace that a reduction removes, and only omits some
\* that it would remove, wherever xml:space says what: the reduced tree is loaded from
\* the result, regardless of whether the serialized one was reduced.
LayoutIsReducedAway ==
    loaded # NIL /\ ~Wraps =>
        IF Formats THEN LoadedReduced = ReducedTree(tree, "default")
        ELSE loaded = Merged(tree)

RECURSIVE HasNewline(_)
HasNewline(node) ==
    CASE node.kind = "text" -> Newline \in Range(node.content)
      [] node.kind = "comment" -> FALSE
      [] node.kind = "tag" -> \E kid \in Range(node.kids) : HasNewline(kid)

RECURSIVE PreservesNewline(_)
PreservesNewline(node) ==
    /\ node.kind = "tag"
    /\ IF Directive(node, "default") = "preserve" THEN HasNewline(node)
       ELSE \E kid \in Range(node.kids) : PreservesNewline(kid)

\* The same holds for wrapped text unless newlines have to be preserved.
WrappingIsReducedAway ==
    loaded # NIL /\ Wraps /\ ~PreservesNewline(tree) =>
        LoadedReduced = ReducedTree(tree, "default")

RECURSIVE HasPreserving(_)
HasPreserving(node) ==
    /\ node.kind = "tag"
    /\ \/ Directive(node, "default") = "preserve"
       \/ \E kid \in Range(node.kids) : HasPreserving(kid)

Lines == FoldLeft(LAMBDA lines, part : IF part = Newline THEN Append(lines, <<>>)
                                       ELSE Append(Front(lines), Append(Last(lines), part)),
                  <<<<>>>>, stream)

\* Where nothing is to be preserved no line is empty, and one with nothing but text has,
\* apart from its indentation, at most the given width or consists of one word.
LinesAreFilledAndFit ==
    Formats /\ stream # <<>> /\ ~HasPreserving(tree) =>
        \A line \in Range(Lines) :
            LET text == LStripped(line) IN
            /\ text # <<>>
            /\ Wraps /\ Range(line) \subseteq {Blank, Word} =>
                   Len(text) <= options.width \/ Blank \notin Range(text)
=============================================================================
