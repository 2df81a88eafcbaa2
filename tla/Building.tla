------------------------------- MODULE Building -------------------------------
(***************************************************************************)
(* From a stream to nodes: the parser adapters (_delb/plugins/*_parser.py) *)
(* that turn what expat and libxml2 report into events, and the            *)
(* TreeBuilder (_delb/builder.py) that makes nodes of them.                *)
(*                                                                         *)
(* The environment is a well-formed stream, read token by token: a tag's   *)
(* start or end, a comment, or a character, as the parsers may report text *)
(* in any portions.  Processing instructions go the way of comments.  Both *)
(* are missing from the stream when they are to be ignored.                *)
(***************************************************************************)
EXTENDS Whitespace, FiniteSetsExt

CONSTANTS Elements,   \* start tags: a namespace and a sequence of attributes
          MaxTokens,  \* bound on a stream's length
          MaxDepth,   \* bound on the depth of a tree
          Unprefixed  \* the namespace of an attribute without prefix

ASSUME BoundsAreNaturals == MaxTokens \in Nat /\ MaxDepth \in Nat

VARIABLES
    setting,          \* the adapter that is used and ParserOptions.reduce_whitespace
    tokens,           \* what the parser has read from the stream
    open,             \* the tags that are open in front of each token and behind all of
                      \* them, as positions of their starts
    closed,           \* whether that was all
    emitting,         \* whether the adapter emits events, or waits for the parser
    read,             \* how many of the tokens the adapter has taken
    unprocessed_text, \* of the ExpatParser
    gone,             \* tokens that libxml2's tree has lost the text behind them of
    children, started_tags, preserve_space, xml_ids, \* of the TreeBuilder
    results,          \* the nodes that it returned
    outcome

stream  == <<setting, tokens, open, closed>>
adapter == <<emitting, read, unprocessed_text, gone>>
builder == <<children, started_tags, preserve_space, xml_ids, results, outcome>>
vars == <<stream, adapter, builder>>

-----------------------------------------------------------------------------
(* The stream *)

IsMarkup(i) == tokens[i].type \in {"start", "end", "comment"}

\* the tags that are open now
Open == Last(open)

\* a tag's start is put on the parser's stack and comes off it with its end
OpenBehind(token) ==
    CASE token.type = "start" -> Append(Open, Len(tokens) + 1)
      [] token.type = "end"   -> Front(Open)
      [] OTHER                -> Open

EndOf(i) == CHOOSE j \in (i + 1) .. Len(tokens) :
                tokens[j].type = "end" /\ Last(open[j]) = i

Tokens == [type : {"start"}, element : Elements] \cup [type : {"text"}, content : {Blank, Word}]
          \cup [type : {"end", "comment"}]

\* The parser reads on.  A chunk of the stream may end behind any token.
Feed(token) ==
    /\ ~emitting /\ ~closed
    /\ Open = <<>> => \/ token.type = "comment"
                      \/ token.type = "start" /\ \A i \in DOMAIN tokens : tokens[i].type = "comment"
    /\ tokens' = Append(tokens, token)
    /\ open' = Append(open, OpenBehind(token))
    /\ Len(OpenBehind(token)) <= MaxDepth
    /\ Len(tokens') + Len(OpenBehind(token)) <= MaxTokens
    /\ UNCHANGED <<setting, closed, adapter, builder>>

\* XMLPullParser emits after each chunk.  ExpatParser does so after all of them, what
\* expat held back until then follows.
EndChunk ==
    /\ ~emitting /\ ~closed
    /\ read < Len(tokens)
    /\ setting.parser = "expat" => read = 0
    /\ emitting' = TRUE
    /\ UNCHANGED <<stream, read, unprocessed_text, gone, builder>>

Close ==
    /\ ~emitting /\ ~closed
    /\ \E i \in DOMAIN tokens : tokens[i].type = "start"
    /\ Open = <<>>
    /\ closed' = TRUE
    /\ emitting' = TRUE
    /\ UNCHANGED <<setting, tokens, open, read, unprocessed_text, gone, builder>>

-----------------------------------------------------------------------------
(* The adapters *)

Unread == {i \in (read + 1) .. Len(tokens) : IsMarkup(i)}

TextOf(S) == [i \in 1 .. Cardinality(S) |->
                 tokens[CHOOSE j \in S : Cardinality({k \in S : k <= j}) = i].content]

\* mutant: text in front of a chunk's end is forgotten
CollectedInChunk(i) == TextOf((read + 1) .. (i - 1))

\* ExpatParser.emit_events: text is collected in front of the i-th token
Collected(i) ==
    unprocessed_text \o TextOf((read + 1) .. (i - 1))

\* libxml2's tree: the text or tail that is behind the i-th token
Behind(i) ==
    IF i \in gone THEN <<>>
    ELSE TextOf({j \in (i + 1) .. Len(tokens) : \A k \in (i + 1) .. j : ~IsMarkup(k)})

Siblings(i) ==
    {j \in 1 .. Len(tokens) : /\ tokens[j].type \in {"start", "comment"}
                              /\ open[j] = open[i]}
Kids(i) == {j \in (i + 1) .. Len(tokens) : /\ tokens[j].type \in {"start", "comment"}
                                           /\ open[j] # <<>>
                                           /\ Last(open[j]) = i}

\* where an element's tail is
TailOf(i) == IF tokens[i].type = "comment" THEN i ELSE EndOf(i)

\* LxmlParser.handle_element_preceding_text and the text in front of an end: the
\* token that the text is behind of, if any, and what is dropped then
TextSource(i) ==
    LET parent   == Last(open[i])
        earlier  == {j \in Siblings(i) : j < i}
        previous == Max(earlier)
    IN  IF tokens[i].type = "end"
        THEN IF Kids(parent) # {} THEN [at |-> TailOf(Max(Kids(parent))),
                                        drop |-> {TailOf(Max(Kids(parent)))}]
             ELSE [at |-> parent, drop |-> {}]
        ELSE IF earlier # {} THEN [at |-> TailOf(previous), drop |-> {previous, TailOf(previous)}]
             ELSE IF open[i] # <<>> THEN [at |-> parent, drop |-> {}]
             ELSE [at |-> 0, drop |-> {}]

PrecedingText(i) ==
    IF setting.parser = "expat" THEN Collected(i)
    ELSE IF TextSource(i).at = 0 THEN <<>> ELSE Behind(TextSource(i).at)

-----------------------------------------------------------------------------
(* TreeBuilder.handle_event.  A text event, if there is one, precedes      *)
(* another event and is handled in the same step.                          *)

WithText(text) ==
    IF text = <<>> THEN children
    ELSE [children EXCEPT ![Len(children)] = Append(@, TextNode(text))]

\* mutant: identifiers are forgotten behind each node
IdsForgotten(tags) == {}

IdsBehind(tags) == IF tags # <<>> THEN xml_ids ELSE {}

\* A node becomes the last child of the innermost open tag or is returned.
Handled(lists, tags, node) ==
    /\ xml_ids' = IdsBehind(tags)
    /\ IF tags # <<>>
       THEN /\ children' = [lists EXCEPT ![Len(lists)] = Append(@, node)]
            /\ UNCHANGED results
       ELSE /\ children' = lists
            /\ results' = Append(results, node)

HandleComment(text) ==
    /\ Handled(WithText(text), started_tags, [kind |-> "comment"])
    /\ UNCHANGED <<started_tags, preserve_space, outcome>>

\* Both adapters name attributes without prefix by their element's namespace.
QualifiedName(element, attribute) ==
    <<IF attribute.namespace = Unprefixed THEN element.namespace ELSE attribute.namespace,
      attribute.name>>

\* a dict: of several attributes with the same name the last one stays
AttributesOf(element) ==
    LET names == [i \in DOMAIN element.attributes |->
                     QualifiedName(element, element.attributes[i])]
    IN  [n \in {names[i] : i \in DOMAIN names} |->
            element.attributes[Max({i \in DOMAIN names : names[i] = n})].value]

XmlId == <<"xml", "id">>

Preserves(attributes) ==
    CASE ~setting.reduce -> TRUE
      [] Has(attributes, XmlSpace) /\ attributes[XmlSpace] = "preserve" -> TRUE
      [] Has(attributes, XmlSpace) /\ attributes[XmlSpace] = "default" -> FALSE
      [] OTHER -> preserve_space # <<>> /\ Last(preserve_space)

HandleTagStart(text, element) ==
    LET attributes == AttributesOf(element)
        hasId == Has(attributes, XmlId)
    IN  IF hasId /\ attributes[XmlId] \in xml_ids
        THEN /\ outcome' = "ParsingValidityError"
             /\ children' = WithText(text)
             /\ UNCHANGED <<started_tags, preserve_space, xml_ids, results>>
        ELSE /\ xml_ids' = xml_ids \cup IF hasId THEN {attributes[XmlId]} ELSE {}
             /\ children' = Append(WithText(text), <<>>)
             /\ started_tags' = Append(started_tags, element)
             /\ preserve_space' = Append(preserve_space, Preserves(attributes))
             /\ UNCHANGED <<results, outcome>>

TagNode(element, kids) ==
    [kind |-> "tag", element |-> element, attributes |-> AttributesOf(element), kids |-> kids]

\* mutant: an inner tag's way to treat whitespace stays
SpaceStays == preserve_space

SpaceBehindEnd == Front(preserve_space)

HandleTagEnd(text) ==
    LET lists == WithText(text)
        kids  == IF Last(preserve_space) THEN Last(lists) ELSE ReducedSiblings(Last(lists))
    IN  /\ started_tags' = Front(started_tags)
        /\ preserve_space' = SpaceBehindEnd
        /\ Handled(Front(lists), started_tags', TagNode(Last(started_tags), kids))
        /\ UNCHANGED outcome

\* An adapter yields the text in front of markup and the markup.
Emit ==
    /\ emitting /\ outcome = "ok"
    /\ Unread # {}
    /\ LET i == Min(Unread)
           token == tokens[i]
           text == PrecedingText(i)
       IN  /\ read' = i
           /\ unprocessed_text' = <<>>
           /\ gone' = gone \cup IF setting.parser = "lxml" THEN TextSource(i).drop ELSE {}
           /\ CASE token.type = "comment" -> HandleComment(text)
                [] token.type = "start" -> HandleTagStart(text, token.element)
                [] token.type = "end" -> HandleTagEnd(text)
    /\ UNCHANGED <<stream, emitting>>

\* There is no more markup to emit.
Drain ==
    /\ emitting /\ outcome = "ok"
    /\ Unread = {}
    /\ emitting' = FALSE
    /\ read' = Len(tokens)
    /\ unprocessed_text' = IF setting.parser = "expat" THEN Collected(Len(tokens) + 1) ELSE <<>>
    /\ UNCHANGED <<stream, gone, builder>>

-----------------------------------------------------------------------------

Settings == [parser : {"expat", "lxml"}, reduce : BOOLEAN]

Init ==
    /\ setting \in Settings
    /\ tokens = <<>> /\ open = <<(<<>>)>> /\ closed = FALSE
    /\ emitting = FALSE /\ read = 0 /\ unprocessed_text = <<>> /\ gone = {}
    /\ children = <<>> /\ started_tags = <<>> /\ preserve_space = <<>>
    /\ xml_ids = {} /\ results = <<>>
    /\ outcome = "ok"

Next ==
    \/ \E token \in Tokens : Feed(token)
    \/ EndChunk
    \/ Close
    \/ Emit
    \/ Drain

Spec == Init /\ [][Next]_vars

-----------------------------------------------------------------------------
(* Properties *)

TextInFront(i) == {j \in 1 .. (i - 1) : \A k \in j .. (i - 1) : ~IsMarkup(k)}

\* Both adapters hand over the text in front of markup, all of it and only once: what
\* expat reports in portions and in other chunks, and what libxml2 keeps in places that
\* the adapter clears while the parser is ahead of it.
TextIsPassedOn ==
    emitting /\ outcome = "ok" /\ Unread # {} =>
        PrecedingText(Min(Unread)) = TextOf(TextInFront(Min(Unread)))

\* The three stacks of the builder move in step, and its tags are those that are open
\* where the adapter has read to: a tag that ends is the one that is taken off, and
\* nothing is left on a stack when a node is returned.  These are its assertions.
StacksInStep ==
    outcome = "ok" =>
        /\ Len(children) = Len(started_tags)
        /\ Len(preserve_space) = Len(started_tags)
        /\ started_tags = [k \in DOMAIN open[read + 1] |-> tokens[open[read + 1][k]].element]

IdsRead == {i \in 1 .. read : tokens[i].type = "start" /\ Has(AttributesOf(tokens[i].element), XmlId)}

\* Building fails when, and only when, an xml:id was used twice in the document.
RedundantIdsRefused ==
    outcome = "ParsingValidityError" <=>
        \E i, j \in IdsRead :
            /\ i # j
            /\ AttributesOf(tokens[i].element)[XmlId] = AttributesOf(tokens[j].element)[XmlId]
=============================================================================
