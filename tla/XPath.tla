-------------------------------- MODULE XPath --------------------------------
(***************************************************************************)
(* How delb evaluates location paths on a tree (_delb/xpath/ast.py and     *)
(* functions.py).                                                          *)
(*                                                                         *)
(* A tree is a value here: nodes are numbered, `nodes` has a record per    *)
(* node, `top` lists the parentless nodes, which are a document node's     *)
(* children if `owned` holds.  The sequences that an axis yields are given *)
(* by the document order; that the generators behind it yield these is     *)
(* Traversal.tla's subject.                                                *)
(*                                                                         *)
(* An evaluation yields `nodes` until something in `raises` is raised.     *)
(***************************************************************************)
EXTENDS Integers, Sequences, FiniteSets, SequencesExt

LOCAL INSTANCE Bitwise

-----------------------------------------------------------------------------
(* Trees *)

Document == 0   \* nodes._DocumentNode
Shim == -1      \* xpath.ast._DocumentNode, an instance per use stands above a topmost node

IsDocumentNode(n) == n \in {Document, Shim}

Kids(t, n) ==
    CASE n = Shim     -> IF t.owned THEN <<Document>> ELSE t.top
      [] n = Document -> t.top
      [] OTHER        -> t.nodes[n].kids

\* what the parent axis yields; the shim itself has no _parent
Above(t, n) == IF n \in ToSet(t.top) THEN IF t.owned THEN Document ELSE Shim
               ELSE IF n = Document THEN Shim
               ELSE t.nodes[n].parent

IsTag(t, n) == n > 0 /\ t.nodes[n].kind = "tag"

RECURSIVE Descendants(_, _)
Descendants(t, n) ==
    FlattenSeq([i \in DOMAIN Kids(t, n) |->
                   <<Kids(t, n)[i]>> \o Descendants(t, Kids(t, n)[i])])

\* from the parent up to the document node or its shim
RECURSIVE Ancestors(_, _)
Ancestors(t, n) ==
    <<Above(t, n)>> \o (IF IsDocumentNode(Above(t, n)) THEN <<>>
                        ELSE Ancestors(t, Above(t, n)))

PositionIn(seq, n) == SelectInSeq(seq, LAMBDA m : m = n)

\* the nodes behind n and its descendants
Following(t, n) ==
    LET order == Descendants(t, Document) IN
    SubSeq(order, PositionIn(order, n) + Len(Descendants(t, n)) + 1, Len(order))

\* the ones before n that are no ancestors of it, backwards
Preceding(t, n) ==
    LET order == Descendants(t, Document) IN
    Reverse(SelectSeq(SubSeq(order, 1, PositionIn(order, n) - 1),
                      LAMBDA m : ~Contains(Ancestors(t, n), m)))

Siblings(t, n) == Kids(t, Above(t, n))

SiblingsBehind(t, n) ==
    SubSeq(Siblings(t, n), PositionIn(Siblings(t, n), n) + 1, Len(Siblings(t, n)))

SiblingsBefore(t, n) ==
    Reverse(SubSeq(Siblings(t, n), 1, PositionIn(Siblings(t, n), n) - 1))

Axes == {"ancestor", "ancestor-or-self", "child", "descendant", "descendant-or-self",
         "following", "following-sibling", "parent", "preceding", "preceding-sibling",
         "self"}

\* Axis.evaluate
OnAxis(t, axis, n) ==
    CASE axis = "self"               -> <<n>>
      [] axis = "child"              -> Kids(t, n)
      [] axis = "descendant"         -> Descendants(t, n)
      [] axis = "descendant-or-self" -> <<n>> \o Descendants(t, n)
      [] n = Shim -> IF axis = "ancestor-or-self" THEN <<n>> ELSE <<>>
      [] axis = "parent"             -> <<Above(t, n)>>
      [] axis = "ancestor"           -> Ancestors(t, n)
      [] axis = "ancestor-or-self"   -> <<n>> \o Ancestors(t, n)
      [] n = Document                -> <<>>
      [] axis = "following"          -> Following(t, n)
      [] axis = "following-sibling"  -> SiblingsBehind(t, n)
      [] axis = "preceding"          -> Preceding(t, n)
      [] axis = "preceding-sibling"  -> SiblingsBefore(t, n)

\* Other nodes than tag nodes have no _child_nodes.  The shim's only usable members
\* are that and _iterate_descendants.
AxisRaises(t, axis, n) ==
    CASE axis = "child" ->
            IF IsTag(t, n) \/ IsDocumentNode(n) THEN {} ELSE {"AttributeError"}
      [] n # Shim \/ axis \in {"self", "descendant", "descendant-or-self"} -> {}
      [] axis = "parent" -> {"AttributeError"}
      [] OTHER           -> {"InvalidCodePath"}

-----------------------------------------------------------------------------
(* Node tests.  Prefix "" stands for None, `ns` maps the known prefixes. *)

\* ensure_prefix
PrefixRaises(e, ns) ==
    IF e.prefix # "" /\ e.prefix \notin DOMAIN ns THEN {"XPathEvaluationError"} ELSE {}

Lookup(ns, prefix) == IF prefix \in DOMAIN ns THEN ns[prefix] ELSE ""

Passes(t, test, n, ns) ==
    CASE test.type = "any name" ->
            IsTag(t, n) /\ (test.prefix = "" \/ t.nodes[n].ns = Lookup(ns, test.prefix))
      [] test.type = "name" ->
            /\ IsTag(t, n)
            /\ t.nodes[n].ns = Lookup(ns, test.prefix)
            /\ t.nodes[n].local = test.local
      [] test.type = "node type" -> IsDocumentNode(n) \/ t.nodes[n].kind = test.kind
      [] test.type = "target" ->
            n > 0 /\ t.nodes[n].kind = "pi" /\ t.nodes[n].local = test.local

\* A document node passes any test for a node type, it has no target though.
TestRaises(test, n, ns) ==
    CASE test.type \in {"any name", "name"} -> PrefixRaises(test, ns)
      [] test.type = "target" -> IF IsDocumentNode(n) THEN {"AssertionError"} ELSE {}
      [] OTHER -> {}

-----------------------------------------------------------------------------
(* Predicates.  Python's values: True and False are numbers, strings are   *)
(* sequences of characters.                                                *)

Number(i)      == <<"int", i>>
Truth(b)     == Number(IF b THEN 1 ELSE 0)
Text(s)      == <<"str", s>>
NoValue     == <<"None">>
Raised(exc) == <<"raised", exc>>

IsRaised(v) == v[1] = "raised"
IsTrue(v)   == v \notin {NoValue, Number(0), Text(<<>>)}

AttributesOf(t, n, e, ns) ==
    {a \in t.nodes[n].attributes : a.ns = Lookup(ns, e.prefix) /\ a.local = e.local}

BothAre(type, v, w) == v[1] = type /\ w[1] = type

\* OPERATORS; order comparisons of strings are left out
Operate(op, v, w) ==
    CASE op = "="  -> Truth(v = w)
      [] op = "!=" -> Truth(v # w)
      [] ~BothAre("int", v, w) -> Raised("TypeError")
      [] op = "and" -> Number(v[2] & w[2])
      [] op = "or"  -> Number(v[2] | w[2])
      [] op = "<"   -> Truth(v[2] < w[2])
      [] op = "<="  -> Truth(v[2] <= w[2])
      [] op = ">"   -> Truth(v[2] > w[2])
      [] op = ">="  -> Truth(v[2] >= w[2])

FirstText(t, n) ==
    LET texts == SelectSeq(Kids(t, n), LAMBDA m : t.nodes[m].kind = "text")
    IN  IF texts = <<>> THEN Text(<<>>) ELSE Text(t.nodes[Head(texts)].content)

\* _delb/xpath/functions.py, called with the values vs
Call(t, name, c, vs) ==
    CASE name = "last"     -> Number(c.size)
      [] name = "position" -> Number(c.position)
      [] name = "not"      -> Truth(~IsTrue(vs[1]))
      [] name = "boolean"  -> Truth(IsTrue(vs[1]))
      [] name = "text"     -> IF IsTag(t, c.node) THEN FirstText(t, c.node)
                              ELSE Raised("AssertionError")
      [] name = "starts-with" /\ vs[1][1] # "str" -> Raised("AttributeError")
      [] \E v \in ToSet(vs) : v[1] # "str" -> Raised("TypeError")
      [] name = "contains" ->
            Truth(\E i \in 0 .. Len(vs[1][2]) :
                    IsPrefix(vs[2][2], SubSeq(vs[1][2], i + 1, Len(vs[1][2]))))
      [] name = "starts-with" -> Truth(IsPrefix(vs[2][2], vs[1][2]))
      [] name = "concat" -> Text(FlattenSeq([i \in DOMAIN vs |-> vs[i][2]]))

\* EvaluationNode.evaluate for a context c
RECURSIVE Value(_, _, _, _)
Value(t, e, c, ns) ==
    CASE e.type = "any value" -> e.value
      [] e.type \in {"has attribute", "attribute value"} ->
            IF PrefixRaises(e, ns) # {} THEN Raised("XPathEvaluationError")
            ELSE LET known == IF IsTag(t, c.node) THEN AttributesOf(t, c.node, e, ns)
                              ELSE {} IN
                 CASE e.type = "has attribute" -> Truth(known # {})
                   [] ~IsTag(t, c.node)        -> NoValue
                   [] known = {}               -> Text(<<>>)
                   [] OTHER                    -> Text((CHOOSE a \in known : TRUE).value)
      [] OTHER ->
            LET vs == [i \in DOMAIN e.arguments |-> Value(t, e.arguments[i], c, ns)]
                failed == SelectSeq(vs, IsRaised) IN
            IF failed # <<>> THEN Head(failed)
            ELSE IF e.type = "operator" THEN Operate(e.operator, vs[1], vs[2])
            ELSE Call(t, e.name, c, vs)

-----------------------------------------------------------------------------
(* Steps and paths *)

Context(candidates, i) ==
    [node |-> candidates[i], position |-> i, size |-> Len(candidates)]

\* one round of the loop over the predicates
Filtered(t, predicate, found, ns) ==
    LET values == [i \in DOMAIN found.nodes |->
                      Value(t, predicate, Context(found.nodes, i), ns)]
        kept == SelectSeq([i \in DOMAIN values |-> i], LAMBDA i : IsTrue(values[i]))
    IN  [nodes  |-> [i \in DOMAIN kept |-> found.nodes[kept[i]]],
         raises |-> found.raises \cup {v[2] : v \in {w \in ToSet(values) : IsRaised(w)}}]

\* LocationStep._evaluate
FromNode(t, step, n, ns) ==
    LET axis == OnAxis(t, step.axis, n) IN
    FoldLeft(LAMBDA found, predicate : Filtered(t, predicate, found, ns),
             [nodes  |-> SelectSeq(axis, LAMBDA m : Passes(t, step.test, m, ns)),
              raises |-> AxisRaises(t, step.axis, n)
                             \cup UNION {TestRaises(step.test, m, ns) : m \in ToSet(axis)}],
             step.predicates)

\* mutant: a node is yielded once for each context node that it was found from
JoinedAsTheyCome(found, more) ==
    [nodes |-> found.nodes \o more.nodes, raises |-> found.raises \cup more.raises]

\* what was yielded before isn't yielded again
Joined(found, more) ==
    [nodes  |-> found.nodes \o SelectSeq(more.nodes, LAMBDA m : ~Contains(found.nodes, m)),
     raises |-> found.raises \cup more.raises]

Nothing == [nodes |-> <<>>, raises |-> {}]

\* LocationStep.evaluate
Step(t, step, nodes, ns) ==
    FoldLeft(LAMBDA found, n : Joined(found, FromNode(t, step, n, ns)), Nothing, nodes)

\* where a path starts
Start(t, n, absolute) ==
    IF absolute THEN IF t.owned THEN Document ELSE Shim ELSE n

\* LocationPath.evaluate
Path(t, path, n, ns) ==
    FoldLeft(LAMBDA found, step : LET next == Step(t, step, found.nodes, ns) IN
                                  [next EXCEPT !.raises = @ \cup found.raises],
             [nodes |-> <<Start(t, n, path.absolute)>>, raises |-> {}], path.steps)

\* XPathExpression.evaluate takes the results of one more path
AddPath(found, more) ==
    LET refused == IF \E n \in ToSet(more.nodes) : IsDocumentNode(n)
                   THEN {"AssertionError"} ELSE {}
    IN  Joined(found, [more EXCEPT !.raises = @ \cup refused])

Query(t, expression, n, ns) ==
    FoldLeft(LAMBDA found, path : AddPath(found, Path(t, path, n, ns)), Nothing, expression)

\* xpath.evaluate; `given` is a set: of one mapping, or empty when there is none
EffectiveNamespaces(t, n, given) ==
    IF given # {} THEN CHOOSE ns \in given : TRUE
    ELSE IF IsTag(t, n) THEN [prefix \in {""} |-> t.nodes[n].ns]
    ELSE [prefix \in {} |-> ""]
=============================================================================
