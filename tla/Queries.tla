------------------------------- MODULE Queries -------------------------------
(***************************************************************************)
(* Querying a tree: an XPath expression is evaluated step by step, its     *)
(* results are sorted or compared; between two queries branches may be     *)
(* added with TagNode.fetch_or_create_by_xpath.                            *)
(*                                                                         *)
(* One location step is one action here: nothing else gets at the tree     *)
(* while the generators that make up a path are consumed.                  *)
(***************************************************************************)
EXTENDS XPath

CONSTANTS Trees,      \* the trees that are queried
          Steps,      \* location steps
          SecondPaths,\* absolute paths that may follow after a `|`
          Fetched,    \* what is given to fetch_or_create_by_xpath: sets of paths
          Given,      \* sets of at most one mapping: the argument `namespaces` of a query
          GivenToFetch, \* and that of a call of fetch_or_create_by_xpath
          MaxNodes      \* bound: the size up to which calls make a tree grow

VARIABLES
    tree,
    query,     \* "none", "going", "done" or the exception it ended with
    ns,        \* the query's namespaces
    nodes,     \* the node set after the last step, at last the results
    expected,  \* the node set that XPath asks for
    astray,    \* whether a step led beyond a document node
    call       \* the last call that fetched or created a node, and how it ended

vars == <<tree, query, ns, nodes, expected, astray, call>>

-----------------------------------------------------------------------------
(* What a step selects, by sets as the specification of XPath puts it *)

Root(t) == Start(t, Document, TRUE)

Below(t, n) == ToSet(Descendants(t, n))

DocumentOrder(t) == <<Root(t)>> \o Descendants(t, Root(t))

IsBefore(t, m, n) == PositionIn(DocumentOrder(t), m) < PositionIn(DocumentOrder(t), n)

Containing(t, n) == {m \in ToSet(DocumentOrder(t)) : n \in Below(t, m)}

NextContaining(t, n) == {m \in Containing(t, n) : Containing(t, n) \cap Below(t, m) = {}}

Selected(t, axis, n) ==
    LET all == ToSet(DocumentOrder(t))
        siblings == {m \in all \ {n} : NextContaining(t, m) = NextContaining(t, n)}
        behind == {m \in all : IsBefore(t, n, m)}
        before == {m \in all : IsBefore(t, m, n)} IN
    CASE axis = "self"               -> {n}
      [] axis = "child"              -> {m \in all : n \in NextContaining(t, m)}
      [] axis = "descendant"         -> Below(t, n)
      [] axis = "descendant-or-self" -> Below(t, n) \cup {n}
      [] axis = "parent"             -> NextContaining(t, n)
      [] axis = "ancestor"           -> Containing(t, n)
      [] axis = "ancestor-or-self"   -> Containing(t, n) \cup {n}
      [] axis = "following"          -> behind \ Below(t, n)
      [] axis = "following-sibling"  -> behind \cap siblings
      [] axis = "preceding"          -> before \ Containing(t, n)
      [] axis = "preceding-sibling"  -> before \cap siblings

IsReverse(axis) ==
    axis \in {"ancestor", "ancestor-or-self", "preceding", "preceding-sibling"}

\* how near m is among the nodes in S, along an axis
Proximity(t, axis, S, m) ==
    Cardinality({k \in S : k = m \/ (IF IsReverse(axis) THEN IsBefore(t, m, k)
                                     ELSE IsBefore(t, k, m))})

Holding(t, axis, S, predicate, namespaces) ==
    {m \in S : IsTrue(Value(t, predicate, [node |-> m, size |-> Cardinality(S),
                                           position |-> Proximity(t, axis, S, m)],
                            namespaces))}

StepSelects(t, step, S, namespaces) ==
    UNION {FoldLeft(LAMBDA found, p : Holding(t, step.axis, found, p, namespaces),
                    {m \in Selected(t, step.axis, n) : Passes(t, step.test, m, namespaces)},
                    step.predicates) : n \in S}

PathSelects(t, path, n, namespaces) ==
    FoldLeft(LAMBDA S, step : StepSelects(t, step, S, namespaces),
             {Start(t, n, path.absolute)}, path.steps)

-----------------------------------------------------------------------------
(* Evaluating an expression *)

Idle ==
    /\ query' = "none" /\ ns' = [prefix \in {} |-> ""]
    /\ nodes' = <<>> /\ expected' = {} /\ astray' = FALSE

Begin(n, absolute, given) ==
    /\ query = "none"
    /\ tree \in Trees   \* bound: trees that calls extended aren't queried stepwise
    /\ query' = "going"
    /\ ns' = EffectiveNamespaces(tree, n, given)
    /\ nodes' = <<Start(tree, n, absolute)>>
    /\ expected' = ToSet(nodes')
    /\ call' = {}
    /\ UNCHANGED <<tree, astray>>

\* whatever else a failing generator yielded is lost
Take(step) ==
    LET found == Step(tree, step, nodes, ns) IN
    /\ query = "going"
    /\ IF found.raises = {}
       THEN /\ nodes' = found.nodes /\ UNCHANGED query
            /\ expected' = StepSelects(tree, step, expected, ns)
       ELSE /\ query' \in found.raises /\ nodes' = <<>> /\ expected' = {}
    /\ astray' = (astray \/ (tree.owned /\ Shim \in ToSet(found.nodes)))
    /\ UNCHANGED <<tree, ns, call>>

\* The path is the last one, or it is followed by another.
Finish(others) ==
    LET found == FoldLeft(LAMBDA r, path : AddPath(r, Path(tree, path, Document, ns)),
                          AddPath(Nothing, [nodes |-> nodes, raises |-> {}]), others) IN
    /\ query = "going"
    /\ IF found.raises = {}
       THEN /\ query' = "done" /\ nodes' = found.nodes
            /\ expected' = expected \cup UNION {PathSelects(tree, path, Document, ns)
                                                 : path \in ToSet(others)}
       ELSE /\ query' \in found.raises /\ nodes' = <<>> /\ expected' = {}
    /\ UNCHANGED <<tree, ns, call, astray>>

Forget ==
    /\ query \notin {"none", "going"}
    /\ Idle
    /\ UNCHANGED <<tree, call>>

-----------------------------------------------------------------------------
(* TagNode.location_path: the topmost tag, then positions among tag nodes *)

AnyTag == [type |-> "any name", prefix |-> ""]

AtPosition(i) ==
    [type |-> "operator", operator |-> "=",
     arguments |-> <<[type |-> "function", name |-> "position", arguments |-> <<>>],
                     [type |-> "any value", value |-> Number(i)]>>]

\* mutant: nodes of all kinds are counted
IndexAmongAll(t, n) == PositionIn(Siblings(t, n), n)

TagIndex(t, n) ==
    PositionIn(SelectSeq(Siblings(t, n), LAMBDA m : IsTag(t, m)), n)

RECURSIVE LocationSteps(_, _)
LocationSteps(t, n) ==
    IF IsDocumentNode(Above(t, n))
    THEN <<[axis |-> "child", test |-> AnyTag, predicates |-> <<>>]>>
    ELSE Append(LocationSteps(t, Above(t, n)),
                [axis |-> "child", test |-> AnyTag,
                 predicates |-> <<AtPosition(TagIndex(t, n))>>])

LocationPath(t, n) == [absolute |-> TRUE, steps |-> LocationSteps(t, n)]

-----------------------------------------------------------------------------
(* QueryResults.in_document_order *)

\* the indexes that lead from the topmost node to n
RECURSIVE Trail(_, _)
Trail(t, n) ==
    IF IsDocumentNode(Above(t, n)) THEN <<>>
    ELSE Append(Trail(t, Above(t, n)), PositionIn(Siblings(t, n), n))

\* _NodesSorter.emit; S has the trails of the nodes that were added to a sorter
RECURSIVE Emitted(_)
\* mutant: a node comes after its descendants
EmittedAtLast(S) ==
    LET indexes == {Head(trail) : trail \in S \ {<<>>}}
        under(i) == {Tail(trail) : trail \in {s \in S \ {<<>>} : Head(s) = i}}
    IN  FlattenSeq([k \in 1 .. Cardinality(indexes) |->
                   LET i == SetToSortSeq(indexes, <)[k]
                       trails == Emitted(under(i))
                   IN  [j \in DOMAIN trails |-> <<i>> \o trails[j]]])
            \o (IF <<>> \in S THEN <<<<>>>> ELSE <<>>)

Emitted(S) ==
    LET indexes == {Head(trail) : trail \in S \ {<<>>}}
        under(i) == {Tail(trail) : trail \in {s \in S \ {<<>>} : Head(s) = i}}
    IN  (IF <<>> \in S THEN <<<<>>>> ELSE <<>>)
            \o FlattenSeq([k \in 1 .. Cardinality(indexes) |->
                   LET i == SetToSortSeq(indexes, <)[k]
                       trails == Emitted(under(i))
                   IN  [j \in DOMAIN trails |-> <<i>> \o trails[j]]])

\* None but tag nodes can be sorted.
InDocumentOrder(t, results) ==
    LET sorted == Emitted({Trail(t, n) : n \in ToSet(results)}) IN
    [i \in DOMAIN sorted |-> CHOOSE n \in ToSet(results) : Trail(t, n) = sorted[i]]

-----------------------------------------------------------------------------
(* compare_trees: the first difference between the trees at two nodes.  It *)
(* counts and visits the children that pass the default filters; `shown`   *)
(* are the kinds of nodes that do.                                         *)

AllKinds == {"tag", "text", "comment"}

\* iterate_children
ShownKids(t, n, shown) == SelectSeq(t.nodes[n].kids, LAMBDA k : t.nodes[k].kind \in shown)

\* mutant: the nodes are swapped
DifferenceSwapped(kind, m, n) == <<[kind |-> kind, nodes |-> <<n, m>>]>>

Difference(kind, m, n) == <<[kind |-> kind, nodes |-> <<m, n>>]>>

RECURSIVE Compared(_, _, _, _)
Compared(t, m, n, shown) ==
    LET a == t.nodes[m]
        b == t.nodes[n]
        aKids == ShownKids(t, m, shown)
        bKids == ShownKids(t, n, shown) IN
    CASE a.kind # b.kind -> Difference("NodeType", m, n)
      [] a.kind # "tag" ->
            IF a.local = b.local /\ a.content = b.content THEN <<>>
            ELSE Difference("NodeContent", m, n)
      [] a.ns # b.ns                 -> Difference("TagNamespace", m, n)
      [] a.local # b.local           -> Difference("TagLocalName", m, n)
      [] a.attributes # b.attributes -> Difference("TagAttributes", m, n)
      [] Len(aKids) # Len(bKids)     -> Difference("TagChildrenSize", m, n)
      [] OTHER ->
            FoldLeft(LAMBDA found, i : IF found # <<>> THEN found
                                       ELSE Compared(t, aKids[i], bKids[i], shown),
                     <<>>, [i \in DOMAIN aKids |-> i])

-----------------------------------------------------------------------------
(* TagNode.fetch_or_create_by_xpath *)

\* EvaluationNode._is_unambiguously_locatable
RECURSIVE Locatable(_)
Locatable(e) ==
    /\ e.type = "operator"
    /\ LET left == e.arguments[1]
           right == e.arguments[2] IN
       \/ e.operator = "and" /\ Locatable(left) /\ Locatable(right)
       \/ /\ e.operator = "=" /\ {left.type, right.type} = {"attribute value", "any value"}
          /\ \A v \in {left, right} : v.type = "any value" => v.value[1] = "str"

LocatableStep(step) ==
    /\ step.axis = "child" /\ step.test.type = "name"
    /\ \A p \in ToSet(step.predicates) : Locatable(p)

LocatableQuery(expression) ==
    Len(expression) = 1 /\ \A step \in ToSet(expression[1].steps) : LocatableStep(step)

\* _derived_attributes
RECURSIVE Derived(_)
Derived(e) ==
    LET left == e.arguments[1]
        right == e.arguments[2] IN
    IF e.operator = "and" THEN Derived(left) \o Derived(right)
    ELSE IF left.type = "attribute value" THEN <<[name |-> left, value |-> right.value[2]]>>
    ELSE <<[name |-> right, value |-> left.value[2]]>>

\* mutant: predicates aren't considered
NoAttributes(step) == <<>>

StepAttributes(step) ==
    FlattenSeq([i \in DOMAIN step.predicates |-> Derived(step.predicates[i])])

\* Assigning a value to an attribute replaces one of the same name.
WithAttribute(known, a, namespaces) ==
    LET new == [ns |-> Lookup(namespaces, a.name.prefix), local |-> a.name.local,
                value |-> a.value]
    IN  {b \in known : b.ns # new.ns \/ b.local # new.local} \cup {new}

\* An unprefixed name, the prefix being None, isn't found in the mapping.
BranchNamespace(step, namespaces) ==
    IF step.test.prefix = "" THEN "" ELSE Lookup(namespaces, step.test.prefix)

WithBranch(t, n, step, namespaces) ==
    LET new == Len(t.nodes) + 1
        record == [kind |-> "tag", ns |-> BranchNamespace(step, namespaces),
                   local |-> step.test.local, content |-> <<>>, kids |-> <<>>, parent |-> n,
                   attributes |-> FoldLeft(LAMBDA known, a : WithAttribute(known, a, namespaces),
                                           {}, StepAttributes(step))]
    IN  [t EXCEPT !.nodes = Append([@ EXCEPT ![n].kids = Append(@, new)], record)]

\* mutant: existing nodes aren't used
ExtendedAnyway(s, step, namespaces) ==
    IF s.outcomes = {} /\ IsTag(s.tree, s.node)
    THEN [s EXCEPT !.tree = WithBranch(@, s.node, step, namespaces),
                   !.node = Len(s.tree.nodes) + 1]
    ELSE s

\* one round of the loop in _create_by_xpath; s holds the tree, where the branch has
\* arrived and how the call ends
Extended(s, step, namespaces) ==
    LET found == Step(s.tree, step, <<s.node>>, namespaces)
        ends(exceptions) == [s EXCEPT !.outcomes = exceptions] IN
    CASE s.outcomes # {}       -> s
      [] found.raises # {}     -> ends(found.raises)
      [] Len(found.nodes) > 1  -> ends({"AmbiguousTreeError"})
      [] Len(found.nodes) = 1  -> [s EXCEPT !.node = found.nodes[1]]
      [] ~IsTag(s.tree, s.node) -> ends({"AssertionError"})
      [] OTHER -> [s EXCEPT !.tree = WithBranch(@, s.node, step, namespaces),
                            !.node = Len(s.tree.nodes) + 1]

\* _create_by_xpath; an absolute path makes a document node above a parentless root
Created(t, path, n, namespaces) ==
    LET at == IF path.absolute THEN [t EXCEPT !.owned = TRUE] ELSE t IN
    FoldLeft(LAMBDA s, step : Extended(s, step, namespaces),
             [tree |-> at, node |-> Start(at, n, path.absolute), outcomes |-> {}], path.steps)

\* an empty mapping is taken for none here
BranchNamespaces(t, n, given) ==
    EffectiveNamespaces(t, n, {m \in given : DOMAIN m # {}})

FetchOrCreate(n, expression, given) ==
    LET found == Query(tree, expression, n, EffectiveNamespaces(tree, n, given))
        made == Created(tree, expression[1], n, BranchNamespaces(tree, n, given))
        ended(outcome, t, node) ==
            /\ tree' = t
            /\ call' = {[node |-> n, expression |-> expression, given |-> given,
                         outcome |-> outcome, result |-> node, before |-> tree]} IN
    /\ query = "none" /\ IsTag(tree, n)
    /\ CASE ~LocatableQuery(expression) -> ended("ValueError", tree, n)
         [] found.raises # {} -> \E exc \in found.raises : ended(exc, tree, n)
         [] Len(found.nodes) = 1 -> ended("ok", tree, found.nodes[1])
         [] Len(found.nodes) > 1 -> ended("AmbiguousTreeError", tree, n)
         [] OTHER ->
              /\ Len(made.tree.nodes) <= MaxNodes
              /\ IF made.outcomes = {} THEN ended("ok", made.tree, made.node)
                 ELSE \E exc \in made.outcomes : ended(exc, made.tree, n)
    /\ UNCHANGED <<query, ns, nodes, expected, astray>>

-----------------------------------------------------------------------------

Init ==
    /\ tree \in Trees
    /\ query = "none" /\ ns = [prefix \in {} |-> ""]
    /\ nodes = <<>> /\ expected = {} /\ astray = FALSE
    /\ call = {}

Ids(t) == DOMAIN t.nodes

Next ==
    \/ \E n \in Ids(tree), absolute \in BOOLEAN, given \in Given : Begin(n, absolute, given)
    \/ \E step \in Steps : Take(step)
    \/ \E others \in {<<>>} \cup {<<path>> : path \in SecondPaths} : Finish(others)
    \/ Forget
    \/ \E n \in Ids(tree), expression \in Fetched, given \in GivenToFetch :
          FetchOrCreate(n, expression, given)

Spec == Init /\ [][Next]_vars

-----------------------------------------------------------------------------
(* Properties *)

\* However many steps are taken, a path yields each node once that XPath's specification
\* asks for and no other, as long as it doesn't lead beyond a document node: positions
\* are counted along the axis and anew for each predicate (LocationStep.evaluate).  In
\* any case results contain no document node, whose members are unusable.
PathsYieldTheirNodeSets ==
    /\ query \in {"going", "done"} /\ ~astray =>
           ToSet(nodes) = expected /\ Len(nodes) = Cardinality(expected)
    /\ query = "done" => ToSet(nodes) \subseteq Ids(tree)

\* A tag node's location path leads to it and nowhere else, from any node in the tree
\* (TagNode.location_path).
LocationPathsAreUnambiguous ==
    query = "none" => \A n, m \in Ids(tree) :
        IsTag(tree, n) => Query(tree, <<LocationPath(tree, n)>>, m, [p \in {} |-> ""])
                              = [nodes |-> <<n>>, raises |-> {}]

\* Results that are tag nodes end up in the order of the document, whatever order the
\* axes gave them (_sort_nodes_in_document_order).
SortingFollowsTheDocument ==
    query = "done" /\ (\A n \in ToSet(nodes) : IsTag(tree, n)) =>
        InDocumentOrder(tree, nodes)
            = SelectSeq(DocumentOrder(tree), LAMBDA n : Contains(nodes, n))

\* n and what is below it, without nodes of other kinds and what is below these
ShownSubtree(t, n, shown) ==
    <<n>> \o SelectSeq(Descendants(t, n), LAMBDA d :
                 \A x \in {d} \cup (Below(t, n) \cap ToSet(Ancestors(t, d))) :
                     t.nodes[x].kind \in shown)

\* what a tree looks like at one of its nodes
Face(t, n, shown) ==
    LET r == t.nodes[n] IN
    <<r.kind, r.ns, r.local, r.content, r.attributes,
      Cardinality({i \in DOMAIN r.kids : t.nodes[r.kids[i]].kind \in shown})>>

\* the trees at m and n compared as they look to a client that sees some kinds of nodes
DifferenceIsSeen(t, m, n, shown, compared) ==
    LET a == ShownSubtree(t, m, shown)
        b == ShownSubtree(t, n, shown)
        differing == {i \in DOMAIN a \cap DOMAIN b :
                         Face(t, a[i], shown) # Face(t, b[i], shown)}
    IN  IF compared = <<>> THEN differing = {} /\ Len(a) = Len(b)
        ELSE /\ differing # {}
             /\ LET i == CHOOSE i \in differing : \A j \in differing : i <= j
                IN  compared[1].nodes = <<a[i], b[i]>>

\* Whatever the default filters show, two trees compare as equal if and only if those
\* nodes are the same one by one, else the first ones are named that aren't
\* (compare_trees).  The two topmost nodes are compared in any case.
FirstDifferenceIsReported ==
    query = "none" =>
        \A m, n \in Ids(tree), shown \in SUBSET AllKinds :
            DifferenceIsSeen(tree, m, n, shown, Compared(tree, m, n, shown))

\* whether the names that the call creates mean what they mean in its query
NamesAgree(c) ==
    LET known == EffectiveNamespaces(c.before, c.node, c.given) IN
    /\ Lookup(known, "") = ""
    /\ c.given = {} \/ known # [p \in {} |-> ""]
    /\ \A step \in ToSet(c.expression[1].steps) : PrefixRaises(step.test, known) = {}

\* A node that was fetched or created is the one that the expression finds from then
\* on, a repeated call doesn't create another one.  Names without a prefix are exempt
\* if there is a default namespace (fetch_or_create_by_xpath).
FetchedIsFound ==
    \A c \in call :
        c.outcome = "ok" /\ NamesAgree(c) =>
            Query(tree, c.expression, c.node, EffectiveNamespaces(tree, c.node, c.given))
                = [nodes |-> <<c.result>>, raises |-> {}]

Prefix(path, k) == [path EXCEPT !.steps = SubSeq(@, 1, k)]

\* What exists of a branch is used: the new nodes form a chain, the first one is
\* appended to the one node that the longest prefix of the path selects, there's a node
\* per remaining step.  A call that raises adds nothing (_create_by_xpath).
OnlyTheMissingBranchIsAdded ==
    \A c \in call :
        LET old == Len(c.before.nodes)
            new == old + 1 .. Len(tree.nodes)
            namespaces == BranchNamespaces(c.before, c.node, c.given)
            path == c.expression[1]
            existing(k) == PathSelects(c.before, Prefix(path, k), c.node, namespaces) IN
        /\ \A n \in new :
              /\ n # old + 1 => tree.nodes[n].parent = n - 1
              /\ tree.nodes[n].kids = IF n = Len(tree.nodes) THEN <<>> ELSE <<n + 1>>
        /\ \A n \in 1 .. old : tree.nodes[n] =
              IF new # {} /\ n = tree.nodes[old + 1].parent
              THEN [c.before.nodes[n] EXCEPT !.kids = Append(@, old + 1)]
              ELSE c.before.nodes[n]
        /\ new # {} =>
              LET k == Len(path.steps) - Cardinality(new) IN
              /\ c.outcome = "ok" /\ c.result = Len(tree.nodes)
              /\ existing(k) = {tree.nodes[old + 1].parent}
              /\ existing(k + 1) = {}
        /\ new = {} /\ c.outcome = "ok" => path.absolute \/ tree = c.before
=============================================================================
