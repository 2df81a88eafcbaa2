------------------------------ MODULE Traversal ------------------------------
(***************************************************************************)
(* The generators that walk over a tree (_delb/nodes.py, _delb/utils.py),  *)
(* while their client may remove nodes between two results.                *)
(*                                                                         *)
(* A generator's control is a stack of frames, as nested `yield from`s     *)
(* make it: the topmost one runs until it yields, returns or raises.  It   *)
(* reads the tree when it runs, hence after what the client did meanwhile. *)
(*                                                                         *)
(* The nodes are numbered in document order, removals keep that order.     *)
(* Parents are read off the lists, Tree.tla shows that they agree.         *)
(***************************************************************************)
EXTENDS PyLists, FiniteSets, SequencesExt

CONSTANTS N,          \* bound: the largest number of nodes in a tree
          Removals,   \* bound: how many removals a client makes during a walk, by the
                      \* number of nodes
          NIL

ASSUME BoundsAreNaturals == N \in Nat \ {0} /\ Removals \in [1 .. N -> Nat]
ASSUME NilIsNoNode == NIL \notin 0 .. N

Document == 0         \* the document node
Nodes == 1 .. N
Owners == Nodes \cup {Document}

VARIABLES
    children,  \* _ParentNode._child_nodes
    size,      \* nodes that the tree was built from
    root,      \* the tag node that may have descendants
    walk,      \* the generator method, the node it was called on, its include_... argument
    frames,    \* the suspended or running generators, the innermost one last
    status,    \* of the outermost generator
    yielded,   \* its results
    removed,   \* pairs: a node that the client detached and the number of results by then
    origin     \* the child lists as the walk found them

vars == <<children, size, root, walk, frames, status, yielded, removed, origin>>
tree == <<children, size, root>>

-----------------------------------------------------------------------------
(* The tree that child lists make up *)

ParentIn(lists, n) == IF \E p \in Owners : n \in Elems(lists[p])
                      THEN CHOOSE p \in Owners : n \in Elems(lists[p])
                      ELSE NIL

\* _NodeCommons._iterate_ancestors, as a set
AncestorsIn(lists, n) ==
    LET up[m \in Owners] ==
            IF ParentIn(lists, m) \in {Document, NIL} THEN {}
            ELSE {ParentIn(lists, m)} \cup up[ParentIn(lists, m)]
    IN  up[n]

Parent(n) == ParentIn(children, n)

Ancestors(n) == AncestorsIn(children, n)

Position(n) == PositionOf(children[Parent(n)], n)

\* The number of a node's nearest ancestor is the greatest.
Greatest(S) == CHOOSE m \in S : \A k \in S : k <= m

-----------------------------------------------------------------------------
(* What a walk should yield, according to the tree that it found *)

Walks == [axis : {"ancestors", "children", "following siblings", "preceding siblings",
                  "descendants", "reversed descendants", "bottom up", "breadth first"},
          node : Nodes, wide : {FALSE}]
             \cup [axis : {"following", "preceding"}, node : Nodes, wide : BOOLEAN]

Siblings(n) == {m \in Nodes : /\ ParentIn(origin, m) # NIL
                              /\ ParentIn(origin, m) = ParentIn(origin, n)}

Descendants(n) == {m \in Nodes : n \in AncestorsIn(origin, m)}

AxisNodes(w) ==
    LET n == w.node IN
    CASE w.axis = "ancestors"          -> AncestorsIn(origin, n)
      [] w.axis = "children"           -> Elems(origin[n])
      [] w.axis = "following siblings" -> {m \in Siblings(n) : m > n}
      [] w.axis = "preceding siblings" -> {m \in Siblings(n) : m < n}
      [] w.axis = "descendants"        -> Descendants(n)
      [] w.axis = "following"          ->
            (n + 1 .. size) \ (IF w.wide THEN {} ELSE Descendants(n))
      [] w.axis = "preceding"          ->
            (1 .. n - 1) \ (IF w.wide THEN {} ELSE AncestorsIn(origin, n))
      [] OTHER                         -> Descendants(n) \cup {n}

AfterDescendants(m, n) ==
    m \in AncestorsIn(origin, n) \/ (m > n /\ n \notin AncestorsIn(origin, m))

Depth(n) == Cardinality(AncestorsIn(origin, n))

Higher(m, n) == Depth(m) < Depth(n) \/ (Depth(m) = Depth(n) /\ m < n)

\* the order of an axis
Precedes(axis, m, n) ==
    CASE axis \in {"ancestors", "preceding siblings", "preceding",
                   "reversed descendants"} -> m > n
      [] axis = "bottom up"                -> AfterDescendants(n, m)
      [] axis = "breadth first"            -> Higher(m, n)
      [] OTHER                             -> m < n

-----------------------------------------------------------------------------
(* Frames, as they are when the generator starts *)

AncestorsFrame(n) == [gen |-> "ancestors", node |-> n]

ChildrenFrame(n) == [gen |-> "children", owner |-> n, next |-> 1]

\* `rest` is the copied slice that the inner loop runs over, `last` what it yielded
DescendantsFrame(n) ==
    [gen |-> "descendants", stack |-> <<[owner |-> n, pointer |-> 0]>>,
     owner |-> n, pointer |-> 0, rest |-> <<>>, last |-> NIL]

\* The range of indexes is fixed here.  deep: each sibling's descendants are walked as
\* well, which is what _iterate_following and _iterate_preceding use it for.
FollowingSiblingsFrame(n, deep) ==
    [gen |-> "following siblings", owner |-> Parent(n), deep |-> deep,
     next |-> IF Parent(n) = NIL THEN 1 ELSE Position(n) + 1,
     end  |-> IF Parent(n) = NIL THEN 0 ELSE Len(children[Parent(n)])]

PrecedingSiblingsFrame(n, deep) ==
    [gen |-> "preceding siblings", owner |-> Parent(n), deep |-> deep,
     next |-> IF Parent(n) = NIL THEN 0 ELSE Position(n) - 1]

FollowingFrame(n, wide) ==
    [gen |-> "following", node |-> n, wide |-> wide, at |-> "start"]

PrecedingFrame(n, wide) ==
    [gen |-> "preceding", node |-> n, parent |-> NIL, wide |-> wide, at |-> "start"]

\* the lists on the stack are copies
BottomUpFrame(n, forward) ==
    [gen |-> "bottom up", forward |-> forward,
     stack |-> <<[node |-> n, rest |-> children[n]]>>]

BreadthFirstFrame(n) == [gen |-> "breadth first", queue |-> <<n>>]

FirstFrame(w) ==
    CASE w.axis = "ancestors"            -> AncestorsFrame(w.node)
      [] w.axis = "children"             -> ChildrenFrame(w.node)
      [] w.axis = "following siblings"   -> FollowingSiblingsFrame(w.node, FALSE)
      [] w.axis = "preceding siblings"   -> PrecedingSiblingsFrame(w.node, FALSE)
      [] w.axis = "descendants"          -> DescendantsFrame(w.node)
      [] w.axis = "following"            -> FollowingFrame(w.node, w.wide)
      [] w.axis = "preceding"            -> PrecedingFrame(w.node, w.wide)
      [] w.axis = "reversed descendants" -> BottomUpFrame(w.node, FALSE)
      [] w.axis = "bottom up"            -> BottomUpFrame(w.node, TRUE)
      [] w.axis = "breadth first"        -> BreadthFirstFrame(w.node)

-----------------------------------------------------------------------------
(* Steps of the running generator *)

f == Last(frames)

Inner(new) == Front(frames) \o new

Continue(new) ==
    /\ frames' = Inner(new)
    /\ status' = IF Inner(new) = <<>> THEN "done" ELSE "running"
    /\ UNCHANGED yielded

Return == Continue(<<>>)

Yield(n, new) ==
    /\ frames' = Inner(new)
    /\ status' = "suspended"
    /\ yielded' = Append(yielded, n)

RaiseIndexError ==
    /\ frames' = <<>>
    /\ status' = "IndexError"
    /\ UNCHANGED yielded

StepAncestors ==
    /\ f.gen = "ancestors"
    /\ LET p == Parent(f.node) IN
       IF p \in {Document, NIL} THEN Return ELSE Yield(p, <<AncestorsFrame(p)>>)

\* a list's iterator: an index into the list as it is now
StepChildren ==
    /\ f.gen = "children"
    /\ IF f.next <= Len(children[f.owner])
       THEN Yield(children[f.owner][f.next], <<[f EXCEPT !.next = @ + 1]>>)
       ELSE Return

\* mutant: the siblings are continued before the descendants
DescendLast(owner, pointer, n) ==
    <<[owner |-> n, pointer |-> 0], [owner |-> owner, pointer |-> pointer]>>

Descend(owner, pointer, n) ==
    <<[owner |-> owner, pointer |-> pointer], [owner |-> n, pointer |-> 0]>>

\* Whether the last result has children is looked up after the client had it.
StepDescendants ==
    /\ f.gen = "descendants"
    /\ IF f.last # NIL /\ children[f.last] # <<>>
       THEN Continue(<<[f EXCEPT !.stack = @ \o Descend(f.owner, f.pointer, f.last),
                                 !.rest = <<>>, !.last = NIL]>>)
       ELSE IF f.rest # <<>>
       THEN Yield(Head(f.rest), <<[f EXCEPT !.rest = Tail(@), !.last = Head(f.rest),
                                            !.pointer = @ + 1]>>)
       ELSE IF f.stack = <<>> THEN Return
       ELSE LET top == Last(f.stack) IN
            Continue(<<[f EXCEPT !.stack = Front(@), !.last = NIL,
                                 !.owner = top.owner, !.pointer = top.pointer,
                                 !.rest = SubSeq(children[top.owner], top.pointer + 1,
                                                 Len(children[top.owner]))]>>)

StepFollowingSiblings ==
    /\ f.gen = "following siblings"
    /\ IF f.next > f.end THEN Return
       ELSE IF f.next > Len(children[f.owner]) THEN RaiseIndexError
       ELSE LET n == children[f.owner][f.next] IN
            Yield(n, <<[f EXCEPT !.next = @ + 1]>>
                        \o IF f.deep THEN <<DescendantsFrame(n)>> ELSE <<>>)

StepPrecedingSiblings ==
    /\ f.gen = "preceding siblings"
    /\ IF f.next = 0 THEN Return
       ELSE IF f.next > Len(children[f.owner]) THEN RaiseIndexError
       ELSE LET n == children[f.owner][f.next]
                resumed == [f EXCEPT !.next = @ - 1] IN
            IF f.deep THEN Continue(<<resumed, BottomUpFrame(n, FALSE)>>)
                      ELSE Yield(n, <<resumed>>)

\* _fetch_following_sibling finds one
HasFollowingSibling(n) == Parent(n) # NIL /\ Last(children[Parent(n)]) # n

StepFollowing ==
    /\ f.gen = "following"
    /\ \/ /\ f.at = "start"
          /\ Continue(<<[f EXCEPT !.at = "siblings"]>>
                         \o IF f.wide THEN <<DescendantsFrame(f.node)>> ELSE <<>>)
       \/ /\ f.at = "siblings"
          /\ IF Parent(f.node) = NIL THEN Return
             ELSE Continue(<<[f EXCEPT !.at = "ancestors"],
                             FollowingSiblingsFrame(f.node, TRUE)>>)
       \/ /\ f.at = "ancestors"
          /\ LET found == {a \in Ancestors(f.node) : HasFollowingSibling(a)} IN
             IF found = {} THEN Return
             ELSE LET a == Greatest(found)
                      next == children[Parent(a)][Position(a) + 1] IN
                  Yield(next, <<FollowingFrame(next, TRUE)>>)

\* mutant: the walk does not go beyond its node's siblings
EndsAnyway(n) == TRUE

EndsPreceding(n) == n = Document

\* mutant: the walk goes on where it was
SameAgain(frame) == frame.node

Upwards(frame) == frame.parent

StepPreceding ==
    /\ f.gen = "preceding"
    /\ \/ /\ f.at = "start"
          /\ IF Parent(f.node) = NIL THEN Return
             ELSE Continue(<<[f EXCEPT !.at = "parent", !.parent = Parent(f.node)],
                             PrecedingSiblingsFrame(f.node, TRUE)>>)
       \/ /\ f.at = "parent"
          /\ IF EndsPreceding(f.parent) THEN Return
             ELSE IF f.wide THEN Yield(f.parent, <<PrecedingFrame(f.parent, TRUE)>>)
             ELSE Continue(<<PrecedingFrame(Upwards(f), FALSE)>>)

Popped(top) == IF f.forward THEN [top EXCEPT !.rest = Tail(@)]
                            ELSE [top EXCEPT !.rest = Front(@)]

StepBottomUp ==
    /\ f.gen = "bottom up"
    /\ IF f.stack = <<>> THEN Return
       ELSE LET top == Last(f.stack)
                under == Front(f.stack) IN
            IF top.rest = <<>> THEN Yield(top.node, <<[f EXCEPT !.stack = under]>>)
            ELSE LET n == IF f.forward THEN Head(top.rest) ELSE Last(top.rest)
                     kept == Append(under, Popped(top)) IN
                 IF children[n] = <<>> THEN Yield(n, <<[f EXCEPT !.stack = kept]>>)
                 ELSE Continue(<<[f EXCEPT !.stack =
                          Append(kept, [node |-> n, rest |-> children[n]])]>>)

StepBreadthFirst ==
    /\ f.gen = "breadth first"
    /\ IF f.queue = <<>> THEN Return
       ELSE Yield(Head(f.queue),
                  <<[f EXCEPT !.queue = Tail(@) \o children[Head(f.queue)]]>>)

Run ==
    /\ status = "running"
    /\ \/ StepAncestors \/ StepChildren \/ StepDescendants
       \/ StepFollowingSiblings \/ StepPrecedingSiblings
       \/ StepFollowing \/ StepPreceding \/ StepBottomUp \/ StepBreadthFirst
    /\ UNCHANGED <<tree, walk, removed, origin>>

-----------------------------------------------------------------------------
(* The client *)

\* Building the tree in document order: a new node goes behind the latest one, below it
\* or below one of its ancestors.  Only the root's descendants have children.
Build(p) ==
    LET n == size + 1 IN
    /\ status = "building"
    /\ n \in Nodes
    /\ IF p = Document THEN children[Document] # <<>>
       ELSE /\ p \in {size} \cup Ancestors(size)
            /\ root \in {p} \cup Ancestors(p)
    /\ children' = [children EXCEPT ![p] = Append(@, n)]
    /\ size' = n
    /\ UNCHANGED <<root, walk, frames, status, yielded, removed, origin>>

\* the call of a walk's method and of the generator's first next()
Start(w) ==
    /\ status = "building"
    /\ root <= size
    /\ w.node <= size
    /\ walk' = w
    /\ origin' = children
    /\ frames' = <<FirstFrame(w)>>
    /\ status' = "running"
    /\ UNCHANGED <<tree, yielded, removed>>

\* another next()
Resume ==
    /\ status = "suspended"
    /\ status' = IF frames = <<>> THEN "done" ELSE "running"
    /\ UNCHANGED <<tree, walk, frames, yielded, removed, origin>>

\* n.detach(), the root of a document can't be detached
Detach(n) ==
    /\ status = "suspended"
    /\ Cardinality(removed) < Removals[size]
    /\ Parent(n) # NIL
    /\ n # root
    /\ children' = [children EXCEPT ![Parent(n)] = RemoveAt(@, Position(n))]
    /\ removed' = removed \cup {<<n, Len(yielded)>>}
    /\ UNCHANGED <<size, root, walk, frames, status, yielded, origin>>

-----------------------------------------------------------------------------

\* A tree of its own or one in a document, with the first node in place.
Init ==
    /\ root \in Nodes
    /\ \/ root = 1 /\ children = [p \in Owners |-> <<>>]
       \/ children = [p \in Owners |-> IF p = Document THEN <<1>> ELSE <<>>]
    /\ size = 1
    /\ walk = NIL
    /\ frames = <<>>
    /\ status = "building"
    /\ yielded = <<>>
    /\ removed = {}
    /\ origin = children

Next ==
    \/ \E p \in Owners : Build(p)
    \/ \E w \in Walks : Start(w)
    \/ Run
    \/ Resume
    \/ \E n \in Nodes : Detach(n)

\* a next() that was called runs until it returns
Spec == Init /\ [][Next]_vars /\ WF_vars(Run)

-----------------------------------------------------------------------------
(* Properties *)

Started == status # "building"

\* strictly, hence no node twice
InOrder ==
    /\ Elems(yielded) \subseteq AxisNodes(walk)
    /\ \A i, j \in DOMAIN yielded :
          i < j => Precedes(walk.axis, yielded[i], yielded[j])

NothingSkipped ==
    \A m \in AxisNodes(walk), i \in DOMAIN yielded :
        Precedes(walk.axis, m, yielded[i]) => m \in Elems(yielded)

Exhausted == AxisNodes(walk) \subseteq Elems(yielded)

\* On a tree that is left alone every walk yields the nodes of its axis, each once, in
\* the axis' order, and ends.
YieldsTheAxis ==
    Started /\ removed = {} =>
        /\ InOrder
        /\ NothingSkipped
        /\ status = "done" => Exhausted
        /\ status # "IndexError"

Forward == {"ancestors", "children", "following siblings", "descendants", "following",
            "reversed descendants", "bottom up", "breadth first"}

\* Whatever is removed during a walk that does not go back over siblings, it yields
\* nothing that it would not have yielded, nothing twice and keeps the order.
OrderSurvivesRemovals == Started /\ walk.axis \in Forward => InOrder

OnlyResultsRemoved ==
    \A r \in removed : \E i \in 1 .. r[2] : yielded[i] = r[1]

IsRobust(w) ==
    \/ w.axis \in {"preceding siblings", "reversed descendants", "bottom up",
                   "breadth first"}
    \/ w.axis = "preceding" /\ ~w.wide

\* A loop may detach any node that it was given and still gets all of them if it goes
\* backwards, bottom-up or breadth first.
ResultsMayBeRemoved ==
    status \in {"done", "IndexError"} /\ OnlyResultsRemoved /\ IsRobust(walk) =>
        status = "done" /\ InOrder /\ Exhausted

\* Each next() comes to an end, also on a tree that was changed meanwhile.
NextReturns == status = "running" ~> status # "running"
=============================================================================
