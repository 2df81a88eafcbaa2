-------------------------------- MODULE Tree --------------------------------
(***************************************************************************)
(* The node tree of delb: the parent pointers and the child lists that     *)
(* _delb/nodes.py keeps, and every public call that changes them.          *)
(*                                                                         *)
(* A node is an identity.  `made` holds the objects that exist; an         *)
(* identity outside of it stands for an object a call may still create:    *)
(* a text node for a given string, a tag node for a given tag definition,  *)
(* the copy a clone returns.  Contents and attributes are left out.        *)
(*                                                                         *)
(* One call is one step.  A call that raises leaves what it had done       *)
(* behind and its exception's name in `outcome`.                           *)
(***************************************************************************)
EXTENDS PyLists

CONSTANTS Docs,     \* document nodes, one per Document instance
          Tags,     \* TagNode identities
          Texts,    \* TextNode identities
          Misc,     \* CommentNode and ProcessingInstructionNode identities
          Root,     \* the root that each document is loaded with
          MaxArgs,  \* bound on the number of nodes given to one call
          NIL       \* Python's None

ASSUME KindsAreDisjoint ==
    /\ Docs \cap Tags = {} /\ Docs \cap Texts = {} /\ Docs \cap Misc = {}
    /\ Tags \cap Texts = {} /\ Tags \cap Misc = {} /\ Texts \cap Misc = {}
    /\ NIL \notin Docs \cup Tags \cup Texts \cup Misc

ASSUME RootsAreDistinctTags ==
    /\ Root \in [Docs -> Tags]
    /\ \A d, e \in Docs : Root[d] = Root[e] => d = e

ASSUME MaxArgsIsNat == MaxArgs \in Nat

Nodes   == Tags \cup Texts \cup Misc
Parents == Docs \cup Tags

Outcomes == {"ok", "InvalidOperation", "InvalidCodePath", "TypeError",
             "IndexError", "ValueError", "AttributeError"}

VARIABLES
    made,      \* the node objects that were constructed
    broken,    \* tag nodes whose constructor raised, they have no child list
    parent,    \* node._parent
    children,  \* node._child_nodes
    outcome    \* how the last call ended

vars == <<made, broken, parent, children, outcome>>

-----------------------------------------------------------------------------
(* Reading a tree *)

Usable == made \ broken

Position(n) == PositionOf(children[parent[n]], n)

\* the first tag node among a document node's children
RootPosition(d) ==
    CHOOSE i \in DOMAIN children[d] :
        /\ children[d][i] \in Tags
        /\ \A j \in 1..(i - 1) : children[d][j] \notin Tags

\* A holds p and, with a node, its parent: all that can be met on the way up
ClosedAbove(A, p) ==
    p \in A /\ \A m \in A \cap Nodes : parent[m] \in A \cup {NIL}

\* p and its ancestors
Above(p) == {x \in Parents : \A A \in SUBSET Parents : ClosedAbove(A, p) => x \in A}

-----------------------------------------------------------------------------
(* Siblings._handle_new_sibling: what keeps n from becoming a child of p   *)
(* after the nodes in S became some earlier in the same call.  A node that *)
(* is not made yet stands for a string or a definition unless it is one of *)
(* the copies the call has made of the given nodes.                        *)

IsDescription(n, copies) == n \notin made \cup copies

\* mutant: a document node takes any number of tags
SecondRootAllowed(p, S, n) == FALSE

SecondRoot(p, S, n) ==
    p \in Docs /\ n \in Tags /\ (Elems(children[p]) \cup S) \cap Tags # {}

\* mutant: a node that is in a tree is taken
AttachedInThisCall(S, n) == n \in S

Attached(S, n) == n \in S \/ parent[n] # NIL

Refusal(p, S, n, copies) ==
    IF p \in Docs /\ IsDescription(n, copies) THEN "TypeError"
    ELSE IF SecondRoot(p, S, n) THEN "InvalidCodePath"
    ELSE IF Attached(S, n) THEN "InvalidOperation"
    ELSE "ok"

\* the loops stop in front of the first node that is refused
StopsAfter(k, p, q, copies) ==
    /\ \A i \in 1..k : Refusal(p, Elems(SubSeq(q, 1, i - 1)), q[i], copies) = "ok"
    /\ k < Len(q) => Refusal(p, Elems(SubSeq(q, 1, k)), q[k + 1], copies) # "ok"

PointersAfter(p, i, j, block) ==
    [n \in Nodes |-> IF n \in Elems(block) THEN p
                     ELSE IF n \in Elems(Slice(children[p], i, j)) THEN NIL
                     ELSE parent[n]]

\* What Siblings, the one class that touches child lists, does to insert nodes: they
\* take the place of a part of p's list, and _parent is set accordingly.
Change(p, i, j, block) ==
    /\ children' = [children EXCEPT ![p] = SliceAssign(@, i, j, block)]
    /\ parent' = PointersAfter(p, i, j, block)

\* Makes the nodes in q children of p, one after the other.  Those that were
\* accepted end up as a block at position i, as they come or the other way round.
Place(p, i, q, copies, turned) ==
    \E k \in 0..Len(q) :
        LET placed == SubSeq(q, 1, k) IN
        /\ StopsAfter(k, p, q, copies)
        /\ Change(p, i, i, IF turned THEN Backwards(placed) ELSE placed)
        /\ made' = made \cup Elems(placed)
        /\ outcome' = IF k = Len(q) THEN "ok"
                      ELSE Refusal(p, Elems(placed), q[k + 1], copies)
        /\ UNCHANGED broken

Raise(exception) ==
    /\ outcome' = exception
    /\ UNCHANGED <<made, broken, parent, children>>

-----------------------------------------------------------------------------
(* Adding nodes.  A call is given the nodes os; with clone=True it adds    *)
(* the copies cs it makes of them, without it cs = os.                     *)

Copies(os, cs) == Elems(cs) \ Elems(os)

AppendChildren(p, os, cs) ==
    Place(p, Len(children[p]), cs, Copies(os, cs), FALSE)

\* The given nodes are visited in reversed order, each is inserted at `index`.
\* list.insert counts a negative index from the end of the list as it grows.
InsertAtIndex(p, index, cs, copies) ==
    LET size == Len(children[p]) IN
    IF index \in -size..size
    THEN Place(p, IF index >= 0 THEN index ELSE size + index, Backwards(cs), copies,
               index >= 0)
    ELSE Raise("IndexError")

InsertChildren(p, index, os, cs) == InsertAtIndex(p, index, cs, Copies(os, cs))

PrependChildren(p, os, cs) == InsertChildren(p, 0, os, cs)

\* Calls that first look at self._parent and then at its child list
WithParent(n, Call) ==
    IF parent[n] = NIL THEN Raise("InvalidOperation")
    ELSE IF parent[n] \in broken THEN Raise("AttributeError")
    ELSE Call

\* TagNode's override does not pass `clone` on: the given nodes are added.
Effective(n, os, cs) == IF n \in Tags THEN os ELSE cs

AddFollowingSiblings(n, os, cs) ==
    LET ns == Effective(n, os, cs)
    IN  WithParent(n, InsertAtIndex(parent[n], Position(n), ns, Copies(os, ns)))

AddPrecedingSiblings(n, os, cs) ==
    LET ns == Effective(n, os, cs)
    IN  WithParent(n, InsertAtIndex(parent[n], Position(n) - 1, Backwards(ns),
                                    Copies(os, ns)))

-----------------------------------------------------------------------------
(* Removing and replacing nodes *)

\* Siblings.remove, for all of p's children at the places in I
Remove(p, I) ==
    /\ children' = [children EXCEPT ![p] = Without(@, I)]
    /\ parent' = [n \in Nodes |-> IF \E i \in I : n = children[p][i] THEN NIL ELSE parent[n]]
    /\ outcome' = "ok"
    /\ UNCHANGED <<made, broken>>

\* mutants: n keeps listing its children; they arrive in reversed order
ListsAfterLiftUncleared(n, p) ==
    [children EXCEPT ![p] = SliceAssign(@, Position(n) - 1, Position(n), children[n])]

ListsAfterLiftReversed(n, p) ==
    [children EXCEPT ![p] = SliceAssign(@, Position(n) - 1, Position(n),
                                        Backwards(children[n])),
                     ![n] = <<>>]

\* the child lists when n's children have taken its place below p
ListsAfterLift(n, p) ==
    [children EXCEPT ![p] = SliceAssign(@, Position(n) - 1, Position(n), children[n]),
                     ![n] = <<>>]

Lift(n) ==
    LET p == parent[n] IN
    /\ children' = ListsAfterLift(n, p)
    /\ parent' = [m \in Nodes |-> IF m = n THEN NIL
                                  ELSE IF m \in Elems(children[n]) THEN p
                                  ELSE parent[m]]
    /\ outcome' = "ok"
    /\ UNCHANGED <<made, broken>>

Detach(n, retain) ==
    CASE n \in Tags /\ parent[n] \in Docs -> Raise("InvalidOperation")
      [] parent[n] = NIL -> Raise(IF n \in Tags /\ retain THEN "InvalidOperation"
                                                          ELSE "ok")
      [] parent[n] \in broken -> Raise("AttributeError")
      [] OTHER -> IF n \in Tags /\ retain THEN Lift(n)
                  ELSE Remove(parent[n], {Position(n)})

\* mutant: the node is detached before its replacement is looked at
RefusedAfterDetachment(n, refusal) ==
    /\ Change(parent[n], Position(n) - 1, Position(n), <<>>)
    /\ outcome' = refusal
    /\ UNCHANGED <<made, broken>>

ReplacementRefused(n, refusal) == Raise(refusal)

\* m (or its copy c) goes into the list in front of n, then n is detached, which
\* the root of a document refuses.
ReplaceWith(n, m, c) ==
    LET p == parent[n]
        i == Position(n)
        refusal == Refusal(p, {}, c, {c} \ {m})
        undetachable == n \in Tags /\ p \in Docs
    IN  WithParent(n,
            IF refusal # "ok" THEN ReplacementRefused(n, refusal)
            ELSE /\ Change(p, i - 1, IF undetachable THEN i - 1 ELSE i, <<c>>)
                 /\ made' = made \cup {c}
                 /\ outcome' = IF undetachable THEN "InvalidOperation" ELSE "ok"
                 /\ UNCHANGED broken)

\* Item access counts the children that pass the default filters, which hide
\* comments and processing instructions unless a client alters them.  S are the
\* places of those that pass; node[index] is the child at the one place in
\* ItemPlaces(S, index), or an IndexError.
ItemPlaces(S, index) ==
    {i \in S : Rank(S, i) = IF index < 0 THEN Cardinality(S) + index ELSE index}

\* node[index] = m, the index is compared to the number of all children
SetItem(p, S, index, m) ==
    LET size == Len(children[p]) IN
    IF index = size THEN AppendChildren(p, <<m>>, <<m>>)
    ELSE IF index \in -size..size /\ ItemPlaces(S, index) # {}
    THEN \E i \in ItemPlaces(S, index) : ReplaceWith(children[p][i], m, m)
    ELSE Raise("IndexError")

\* del node[index]
DelItem(p, S, index) ==
    \/ \E i \in ItemPlaces(S, index) : Detach(children[p][i], FALSE)
    \/ ItemPlaces(S, index) = {} /\ Raise("IndexError")

\* the places in S that a slice has
Sliced(S, first, stop, step) ==
    {i \in S : Rank(S, i) \in first..(stop - 1) /\ (Rank(S, i) - first) % step = 0}

\* del node[first:stop:step]; negative ones denote the same sets of children
DelSlice(p, S, first, stop, step) ==
    IF step = 0 THEN Raise("ValueError")
    ELSE Remove(p, Sliced(S, first, stop, step))

-----------------------------------------------------------------------------
(* Creating nodes *)

NewLeaf(n) ==
    /\ made' = made \cup {n}
    /\ outcome' = "ok"
    /\ UNCHANGED <<broken, parent, children>>

Constructed(t, placed) == {t} \cup Elems(placed)

\* TagNode(..., children=ns).  When a child is refused, the child list is never
\* assigned, but the nodes before it point to the unfinished object.
NewTag(t, ns) ==
    \E k \in 0..Len(ns) :
        LET placed == SubSeq(ns, 1, k) IN
        /\ StopsAfter(k, t, ns, {})
        /\ parent' = [n \in Nodes |-> IF n \in Elems(placed) THEN t ELSE parent[n]]
        /\ made' = made \cup Constructed(t, placed)
        /\ IF k = Len(ns)
           THEN /\ children' = [children EXCEPT ![t] = ns]
                /\ outcome' = "ok"
                /\ UNCHANGED broken
           ELSE /\ broken' = broken \cup {t}
                /\ outcome' = Refusal(t, Elems(placed), ns[k + 1], {})
                /\ UNCHANGED children

\* mutant: the copy lists the original nodes
SharedList(s, f) == s

CopiedList(s, f) == [i \in DOMAIN s |-> f[s[i]]]

\* f maps n, and for a deep copy all nodes below it, to their copies
Clone(n, deep, f) ==
    LET copies == {f[m] : m \in DOMAIN f}
        Original(c) == CHOOSE m \in DOMAIN f : f[m] = c
    IN  /\ made' = made \cup copies
        /\ parent' = [c \in Nodes |-> IF c \in copies /\ Original(c) # n
                                      THEN f[parent[Original(c)]] ELSE parent[c]]
        /\ children' = [p \in Parents |-> IF p \in copies /\ deep
                                          THEN CopiedList(children[Original(p)], f)
                                          ELSE children[p]]
        /\ outcome' = "ok"
        /\ UNCHANGED broken

-----------------------------------------------------------------------------
(* Document: the root property, the prologue and the epilogue *)

SetRoot(d, n) ==
    IF n \notin Tags THEN Raise("TypeError")
    ELSE IF parent[n] # NIL THEN Raise("InvalidOperation")
    ELSE /\ Change(d, RootPosition(d) - 1, RootPosition(d), <<n>>)
         /\ outcome' = "ok"
         /\ UNCHANGED <<made, broken>>

\* _Logue._validate_new_node
LogueRefusal(n) ==
    IF n \notin Misc THEN "TypeError"
    ELSE IF parent[n] # NIL THEN "InvalidOperation"
    ELSE "ok"

LogueInsert(d, index, n) ==
    IF LogueRefusal(n) # "ok" THEN Raise(LogueRefusal(n))
    ELSE LET i == InsertionPoint(children[d], index) IN
         /\ Change(d, i, i, <<n>>)
         /\ outcome' = "ok"
         /\ UNCHANGED <<made, broken>>

PrologueInsert(d, index, n) ==
    IF LogueRefusal(n) = "ok" /\ index > RootPosition(d) - 1 THEN Raise("IndexError")
    ELSE LogueInsert(d, index, n)

PrologueAppend(d, n) == LogueInsert(d, RootPosition(d) - 1, n)

EpilogueInsert(d, index, n) == LogueInsert(d, RootPosition(d) + index, n)

EpilogueAppend(d, n) == LogueInsert(d, Len(children[d]), n)

PrologueClear(d) == Remove(d, 1..(RootPosition(d) - 1))

EpilogueClear(d) == Remove(d, (RootPosition(d) + 1)..Len(children[d]))

\* Siblings.remove resets the node's parent before it looks for it in the list
LogueRemove(d, n) ==
    IF n \in Elems(children[d])
    THEN Remove(d, {PositionOf(children[d], n)})
    ELSE /\ parent' = [m \in Nodes |-> IF m = n THEN NIL ELSE parent[m]]
         /\ outcome' = "IndexError"
         /\ UNCHANGED <<made, broken, children>>

-----------------------------------------------------------------------------
(* The calls a client can make.  Half-built tags are out of its reach, and *)
(* it puts no node beneath itself: nothing in the code refuses to, and     *)
(* whatever walks over the tree then would not come to an end.             *)

Fresh == (Tags \cup Texts) \ made

Given == Usable \cup Fresh

\* what may become a child of p; a call on a node without parent just raises
Joinable(p) == IF p \in Parents THEN Given \ Above(p) ELSE Given

\* an object that is yet to be made is not passed twice
Arguments(S) ==
    {q \in UNION {[1..k -> S] : k \in 0..MaxArgs} :
        \A i, j \in DOMAIN q : q[i] = q[j] /\ q[i] \in Fresh => i = j}

SameKind(m, n) == \E kind \in {Tags, Texts, Misc} : {m, n} \subseteq kind

Childless(n) == n \in Tags => children[n] = <<>>

\* a node and the copy that a call with clone=True makes of it, without children
Clonings == {mc \in Usable \X (Nodes \ made) : SameKind(mc[1], mc[2]) /\ Childless(mc[1])}

Indexes(p) == (-Len(children[p]) - 1)..(Len(children[p]) + 1)

AddChildren(p, os, cs) ==
    \/ AppendChildren(p, os, cs)
    \/ PrependChildren(p, os, cs)
    \/ \E index \in Indexes(p) : InsertChildren(p, index, os, cs)

AddSiblings(n, os, cs) ==
    \/ AddFollowingSiblings(n, os, cs)
    \/ AddPrecedingSiblings(n, os, cs)

Add ==
    \/ \E p \in Usable \cap Tags :
          \/ \E ns \in Arguments(Joinable(p)) : AddChildren(p, ns, ns)
          \/ \E mc \in Clonings : AddChildren(p, <<mc[1]>>, <<mc[2]>>)
    \/ \E n \in Usable :
          \/ \E ns \in Arguments(Joinable(parent[n])) : AddSiblings(n, ns, ns)
          \/ \E mc \in Clonings : mc[1] \in Joinable(parent[n])
                                  /\ AddSiblings(n, <<mc[1]>>, <<mc[2]>>)

Replace(n) ==
    \/ \E m \in Joinable(parent[n]) : ReplaceWith(n, m, m)
    \/ \E mc \in Clonings : ReplaceWith(n, mc[1], mc[2])

Items(p) ==
    \E S \in SUBSET DOMAIN children[p] :
        \/ \E index \in Indexes(p) :
              \/ DelItem(p, S, index)
              \/ \E m \in Joinable(p) : SetItem(p, S, index, m)
        \/ \E stop, step \in 0..Len(children[p]) : \E first \in 0..stop :
              DelSlice(p, S, first, stop, step)

\* D holds n and everything below it
IsSubtree(D, n) ==
    /\ n \in D
    /\ \A m \in D : m = n \/ parent[m] \in D
    /\ \A m \in D \cap Tags : Elems(children[m]) \subseteq D

CopyMaps(D) == {f \in [D -> Nodes \ made] :
                    /\ \A m \in D : SameKind(m, f[m])
                    /\ \A m, n \in D : f[m] = f[n] => m = n}

Create ==
    \/ \E n \in (Texts \cup Misc) \ made : NewLeaf(n)
    \/ \E t \in Tags \ made : \E ns \in Arguments(Given \ {t}) : NewTag(t, ns)
    \/ \E n \in Usable :
          \/ \E f \in CopyMaps({n}) : Clone(n, FALSE, f)
          \/ \E D \in SUBSET Usable :
                IsSubtree(D, n) /\ \E f \in CopyMaps(D) : Clone(n, TRUE, f)

DocumentCall(d) ==
    \/ \E n \in Usable :
          \/ SetRoot(d, n)
          \/ PrologueAppend(d, n)
          \/ EpilogueAppend(d, n)
          \/ \E index \in Indexes(d) : PrologueInsert(d, index, n)
                                       \/ EpilogueInsert(d, index, n)
    \/ PrologueClear(d)
    \/ EpilogueClear(d)

\* the documented use of remove: for a member of the prologue or the epilogue
RemoveFromLogue(d) == \E n \in Elems(children[d]) \ Tags : LogueRemove(d, n)

Init ==
    /\ made = {Root[d] : d \in Docs}
    /\ broken = {}
    /\ parent = [n \in Nodes |-> IF \E d \in Docs : Root[d] = n
                                 THEN CHOOSE d \in Docs : Root[d] = n ELSE NIL]
    /\ children = [p \in Parents |-> IF p \in Docs THEN <<Root[p]>> ELSE <<>>]
    /\ outcome = "ok"

Next ==
    \/ \E d \in Docs : DocumentCall(d) \/ RemoveFromLogue(d)
    \/ \E n \in Usable : Replace(n) \/ \E retain \in BOOLEAN : Detach(n, retain)
    \/ \E p \in Usable \cap Tags : Items(p)
    \/ Add
    \/ Create

Spec == Init /\ [][Next]_vars

-----------------------------------------------------------------------------
(* Properties *)

TypeOK ==
    /\ made \in SUBSET Nodes
    /\ broken \in SUBSET (Tags \cap made)
    /\ parent \in [Nodes -> Parents \cup {NIL}]
    /\ children \in [Parents -> Seq(Nodes)]
    /\ outcome \in Outcomes

\* The parent pointers and the child lists tell the same story: a node's parent
\* lists it, at one place only, and nobody else does.  Every call updates both.
PointersAgree ==
    /\ \A p \in Parents : \A i \in DOMAIN children[p] : parent[children[p][i]] = p
    /\ \A p \in Parents : IsDuplicateFree(children[p])
    /\ \A n \in Nodes : parent[n] \in Parents \ broken => n \in Elems(children[parent[n]])

\* Nobody is found below itself: whoever walks down a tree comes to an end.
Grounded ==
    \A S \in SUBSET Nodes : S # {} =>
        \E n \in S : \A m \in S \cap Tags : n \notin Elems(children[m])

\* A document has one root at any time, whichever calls are made next to it.
OneRoot ==
    \A d \in Docs : \E i \in DOMAIN children[d] :
        \A j \in DOMAIN children[d] : children[d][j] \in Tags <=> j = i

\* A call that raises may leave nodes behind that it was to add, but a node that
\* was in a tree before is where it was.
FailureRemovesNothing ==
    [][outcome' # "ok" =>
          \A n \in Nodes : parent[n] # NIL => parent'[n] = parent[n]]_vars

\* No call moves a node from one parent to another, except for the children that
\* are retained when their parent is detached: they go to its parent.  A node that a
\* failed constructor had taken already refers to that object for good: it is refused
\* wherever it is added and cannot be detached.
OnlyRetainedNodesMove ==
    [][\A n \in Nodes :
          LET p == parent[n] IN
          p # NIL /\ parent'[n] # p =>
              /\ p \notin broken
              /\ parent'[n] # NIL =>
                    p \in Tags /\ parent'[n] = parent[p] /\ parent'[p] = NIL]_vars

-----------------------------------------------------------------------------
(* The calls change the child lists by whole edits of ordered trees.       *)

Abstract == INSTANCE Forest WITH kids <- children

\* Whatever the pointers, the loops and the exceptions do on the way: seen from
\* outside, each call puts loose trees between siblings, takes trees off, replaces
\* a node with its children or another tree, copies trees, or changes nothing.
ImplementsForest == Abstract!Spec

\* Whatever a call does, two nodes that share a tree before and after it do not
\* change their order: lists of arguments that are reversed on the way, blocks of
\* retained children and replacements end up on the right side of every node.
DocumentOrderKept == Abstract!OrderKept
=============================================================================
