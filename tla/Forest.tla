------------------------------- MODULE Forest -------------------------------
(***************************************************************************)
(* What delb's tree promises: ordered trees, changed by edits that are     *)
(* either done or not.  There are no parent pointers here, a node is in a  *)
(* tree because its parent's child list says so.  Tree.tla implements it.  *)
(***************************************************************************)
EXTENDS PyLists

CONSTANTS Docs, Tags, Texts, Misc, Root

Nodes   == Tags \cup Texts \cup Misc
Parents == Docs \cup Tags

VARIABLE kids   \* the children of a document or a tag node

Loose(n) == \A p \in Parents : n \notin Elems(kids[p])

\* A holds p and, with a node, its parent: all that can be met on the way up
ReachesUp(A, p) ==
    p \in A /\ \A m \in A \cap Nodes : \A q \in Parents : m \in Elems(kids[q]) => q \in A

Above(p) == {x \in Parents : \A A \in SUBSET Parents : ReachesUp(A, p) => x \in A}

\* Loose trees are put between two siblings.  Those of a document are no tags.
Graft(p, i, block) ==
    /\ block # <<>> /\ IsDuplicateFree(block)
    /\ \A n \in Elems(block) : Loose(n) /\ n \notin Above(p)
    /\ p \in Docs => Elems(block) \cap Tags = {}
    /\ kids' = [kids EXCEPT ![p] = SliceAssign(@, i, i, block)]

\* The trees at the places in I are taken off their parent.  A document keeps its root.
Prune(p, I) ==
    /\ p \in Docs => \A i \in I : kids[p][i] \notin Tags
    /\ kids' = [kids EXCEPT ![p] = Without(@, I)]

\* A tag node other than a root is replaced by its children.
Dissolve(p, i) ==
    /\ p \in Tags /\ kids[p][i] \in Tags
    /\ LET n == kids[p][i] IN
       kids' = [kids EXCEPT ![p] = SliceAssign(@, i - 1, i, kids[n]), ![n] = <<>>]

\* A loose tree takes the place of another tree, a root's place goes to a tag.
Swap(p, i, n) ==
    /\ Loose(n) /\ n \notin Above(p)
    /\ p \in Docs => (n \in Tags <=> kids[p][i] \in Tags)
    /\ kids' = [kids EXCEPT ![p] = SliceAssign(@, i - 1, i, <<n>>)]

\* The loose, childless nodes in C become a copy of the trees they originate from.
Copy(C, origin) ==
    /\ \A c, e \in C : origin[c] = origin[e] => c = e
    /\ \A c \in C : Loose(c) /\ (c \in Tags => kids[c] = <<>>)
    /\ \A c \in C \cap Tags :
          /\ origin[c] \in Tags
          /\ Len(kids'[c]) = Len(kids[origin[c]])
          /\ \A i \in DOMAIN kids'[c] :
                kids'[c][i] \in C /\ origin[kids'[c][i]] = kids[origin[c]][i]
    /\ kids' = [p \in Parents |-> IF p \in C THEN kids'[p] ELSE kids[p]]

Init == kids = [p \in Parents |-> IF p \in Docs THEN <<Root[p]>> ELSE <<>>]

\* the blocks that may have been put after the i-th child: parts of the new list
Blocks(p, i) == {SubSeq(kids'[p], i + 1, j) : j \in i..Len(kids'[p])}

Edit(p) ==
    \/ \E i \in 0..Len(kids[p]) : \E block \in Blocks(p, i) : Graft(p, i, block)
    \/ \E i \in DOMAIN kids[p] : Dissolve(p, i) \/ \E n \in Nodes : Swap(p, i, n)
    \/ \E I \in SUBSET DOMAIN kids[p] : Prune(p, I)

Changed == {p \in Parents : kids'[p] # kids[p]}

Next ==
    \/ \E p \in Parents : Edit(p)
    \/ \E C \in SUBSET Nodes :
          Changed \subseteq C /\ \E origin \in [C -> Nodes] : Copy(C, origin)

Spec == Init /\ [][Next]_kids

-----------------------------------------------------------------------------
(* Document order *)

\* n and all that it is below
Upwards(n) == {n} \cup UNION {Above(p) : p \in {q \in Parents : n \in Elems(kids[q])}}

\* <<m, n>> such that m precedes n, as a node above it or in an earlier branch
DocumentOrder ==
    LET up == [n \in Nodes |-> Upwards(n)]
        Branched(m, n) ==
            \E p \in Parents : \E i, j \in DOMAIN kids[p] :
                i < j /\ kids[p][i] \in up[m] /\ kids[p][j] \in up[n]
    IN  {mn \in Nodes \X Nodes :
            (mn[1] # mn[2] /\ mn[1] \in up[mn[2]]) \/ Branched(mn[1], mn[2])}

\* Two nodes that share a tree before and after an edit do not change their order.
OrderKept ==
    [][kids' # kids =>
          LET after == DocumentOrder' IN
          \A mn \in DocumentOrder : <<mn[2], mn[1]>> \notin after]_kids
=============================================================================
