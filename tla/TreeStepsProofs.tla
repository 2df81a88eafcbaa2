--------------------------- MODULE TreeStepsProofs ---------------------------
(***************************************************************************)
(* Proofs of what a call does to the trees it finds.  It edits their child *)
(* lists as Forest allows, whatever its pointers, loops and exceptions do  *)
(* on the way.  It moves no node to another parent unless its own was      *)
(* lifted off it and, when it raises, takes none out.  And it never        *)
(* reverses the document order of nodes that stay in their tree.           *)
(***************************************************************************)
EXTENDS TreeProofs

\* Nodes that have a parent keep it or lose it, if it lists them, and a call that
\* raises takes no parent away.  All calls do that but one.
PlacesKept ==
    \A n \in Nodes : parent[n] # NIL =>
        /\ parent'[n] \in {parent[n], NIL}
        /\ parent[n] \in broken => parent'[n] = parent[n]
        /\ outcome' # "ok" => parent'[n] = parent[n]

Edited == children' = children \/ Abstract!Next

Orderly == PlacesKept /\ Edited

\* The exception is detaching a node whose children stay.
Lifted == \E n \in Tags : parent[n] \in Tags \ broken /\ Lift(n)

-----------------------------------------------------------------------------
(* The abstract edits *)

\* Loose nodes are in no list, and who is above can be told from the lists.
LEMMA SeenFromOutside ==
    ASSUME IInv
    PROVE  /\ \A n \in Nodes : parent[n] = NIL => Abstract!Loose(n)
           /\ \A p \in Parents : Abstract!Above(p) \subseteq Above(p)
<1>1. \A m \in Nodes, q \in Parents : m \in Elems(children[q]) => parent[m] = q
  BY DEF IInv, PointersAgree, Elems
<1>2. \A p \in Parents, A \in SUBSET Parents :
          ClosedAbove(A, p) => Abstract!ReachesUp(A, p)
  BY <1>1, NilIsNothing DEF ClosedAbove, Abstract!ReachesUp, Abstract!Parents, Parents,
                            Abstract!Nodes, Nodes, Abstract!Elems, Elems
<1>3. \A p \in Parents : Abstract!Above(p) \subseteq Above(p)
  BY <1>2 DEF Above, Abstract!Above, Abstract!Parents, Parents
<1>4. \A n \in Nodes : parent[n] = NIL => Abstract!Loose(n)
  BY <1>1, NilIsNothing DEF Abstract!Loose, Abstract!Parents, Parents, Abstract!Elems, Elems
<1> QED  BY <1>3, <1>4

LEMMA EditIsStep ==
    ASSUME NEW p \in Parents, Abstract!Edit(p)
    PROVE  Edited
  BY DEF Edited, Abstract!Next, Abstract!Parents, Parents

LEMMA PruneIsEdit ==
    ASSUME NEW p \in Parents, NEW I \in SUBSET DOMAIN children[p],
           p \in Docs => \A i \in I : children[p][i] \notin Tags,
           children' = [children EXCEPT ![p] = Without(@, I)]
    PROVE  Edited
<1>1. Abstract!Prune(p, I)
  BY DEF Abstract!Prune, Abstract!Without, Without, Abstract!Rank, Rank,
         Abstract!Cardinality, Cardinality
<1> QED  BY <1>1, EditIsStep DEF Abstract!Edit

LEMMA EmptySliceAssign ==
    ASSUME NEW S, NEW s \in Seq(S), NEW i \in 0..Len(s), NEW j \in i..Len(s),
           NEW block \in Seq(S)
    PROVE  j = i /\ Len(block) = 0 => SliceAssign(s, i, j, block) = s
<1> DEFINE r == SliceAssign(s, i, j, block)
           l == Len(block)
           size == i + l + Len(s) - j
<1>1. /\ r \in Seq(S) /\ Len(r) = size
      /\ \A k \in 1..size :
            r[k] = IF k <= i THEN s[k]
                   ELSE IF k <= i + l THEN block[k - i]
                   ELSE s[k - i - l + j]
  BY SliceAssignMembers, Z3
<1> HIDE DEF r
<1> SUFFICES ASSUME j = i, l = 0 PROVE r = s
  BY DEF r
<1>2. Len(r) = Len(s) /\ \A k \in 1..Len(s) : r[k] = s[k]
  BY <1>1
<1> QED  BY <1>1, <1>2

LEMMA GraftIsEdit ==
    ASSUME IInv, NEW p \in Parents, NEW i \in 0..Len(children[p]),
           NEW block \in Seq(Nodes), IsDuplicateFree(block),
           \A n \in Elems(block) : parent[n] = NIL,
           Elems(block) \cap Above(p) = {},
           p \in Docs => Elems(block) \cap Tags = {},
           children' = [children EXCEPT ![p] = SliceAssign(@, i, i, block)]
    PROVE  Edited
<1>1. children[p] \in Seq(Nodes) /\ Len(children[p]) \in Nat /\ i \in i..Len(children[p])
  BY ListsTyped
<1>2. CASE block = <<>>
  <2>1. Len(block) = 0
    BY <1>2
  <2>2. SliceAssign(children[p], i, i, block) = children[p]
    <3>1. PICK s, j : s = children[p] /\ j = i
      OBVIOUS
    <3>2. s \in Seq(Nodes) /\ i \in 0..Len(s) /\ j \in i..Len(s)
      BY <1>1, <3>1
    <3>3. j = i /\ Len(block) = 0 => SliceAssign(s, i, j, block) = s
      BY <3>2, EmptySliceAssign, Zenon
    <3> QED  BY <2>1, <3>1, <3>3
  <2> DEFINE r == SliceAssign(children[p], i, i, block)
  <2> HIDE DEF r
  <2> QED  BY <2>2 DEF Edited, IInv, TypeOK, r
<1>3. CASE block # <<>>
  <2>1. \A n \in Elems(block) : n \in Nodes /\ Abstract!Loose(n) /\ n \notin Abstract!Above(p)
    BY SeenFromOutside DEF Elems
  <2>2. Abstract!Graft(p, i, block)
    BY <1>3, <2>1 DEF Abstract!Graft, Abstract!Elems, Elems, Abstract!IsDuplicateFree,
                      IsDuplicateFree, Abstract!SliceAssign, SliceAssign
  <2> DEFINE r == SliceAssign(children[p], i, i, block)
  <2>3. children'[p] = r
    BY DEF IInv, TypeOK
  <2>4. i + Len(block) \in i..Len(r) /\ SubSeq(r, i + 1, i + Len(block)) = block
    BY <1>1, SliceAssignBlock
  <2> HIDE DEF r
  <2>5. block \in Abstract!Blocks(p, i)
    BY <2>3, <2>4 DEF Abstract!Blocks
  <2> QED  BY <2>2, <2>5, EditIsStep DEF Abstract!Edit
<1> QED  BY <1>2, <1>3

LEMMA SwapIsEdit ==
    ASSUME IInv, NEW p \in Parents, NEW h \in Nat, NEW i \in 1..Len(children[p]), h = i - 1,
           NEW n \in Nodes, parent[n] = NIL, n \notin Above(p),
           p \in Docs => (n \in Tags <=> children[p][i] \in Tags),
           children' = [children EXCEPT ![p] = SliceAssign(@, h, i, <<n>>)]
    PROVE  Edited
<1>1. Abstract!Loose(n) /\ n \notin Abstract!Above(p)
  BY SeenFromOutside
<1>2. Abstract!Swap(p, i, n)
  BY <1>1 DEF Abstract!Swap, Abstract!SliceAssign, SliceAssign
<1>3. i \in DOMAIN children[p] /\ n \in Abstract!Nodes
  BY ListsTyped DEF Abstract!Nodes, Nodes
<1> QED  BY <1>2, <1>3, EditIsStep DEF Abstract!Edit

-----------------------------------------------------------------------------
(* The edits that calls are made of *)

LEMMA RaiseIsOrderly ==
    ASSUME NEW exception, Raise(exception)
    PROVE  Orderly
  BY DEF Raise, Orderly, PlacesKept, Edited

LEMMA ChangeKeepsPlaces ==
    ASSUME IInv, NEW p \in Parents,
           NEW i \in 0..Len(children[p]), NEW j \in i..Len(children[p]),
           NEW block, \A n \in Elems(block) : parent[n] = NIL,
           Change(p, i, j, block),
           outcome' # "ok" => i = j
    PROVE  PlacesKept
<1> DEFINE removed == Elems(Slice(children[p], i, j))
<1>1. children[p] \in Seq(Nodes)
  BY ListsTyped
<1>2. removed = {children[p][k] : k \in (i + 1)..j}
  BY <1>1, SliceElems
<1>3. i = j => removed = {}
  BY <1>2
<1>4. parent' = [n \in Nodes |-> IF n \in Elems(block) THEN p
                                 ELSE IF n \in removed THEN NIL ELSE parent[n]]
  BY DEF Change, PointersAfter
<1>5. \A n \in removed : parent[n] = p /\ p \notin broken
  <2>1. ASSUME NEW k \in (i + 1)..j
        PROVE  parent[children[p][k]] = p /\ p \notin broken
    <3>1. k \in DOMAIN children[p] /\ children[p] # <<>>
      BY <1>1
    <3> QED  BY <3>1 DEF IInv, PointersAgree, BrokenListNothing
  <2> QED  BY <1>2, <2>1
<1> HIDE DEF removed
<1> QED  BY <1>3, <1>4, <1>5 DEF PlacesKept

LEMMA RemoveIsOrderly ==
    ASSUME IInv, NEW p \in Parents, NEW I \in SUBSET DOMAIN children[p],
           p \in Docs => \A i \in I : children[p][i] \notin Tags,
           Remove(p, I)
    PROVE  Orderly
<1>1. Edited
  BY PruneIsEdit DEF Remove
<1>2. \A i \in I : parent[children[p][i]] = p /\ p \notin broken
  BY DEF IInv, PointersAgree, BrokenListNothing
<1>3. PlacesKept
  BY <1>2 DEF Remove, PlacesKept
<1> QED  BY <1>1, <1>3 DEF Orderly

\* One node gets in front of the i-th child or takes its place.
LEMMA ExchangeIsOrderly ==
    ASSUME IInv, NEW p \in Parents,
           NEW i \in 0..Len(children[p]), NEW j \in i..Len(children[p]), j \in {i, i + 1},
           NEW n \in Nodes, parent[n] = NIL, n \notin Above(p),
           p \in Docs => (n \in Tags <=> j = i + 1 /\ children[p][j] \in Tags),
           Change(p, i, j, <<n>>),
           outcome' # "ok" => i = j
    PROVE  Orderly
<1> DEFINE block == <<n>>
<1>1. /\ block \in Seq(Nodes) /\ Elems(block) = {n} /\ IsDuplicateFree(block)
      /\ Change(p, i, j, block)
      /\ children' = [children EXCEPT ![p] = SliceAssign(@, i, j, block)]
  BY Singleton DEF Change
<1>2. Len(children[p]) \in Nat
  BY ListsTyped
<1>3. CASE j = i
  <2> HIDE DEF block
  <2>1. p \in Docs => Elems(block) \cap Tags = {}
    BY <1>1, <1>3
  <2> QED  BY <1>1, <1>3, <2>1, ChangeKeepsPlaces, GraftIsEdit DEF Orderly
<1>4. CASE j = i + 1
  <2>1. j \in 1..Len(children[p]) /\ i = j - 1 /\ i \in Nat
    BY <1>2, <1>4
  <2>2. Edited
    BY <1>1, <1>4, <2>1, SwapIsEdit
  <2> HIDE DEF block
  <2>3. PlacesKept
    BY <1>1, ChangeKeepsPlaces
  <2> QED  BY <2>2, <2>3 DEF Orderly
<1> QED  BY <1>3, <1>4

\* What was accepted is loose; nothing is removed, whether the loop ends early or not.
LEMMA PlaceIsOrderly ==
    ASSUME IInv, NEW p \in Parents, NEW i \in 0..Len(children[p]),
           NEW q \in Seq(Nodes), Elems(q) \cap Above(p) = {},
           NEW copies, NEW turned \in BOOLEAN,
           Place(p, i, q, copies, turned)
    PROVE  Orderly
<1>1. PICK k \in 0..Len(q) :
        /\ StopsAfter(k, p, q, copies)
        /\ Change(p, i, i, IF turned THEN Backwards(SubSeq(q, 1, k)) ELSE SubSeq(q, 1, k))
  BY DEF Place
<1> DEFINE placed == SubSeq(q, 1, k)
           block == IF turned THEN Backwards(placed) ELSE placed
<1>2. placed \in Seq(Nodes) /\ Elems(placed) \subseteq Elems(q)
  BY Prefix
<1>3. /\ IsDuplicateFree(placed)
      /\ \A n \in Elems(placed) : parent[n] = NIL
      /\ p \in Docs => Elems(placed) \cap Tags = {}
  BY <1>1, Accepted
<1>4. Change(p, i, i, block)
  BY <1>1
<1> HIDE DEF placed
<1>5. block \in Seq(Nodes) /\ Elems(block) = Elems(placed) /\ IsDuplicateFree(block)
  BY <1>2, <1>3, BackwardsProperties
<1>6. Len(children[p]) \in Nat /\ i \in i..Len(children[p])
  BY ListsTyped
<1> HIDE DEF block
<1>7. children' = [children EXCEPT ![p] = SliceAssign(@, i, i, block)]
  BY <1>4 DEF Change
<1>8. PlacesKept
  BY <1>3, <1>4, <1>5, <1>6, ChangeKeepsPlaces
<1>9. Elems(block) \cap Above(p) = {} /\ (p \in Docs => Elems(block) \cap Tags = {})
  BY <1>2, <1>3, <1>5
<1>10. Edited
  BY <1>3, <1>5, <1>7, <1>9, GraftIsEdit
<1> QED  BY <1>8, <1>10 DEF Orderly

-----------------------------------------------------------------------------
(* The calls *)

LEMMA InsertAtIndexIsOrderly ==
    ASSUME IInv, NEW p \in Parents, NEW index \in Int,
           NEW cs \in Seq(Nodes), Elems(cs) \cap Above(p) = {}, NEW copies,
           InsertAtIndex(p, index, cs, copies)
    PROVE  Orderly
<1> DEFINE size == Len(children[p])
           i == IF index >= 0 THEN index ELSE size + index
           q == Backwards(cs)
           turned == index >= 0
<1>1. size \in Nat
  BY ListsTyped
<1>2. CASE index \in -size..size
  <2>1. Place(p, i, q, copies, turned)
    BY <1>2 DEF InsertAtIndex
  <2>2. i \in 0..size /\ turned \in BOOLEAN
    BY <1>1, <1>2
  <2>3. q \in Seq(Nodes) /\ Elems(q) \cap Above(p) = {}
    BY BackwardsProperties
  <2> HIDE DEF i, q, turned
  <2> QED  BY <2>1, <2>2, <2>3, PlaceIsOrderly
<1>3. CASE index \notin -size..size
  BY <1>3, RaiseIsOrderly DEF InsertAtIndex
<1> QED  BY <1>2, <1>3

LEMMA AppendChildrenIsOrderly ==
    ASSUME IInv, NEW p \in Parents, NEW os,
           NEW cs \in Seq(Nodes), Elems(cs) \cap Above(p) = {},
           AppendChildren(p, os, cs)
    PROVE  Orderly
<1>1. Len(children[p]) \in 0..Len(children[p])
  BY ListsTyped
<1>2. Place(p, Len(children[p]), cs, Copies(os, cs), FALSE)
  BY DEF AppendChildren
<1> QED  BY <1>1, <1>2, PlaceIsOrderly

LEMMA AddChildrenIsOrderly ==
    ASSUME IInv, NEW p \in Parents, NEW os,
           NEW cs \in Seq(Nodes), Elems(cs) \cap Above(p) = {},
           AddChildren(p, os, cs)
    PROVE  Orderly
<1>1. \A index \in Indexes(p) : index \in Int
  BY DEF Indexes
<1>2. CASE AppendChildren(p, os, cs)
  BY <1>2, AppendChildrenIsOrderly
<1>3. CASE PrependChildren(p, os, cs)
  <2>1. InsertAtIndex(p, 0, cs, Copies(os, cs))
    BY <1>3 DEF PrependChildren, InsertChildren
  <2>2. 0 \in Int
    OBVIOUS
  <2> QED  BY <2>1, <2>2, InsertAtIndexIsOrderly
<1>4. CASE \E index \in Indexes(p) : InsertChildren(p, index, os, cs)
  BY <1>1, <1>4, InsertAtIndexIsOrderly DEF InsertChildren
<1> QED  BY <1>2, <1>3, <1>4 DEF AddChildren

LEMMA AddSiblingsIsOrderly ==
    ASSUME IInv, NEW n \in Nodes, NEW os \in Seq(Nodes), NEW cs \in Seq(Nodes),
           parent[n] \in Parents =>
               (Elems(os) \cup Elems(cs)) \cap Above(parent[n]) = {},
           AddSiblings(n, os, cs)
    PROVE  Orderly
<1> DEFINE p == parent[n]
           ns == Effective(n, os, cs)
           i == Position(n)
<1>1. CASE p = NIL \/ p \in broken
  <2>1. Raise("InvalidOperation") \/ Raise("AttributeError")
    BY <1>1 DEF AddSiblings, AddFollowingSiblings, AddPrecedingSiblings, WithParent
  <2> QED  BY <2>1, RaiseIsOrderly
<1>2. CASE p # NIL /\ p \notin broken
  <2>1. p \in Parents \ broken
    BY <1>2, ParentsExist
  <2>2. ns \in Seq(Nodes) /\ Elems(ns) \cap Above(p) = {}
    BY <2>1 DEF Effective
  <2>3. Backwards(ns) \in Seq(Nodes) /\ Elems(Backwards(ns)) \cap Above(p) = {}
    BY <2>2, BackwardsProperties
  <2>4. i \in Int /\ i - 1 \in Int
    BY <2>1, PositionFound
  <2>5. \/ InsertAtIndex(p, i, ns, Copies(os, ns))
        \/ InsertAtIndex(p, i - 1, Backwards(ns), Copies(os, ns))
    BY <1>2 DEF AddSiblings, AddFollowingSiblings, AddPrecedingSiblings, WithParent
  <2> HIDE DEF p, ns, i
  <2> QED  BY <2>1, <2>2, <2>3, <2>4, <2>5, InsertAtIndexIsOrderly
<1> QED  BY <1>1, <1>2

\* A root can't be detached after all: its replacement stays next to it, and it stays too.
LEMMA ReplaceWithIsOrderly ==
    ASSUME IInv, NEW n \in Nodes, NEW m, NEW c \in Nodes,
           parent[n] \in Parents => c \notin Above(parent[n]),
           ReplaceWith(n, m, c)
    PROVE  Orderly
<1> DEFINE p == parent[n]
           i == Position(n)
           h == i - 1
           refusal == Refusal(p, {}, c, {c} \ {m})
           undetachable == n \in Tags /\ p \in Docs
           stop == IF undetachable THEN h ELSE i
<1>1. CASE p = NIL \/ p \in broken \/ refusal # "ok"
  <2>1. \E exception \in Outcomes \cup {refusal} : Raise(exception)
    BY <1>1 DEF ReplaceWith, WithParent, ReplacementRefused, Outcomes
  <2> QED  BY <2>1, RaiseIsOrderly
<1>2. CASE p # NIL /\ p \notin broken /\ refusal = "ok"
  <2>1. /\ Change(p, h, stop, <<c>>)
        /\ outcome' = IF undetachable THEN "InvalidOperation" ELSE "ok"
    BY <1>2 DEF ReplaceWith, WithParent
  <2>2. p \in Parents \ broken
    BY <1>2, ParentsExist
  <2>3. /\ i \in 1..Len(children[p]) /\ Len(children[p]) \in Nat
        /\ children[p][i] = n
    BY <2>2, PositionFound, ListsTyped
  <2>4. parent[c] = NIL /\ ~SecondRoot(p, {}, c) /\ c \notin Above(p)
    BY <1>2, <2>2, RefusalCases DEF Attached
  <2>5. /\ h \in 0..Len(children[p]) /\ stop \in h..Len(children[p]) /\ stop \in {h, h + 1}
        /\ outcome' # "ok" => h = stop
    BY <2>1, <2>3
  <2>6. p \in Docs => (c \in Tags <=> stop = h + 1 /\ children[p][stop] \in Tags)
    <3>1. p \in Docs => c \notin Tags
      BY <2>4 DEF SecondRoot, IInv, OneRoot, Elems
    <3>2. p \in Docs /\ stop = h + 1 => children[p][stop] \notin Tags
      BY <2>3
    <3> QED  BY <3>1, <3>2
  <2> HIDE DEF h, stop, p
  <2> QED  BY <2>1, <2>2, <2>4, <2>5, <2>6, ExchangeIsOrderly
<1> QED  BY <1>1, <1>2

LEMMA DetachIsOrderly ==
    ASSUME IInv, NEW n \in Nodes, NEW retain \in BOOLEAN, Detach(n, retain)
    PROVE  Orderly \/ (retain /\ Lifted)
<1> DEFINE p == parent[n]
           i == Position(n)
<1>1. \/ \E exception \in Outcomes : Raise(exception)
      \/ /\ ~(n \in Tags /\ p \in Docs) /\ p # NIL /\ p \notin broken
         /\ IF n \in Tags /\ retain THEN Lift(n) ELSE Remove(p, {i})
  BY DEF Detach, Outcomes
<1>2. CASE \E exception \in Outcomes : Raise(exception)
  BY <1>2, RaiseIsOrderly
<1>3. CASE /\ ~(n \in Tags /\ p \in Docs) /\ p # NIL /\ p \notin broken
           /\ IF n \in Tags /\ retain THEN Lift(n) ELSE Remove(p, {i})
  <2>1. p \in Parents \ broken
    BY <1>3, ParentsExist
  <2>2. CASE n \in Tags /\ retain
    BY <1>3, <2>1, <2>2 DEF Lifted, Parents
  <2>3. CASE ~(n \in Tags /\ retain)
    <3>1. i \in 1..Len(children[p]) /\ children[p][i] = n
      BY <2>1, PositionFound
    <3>2. {i} \in SUBSET DOMAIN children[p]
      BY <2>1, <3>1, ListsTyped
    <3>3. p \in Docs => \A k \in {i} : children[p][k] \notin Tags
      BY <1>3, <3>1
    <3>4. Remove(p, {i})
      BY <1>3, <2>3
    <3> HIDE DEF i, p
    <3> QED  BY <2>1, <3>2, <3>3, <3>4, RemoveIsOrderly
  <2> QED  BY <2>2, <2>3
<1> QED  BY <1>1, <1>2, <1>3

LEMMA ItemsAreOrderly ==
    ASSUME IInv, NEW p \in Usable \cap Tags, Items(p)
    PROVE  Orderly
<1>1. p \in Parents /\ p \notin Docs
  BY KindsAreDisjoint DEF Parents
<1>2. ASSUME NEW S \in SUBSET DOMAIN children[p], NEW index \in Indexes(p), DelItem(p, S, index)
      PROVE  Orderly
  <2>1. CASE \E i \in S : Detach(children[p][i], FALSE)
    <3>1. PICK i \in S : Detach(children[p][i], FALSE)
      BY <2>1
    <3>2. children[p][i] \in Nodes
      BY <1>1, ItemFound
    <3> QED  BY <3>1, <3>2, DetachIsOrderly
  <2> QED  BY <1>2, <2>1, RaiseIsOrderly DEF DelItem, ItemPlaces
<1>3. ASSUME NEW S \in SUBSET DOMAIN children[p], NEW index \in Indexes(p),
             NEW m \in Joinable(p), SetItem(p, S, index, m)
      PROVE  Orderly
  <2> DEFINE cs == <<m>>
  <2>1. m \in Nodes /\ m \notin Above(p)
    BY <1>1, WhatIsGiven
  <2>2. CASE AppendChildren(p, cs, cs)
    <3>1. cs \in Seq(Nodes) /\ Elems(cs) \cap Above(p) = {}
      BY <2>1, Singleton
    <3> HIDE DEF cs
    <3> QED  BY <1>1, <2>2, <3>1, AppendChildrenIsOrderly
  <2>3. CASE \E i \in S : ReplaceWith(children[p][i], m, m)
    <3>1. PICK i \in S : ReplaceWith(children[p][i], m, m)
      BY <2>3
    <3>2. children[p][i] \in Nodes /\ parent[children[p][i]] = p
      BY <1>1, ItemFound
    <3> QED  BY <2>1, <3>1, <3>2, ReplaceWithIsOrderly
  <2> QED  BY <1>3, <2>2, <2>3, RaiseIsOrderly DEF SetItem, ItemPlaces
<1>4. ASSUME NEW S \in SUBSET DOMAIN children[p], NEW first, NEW stop, NEW step,
             DelSlice(p, S, first, stop, step)
      PROVE  Orderly
  <2>1. CASE Remove(p, Sliced(S, first, stop, step))
    <3>1. Sliced(S, first, stop, step) \in SUBSET DOMAIN children[p]
      BY DEF Sliced
    <3> QED  BY <1>1, <2>1, <3>1, RemoveIsOrderly
  <2> QED  BY <1>4, <2>1, RaiseIsOrderly DEF DelSlice
<1> QED  BY <1>2, <1>3, <1>4 DEF Items

LEMMA SetRootIsOrderly ==
    ASSUME IInv, NEW d \in Docs, NEW n \in Usable, SetRoot(d, n)
    PROVE  Orderly
<1>1. CASE n \notin Tags \/ parent[n] # NIL
  <2>1. Raise("TypeError") \/ Raise("InvalidOperation")
    BY <1>1 DEF SetRoot
  <2> QED  BY <2>1, RaiseIsOrderly
<1>2. CASE n \in Tags /\ parent[n] = NIL
  <2> DEFINE t == RootPosition(d)
             h == t - 1
  <2>1. Change(d, h, t, <<n>>) /\ outcome' = "ok"
    BY <1>2 DEF SetRoot
  <2>2. n \in Nodes /\ d \in Parents
    BY <1>2 DEF Nodes, Parents
  <2>3. /\ t \in 1..Len(children[d]) /\ Len(children[d]) \in Nat
        /\ children[d][t] \in Tags
    BY <2>2, RootFound, ListsTyped
  <2>4. h \in 0..Len(children[d]) /\ t \in h..Len(children[d]) /\ t = h + 1
    BY <2>3
  <2>5. n \notin Above(d)
    BY <2>2, AboveDocument
  <2> HIDE DEF h, t
  <2> QED  BY <1>2, <2>1, <2>2, <2>3, <2>4, <2>5, ExchangeIsOrderly
<1> QED  BY <1>1, <1>2

LEMMA LogueInsertIsOrderly ==
    ASSUME IInv, NEW d \in Docs, NEW index \in Int, NEW n \in Usable,
           LogueInsert(d, index, n)
    PROVE  Orderly
<1>1. CASE LogueRefusal(n) # "ok"
  BY <1>1, RaiseIsOrderly DEF LogueInsert
<1>2. CASE LogueRefusal(n) = "ok"
  <2> DEFINE i == InsertionPoint(children[d], index)
  <2>1. Change(d, i, i, <<n>>)
    BY <1>2 DEF LogueInsert
  <2>2. n \in Nodes /\ n \notin Tags /\ parent[n] = NIL /\ d \in Parents
    BY <1>2, KindsAreDisjoint DEF LogueRefusal, Nodes, Parents
  <2>3. Len(children[d]) \in Nat
    BY <2>2, ListsTyped
  <2>4. i \in 0..Len(children[d])
    BY <2>3 DEF InsertionPoint
  <2>5. i \in i..Len(children[d]) /\ i # i + 1
    BY <2>3, <2>4
  <2>6. n \notin Above(d)
    BY <2>2, AboveDocument
  <2> HIDE DEF i
  <2> QED  BY <2>1, <2>2, <2>4, <2>5, <2>6, ExchangeIsOrderly
<1> QED  BY <1>1, <1>2

LEMMA DocumentCallIsOrderly ==
    ASSUME IInv, NEW d \in Docs, DocumentCall(d)
    PROVE  Orderly
<1> DEFINE t == RootPosition(d)
           size == Len(children[d])
<1>1. /\ t \in 1..size /\ \A i \in 1..size : children[d][i] \in Tags <=> i = t
      /\ size \in Nat /\ DOMAIN children[d] = 1..size /\ d \in Parents
  BY RootFound, ListsTyped, DocumentsAreParents
<1>2. \A index \in Indexes(d) : index \in Int
  BY DEF Indexes
<1>3. CASE \E n \in Usable : SetRoot(d, n)
  BY <1>3, SetRootIsOrderly
<1>4. CASE \E n \in Usable, index \in Int : LogueInsert(d, index, n)
  BY <1>4, LogueInsertIsOrderly
<1>5. ASSUME NEW n \in Usable, PrologueAppend(d, n) \/ EpilogueAppend(d, n)
      PROVE  \E index \in Int : LogueInsert(d, index, n)
  BY <1>1, <1>5 DEF PrologueAppend, EpilogueAppend
<1>6. ASSUME NEW n \in Usable, NEW index \in Indexes(d),
             PrologueInsert(d, index, n) \/ EpilogueInsert(d, index, n)
      PROVE  Raise("IndexError") \/ \E j \in Int : LogueInsert(d, j, n)
  BY <1>1, <1>2, <1>6 DEF PrologueInsert, EpilogueInsert
<1>7. CASE PrologueClear(d)
  <2> DEFINE I == 1..(t - 1)
  <2>1. Remove(d, I)
    BY <1>7 DEF PrologueClear
  <2>2. I \in SUBSET DOMAIN children[d] /\ \A i \in I : children[d][i] \notin Tags
    BY <1>1
  <2> HIDE DEF I
  <2> QED  BY <1>1, <2>1, <2>2, RemoveIsOrderly
<1>8. CASE EpilogueClear(d)
  <2> DEFINE I == (t + 1)..size
  <2>1. Remove(d, I)
    BY <1>8 DEF EpilogueClear
  <2>2. I \in SUBSET DOMAIN children[d] /\ \A i \in I : children[d][i] \notin Tags
    BY <1>1
  <2> HIDE DEF I
  <2> QED  BY <1>1, <2>1, <2>2, RemoveIsOrderly
<1>9. CASE Raise("IndexError")
  BY <1>9, RaiseIsOrderly
<1> QED  BY <1>3, <1>4, <1>5, <1>6, <1>7, <1>8, <1>9 DEF DocumentCall

LEMMA RemoveFromLogueIsOrderly ==
    ASSUME IInv, NEW d \in Docs, RemoveFromLogue(d)
    PROVE  Orderly
<1>1. PICK n \in Elems(children[d]) \ Tags : LogueRemove(d, n)
  BY DEF RemoveFromLogue
<1> DEFINE s == children[d]
           i == PositionOf(s, n)
<1>2. Remove(d, {i})
  BY <1>1 DEF LogueRemove
<1>3. s \in Seq(Nodes) /\ d \in Parents
  BY ListsTyped, DocumentsAreParents
<1> HIDE DEF s
<1>4. \E k \in DOMAIN s : s[k] = n
  BY DEF Elems, s
<1>5. i \in DOMAIN s /\ s[i] = n
  BY <1>4, Zenon DEF PositionOf
<1> HIDE DEF i
<1>6. {i} \in SUBSET DOMAIN children[d] /\ \A k \in {i} : children[d][k] \notin Tags
  BY <1>5 DEF s
<1> QED  BY <1>2, <1>3, <1>6, RemoveIsOrderly

LEMMA AddIsOrderly ==
    ASSUME IInv, Add
    PROVE  Orderly
<1>1. ASSUME NEW p \in Usable \cap Tags, NEW ns \in Arguments(Joinable(p)),
             AddChildren(p, ns, ns)
      PROVE  Orderly
  <2>1. p \in Parents
    BY DEF Parents
  <2>2. ns \in Seq(Nodes) /\ Elems(ns) \cap Above(p) = {}
    BY <2>1, WhatIsGiven
  <2> QED  BY <1>1, <2>1, <2>2, AddChildrenIsOrderly
<1>2. ASSUME NEW p \in Usable \cap Tags, NEW mc \in Clonings,
             AddChildren(p, <<mc[1]>>, <<mc[2]>>)
      PROVE  Orderly
  <2> DEFINE os == <<mc[1]>>
             cs == <<mc[2]>>
  <2>1. p \in Parents /\ p \in made \cup Docs
    BY DEF Parents, Usable
  <2>2. mc[2] \in Nodes /\ mc[2] \notin Above(p)
    BY <2>1, CopiesJoin
  <2>3. cs \in Seq(Nodes) /\ Elems(cs) = {mc[2]}
    BY <2>2, Singleton
  <2>4. AddChildren(p, os, cs)
    BY <1>2
  <2> HIDE DEF os, cs
  <2> QED  BY <2>1, <2>2, <2>3, <2>4, AddChildrenIsOrderly
<1>3. ASSUME NEW n \in Usable, NEW ns \in Arguments(Joinable(parent[n])),
             AddSiblings(n, ns, ns)
      PROVE  Orderly
  <2>1. n \in Nodes
    BY DEF Usable, IInv, TypeOK
  <2>2. /\ ns \in Seq(Nodes)
        /\ parent[n] \in Parents => (Elems(ns) \cup Elems(ns)) \cap Above(parent[n]) = {}
    BY WhatIsGiven
  <2> QED  BY <1>3, <2>1, <2>2, AddSiblingsIsOrderly
<1>4. ASSUME NEW n \in Usable, NEW mc \in Clonings, mc[1] \in Joinable(parent[n]),
             AddSiblings(n, <<mc[1]>>, <<mc[2]>>)
      PROVE  Orderly
  <2> DEFINE os == <<mc[1]>>
             cs == <<mc[2]>>
  <2>1. n \in Nodes
    BY DEF Usable, IInv, TypeOK
  <2>2. mc[1] \in Nodes /\ mc[2] \in Nodes
    BY DEF Clonings, Usable, IInv, TypeOK
  <2>3. /\ os \in Seq(Nodes) /\ Elems(os) = {mc[1]}
        /\ cs \in Seq(Nodes) /\ Elems(cs) = {mc[2]}
    BY <2>2, Singleton
  <2>4. ASSUME parent[n] \in Parents
        PROVE  (Elems(os) \cup Elems(cs)) \cap Above(parent[n]) = {}
    <3>1. parent[n] \in made \cup Docs
      BY <2>1, <2>4, ParentsExist, NilIsNothing
    <3>2. mc[2] \notin Above(parent[n])
      BY <2>4, <3>1, CopiesJoin
    <3>3. mc[1] \notin Above(parent[n])
      BY <1>4, <2>4, WhatIsGiven
    <3> QED  BY <2>3, <3>2, <3>3
  <2>5. AddSiblings(n, os, cs)
    BY <1>4
  <2> HIDE DEF os, cs
  <2> QED  BY <2>1, <2>3, <2>4, <2>5, AddSiblingsIsOrderly
<1> QED  BY <1>1, <1>2, <1>3, <1>4 DEF Add

LEMMA ReplaceIsOrderly ==
    ASSUME IInv, NEW n \in Usable, Replace(n)
    PROVE  Orderly
<1>1. n \in Nodes
  BY DEF Usable, IInv, TypeOK
<1>2. ASSUME NEW m \in Joinable(parent[n]), ReplaceWith(n, m, m)
      PROVE  Orderly
  <2>1. m \in Nodes /\ (parent[n] \in Parents => m \notin Above(parent[n]))
    BY WhatIsGiven
  <2> QED  BY <1>1, <1>2, <2>1, ReplaceWithIsOrderly
<1>3. ASSUME NEW mc \in Clonings, ReplaceWith(n, mc[1], mc[2])
      PROVE  Orderly
  <2>1. mc[2] \in Nodes
    BY DEF Clonings
  <2>2. ASSUME parent[n] \in Parents
        PROVE  mc[2] \notin Above(parent[n])
    <3>1. parent[n] \in made \cup Docs
      BY <1>1, <2>2, ParentsExist, NilIsNothing
    <3> QED  BY <2>2, <3>1, CopiesJoin
  <2> QED  BY <1>1, <1>3, <2>1, <2>2, ReplaceWithIsOrderly
<1> QED  BY <1>2, <1>3 DEF Replace

\* Nodes that a new tag takes were loose.
LEMMA NewTagIsOrderly ==
    ASSUME IInv, NEW t \in Tags \ made, NEW ns \in Seq(Nodes), t \notin Elems(ns),
           NewTag(t, ns)
    PROVE  Orderly
<1>1. PICK k \in 0..Len(ns) :
        /\ StopsAfter(k, t, ns, {})
        /\ parent' = [n \in Nodes |-> IF n \in Elems(SubSeq(ns, 1, k)) THEN t ELSE parent[n]]
        /\ IF k = Len(ns) THEN children' = [children EXCEPT ![t] = ns]
           ELSE UNCHANGED children
  BY DEF NewTag
<1>2. t \in Parents /\ t \in Nodes /\ t \notin Docs
  BY KindsAreDisjoint DEF Parents, Nodes
<1>3. /\ IsDuplicateFree(SubSeq(ns, 1, k))
      /\ \A n \in Elems(SubSeq(ns, 1, k)) : parent[n] = NIL
  BY <1>1, <1>2, Accepted
<1>4. PlacesKept
  BY <1>1, <1>3 DEF PlacesKept
<1>5. CASE k = Len(ns)
  <2>1. SubSeq(ns, 1, k) = ns
    BY <1>5
  <2>2. children[t] = <<>> /\ parent[t] = NIL
    BY <1>2 DEF IInv, FreshUnlinked
  <2>3. SliceAssign(<<>>, 0, 0, ns) = ns
    BY DEF SliceAssign
  <2>4. children' = [children EXCEPT ![t] = SliceAssign(@, 0, 0, ns)]
    BY <1>1, <1>5, <2>2, <2>3
  <2>5. ClosedAbove({t}, t)
    BY <2>2 DEF ClosedAbove
  <2>6. Elems(ns) \cap Above(t) = {}
    BY <1>2, <2>5 DEF Above
  <2>7. IsDuplicateFree(ns) /\ \A n \in Elems(ns) : parent[n] = NIL
    BY <1>3, <2>1, Zenon
  <2>8. 0 \in 0..Len(children[t])
    BY <2>2
  <2>9. Edited
    BY <1>2, <2>4, <2>6, <2>7, <2>8, GraftIsEdit
  <2> QED  BY <1>4, <2>9 DEF Orderly
<1>6. CASE k # Len(ns)
  BY <1>1, <1>4, <1>6 DEF Orderly, Edited
<1> QED  BY <1>5, <1>6

\* What is made has no parent before.  A deep copy's lists are those of the original
\* with each node exchanged for its copy.
LEMMA CloneIsOrderly ==
    ASSUME IInv, NEW n \in Nodes, NEW D \in SUBSET Nodes, NEW f \in CopyMaps(D),
           NEW deep \in BOOLEAN,
           deep => \A m \in D \cap Tags : Elems(children[m]) \subseteq D,
           Clone(n, deep, f)
    PROVE  Orderly
<1> DEFINE C == {f[m] : m \in D}
           Original(c) == CHOOSE m \in D : f[m] = c
           origin == [c \in C |-> Original(c)]
<1>1. /\ f \in [D -> Nodes \ made] /\ DOMAIN f = D
      /\ \A m \in D : SameKind(m, f[m])
      /\ \A m, o \in D : f[m] = f[o] => m = o
  BY DEF CopyMaps
<1>2. \A m \in D : f[m] \in C /\ Original(f[m]) = m /\ (m \in Tags <=> f[m] \in Tags)
  BY <1>1, KindsAreDisjoint DEF SameKind
<1>3. /\ parent' = [c \in Nodes |-> IF c \in C /\ Original(c) # n
                                    THEN f[parent[Original(c)]] ELSE parent[c]]
      /\ children' = [p \in Parents |-> IF p \in C /\ deep
                                        THEN CopiedList(children[Original(p)], f)
                                        ELSE children[p]]
  BY <1>1 DEF Clone
<1>4. C \subseteq Nodes \ made
  BY <1>1
<1>5. \A c \in C : Original(c) \in D /\ f[Original(c)] = c
  BY <1>2
<1>6. origin \in [C -> D]
  BY <1>5
<1> HIDE DEF C
<1>7. \A c \in C : parent[c] = NIL /\ (c \in Tags => children[c] = <<>>)
  BY <1>4 DEF IInv, FreshUnlinked
<1>8. PlacesKept
  BY <1>3, <1>7 DEF PlacesKept
<1>9. children \in [Parents -> Seq(Nodes)]
  BY DEF IInv, TypeOK
<1>10. CASE ~deep
  <2>1. children' = children
    BY <1>3, <1>9, <1>10
  <2> QED  BY <1>8, <2>1 DEF Orderly, Edited
<1>11. CASE deep
  <2>1. children' = [p \in Parents |-> IF p \in C THEN children'[p] ELSE children[p]]
    BY <1>3
  <2>2. ASSUME NEW c \in C \cap Tags
        PROVE  /\ origin[c] \in Tags
               /\ Len(children'[c]) = Len(children[origin[c]])
               /\ \A i \in DOMAIN children'[c] :
                     /\ children'[c][i] \in C
                     /\ origin[children'[c][i]] = children[origin[c]][i]
    <3> DEFINE o == origin[c]
               s == children[o]
    <3>1. o = Original(c) /\ o \in D /\ o \in Tags /\ c \in Parents
      BY <1>2, <1>5 DEF Parents
    <3>2. children'[c] = CopiedList(s, f)
      BY <1>3, <1>11, <3>1
    <3>3. s \in Seq(Nodes) /\ Elems(s) \subseteq D
      BY <1>9, <1>11, <3>1 DEF Parents
    <3> HIDE DEF s, o
    <3>4. children'[c] = [i \in 1..Len(s) |-> f[s[i]]] /\ DOMAIN s = 1..Len(s) /\ Len(s) \in Nat
      BY <3>2, <3>3 DEF CopiedList
    <3>5. Len(children'[c]) = Len(s) /\ DOMAIN children'[c] = 1..Len(s)
      BY <3>4
    <3>6. \A i \in 1..Len(s) : s[i] \in D
      BY <3>3, <3>4 DEF Elems
    <3>7. \A i \in 1..Len(s) : children'[c][i] = f[s[i]]
      BY <3>4
    <3>8. \A m \in D : origin[f[m]] = m
      BY <1>2
    <3>9. ASSUME NEW i \in DOMAIN children'[c]
          PROVE  children'[c][i] \in C /\ origin[children'[c][i]] = s[i]
      BY <1>2, <3>5, <3>6, <3>7, <3>8
    <3> QED  BY <3>1, <3>5, <3>9 DEF s, o
  <2>3. \A c, e \in C : origin[c] = origin[e] => c = e
    BY <1>5
  <2>4. \A c \in C : Abstract!Loose(c)
    BY <1>4, <1>7, SeenFromOutside
  <2>5. C \in SUBSET Abstract!Nodes /\ origin \in [C -> Abstract!Nodes]
    BY <1>4, <1>6 DEF Abstract!Nodes, Nodes
  <2> HIDE DEF origin
  <2>6. Abstract!Copy(C, origin)
    BY <1>7, <2>1, <2>2, <2>3, <2>4 DEF Abstract!Copy, Abstract!Parents, Parents
  <2>7. Abstract!Changed \subseteq C
    BY <2>1 DEF Abstract!Changed, Abstract!Parents, Parents
  <2>8. Edited
    BY <2>5, <2>6, <2>7 DEF Edited, Abstract!Next
  <2> QED  BY <1>8, <2>8 DEF Orderly
<1> QED  BY <1>10, <1>11

LEMMA CreateIsOrderly ==
    ASSUME IInv, Create
    PROVE  Orderly
<1>1. ASSUME NEW n \in (Texts \cup Misc) \ made, NewLeaf(n)
      PROVE  Orderly
  BY <1>1 DEF NewLeaf, Orderly, PlacesKept, Edited
<1>2. ASSUME NEW t \in Tags \ made, NEW ns \in Arguments(Given \ {t}), NewTag(t, ns)
      PROVE  Orderly
  <2>1. ns \in Seq(Nodes) /\ Elems(ns) \subseteq Given \ {t}
    BY WhatIsGiven
  <2> QED  BY <1>2, <2>1, NewTagIsOrderly
<1>3. Usable \subseteq Nodes
  BY DEF Usable, IInv, TypeOK
<1>4. ASSUME NEW n \in Usable, NEW f \in CopyMaps({n}), Clone(n, FALSE, f)
      PROVE  Orderly
  <2> DEFINE D == {n}
  <2>1. n \in Nodes /\ D \in SUBSET Nodes /\ f \in CopyMaps(D)
    BY <1>3
  <2> HIDE DEF D
  <2> QED  BY <1>4, <2>1, CloneIsOrderly
<1>5. ASSUME NEW n \in Usable, NEW D \in SUBSET Usable, IsSubtree(D, n),
             NEW f \in CopyMaps(D), Clone(n, TRUE, f)
      PROVE  Orderly
  <2>1. n \in Nodes /\ D \in SUBSET Nodes
    BY <1>3
  <2>2. \A m \in D \cap Tags : Elems(children[m]) \subseteq D
    BY <1>5 DEF IsSubtree
  <2> QED  BY <1>5, <2>1, <2>2, CloneIsOrderly
<1> QED  BY <1>1, <1>2, <1>4, <1>5 DEF Create

LEMMA StepIsOrderly ==
    ASSUME IInv, Next
    PROVE  Orderly \/ Lifted
<1>1. Usable \subseteq Nodes
  BY DEF Usable, IInv, TypeOK
<1> QED
  BY <1>1, ReplaceIsOrderly, DocumentCallIsOrderly, RemoveFromLogueIsOrderly, DetachIsOrderly,
     ItemsAreOrderly, AddIsOrderly, CreateIsOrderly DEF Next

\* Retained children go to the grandparent, in the place of their parent, and that
\* call doesn't fail.
LEMMA LiftedSafely ==
    ASSUME IInv, Lifted
    PROVE  /\ outcome' = "ok"
           /\ \A m \in Nodes : parent[m] # NIL /\ parent'[m] \notin {parent[m], NIL} =>
                  /\ parent[m] \in Tags
                  /\ parent'[m] = parent[parent[m]]
                  /\ parent'[parent[m]] = NIL
           /\ Edited
<1>1. PICK n \in Tags : parent[n] \in Tags \ broken /\ Lift(n)
  BY DEF Lifted
<1> DEFINE p == parent[n]
           i == Position(n)
<1>2. /\ outcome' = "ok"
      /\ parent' = [m \in Nodes |-> IF m = n THEN NIL
                                    ELSE IF m \in Elems(children[n]) THEN p
                                    ELSE parent[m]]
      /\ children' = [children EXCEPT ![p] = SliceAssign(@, i - 1, i, children[n]), ![n] = <<>>]
  BY <1>1 DEF Lift, ListsAfterLift
<1>3. n \in Nodes /\ n \in Parents /\ p \in Parents
  BY <1>1 DEF Nodes, Parents
<1>4. \A m \in Elems(children[n]) : parent[m] = n
  BY <1>3 DEF IInv, PointersAgree, Elems
<1>5. i \in 1..Len(children[p]) /\ children[p][i] = n /\ children[p] \in Seq(Nodes)
  BY <1>1, <1>3, PositionFound, ListsTyped
<1>6. Abstract!Dissolve(p, i)
  BY <1>1, <1>2, <1>5 DEF Abstract!Dissolve, Abstract!SliceAssign, SliceAssign
<1>7. Edited
  BY <1>3, <1>5, <1>6, EditIsStep DEF Abstract!Edit
<1> QED  BY <1>2, <1>3, <1>4, <1>7

-----------------------------------------------------------------------------
(* Document order.  All of it is about child lists, of one state or the    *)
(* next one, hence these are parameters here.                              *)

Things == Nodes \cup Docs

\* A holds, with a node, whoever lists it
ClosedIn(K, A) == \A m \in A \cap Nodes : \A q \in Parents : m \in Elems(K[q]) => q \in A

\* x and all that is above it
UpIn(K, x) == {y \in Things : \A A \in SUBSET Things : x \in A /\ ClosedIn(K, A) => y \in A}

\* s precedes t among siblings
Earlier(K, s, t) == \E p \in Parents : InOrder(K[p], s, t)

PrecedesIn(K, m, n) ==
    \/ m # n /\ m \in UpIn(K, n)
    \/ \E s, t \in Nodes : Earlier(K, s, t) /\ s \in UpIn(K, m) /\ t \in UpIn(K, n)

Arranged(K) ==
    /\ K \in [Parents -> Seq(Nodes)]
    /\ \A p, q \in Parents, n \in Nodes : n \in Elems(K[p]) /\ n \in Elems(K[q]) => p = q
    /\ \A p \in Parents : IsDuplicateFree(K[p])
    /\ \A S \in SUBSET Nodes : S # {} =>
          \E n \in S : \A m \in S \cap Tags : n \notin Elems(K[m])

LEMMA TreesAreArranged == IInv => Arranged(children)
<1> SUFFICES ASSUME IInv PROVE Arranged(children)
  OBVIOUS
<1>1. \A p \in Parents, n \in Nodes : n \in Elems(children[p]) => parent[n] = p
  BY DEF IInv, PointersAgree, Elems
<1>2. /\ children \in [Parents -> Seq(Nodes)]
      /\ \A p \in Parents : IsDuplicateFree(children[p])
  BY DEF IInv, TypeOK, PointersAgree
<1>4. ASSUME NEW S \in SUBSET Nodes, S # {}
      PROVE  \E n \in S : \A m \in S \cap Tags : n \notin Elems(children[m])
  <2>1. PICK n \in S : parent[n] \notin S
    BY <1>4 DEF IInv, PointersGrounded
  <2>2. \A m \in S \cap Tags : n \notin Elems(children[m])
    BY <1>1, <2>1 DEF Parents
  <2> QED  BY <2>2
<1>3. \A p, q \in Parents, n \in Nodes :
          n \in Elems(children[p]) /\ n \in Elems(children[q]) => p = q
  BY <1>1
<1> QED  BY <1>2, <1>3, <1>4, Zenon DEF Arranged

LEMMA TreesStayArranged == IInv' => Arranged(children')
<1>1. (IInv => Arranged(children))'
  BY TreesAreArranged, PTL
<1> QED  BY <1>1 DEF Arranged

LEMMA UpIsLeast ==
    ASSUME NEW K, NEW x \in Things
    PROVE  /\ x \in UpIn(K, x) /\ UpIn(K, x) \subseteq Things /\ ClosedIn(K, UpIn(K, x))
           /\ \A A \in SUBSET Things : x \in A /\ ClosedIn(K, A) => UpIn(K, x) \subseteq A
<1>1. x \in UpIn(K, x) /\ UpIn(K, x) \subseteq Things
  BY DEF UpIn
<1>2. \A A \in SUBSET Things : x \in A /\ ClosedIn(K, A) => UpIn(K, x) \subseteq A
  BY DEF UpIn
<1>3. ASSUME NEW m \in UpIn(K, x) \cap Nodes, NEW q \in Parents, m \in Elems(K[q])
      PROVE  q \in UpIn(K, x)
  <2>1. q \in Things
    BY DEF Things, Parents, Nodes
  <2> SUFFICES ASSUME NEW A \in SUBSET Things, x \in A, ClosedIn(K, A)
               PROVE  q \in A
    BY <2>1 DEF UpIn
  <2> QED  BY <1>2, <1>3 DEF ClosedIn
<1> QED  BY <1>1, <1>2, <1>3 DEF ClosedIn

LEMMA UpsNest ==
    ASSUME NEW K, NEW x \in Things, NEW y \in UpIn(K, x)
    PROVE  y \in Things /\ UpIn(K, y) \subseteq UpIn(K, x)
  BY UpIsLeast

LEMMA UpFromChild ==
    ASSUME NEW K, Arranged(K), NEW n \in Nodes, NEW p \in Parents, n \in Elems(K[p])
    PROVE  UpIn(K, n) = {n} \cup UpIn(K, p)
<1>1. n \in Things /\ p \in Things
  BY DEF Things, Parents, Nodes
<1>2. p \in UpIn(K, n) /\ n \in UpIn(K, n)
  BY <1>1, UpIsLeast DEF ClosedIn
<1>3. p \in UpIn(K, p) /\ UpIn(K, p) \subseteq Things /\ ClosedIn(K, UpIn(K, p))
  BY <1>1, UpIsLeast
<1>4. ClosedIn(K, {n} \cup UpIn(K, p))
  BY <1>3 DEF ClosedIn, Arranged
<1>5. UpIn(K, n) \subseteq {n} \cup UpIn(K, p)
  BY <1>1, <1>3, <1>4, UpIsLeast
<1> QED  BY <1>1, <1>2, <1>5, UpsNest

LEMMA UpFromTop ==
    ASSUME NEW K, NEW x \in Things,
           \A q \in Parents : x \in Nodes => x \notin Elems(K[q])
    PROVE  UpIn(K, x) = {x}
<1>1. ClosedIn(K, {x})
  BY DEF ClosedIn
<1> QED  BY <1>1, UpIsLeast

LEMMA DocumentsAreOnTop ==
    ASSUME NEW K, NEW d \in Docs
    PROVE  d \in Things /\ d \notin Nodes /\ UpIn(K, d) = {d}
  BY UpFromTop, KindsAreDisjoint DEF Things, Nodes

\* Each thing but the uppermost has a parent.
LEMMA HasParent ==
    ASSUME NEW K, Arranged(K), NEW x \in Things, NEW y \in UpIn(K, x), y # x
    PROVE  x \in Nodes /\ \E p \in Parents : x \in Elems(K[p]) /\ y \in UpIn(K, p)
<1>1. \E q \in Parents : x \in Nodes /\ x \in Elems(K[q])
  BY UpFromTop
<1> QED  BY <1>1, UpFromChild

LEMMA NotAboveEachOther ==
    ASSUME NEW K, Arranged(K), NEW x \in Things, NEW y \in UpIn(K, x), x \in UpIn(K, y)
    PROVE  x = y
<1> SUFFICES ASSUME x # y PROVE FALSE
  OBVIOUS
<1> DEFINE S == {z \in UpIn(K, x) : x \in UpIn(K, z)}
<1>1. x \in S /\ y \in S /\ S \subseteq Things /\ y \in Things
  BY UpIsLeast
<1>2. \A z \in S : z \notin Docs
  BY <1>1, DocumentsAreOnTop, UpsNest
<1>3. S \in SUBSET Nodes
  BY <1>1, <1>2 DEF Things
<1>4. PICK z \in S : \A m \in S \cap Tags : z \notin Elems(K[m])
  BY <1>1, <1>3 DEF Arranged
<1>5. PICK w \in S : w # z
  BY <1>1
<1>6. z \in Things /\ w \in UpIn(K, z)
  BY <1>1, UpsNest
<1>7. PICK p \in Parents : z \in Nodes /\ z \in Elems(K[p]) /\ w \in UpIn(K, p)
  BY <1>5, <1>6, HasParent
<1>8. p \in UpIn(K, z) /\ p \in Things
  BY <1>6, <1>7, UpIsLeast DEF ClosedIn
<1>9. p \in UpIn(K, x)
  BY <1>1, <1>8, UpsNest
<1>10. x \in UpIn(K, p)
  BY <1>7, <1>8, UpsNest
<1>11. p \in S
  BY <1>9, <1>10
<1>12. p \in Tags
  BY <1>2, <1>7, <1>11 DEF Parents
<1> QED  BY <1>4, <1>7, <1>11, <1>12

\* Of two things above a third one, one is above the other.
LEMMA UpIsChain ==
    ASSUME NEW K, Arranged(K), NEW z \in Things, NEW x \in UpIn(K, z), NEW y \in UpIn(K, z)
    PROVE  x \in UpIn(K, y) \/ y \in UpIn(K, x)
<1> DEFINE T == {w \in Things : x \in UpIn(K, w) \/ w \in UpIn(K, x)}
<1>1. x \in Things /\ y \in Things
  BY UpIsLeast
<1>2. ASSUME NEW w \in T \cap Nodes, NEW q \in Parents, w \in Elems(K[q])
      PROVE  q \in T
  <2>1. q \in Things
    BY DEF Things, Parents, Nodes
  <2>2. CASE w \in UpIn(K, x)
    <3>1. q \in UpIn(K, x)
      BY <1>1, <1>2, <2>2, UpIsLeast DEF ClosedIn
    <3> QED  BY <2>1, <3>1
  <2>3. CASE x \in UpIn(K, w) /\ w \notin UpIn(K, x)
    <3>1. x # w
      BY <1>1, <2>3, UpIsLeast
    <3>2. x \in UpIn(K, q)
      BY <1>2, <2>3, <3>1, UpFromChild
    <3> QED  BY <2>1, <3>2
  <2> QED  BY <1>2, <2>2, <2>3
<1>3. ClosedIn(K, T)
  BY <1>2 DEF ClosedIn
<1>4. z \in T
  OBVIOUS
<1>5. UpIn(K, z) \subseteq T
  BY <1>3, <1>4, UpIsLeast
<1> QED  BY <1>5

\* Children are below their parent only.
LEMMA ChildIsNotAbove ==
    ASSUME NEW K, Arranged(K), NEW p \in Parents, NEW m \in Nodes, m \in Elems(K[p])
    PROVE  m \notin UpIn(K, p) /\ m # p
<1> SUFFICES ASSUME m \in UpIn(K, p) PROVE FALSE
  <2>1. p \in Things
    BY DEF Things, Parents, Nodes
  <2> QED  BY <2>1, UpIsLeast
<1>1. p \in UpIn(K, m) /\ m \in Things /\ p \in Things
  <2>1. UpIn(K, m) = {m} \cup UpIn(K, p) /\ m \in Things /\ p \in Things
    BY UpFromChild DEF Things, Parents, Nodes
  <2> QED  BY <2>1, UpIsLeast
<1>2. m = p
  BY <1>1, NotAboveEachOther
<1>3. p \in Tags /\ p \in Nodes
  BY <1>2, DocumentsAreOnTop DEF Parents
<1> DEFINE S == {p}
<1>4. S \in SUBSET Nodes /\ S # {}
  BY <1>3
<1>5. p \in S /\ \A n \in S : n = p
  OBVIOUS
<1> HIDE DEF S
<1>6. \E n \in S : \A o \in S \cap Tags : n \notin Elems(K[o])
  BY <1>4 DEF Arranged
<1> QED  BY <1>2, <1>3, <1>5, <1>6

LEMMA OneOfSiblingsAbove ==
    ASSUME NEW K, Arranged(K), NEW z \in Things, NEW p \in Parents,
           NEW i \in DOMAIN K[p], NEW j \in DOMAIN K[p],
           K[p][i] \in UpIn(K, z), K[p][j] \in UpIn(K, z)
    PROVE  i = j
<1> DEFINE s == K[p][i]
           t == K[p][j]
<1>1. s \in Nodes /\ t \in Nodes /\ s \in Elems(K[p]) /\ t \in Elems(K[p])
  BY DEF Arranged, Elems
<1>2. p \in Things /\ s \in Things /\ t \in Things
  BY <1>1 DEF Things, Parents, Nodes
<1>3. s \notin UpIn(K, p) /\ t \notin UpIn(K, p)
  BY <1>1, ChildIsNotAbove
<1>4. s \in UpIn(K, t) \/ t \in UpIn(K, s)
  BY UpIsChain
<1>5. UpIn(K, t) = {t} \cup UpIn(K, p) /\ UpIn(K, s) = {s} \cup UpIn(K, p)
  BY <1>1, UpFromChild
<1>6. s = t
  BY <1>1, <1>3, <1>4, <1>5
<1> QED  BY <1>6 DEF Arranged, IsDuplicateFree

\* The order is one: no two nodes precede each other.
LEMMA OrderIsAsymmetric ==
    ASSUME NEW K, Arranged(K), NEW a \in Nodes, NEW b \in Nodes,
           PrecedesIn(K, a, b), PrecedesIn(K, b, a)
    PROVE  FALSE
<1>1. a \in Things /\ b \in Things
  BY DEF Things
<1>2. ASSUME NEW x \in Things, NEW y \in Things, NEW s \in Nodes, NEW t \in Nodes,
             x \in UpIn(K, y), Earlier(K, s, t),
             (s \in UpIn(K, x) /\ t \in UpIn(K, y)) \/ (s \in UpIn(K, y) /\ t \in UpIn(K, x))
      PROVE  FALSE
  <2>1. s \in UpIn(K, y) /\ t \in UpIn(K, y)
    <3>1. UpIn(K, x) \subseteq UpIn(K, y)
      BY <1>2, UpsNest
    <3> QED  BY <1>2, <3>1
  <2>2. PICK p \in Parents : \E i, j \in DOMAIN K[p] : i < j /\ K[p][i] = s /\ K[p][j] = t
    BY <1>2 DEF Earlier, InOrder
  <2>3. PICK i \in DOMAIN K[p], j \in DOMAIN K[p] : i < j /\ K[p][i] = s /\ K[p][j] = t
    BY <2>2
  <2>4. i \in Int /\ j \in Int /\ i = j
    <3>1. DOMAIN K[p] \subseteq Int
      BY DEF Arranged
    <3> QED  BY <1>2, <2>1, <2>3, <3>1, OneOfSiblingsAbove
  <2> QED  BY <2>3, <2>4
<1>3. CASE a \in UpIn(K, b) /\ a # b
  <2>1. b \notin UpIn(K, a)
    BY <1>1, <1>3, NotAboveEachOther
  <2> QED  BY <1>1, <1>2, <1>3, <2>1 DEF PrecedesIn
<1>4. CASE b \in UpIn(K, a) /\ a # b
  <2>1. a \notin UpIn(K, b)
    BY <1>1, <1>4, NotAboveEachOther
  <2> QED  BY <1>1, <1>2, <1>4, <2>1 DEF PrecedesIn
<1>5. CASE ~(a \in UpIn(K, b) /\ a # b) /\ ~(b \in UpIn(K, a) /\ a # b)
  <2>1. PICK s \in Nodes, t \in Nodes : Earlier(K, s, t) /\ s \in UpIn(K, a) /\ t \in UpIn(K, b)
    BY <1>5 DEF PrecedesIn
  <2>2. PICK u \in Nodes, v \in Nodes : Earlier(K, u, v) /\ u \in UpIn(K, b) /\ v \in UpIn(K, a)
    BY <1>5 DEF PrecedesIn
  <2>3. PICK p \in Parents : \E i, j \in DOMAIN K[p] : i < j /\ K[p][i] = s /\ K[p][j] = t
    BY <2>1 DEF Earlier, InOrder
  <2>4. PICK q \in Parents : \E k, l \in DOMAIN K[q] : k < l /\ K[q][k] = u /\ K[q][l] = v
    BY <2>2 DEF Earlier, InOrder
  <2>5. PICK i \in DOMAIN K[p], j \in DOMAIN K[p] : i < j /\ K[p][i] = s /\ K[p][j] = t
    BY <2>3
  <2>6. PICK k \in DOMAIN K[q], l \in DOMAIN K[q] : k < l /\ K[q][k] = u /\ K[q][l] = v
    BY <2>4
  <2>7. i \in Int /\ j \in Int /\ k \in Int /\ l \in Int
    BY DEF Arranged
  <2>8. CASE p = q
    <3>1. i = l
      BY <1>1, <2>1, <2>2, <2>5, <2>6, <2>8, OneOfSiblingsAbove
    <3>2. j = k
      BY <1>1, <2>1, <2>2, <2>5, <2>6, <2>8, OneOfSiblingsAbove
    <3> QED  BY <2>5, <2>6, <2>7, <3>1, <3>2
  <2>9. CASE p # q
    <3>1. /\ s \in Elems(K[p]) /\ t \in Elems(K[p])
          /\ u \in Elems(K[q]) /\ v \in Elems(K[q])
      BY <2>5, <2>6 DEF Elems
    <3>2. p \in Things /\ q \in Things
      BY DEF Things, Parents, Nodes
    <3>3. /\ p \in UpIn(K, a) /\ p \in UpIn(K, b)
          /\ q \in UpIn(K, a) /\ q \in UpIn(K, b)
      BY <1>1, <2>1, <2>2, <3>1, UpIsLeast DEF ClosedIn
    \* what is above x apart from p's ancestors is below p
    <3>4. ASSUME NEW x \in Things, NEW r1 \in Parents, NEW r2 \in Parents, r1 # r2,
                 r1 \in UpIn(K, x), r2 \in UpIn(K, r1),
                 NEW w \in Nodes, w \in UpIn(K, x), w \in Elems(K[r2])
          PROVE  w \in UpIn(K, r1)
      <4>1. w \in Things /\ r1 \in Things /\ r2 \in Things
        BY DEF Things, Parents, Nodes
      <4>2. w \in UpIn(K, r1) \/ r1 \in UpIn(K, w)
        BY <3>4, UpIsChain
      <4>3. ASSUME r1 \in UpIn(K, w), r1 # w
            PROVE  FALSE
        <5>1. r1 \in UpIn(K, r2)
          BY <3>4, <4>3, UpFromChild
        <5> QED  BY <3>4, <4>1, <5>1, NotAboveEachOther
      <4> QED  BY <4>1, <4>2, <4>3, UpIsLeast
    <3>5. CASE q \in UpIn(K, p)
      <4>1. u \in UpIn(K, p) /\ v \in UpIn(K, p)
        BY <1>1, <2>2, <2>9, <3>1, <3>3, <3>4, <3>5
      <4>2. k = l
        BY <2>6, <3>2, <4>1, OneOfSiblingsAbove
      <4> QED  BY <2>6, <2>7, <4>2
    <3>6. CASE p \in UpIn(K, q)
      <4>1. s \in UpIn(K, q) /\ t \in UpIn(K, q)
        BY <1>1, <2>1, <2>9, <3>1, <3>3, <3>4, <3>6
      <4>2. i = j
        BY <2>5, <3>2, <4>1, OneOfSiblingsAbove
      <4> QED  BY <2>5, <2>7, <4>2
    <3> QED  BY <1>1, <3>3, <3>5, <3>6, UpIsChain
  <2> QED  BY <2>8, <2>9
<1> QED  BY <1>3, <1>4, <1>5

-----------------------------------------------------------------------------
(* From the lists K before an edit to the lists L after it *)

OrderStays(K, L) == \A a, b \in Nodes : PrecedesIn(K, a, b) => ~PrecedesIn(L, b, a)

\* L orders nothing that K doesn't, if all ways up in it lead up in K as well, and
\* siblings in it are, or are below, siblings in K that are ordered alike.
LEMMA FewerAreOrdered ==
    ASSUME NEW K, NEW L,
           \A A \in SUBSET Things : ClosedIn(K, A) => ClosedIn(L, A),
           \A s, t \in Nodes : Earlier(L, s, t) =>
               \E u, v \in Nodes : u \in UpIn(K, s) /\ v \in UpIn(K, t) /\ Earlier(K, u, v)
    PROVE  \A a, b \in Nodes : PrecedesIn(L, a, b) => PrecedesIn(K, a, b)
<1> SUFFICES ASSUME NEW a \in Nodes, NEW b \in Nodes, PrecedesIn(L, a, b)
             PROVE  PrecedesIn(K, a, b)
  OBVIOUS
<1>1. \A x \in Things : UpIn(L, x) \subseteq UpIn(K, x)
  BY DEF UpIn
<1>2. a \in Things /\ b \in Things
  BY DEF Things
<1>3. CASE a # b /\ a \in UpIn(L, b)
  BY <1>1, <1>2, <1>3 DEF PrecedesIn
<1>4. CASE \E s, t \in Nodes : Earlier(L, s, t) /\ s \in UpIn(L, a) /\ t \in UpIn(L, b)
  <2>1. PICK s \in Nodes, t \in Nodes :
            Earlier(L, s, t) /\ s \in UpIn(L, a) /\ t \in UpIn(L, b)
    BY <1>4
  <2>2. s \in UpIn(K, a) /\ t \in UpIn(K, b)
    BY <1>1, <1>2, <2>1
  <2>3. PICK u \in Nodes, v \in Nodes :
            u \in UpIn(K, s) /\ v \in UpIn(K, t) /\ Earlier(K, u, v)
    BY <2>1
  <2>4. u \in UpIn(K, a) /\ v \in UpIn(K, b)
    BY <1>2, <2>2, <2>3, UpsNest
  <2> QED  BY <2>3, <2>4 DEF PrecedesIn
<1> QED  BY <1>3, <1>4 DEF PrecedesIn

\* all that is listed in K is so in L, in the same order
Thinner(K, L) ==
    \A p \in Parents :
        /\ Elems(K[p]) \subseteq Elems(L[p])
        /\ \A s, t \in Nodes : InOrder(K[p], s, t) => InOrder(L[p], s, t)

LEMMA ThinnerOrdersLess ==
    ASSUME NEW K, NEW L, Thinner(K, L)
    PROVE  \A a, b \in Nodes : PrecedesIn(K, a, b) => PrecedesIn(L, a, b)
<1>1. \A A \in SUBSET Things : ClosedIn(L, A) => ClosedIn(K, A)
  BY DEF Thinner, ClosedIn
<1>2. \A s \in Nodes : s \in UpIn(L, s)
  BY UpIsLeast DEF Things
<1>3. \A s, t \in Nodes : Earlier(K, s, t) => Earlier(L, s, t)
  BY DEF Earlier, Thinner
<1> QED  BY <1>1, <1>2, <1>3, FewerAreOrdered

\* Nodes that are put in or taken out change no order among the others.
LEMMA ThinnerKeepsOrder ==
    ASSUME NEW K, NEW L, Arranged(K), Arranged(L), Thinner(K, L) \/ Thinner(L, K)
    PROVE  OrderStays(K, L)
  BY ThinnerOrdersLess, OrderIsAsymmetric DEF OrderStays

LEMMA GraftThickens ==
    ASSUME NEW K \in [Parents -> Seq(Nodes)], NEW p \in Parents,
           NEW i \in 0..Len(K[p]), NEW block \in Seq(Nodes)
    PROVE  Thinner(K, [K EXCEPT ![p] = SliceAssign(@, i, i, block)])
<1> DEFINE r == SliceAssign(K[p], i, i, block)
           L == [K EXCEPT ![p] = r]
<1>1. K[p] \in Seq(Nodes) /\ i \in i..Len(K[p]) /\ Len(K[p]) \in Nat
  OBVIOUS
<1>2. Elems(r) = {K[p][k] : k \in 1..i} \cup Elems(block) \cup {K[p][k] : k \in (i + 1)..Len(K[p])}
  BY <1>1, SliceAssignElems
<1>3. Elems(K[p]) \subseteq Elems(r)
  <2>1. \A k \in DOMAIN K[p] : k \in 1..i \/ k \in (i + 1)..Len(K[p])
    BY <1>1
  <2> QED  BY <1>2, <2>1 DEF Elems
<1>4. \A g, h \in DOMAIN K[p] : g < h => InOrder(r, K[p][g], K[p][h])
  <2>1. (i + 1)..i = {}
    BY <1>1
  <2> QED  BY <1>1, <2>1, SliceAssignKeepsOrder
<1> HIDE DEF r
<1>5. \A s, t \in Nodes : InOrder(K[p], s, t) => InOrder(r, s, t)
  BY <1>4 DEF InOrder
<1>6. \A q \in Parents : L[q] = IF q = p THEN r ELSE K[q]
  OBVIOUS
<1> HIDE DEF L
<1>7. Thinner(K, L)
  BY <1>3, <1>5, <1>6 DEF Thinner
<1> QED  BY <1>7 DEF L, r

LEMMA PruneThins ==
    ASSUME NEW K \in [Parents -> Seq(Nodes)], NEW p \in Parents, NEW I
    PROVE  Thinner([K EXCEPT ![p] = Without(@, I)], K)
<1> DEFINE r == Without(K[p], I)
           L == [K EXCEPT ![p] = r]
<1>1. K[p] \in Seq(Nodes)
  OBVIOUS
<1>2. Elems(r) = {K[p][i] : i \in DOMAIN K[p] \ I}
  BY <1>1, WithoutElems
<1>3. Elems(r) \subseteq Elems(K[p])
  BY <1>2 DEF Elems
<1>4. \A s, t \in Nodes : InOrder(r, s, t) => InOrder(K[p], s, t)
  BY <1>1, WithoutInOrder
<1> HIDE DEF r
<1>5. \A q \in Parents : L[q] = IF q = p THEN r ELSE K[q]
  OBVIOUS
<1> HIDE DEF L
<1>6. Thinner(L, K)
  BY <1>3, <1>4, <1>5 DEF Thinner
<1> QED  BY <1>6 DEF L, r

LEMMA DissolveKeepsOrder ==
    ASSUME NEW K, NEW L, Arranged(K), Arranged(L),
           NEW p \in Parents, NEW i \in DOMAIN K[p], NEW n \in Tags, n = K[p][i],
           L = [K EXCEPT ![p] = SliceAssign(@, i - 1, i, K[n]), ![n] = <<>>]
    PROVE  OrderStays(K, L)
<1> DEFINE s == K[p]
           h == i - 1
           r == SliceAssign(s, h, i, K[n])
<1>1. s \in Seq(Nodes) /\ K[n] \in Seq(Nodes) /\ n \in Parents /\ n \in Nodes /\ n \in Elems(s)
  BY DEF Arranged, Parents, Nodes, Elems
<1>2. n # p
  BY <1>1, ChildIsNotAbove
<1>3. \A q \in Parents : L[q] = IF q = p THEN r ELSE IF q = n THEN <<>> ELSE K[q]
  BY <1>1, <1>2 DEF Arranged
<1>4. /\ Len(s) \in Nat /\ i \in 1..Len(s) /\ h \in 0..Len(s) /\ i \in h..Len(s)
      /\ \A k \in 1..h : k \in DOMAIN s /\ k < i
      /\ \A k \in (i + 1)..Len(s) : k \in DOMAIN s /\ i < k
  BY <1>1
<1>5. Elems(r) = {s[k] : k \in 1..h} \cup Elems(K[n]) \cup {s[k] : k \in (i + 1)..Len(s)}
  BY <1>1, <1>4, SliceAssignElems
<1>6. Elems(r) \subseteq Elems(s) \cup Elems(K[n])
  BY <1>4, <1>5 DEF Elems
<1>7. \A x, y \in Nodes : InOrder(r, x, y) =>
          \/ InOrder(s, x, y)
          \/ InOrder(K[n], x, y)
          \/ x \in Elems(K[n]) /\ \E k \in (i + 1)..Len(s) : s[k] = y
          \/ y \in Elems(K[n]) /\ \E k \in 1..h : s[k] = x
  BY <1>1, <1>4, SliceAssignInOrder
<1> HIDE DEF r
<1>8. \A x, y \in Nodes : InOrder(r, x, y) =>
          \/ InOrder(s, x, y)
          \/ InOrder(K[n], x, y)
          \/ x \in Elems(K[n]) /\ InOrder(s, n, y)
          \/ y \in Elems(K[n]) /\ InOrder(s, x, n)
  <2> SUFFICES ASSUME NEW x \in Nodes, NEW y \in Nodes, InOrder(r, x, y)
               PROVE  \/ InOrder(s, x, y)
                      \/ InOrder(K[n], x, y)
                      \/ x \in Elems(K[n]) /\ InOrder(s, n, y)
                      \/ y \in Elems(K[n]) /\ InOrder(s, x, n)
    OBVIOUS
  <2>1. (\E k \in (i + 1)..Len(s) : s[k] = y) => InOrder(s, n, y)
    BY <1>4 DEF InOrder
  <2>2. (\E k \in 1..h : s[k] = x) => InOrder(s, x, n)
    BY <1>4 DEF InOrder
  <2> QED  BY <1>7, <2>1, <2>2
<1> HIDE DEF s
<1>9. ASSUME NEW A \in SUBSET Things, ClosedIn(K, A)
      PROVE  ClosedIn(L, A)
  <2> SUFFICES ASSUME NEW m \in A \cap Nodes, NEW q \in Parents, m \in Elems(L[q])
               PROVE  q \in A
    BY DEF ClosedIn
  <2>1. CASE q = p
    BY <1>1, <1>3, <1>6, <1>9, <2>1 DEF ClosedIn, s
  <2>2. CASE q # p
    <3>1. q # n
      BY <1>2, <1>3, <2>2, EmptyList
    <3> QED  BY <1>3, <1>9, <2>2, <3>1 DEF ClosedIn
  <2> QED  BY <2>1, <2>2
<1>10. ASSUME NEW x \in Nodes, NEW y \in Nodes, Earlier(L, x, y)
       PROVE  \E u, v \in Nodes : u \in UpIn(K, x) /\ v \in UpIn(K, y) /\ Earlier(K, u, v)
  <2>1. x \in Things /\ y \in Things /\ x \in UpIn(K, x) /\ y \in UpIn(K, y)
    BY UpIsLeast DEF Things
  <2>2. \A z \in Nodes : z \in Elems(K[n]) => n \in UpIn(K, z)
    <3> SUFFICES ASSUME NEW z \in Nodes, z \in Elems(K[n]) PROVE n \in UpIn(K, z)
      OBVIOUS
    <3>1. z \in Things
      BY DEF Things
    <3> QED  BY <1>1, <3>1, UpIsLeast DEF ClosedIn
  <2>3. PICK q \in Parents : InOrder(L[q], x, y)
    BY <1>10 DEF Earlier
  <2>4. CASE q = p
    <3>1. InOrder(r, x, y)
      BY <1>3, <2>3, <2>4
    <3>2. CASE InOrder(s, x, y) \/ InOrder(K[n], x, y)
      <4>1. Earlier(K, x, y)
        BY <1>1, <3>2 DEF Earlier, s
      <4> QED  BY <2>1, <4>1
    <3>3. CASE x \in Elems(K[n]) /\ InOrder(s, n, y)
      <4>1. Earlier(K, n, y)
        BY <3>3 DEF Earlier, s
      <4> QED  BY <1>1, <2>1, <2>2, <3>3, <4>1
    <3>4. CASE y \in Elems(K[n]) /\ InOrder(s, x, n)
      <4>1. Earlier(K, x, n)
        BY <3>4 DEF Earlier, s
      <4> QED  BY <1>1, <2>1, <2>2, <3>4, <4>1
    <3> QED  BY <1>8, <3>1, <3>2, <3>3, <3>4
  <2>5. CASE q # p
    <3>1. ~InOrder(<<>>, x, y)
      BY DEF InOrder
    <3>2. L[q] = K[q]
      BY <1>2, <1>3, <2>3, <2>5, <3>1
    <3> QED  BY <2>1, <2>3, <3>2 DEF Earlier
  <2> QED  BY <2>4, <2>5
<1>11. \A a, b \in Nodes : PrecedesIn(L, a, b) => PrecedesIn(K, a, b)
  BY <1>9, <1>10, FewerAreOrdered
<1> QED  BY <1>11, OrderIsAsymmetric DEF OrderStays

\* What is below x, and only that, comes off with it.
Below(K, x) == {m \in Things : x \in UpIn(K, m)}

\* in place of x, p lists n, that nobody listed
Swapped(K, L, p, x, n) ==
    /\ x \in Elems(K[p])
    /\ \A q \in Parents : n \notin Elems(K[q])
    /\ Elems(L[p]) = (Elems(K[p]) \ {x}) \cup {n}
    /\ \A q \in Parents \ {p} : L[q] = K[q]

LEMMA SwapSeparates ==
    ASSUME NEW K, NEW L, Arranged(K), Arranged(L),
           NEW p \in Parents, NEW x \in Nodes, NEW n \in Nodes, Swapped(K, L, p, x, n)
    PROVE  /\ p \notin Below(K, x) /\ n \notin Below(K, x) /\ x \in Below(K, x)
           /\ ClosedIn(L, Below(K, x)) /\ ClosedIn(L, Things \ Below(K, x))
           /\ \A m \in Nodes, q \in Parents : m \in Elems(L[q]) =>
                 (m \in Below(K, x) <=> q \in Below(K, x))
<1> DEFINE D == Below(K, x)
<1>1. x \in Things /\ n \in Things /\ p \in Things /\ Parents \subseteq Things
  BY DEF Things, Parents, Nodes
<1>2. x # n
  BY DEF Swapped
<1>3. p \notin D
  BY <1>1, ChildIsNotAbove DEF Below, Swapped
<1>4. n \notin D
  BY <1>1, <1>2, UpFromTop DEF Below, Swapped
<1>5. x \in D
  BY <1>1, UpIsLeast DEF Below
<1>6. ASSUME NEW m \in Nodes, NEW q \in Parents, m \in Elems(L[q])
      PROVE  m \in D <=> q \in D
  <2>1. m \in Things /\ q \in Things
    BY <1>1 DEF Things
  <2>2. CASE q = p /\ m = n
    BY <1>3, <1>4, <2>2
  <2>3. CASE ~(q = p /\ m = n)
    <3>1. m \in Elems(K[q]) /\ m # x
      <4>1. CASE q = p
        BY <1>6, <2>3, <4>1 DEF Swapped
      <4>2. CASE q # p
        <5>1. m \in Elems(K[q]) /\ x \in Elems(K[p])
          BY <1>6, <4>2 DEF Swapped
        <5> QED  BY <4>2, <5>1 DEF Arranged
      <4> QED  BY <4>1, <4>2
    <3>2. UpIn(K, m) = {m} \cup UpIn(K, q)
      BY <3>1, UpFromChild
    <3> QED  BY <2>1, <3>1, <3>2 DEF Below
  <2> QED  BY <2>2, <2>3
<1>7. ClosedIn(L, D) /\ ClosedIn(L, Things \ D)
  BY <1>1, <1>6 DEF ClosedIn
<1> QED  BY <1>3, <1>4, <1>5, <1>6, <1>7

\* One member of a list is exchanged for another one.
LEMMA MemberExchanged ==
    ASSUME NEW S, NEW s \in Seq(S), IsDuplicateFree(s), NEW i \in DOMAIN s,
           NEW new \in Seq(S), NEW n, Elems(new) = {n}
    PROVE  LET r == SliceAssign(s, i - 1, i, new) IN
           /\ Elems(r) = (Elems(s) \ {s[i]}) \cup {n}
           /\ \A g, k \in DOMAIN s : g < k /\ g # i /\ k # i => InOrder(r, s[g], s[k])
<1> DEFINE h == i - 1
           r == SliceAssign(s, h, i, new)
<1>1. Len(s) \in Nat /\ i \in 1..Len(s) /\ h \in 0..Len(s) /\ i \in h..Len(s)
  OBVIOUS
<1>2. /\ DOMAIN s = 1..Len(s)
      /\ \A k \in DOMAIN s : k # i <=> k \in 1..h \cup (i + 1)..Len(s)
      /\ \A k \in DOMAIN s : k \in (h + 1)..i => k = i
      /\ 1..h \subseteq DOMAIN s /\ (i + 1)..Len(s) \subseteq DOMAIN s
  BY <1>1
<1>3. Elems(r) = {s[k] : k \in 1..h} \cup Elems(new) \cup {s[k] : k \in (i + 1)..Len(s)}
  BY <1>1, SliceAssignElems
<1>4. Elems(r) = (Elems(s) \ {s[i]}) \cup {n}
  <2>1. \A k \in DOMAIN s : s[k] # s[i] <=> k # i
    BY DEF IsDuplicateFree
  <2>2. Elems(s) \ {s[i]} = {s[k] : k \in 1..h} \cup {s[k] : k \in (i + 1)..Len(s)}
    BY <1>2, <2>1 DEF Elems
  <2> QED  BY <1>3, <2>2
<1>5. \A g, k \in DOMAIN s : g < k /\ g # i /\ k # i => InOrder(r, s[g], s[k])
  BY <1>1, <1>2, SliceAssignKeepsOrder
<1> QED  BY <1>4, <1>5

LEMMA SwapKeepsOrder ==
    ASSUME NEW K, NEW L, Arranged(K), Arranged(L),
           NEW p \in Parents, NEW i \in DOMAIN K[p], NEW n \in Nodes,
           \A q \in Parents : n \notin Elems(K[q]),
           NEW new \in Seq(Nodes), Elems(new) = {n},
           L[p] = SliceAssign(K[p], i - 1, i, new), \A q \in Parents \ {p} : L[q] = K[q]
    PROVE  OrderStays(K, L)
<1> DEFINE s == K[p]
           x == s[i]
           r == SliceAssign(s, i - 1, i, new)
           D == Below(K, x)
<1>1. s \in Seq(Nodes) /\ x \in Nodes /\ x \in Elems(s) /\ IsDuplicateFree(s)
  BY DEF Arranged, Elems
<1>3. \A q \in Parents : L[q] = IF q = p THEN r ELSE K[q]
  OBVIOUS
<1>6. /\ Elems(r) = (Elems(s) \ {x}) \cup {n}
      /\ \A g, k \in DOMAIN s : g < k /\ g # i /\ k # i => InOrder(r, s[g], s[k])
  BY <1>1, MemberExchanged
<1> HIDE DEF r, s, x
<1>8. /\ p \notin D /\ n \notin D /\ x \in D
      /\ ClosedIn(L, D) /\ ClosedIn(L, Things \ D)
      /\ \A m \in Nodes, q \in Parents : m \in Elems(L[q]) => (m \in D <=> q \in D)
  <2>1. Swapped(K, L, p, x, n)
    BY <1>1, <1>3, <1>6 DEF Swapped, s
  <2> QED  BY <1>1, <2>1, SwapSeparates
<1>9. ASSUME NEW a \in Things \ D
      PROVE  UpIn(K, a) \subseteq UpIn(L, a) /\ UpIn(L, a) \cap D = {}
  <2>1. UpIn(L, a) \cap D = {}
    <3>1. UpIn(L, a) \subseteq Things \ D
      BY <1>8, UpIsLeast
    <3> QED  BY <3>1
  <2>2. a \in UpIn(L, a) /\ ClosedIn(L, UpIn(L, a)) /\ UpIn(L, a) \in SUBSET Things
    BY UpIsLeast
  <2>3. ASSUME NEW m \in UpIn(L, a) \cap Nodes, NEW q \in Parents, m \in Elems(K[q])
        PROVE  q \in UpIn(L, a)
    <3>1. m # x
      BY <1>8, <2>1
    <3>2. m \in Elems(L[q])
      BY <1>3, <1>6, <2>3, <3>1 DEF s
    <3> QED  BY <2>2, <3>2 DEF ClosedIn
  <2>4. ClosedIn(K, UpIn(L, a))
    BY <2>3 DEF ClosedIn
  <2> QED  BY <2>1, <2>2, <2>4, UpIsLeast
<1>10. ASSUME NEW a \in D
       PROVE  UpIn(L, a) \subseteq UpIn(K, a) \cap D
  <2>1. a \in Things
    BY DEF Below
  <2>2. a \in UpIn(K, a) /\ UpIn(K, a) \subseteq Things /\ ClosedIn(K, UpIn(K, a))
    BY <2>1, UpIsLeast
  <2>3. ASSUME NEW m \in UpIn(K, a) \cap D, m \in Nodes, NEW q \in Parents, m \in Elems(L[q])
        PROVE  q \in UpIn(K, a) \cap D
    <3>1. q \in D
      BY <1>8, <2>3
    <3>2. m \in Elems(K[q])
      BY <1>3, <1>8, <2>3, <3>1
    <3> QED  BY <2>2, <2>3, <3>1, <3>2 DEF ClosedIn
  <2>4. ClosedIn(L, UpIn(K, a) \cap D)
    BY <2>3 DEF ClosedIn
  <2> QED  BY <2>1, <2>2, <2>4, UpIsLeast
\* among what stays, K's order is in L
<1>11. ASSUME NEW a \in Nodes \ D, NEW b \in Nodes \ D, PrecedesIn(K, a, b)
       PROVE  PrecedesIn(L, a, b)
  <2>1. a \in Things \ D /\ b \in Things \ D
    BY DEF Things
  <2>2. CASE a # b /\ a \in UpIn(K, b)
    BY <1>9, <2>1, <2>2 DEF PrecedesIn
  <2>3. ASSUME NEW u \in Nodes, NEW v \in Nodes,
               Earlier(K, u, v), u \in UpIn(K, a), v \in UpIn(K, b)
        PROVE  PrecedesIn(L, a, b)
    <3>1. u \in UpIn(L, a) /\ v \in UpIn(L, b) /\ u # x /\ v # x
      BY <1>8, <1>9, <2>1, <2>3
    <3>2. PICK q \in Parents : InOrder(K[q], u, v)
      BY <2>3 DEF Earlier
    <3>3. InOrder(L[q], u, v)
      <4>1. CASE q = p
        <5>1. PICK g \in DOMAIN s, k \in DOMAIN s : g < k /\ s[g] = u /\ s[k] = v
          BY <3>2, <4>1 DEF InOrder, s
        <5>2. g # i /\ k # i
          BY <3>1, <5>1 DEF x
        <5> QED  BY <1>3, <1>6, <4>1, <5>1, <5>2
      <4>2. CASE q # p
        BY <1>3, <3>2, <4>2
      <4> QED  BY <4>1, <4>2
    <3>4. Earlier(L, u, v)
      BY <3>3 DEF Earlier
    <3> QED  BY <3>1, <3>4 DEF PrecedesIn
  <2> QED  BY <1>11, <2>2, <2>3 DEF PrecedesIn
\* what comes off is not ordered with the rest, and within itself as before
<1>12. ASSUME NEW a \in Nodes, NEW b \in Nodes, a \in D \/ b \in D, PrecedesIn(L, b, a)
       PROVE  PrecedesIn(K, b, a)
  <2>1. a \in Things /\ b \in Things
    BY DEF Things
  <2>2. \A y, z \in Things : y \in UpIn(L, z) => (y \in D <=> z \in D)
    BY <1>9, <1>10
  <2>3. CASE b # a /\ b \in UpIn(L, a)
    <3>1. a \in D
      BY <1>12, <2>1, <2>2, <2>3
    <3> QED  BY <1>10, <2>3, <3>1 DEF PrecedesIn
  <2>4. ASSUME NEW u \in Nodes, NEW v \in Nodes,
               Earlier(L, u, v), u \in UpIn(L, b), v \in UpIn(L, a)
        PROVE  PrecedesIn(K, b, a)
    <3>1. PICK q \in Parents : InOrder(L[q], u, v)
      BY <2>4 DEF Earlier
    <3>2. u \in Elems(L[q]) /\ v \in Elems(L[q])
      BY <3>1 DEF InOrder, Elems
    <3>3. u \in D <=> q \in D
      BY <1>8, <3>2
    <3>4. v \in D <=> q \in D
      BY <1>8, <3>2
    <3>5. u \in Things /\ v \in Things
      BY DEF Things
    <3>6. q \in D /\ a \in D /\ b \in D
      BY <1>12, <2>1, <2>2, <2>4, <3>3, <3>4, <3>5
    <3>7. Earlier(K, u, v)
      BY <1>3, <1>8, <3>1, <3>6 DEF Earlier
    <3> QED  BY <1>10, <2>4, <3>6, <3>7 DEF PrecedesIn
  <2> QED  BY <1>12, <2>3, <2>4 DEF PrecedesIn
<1> QED  BY <1>11, <1>12, OrderIsAsymmetric DEF OrderStays

\* A copy takes place among nodes that listed nothing.
LEMMA CopyThickens ==
    ASSUME NEW K, NEW L, Arranged(K), Arranged(L), NEW C \in SUBSET Nodes,
           \A c \in C : c \in Tags => K[c] = <<>>,
           \A q \in Parents : q \notin C => L[q] = K[q]
    PROVE  Thinner(K, L)
<1>1. \A q \in Parents : q \in C => q \in Tags
  BY KindsAreDisjoint DEF Parents, Nodes
<1>2. Elems(<<>>) = {} /\ \A s, t \in Nodes : ~InOrder(<<>>, s, t)
  BY EmptyList DEF InOrder
<1>3. \A q \in Parents : q \in C => K[q] = <<>>
  BY <1>1
<1> QED  BY <1>2, <1>3 DEF Thinner

LEMMA EditsKeepOrder ==
    ASSUME IInv, IInv', Abstract!Next
    PROVE  OrderStays(children, children')
<1> DEFINE K == children
           L == children'
<1>1. Arranged(K) /\ Arranged(L)
  BY TreesAreArranged, TreesStayArranged
<1>2. /\ K \in [Parents -> Seq(Nodes)] /\ L \in [Parents -> Seq(Nodes)]
      /\ \A p \in Parents : Len(K[p]) \in Nat /\ DOMAIN K[p] = 1..Len(K[p])
  BY <1>1 DEF Arranged
<1>3. ASSUME NEW p \in Parents, NEW i \in 0..Len(K[p]), NEW block \in Abstract!Blocks(p, i),
             Abstract!Graft(p, i, block)
      PROVE  OrderStays(K, L)
  <2>1. block \in Seq(Nodes)
    <3> DEFINE s == L[p]
    <3>1. PICK j \in i..Len(s) : block = SubSeq(s, i + 1, j)
      BY <1>3 DEF Abstract!Blocks
    <3>2. s \in Seq(Nodes) /\ i \in Nat
      BY <1>2
    <3> HIDE DEF s
    <3> QED  BY <3>1, <3>2
  <2>2. L = [K EXCEPT ![p] = SliceAssign(@, i, i, block)]
    BY <1>3 DEF Abstract!Graft, Abstract!SliceAssign, SliceAssign
  <2>3. Thinner(K, [K EXCEPT ![p] = SliceAssign(@, i, i, block)])
    BY <1>2, <2>1, GraftThickens
  <2> QED  BY <1>1, <2>2, <2>3, ThinnerKeepsOrder
<1>4. ASSUME NEW p \in Parents, NEW I \in SUBSET DOMAIN K[p], Abstract!Prune(p, I)
      PROVE  OrderStays(K, L)
  <2>1. L = [K EXCEPT ![p] = Without(@, I)]
    BY <1>4 DEF Abstract!Prune, Abstract!Without, Without, Abstract!Rank, Rank,
               Abstract!Cardinality, Cardinality
  <2>2. Thinner([K EXCEPT ![p] = Without(@, I)], K)
    BY <1>2, PruneThins
  <2> QED  BY <1>1, <2>1, <2>2, ThinnerKeepsOrder
<1>5. ASSUME NEW p \in Parents, NEW i \in DOMAIN K[p], Abstract!Dissolve(p, i)
      PROVE  OrderStays(K, L)
  <2> DEFINE n == K[p][i]
  <2>1. n \in Tags /\ L = [K EXCEPT ![p] = SliceAssign(@, i - 1, i, K[n]), ![n] = <<>>]
    BY <1>5 DEF Abstract!Dissolve, Abstract!SliceAssign, SliceAssign
  <2> QED  BY <1>1, <2>1, DissolveKeepsOrder
<1>6. ASSUME NEW p \in Parents, NEW i \in DOMAIN K[p], NEW n \in Nodes, Abstract!Swap(p, i, n)
      PROVE  OrderStays(K, L)
  <2> DEFINE new == <<n>>
  <2>1. L = [K EXCEPT ![p] = SliceAssign(@, i - 1, i, new)]
    BY <1>6 DEF Abstract!Swap, Abstract!SliceAssign, SliceAssign
  <2>2. new \in Seq(Nodes) /\ Elems(new) = {n}
    BY Singleton
  <2> HIDE DEF new
  <2>3. L[p] = SliceAssign(K[p], i - 1, i, new) /\ \A q \in Parents \ {p} : L[q] = K[q]
    BY <1>2, <2>1
  <2>4. \A q \in Parents : n \notin Elems(K[q])
    BY <1>6 DEF Abstract!Swap, Abstract!Loose, Abstract!Elems, Elems, Abstract!Parents, Parents
  <2> QED  BY <1>1, <2>2, <2>3, <2>4, SwapKeepsOrder
<1>7. ASSUME NEW C \in SUBSET Nodes, NEW origin \in [C -> Nodes], Abstract!Copy(C, origin)
      PROVE  OrderStays(K, L)
  <2>1. \A c \in C : c \in Tags => K[c] = <<>>
    BY <1>7 DEF Abstract!Copy
  <2>2. \A q \in Parents : q \notin C => L[q] = K[q]
    BY <1>7 DEF Abstract!Copy, Abstract!Parents, Parents
  <2> QED  BY <1>1, <2>1, <2>2, CopyThickens, ThinnerKeepsOrder
<1>8. CASE \E p \in Abstract!Parents : Abstract!Edit(p)
  <2>1. PICK p \in Parents : Abstract!Edit(p)
    BY <1>8 DEF Abstract!Parents, Parents
  <2> QED  BY <1>3, <1>4, <1>5, <1>6, <2>1 DEF Abstract!Edit, Abstract!Nodes, Nodes
<1>9. CASE \E C \in SUBSET Abstract!Nodes :
               Abstract!Changed \subseteq C /\ \E origin \in [C -> Abstract!Nodes] : Abstract!Copy(C, origin)
  BY <1>7, <1>9 DEF Abstract!Nodes, Nodes
<1> QED  BY <1>8, <1>9 DEF Abstract!Next

-----------------------------------------------------------------------------
(* Forest's document order *)

LEMMA AboveIsUp ==
    ASSUME NEW p \in Parents
    PROVE  Abstract!Above(p) = UpIn(children, p)
<1> DEFINE U == UpIn(children, p)
           V == Abstract!Above(p)
<1>1. Parents = Abstract!Parents /\ Nodes = Abstract!Nodes /\ Parents \subseteq Things
  BY DEF Parents, Abstract!Parents, Nodes, Abstract!Nodes, Things
<1>2. p \in U /\ U \subseteq Things /\ ClosedIn(children, U)
  BY <1>1, UpIsLeast
<1>3. Abstract!ReachesUp(U \cap Parents, p)
  BY <1>1, <1>2 DEF Abstract!ReachesUp, ClosedIn, Abstract!Elems, Elems
<1>4. V \subseteq U
  BY <1>1, <1>3 DEF Abstract!Above
<1>5. p \in V /\ V \subseteq Things
  BY <1>1 DEF Abstract!Above, Abstract!ReachesUp
<1>6. ASSUME NEW m \in V \cap Nodes, NEW q \in Parents, m \in Elems(children[q])
      PROVE  q \in V
  <2> SUFFICES ASSUME NEW A \in SUBSET Parents, Abstract!ReachesUp(A, p)
               PROVE  q \in A
    BY <1>1 DEF Abstract!Above
  <2>1. m \in A
    BY <1>1, <1>6 DEF Abstract!Above
  <2> QED  BY <1>1, <1>6, <2>1 DEF Abstract!ReachesUp, Abstract!Elems, Elems
<1>7. ClosedIn(children, V)
  BY <1>6 DEF ClosedIn
<1>8. U \subseteq V
  BY <1>1, <1>5, <1>7, UpIsLeast
<1> QED  BY <1>4, <1>8

LEMMA UpwardsIsUp ==
    ASSUME IInv, NEW n \in Nodes
    PROVE  Abstract!Upwards(n) = UpIn(children, n)
<1>1. Arranged(children) /\ n \in Things
  BY TreesAreArranged DEF Things
<1> DEFINE Q == {q \in Parents : n \in Elems(children[q])}
<1>2. Abstract!Upwards(n) = {n} \cup UNION {Abstract!Above(q) : q \in Q}
  BY DEF Abstract!Upwards, Abstract!Parents, Parents, Abstract!Elems, Elems
<1>3. CASE Q = {}
  <2>1. UpIn(children, n) = {n}
    BY <1>1, <1>3, UpFromTop
  <2> QED  BY <1>2, <1>3, <2>1
<1>4. ASSUME NEW p \in Q
      PROVE  Abstract!Upwards(n) = UpIn(children, n)
  <2>1. UpIn(children, n) = {n} \cup UpIn(children, p)
    BY <1>1, <1>4, UpFromChild
  <2>2. \A q \in Q : q = p
    BY <1>1 DEF Arranged
  <2>3. UNION {Abstract!Above(q) : q \in Q} = Abstract!Above(p)
    BY <1>4, <2>2
  <2> QED  BY <1>2, <1>4, <2>1, <2>3, AboveIsUp
<1> QED  BY <1>3, <1>4

LEMMA ForestIsOrdered ==
    IInv => \A a, b \in Nodes :
                <<a, b>> \in Abstract!DocumentOrder <=> PrecedesIn(children, a, b)
<1> SUFFICES ASSUME IInv, NEW a \in Nodes, NEW b \in Nodes
             PROVE  <<a, b>> \in Abstract!DocumentOrder <=> PrecedesIn(children, a, b)
  OBVIOUS
<1> DEFINE up == [n \in Nodes |-> UpIn(children, n)]
<1>1. up = [n \in Abstract!Nodes |-> Abstract!Upwards(n)]
  BY UpwardsIsUp DEF Abstract!Nodes, Nodes
<1>2. <<a, b>> \in Abstract!DocumentOrder <=>
          \/ a # b /\ a \in up[b]
          \/ \E p \in Parents : \E i, j \in DOMAIN children[p] :
                i < j /\ children[p][i] \in up[a] /\ children[p][j] \in up[b]
  BY <1>1 DEF Abstract!DocumentOrder, Abstract!Parents, Parents, Abstract!Nodes, Nodes
<1>3. \A p \in Parents : \A i \in DOMAIN children[p] : children[p][i] \in Nodes
  BY TreesAreArranged DEF Arranged
<1>4. (\E p \in Parents : \E i, j \in DOMAIN children[p] :
          i < j /\ children[p][i] \in UpIn(children, a) /\ children[p][j] \in UpIn(children, b))
      <=> \E s, t \in Nodes :
              Earlier(children, s, t) /\ s \in UpIn(children, a) /\ t \in UpIn(children, b)
  BY <1>3 DEF Earlier, InOrder
<1> QED  BY <1>2, <1>4 DEF PrecedesIn

LEMMA ForestStaysOrdered ==
    IInv' => \A a, b \in Nodes :
                 <<a, b>> \in (Abstract!DocumentOrder)' <=> PrecedesIn(children', a, b)
<1>1. (IInv => \A a, b \in Nodes :
          <<a, b>> \in Abstract!DocumentOrder <=> PrecedesIn(children, a, b))'
  BY ForestIsOrdered, PTL
<1> QED  BY <1>1 DEF PrecedesIn, Earlier, InOrder, UpIn, ClosedIn

-----------------------------------------------------------------------------
(* The theorems *)

\* Whatever a call raises, and wherever in the middle of its work: all that was in a
\* tree is where it was.
THEOREM FailureNeverRemoves == Spec => FailureRemovesNothing
<1>1. IInv /\ [Next]_vars =>
        [outcome' # "ok" =>
            \A n \in Nodes : parent[n] # NIL => parent'[n] = parent[n]]_vars
  BY StepIsOrderly, LiftedSafely DEF Orderly, PlacesKept
<1> QED  BY Invariance, <1>1, PTL DEF Spec, FailureRemovesNothing

\* Nodes change their parent in one way only, with all of their siblings: when it is
\* detached and they are retained.  Nothing brings back what was given to a constructor
\* that raised.
THEOREM OnlyRetainedNodesEverMove == Spec => OnlyRetainedNodesMove
<1>1. ASSUME IInv, Next, NEW n \in Nodes, parent[n] # NIL, parent'[n] # parent[n]
      PROVE  /\ parent[n] \notin broken
             /\ parent'[n] # NIL =>
                   /\ parent[n] \in Tags
                   /\ parent'[n] = parent[parent[n]]
                   /\ parent'[parent[n]] = NIL
  <2>1. CASE Orderly
    BY <1>1, <2>1 DEF Orderly, PlacesKept
  <2>2. CASE Lifted
    <3>1. parent[n] \notin broken
      <4>1. PICK t \in Tags : parent[t] \in Tags \ broken /\ Lift(t)
        BY <2>2 DEF Lifted
      <4>2. n = t \/ n \in Elems(children[t])
        BY <1>1, <4>1 DEF Lift
      <4>3. CASE n \in Elems(children[t])
        <5>1. PICK i \in DOMAIN children[t] : children[t][i] = n
          BY <4>3 DEF Elems
        <5>2. parent[n] = t
          BY <1>1, <5>1 DEF IInv, PointersAgree, Parents
        <5>3. children[t] # <<>>
          BY <5>1
        <5> QED  BY <1>1, <5>2, <5>3 DEF IInv, BrokenListNothing
      <4> QED  BY <4>1, <4>2, <4>3
    <3> QED  BY <1>1, <2>2, <3>1, LiftedSafely
  <2> QED  BY <1>1, <2>1, <2>2, StepIsOrderly
<1>2. IInv /\ [Next]_vars =>
        [\A n \in Nodes :
            LET p == parent[n] IN
            p # NIL /\ parent'[n] # p =>
                /\ p \notin broken
                /\ parent'[n] # NIL =>
                      p \in Tags /\ parent'[n] = parent[p] /\ parent'[p] = NIL]_vars
  BY <1>1
<1> QED  BY Invariance, <1>2, PTL DEF Spec, OnlyRetainedNodesMove

\* Each call is one edit of ordered trees, or none.
THEOREM TreeImplementsForest == Spec => ImplementsForest
<1>1. Init => Abstract!Init
  BY DEF Init, Abstract!Init, Abstract!Parents, Parents
<1>2. IInv /\ [Next]_vars => [Abstract!Next]_children
  BY StepIsOrderly, LiftedSafely DEF Orderly, Edited, vars
<1> QED  BY Invariance, <1>1, <1>2, PTL DEF Spec, ImplementsForest, Abstract!Spec

\* Calls put nodes in, take them out, replace and copy them, but none turns the order
\* of two nodes round that are in a tree together before and after it.
THEOREM OrderIsAlwaysKept == Spec => DocumentOrderKept
<1>1. IInv /\ IInv' /\ [Next]_vars =>
        [children' # children =>
            LET after == (Abstract!DocumentOrder)' IN
            \A mn \in Abstract!DocumentOrder : <<mn[2], mn[1]>> \notin after]_children
  <2> SUFFICES ASSUME IInv, IInv', [Next]_vars, children' # children,
                      NEW mn \in Abstract!DocumentOrder
               PROVE  <<mn[2], mn[1]>> \notin (Abstract!DocumentOrder)'
    OBVIOUS
  <2>1. Edited
    BY StepIsOrderly, LiftedSafely DEF Orderly, vars
  <2>2. OrderStays(children, children')
    BY <2>1, EditsKeepOrder DEF Edited
  <2>3. mn[1] \in Nodes /\ mn[2] \in Nodes /\ mn = <<mn[1], mn[2]>>
    BY DEF Abstract!DocumentOrder, Abstract!Nodes, Nodes
  <2>4. PrecedesIn(children, mn[1], mn[2])
    BY <2>3, ForestIsOrdered
  <2>5. ~PrecedesIn(children', mn[2], mn[1])
    BY <2>2, <2>3, <2>4 DEF OrderStays
  <2> QED  BY <2>3, <2>5, ForestStaysOrdered
<1> QED  BY Invariance, <1>1, PTL DEF Spec, DocumentOrderKept, Abstract!OrderKept
=============================================================================
