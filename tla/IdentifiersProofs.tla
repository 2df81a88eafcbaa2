-------------------------- MODULE IdentifiersProofs --------------------------
(***************************************************************************)
(* The initial filters are back in place when all blocks were left, for    *)
(* any number of clients and whatever sets of filters they use.  TagNode.id*)
(* finds what is anywhere in a tree while tags are let through.            *)
(***************************************************************************)
EXTENDS Identifiers, FiniteSetTheorems, TLAPS

-----------------------------------------------------------------------------
(* The default filters                                                     *)
(*                                                                         *)
(* Which of the blocks' filters are on the stack depends on the order in   *)
(* which blocks were left.  Their number doesn't: it is that of the open   *)
(* blocks, hence what is at the bottom is never taken away.                *)

Open == {c \in Clients : block[c].open}

FiltersTyped ==
    /\ default_filters \in Seq(SUBSET Kinds)
    /\ block \in [Clients -> [open : BOOLEAN, filters : SUBSET Kinds]]

FiltersInv ==
    /\ FiltersTyped
    /\ IsFiniteSet(Open)
    /\ Len(default_filters) = Cardinality(Open) + 1
    /\ default_filters[1] = Initial

-----------------------------------------------------------------------------

LEMMA InitFiltersInv == Init => FiltersInv
<1> SUFFICES ASSUME Init PROVE FiltersInv
  OBVIOUS
<1>1. FiltersTyped
  BY DEF Init, FiltersTyped, NoBlock, Initial, Kinds
<1>2. Open = {}
  BY DEF Init, Open, NoBlock
<1>3. IsFiniteSet(Open) /\ Cardinality(Open) = 0
  BY <1>2, FS_EmptySet
<1>4. Len(default_filters) = 1 /\ default_filters[1] = Initial
  BY DEF Init
<1> QED
  BY <1>1, <1>3, <1>4 DEF FiltersInv

LEMMA EnterKeepsFiltersInv ==
    ASSUME FiltersInv, NEW c \in Clients, NEW F \in FilterSets, NEW extend \in BOOLEAN,
           Enter(c, F, extend)
    PROVE  FiltersInv'
<1> DEFINE filters == IF extend THEN Active \cap F ELSE F
<1>1. filters \in SUBSET Kinds
  BY FiltersMatchKinds
<1>2. default_filters \in Seq(SUBSET Kinds) /\ default_filters' = Append(default_filters, filters)
  BY DEF FiltersInv, FiltersTyped, Enter
<1>3. block' = [block EXCEPT ![c] = [open |-> TRUE, filters |-> filters]] /\ ~block[c].open
  BY DEF Enter
<1>4. FiltersTyped'
  BY <1>1, <1>2, <1>3 DEF FiltersInv, FiltersTyped
<1>5. Open' = Open \cup {c} /\ c \notin Open
  BY <1>3 DEF FiltersInv, FiltersTyped, Open
<1>6. IsFiniteSet(Open') /\ Cardinality(Open') = Cardinality(Open) + 1
  BY <1>5, FS_AddElement DEF FiltersInv
<1>7. Len(default_filters) \in Nat /\ Len(default_filters) >= 1
  BY <1>2, FS_CardinalityType DEF FiltersInv
<1>8. Len(default_filters') = Len(default_filters) + 1 /\ default_filters'[1] = default_filters[1]
  BY <1>1, <1>2, <1>7
<1> QED
  BY <1>4, <1>6, <1>8 DEF FiltersInv

LEMMA LeaveKeepsFiltersInv ==
    ASSUME FiltersInv, NEW c \in Clients, NEW raised \in BOOLEAN, Leave(c, raised)
    PROVE  FiltersInv'
<1>1. default_filters \in Seq(SUBSET Kinds)
  BY DEF FiltersInv, FiltersTyped
<1>2. block' = [block EXCEPT ![c] = NoBlock] /\ block[c].open
  BY DEF Leave
<1>3. Open' = Open \ {c} /\ c \in Open
  BY <1>2 DEF FiltersInv, FiltersTyped, Open, NoBlock
<1>4. /\ IsFiniteSet(Open') /\ Cardinality(Open') = Cardinality(Open) - 1
      /\ Cardinality(Open) \in Nat /\ Cardinality(Open') \in Nat
  BY <1>3, FS_RemoveElement, FS_CardinalityType DEF FiltersInv
<1>5. Len(default_filters) >= 2 /\ Len(default_filters) = Cardinality(Open) + 1
  BY <1>4 DEF FiltersInv
<1>6. default_filters' = SubSeq(default_filters, 1, Len(default_filters) - 1)
  BY DEF Leave, Popped, Front
<1>7. /\ default_filters' \in Seq(SUBSET Kinds)
      /\ Len(default_filters') = Len(default_filters) - 1
      /\ default_filters'[1] = default_filters[1]
  BY <1>1, <1>5, <1>6
<1>8. FiltersTyped'
  BY <1>2, <1>7 DEF FiltersInv, FiltersTyped, NoBlock
<1> QED
  BY <1>4, <1>5, <1>7, <1>8 DEF FiltersInv

THEOREM FiltersInvariance == Spec => []FiltersInv
<1>1. FiltersInv /\ [Next]_filterVars => FiltersInv'
  <2> SUFFICES ASSUME FiltersInv, [Next]_filterVars PROVE FiltersInv'
    OBVIOUS
  <2>1. ASSUME NEW c \in Clients, NEW F \in FilterSets, NEW extend \in BOOLEAN,
               Enter(c, F, extend)
        PROVE  FiltersInv'
    BY <2>1, EnterKeepsFiltersInv
  <2>2. ASSUME NEW c \in Clients, NEW raised \in BOOLEAN, Leave(c, raised)
        PROVE  FiltersInv'
    BY <2>2, LeaveKeepsFiltersInv
  <2>3. CASE UNCHANGED filterVars
    BY <2>3 DEF FiltersInv, FiltersTyped, Open, filterVars
  <2> QED
    BY <2>1, <2>2, <2>3 DEF Next
<1> QED
  BY InitFiltersInv, <1>1, PTL DEF Spec

\* Whoever altered the default filters, and however their blocks overlapped: when all
\* of them were left, normally or by an exception, the initial filters are in place.
THEOREM FiltersAreRestoredAtLast == Spec => []RestoredAtLast
<1>1. FiltersInv => RestoredAtLast
  <2> SUFFICES ASSUME FiltersInv, \A c \in Clients : ~block[c].open
               PROVE  default_filters = <<Initial>>
    BY DEF RestoredAtLast
  <2>1. Open = {}
    BY DEF Open
  <2>2. Len(default_filters) = 1
    BY <2>1, FS_EmptySet DEF FiltersInv
  <2>3. default_filters \in Seq(SUBSET Kinds) /\ default_filters[1] = Initial
    BY DEF FiltersInv, FiltersTyped
  <2>4. default_filters = [i \in 1..1 |-> default_filters[i]]
    BY <2>2, <2>3
  <2> QED
    BY <2>3, <2>4
<1> QED
  BY FiltersInvariance, <1>1, PTL

-----------------------------------------------------------------------------
(* The trees                                                               *)

TreesTyped ==
    /\ above \in [TagNodes -> TagNodes \cup {NIL}]
    /\ id \in [TagNodes -> Ids \cup {NIL}]

\* Each set of nodes has one whose parent is outside: there are no cycles.
Grounded == \A S \in SUBSET TagNodes : S # {} => \E n \in S : above[n] \notin S

TreesInv == TreesTyped /\ Grounded

\* A line is the least closed set that holds the node.
LEMMA LineIsLeast ==
    ASSUME NEW n \in TagNodes, TreesTyped
    PROVE  /\ n \in Line(n) /\ Line(n) \subseteq TagNodes /\ IsClosed(Line(n))
           /\ \A S \in SUBSET TagNodes : n \in S /\ IsClosed(S) => Line(n) \subseteq S
<1>1. n \in Line(n) /\ Line(n) \subseteq TagNodes
  BY DEF Line
<1>2. ASSUME NEW m \in Line(n), above[m] # NIL
      PROVE  above[m] \in Line(n)
  <2>1. above[m] \in TagNodes
    BY <1>1, <1>2 DEF TreesTyped
  <2> QED
    BY <1>2, <2>1 DEF Line, IsClosed
<1> QED
  BY <1>1, <1>2 DEF Line, IsClosed

\* Who is on a node's line is so with all that is on its own.
LEMMA LinesNest ==
    ASSUME TreesTyped, NEW n \in TagNodes, NEW m \in Line(n)
    PROVE  m \in TagNodes /\ Line(m) \subseteq Line(n)
<1>1. m \in TagNodes
  BY LineIsLeast
<1> QED
  BY <1>1, LineIsLeast

\* A line goes on with the parent's.
LEMMA LineStep ==
    ASSUME TreesTyped, NEW n \in TagNodes
    PROVE  /\ above[n] = NIL => Line(n) = {n}
           /\ above[n] # NIL => Line(n) \subseteq {n} \cup Line(above[n])
<1>1. ASSUME above[n] = NIL
      PROVE  Line(n) = {n}
  <2>1. IsClosed({n})
    BY <1>1 DEF IsClosed
  <2> QED
    BY <2>1, LineIsLeast
<1>2. ASSUME above[n] # NIL
      PROVE  Line(n) \subseteq {n} \cup Line(above[n])
  <2>1. above[n] \in TagNodes
    BY <1>2 DEF TreesTyped
  <2>2. /\ above[n] \in Line(above[n]) /\ IsClosed(Line(above[n]))
        /\ Line(above[n]) \subseteq TagNodes
    BY <2>1, LineIsLeast
  <2>3. IsClosed({n} \cup Line(above[n]))
    BY <2>2 DEF IsClosed
  <2> QED
    BY <2>2, <2>3, LineIsLeast
<1> QED
  BY <1>1, <1>2

\* Each line ends.
LEMMA TopFound ==
    ASSUME TreesInv, NEW n \in TagNodes
    PROVE  Top(n) \in Line(n) /\ Top(n) \in TagNodes /\ above[Top(n)] = NIL
<1>1. n \in Line(n) /\ Line(n) \subseteq TagNodes /\ IsClosed(Line(n))
  BY LineIsLeast DEF TreesInv
<1>2. PICK m \in Line(n) : above[m] \notin Line(n)
  BY <1>1 DEF TreesInv, Grounded
<1>3. above[m] = NIL
  BY <1>1, <1>2 DEF IsClosed
<1> QED
  BY <1>1, <1>3, Zenon DEF Top

LEMMA TopsFoundAfterwards ==
    TreesInv' => (\A n \in TagNodes : Top(n) \in Line(n))'
<1>1. TreesInv => \A n \in TagNodes : Top(n) \in Line(n)
  BY TopFound
<1> QED
  BY <1>1, PTL

\* There is one root at the end of a line.
LEMMA TopUnique ==
    ASSUME TreesInv, NEW n \in TagNodes, NEW r \in Line(n), above[r] = NIL
    PROVE  r = Top(n)
<1> DEFINE S == {m \in TagNodes : r \in Line(m)}
           t == Top(n)
<1>1. TreesTyped
  BY DEF TreesInv
<1>2. IsClosed(S)
  <2> SUFFICES ASSUME NEW m \in S, above[m] # NIL PROVE above[m] \in S
    BY DEF IsClosed
  <2>1. r \in {m} \cup Line(above[m]) /\ r # m
    BY <1>1, LineStep
  <2> QED
    BY <1>1, <2>1 DEF TreesTyped
<1>3. t \in Line(n) /\ above[t] = NIL /\ t \in TagNodes
  BY TopFound
<1>4. Line(n) \subseteq S
  BY <1>1, <1>2, LineIsLeast
<1>5. r \in Line(t)
  BY <1>3, <1>4
<1> QED
  BY <1>1, <1>3, <1>5, LineStep

\* The nodes on a line have the same root.
LEMMA TopShared ==
    ASSUME TreesInv, NEW n \in TagNodes, NEW m \in Line(n)
    PROVE  Top(m) = Top(n)
<1>1. m \in TagNodes /\ Line(m) \subseteq Line(n)
  BY LinesNest DEF TreesInv
<1> QED
  BY <1>1, TopFound, TopUnique

-----------------------------------------------------------------------------
(* The steps *)

LEMMA InitTreesInv == InitIds => TreesInv
  BY NilIsNeither DEF InitIds, TreesInv, TreesTyped, Grounded

LEMMA AddKeepsTreesInv ==
    ASSUME TreesInv, NEW p \in TagNodes, NEW n \in TagNodes, Add(p, n)
    PROVE  TreesInv'
<1>1. above' = [above EXCEPT ![n] = p] /\ n \notin Line(p) /\ UNCHANGED id
  BY DEF Add
<1>2. TreesTyped'
  BY <1>1 DEF TreesInv, TreesTyped
<1>3. ASSUME NEW S \in SUBSET TagNodes, S # {}
      PROVE  \E m \in S : above'[m] \notin S
  <2>1. CASE n \notin S
    BY <1>1, <1>3, <2>1 DEF TreesInv, TreesTyped, Grounded
  <2>2. CASE n \in S /\ p \notin S
    BY <1>1, <2>2 DEF TreesInv, TreesTyped
  <2>3. CASE p \in S
    <3>1. p \in Line(p) /\ IsClosed(Line(p))
      BY LineIsLeast DEF TreesInv
    <3>2. PICK m \in S \cap Line(p) : above[m] \notin S \cap Line(p)
      BY <2>3, <3>1 DEF TreesInv, Grounded
    <3>3. above[m] \notin S
      BY <3>1, <3>2, NilIsNeither DEF IsClosed
    <3>4. above'[m] = above[m]
      BY <1>1, <3>2 DEF TreesInv, TreesTyped
    <3> QED
      BY <3>2, <3>3, <3>4
  <2> QED
    BY <2>1, <2>2, <2>3
<1> QED
  BY <1>2, <1>3 DEF TreesInv, Grounded

LEMMA DetachKeepsTreesInv ==
    ASSUME TreesInv, NEW n \in TagNodes, Detach(n)
    PROVE  TreesInv'
<1>1. above' = [above EXCEPT ![n] = NIL] /\ UNCHANGED id
  BY DEF Detach
<1>2. ASSUME NEW S \in SUBSET TagNodes, S # {}
      PROVE  \E m \in S : above'[m] \notin S
  <2>1. PICK m \in S : above[m] \notin S
    BY <1>2 DEF TreesInv, Grounded
  <2>2. above'[m] \in {above[m], NIL}
    BY <1>1 DEF TreesInv, TreesTyped
  <2> QED
    BY <2>1, <2>2, NilIsNeither
<1> QED
  BY <1>1, <1>2 DEF TreesInv, TreesTyped, Grounded

LEMMA OthersKeepTreesInv ==
    ASSUME TreesInv, NEW n \in TagNodes,
           UnsetId(n) \/ (\E value \in Ids : SetId(n, value)) \/ UNCHANGED trees
    PROVE  TreesInv' /\ UNCHANGED above
  BY DEF TreesInv, TreesTyped, Grounded, UnsetId, SetId, trees

LEMMA SameTops ==
    ASSUME UNCHANGED above
    PROVE  \A n \in TagNodes : Top(n)' = Top(n)
  BY DEF Top, Line, IsClosed

\* All of a tree is searched for an id: its root has a child on the line to the node.
LEMMA WholeTreeIsSearched ==
    ASSUME TreesInv, "tag" \in Active, NEW n \in TagNodes, NEW m \in TagNodes,
           Top(m) = Top(n)
    PROVE  m \in Searched(n)
<1> DEFINE t == Top(n)
<1>1. t \in Line(n) /\ t \in TagNodes /\ t \in Line(m)
  BY TopFound
<1>2. ASSUME t # n
      PROVE  IsTrue(t)
  <2>1. n \in Line(n) \ {t} /\ Line(n) \subseteq TagNodes /\ IsClosed(Line(n))
    BY <1>2, LineIsLeast DEF TreesInv
  <2>2. ~IsClosed(Line(n) \ {t})
    BY <1>1, <2>1, LineIsLeast DEF TreesInv
  <2>3. PICK k \in Line(n) \ {t} : above[k] \notin (Line(n) \ {t}) \cup {NIL}
    BY <2>2 DEF IsClosed
  <2>4. above[k] = t
    BY <2>1, <2>3 DEF IsClosed
  <2> QED
    BY <2>1, <2>3, <2>4 DEF IsTrue
<1> QED
  BY <1>1, <1>2 DEF Searched, Subtree

LEMMA SetIdKeepsUniqueIds ==
    ASSUME TreesInv, UniqueIds, "tag" \in Active,
           NEW n \in TagNodes, NEW value \in Ids, SetId(n, value)
    PROVE  UniqueIds'
<1>1. \A m \in TagNodes : Top(m)' = Top(m)
  BY SameTops DEF SetId
<1>2. CASE UNCHANGED id
  BY <1>1, <1>2 DEF UniqueIds
<1>3. CASE id' = [id EXCEPT ![n] = value] /\ \A m \in Searched(n) : id[m] # value
  <2>1. \A m \in TagNodes : Top(m) = Top(n) => id[m] # value
    BY <1>3, WholeTreeIsSearched
  <2>2. \A m \in TagNodes : id'[m] = IF m = n THEN value ELSE id[m]
    BY <1>3 DEF TreesInv, TreesTyped
  <2> QED
    BY <1>1, <2>1, <2>2 DEF UniqueIds
<1> QED
  BY <1>2, <1>3 DEF SetId

LEMMA UnsetIdKeepsUniqueIds ==
    ASSUME TreesInv, UniqueIds, NEW n \in TagNodes, UnsetId(n)
    PROVE  UniqueIds'
<1>1. \A m \in TagNodes : Top(m)' = Top(m)
  BY SameTops DEF UnsetId
<1>2. \A m \in TagNodes : id'[m] = IF m = n THEN NIL ELSE id[m]
  BY DEF UnsetId, TreesInv, TreesTyped
<1> QED
  BY <1>1, <1>2 DEF UniqueIds

\* Nodes that share a root without an edge shared one with it.
LEMMA DetachKeepsUniqueIds ==
    ASSUME TreesInv, UniqueIds, NEW n \in TagNodes, Detach(n)
    PROVE  UniqueIds'
<1>1. TreesInv'
  BY DetachKeepsTreesInv
<1>2. above' = [above EXCEPT ![n] = NIL] /\ id' = id
  BY DEF Detach
<1>3. ASSUME NEW m \in TagNodes
      PROVE  Top(m)' \in Line(m)
  <2>1. m \in Line(m) /\ Line(m) \subseteq TagNodes /\ IsClosed(Line(m))
    BY LineIsLeast DEF TreesInv
  <2>2. \A k \in TagNodes : above'[k] \in {above[k], NIL}
    BY <1>2 DEF TreesInv, TreesTyped
  <2> DEFINE L == Line(m)
  <2>3. L \in SUBSET TagNodes /\ m \in L /\ \A k \in L : above'[k] \in L \cup {NIL}
    BY <2>1, <2>2 DEF IsClosed
  <2> HIDE DEF L
  <2>4. Line(m)' \subseteq L
    BY <2>3 DEF Line, IsClosed
  <2>5. (Top(m) \in Line(m))'
    BY <1>1, TopsFoundAfterwards
  <2> QED
    BY <2>4, <2>5 DEF L
<1>4. \A m, k \in TagNodes : Top(m)' = Top(k)' => Top(m) = Top(k)
  BY <1>3, TopShared
<1> QED
  BY <1>2, <1>4 DEF UniqueIds

THEOREM TreesInvariance == SpecIds => []TreesInv
<1>1. TreesInv /\ [NextIds]_vars => TreesInv'
  BY AddKeepsTreesInv, DetachKeepsTreesInv, OthersKeepTreesInv
     DEF NextIds, vars, TreesInv, TreesTyped, Grounded, trees
<1> QED
  BY InitTreesInv, <1>1, PTL DEF SpecIds

\* Setting, removing and detaching never make two nodes of one tree have the same id
\* while tag nodes are let through, however large trees are and wherever the nodes are:
\* TagNode.id finds its tree's root and what is below it.
THEOREM OnlyJoiningEverDuplicates == SpecIds => OnlyJoiningDuplicates
<1>1. TreesInv /\ [NextIds]_vars =>
        [UniqueIds /\ ~UniqueIds' =>
            "tag" \notin Active \/ \E p, n \in TagNodes : Add(p, n)]_vars
  <2> SUFFICES ASSUME TreesInv, NextIds, UniqueIds, "tag" \in Active,
                      ~\E p, n \in TagNodes : Add(p, n)
               PROVE  UniqueIds'
    OBVIOUS
  <2>1. ASSUME UNCHANGED trees
        PROVE  UniqueIds'
    BY <2>1, SameTops DEF UniqueIds, trees
  <2> QED
    BY <2>1, SetIdKeepsUniqueIds, UnsetIdKeepsUniqueIds, DetachKeepsUniqueIds DEF NextIds
<1> QED
  BY TreesInvariance, <1>1, PTL DEF SpecIds, OnlyJoiningDuplicates

\* The composition does with the filters what Filters does, so they are restored here too.
THEOREM IdentifiersUseFilters == SpecIds => Spec /\ []RestoredAtLast
<1>1. InitIds => Init
  BY DEF InitIds
<1>2. [NextIds]_vars => [Next]_filterVars
  BY DEF NextIds, Next, SetId, UnsetId, Add, Detach, vars
<1> QED
  BY <1>1, <1>2, FiltersAreRestoredAtLast, PTL DEF SpecIds, Spec
=============================================================================
