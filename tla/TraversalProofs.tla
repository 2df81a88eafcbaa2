-------------------------- MODULE TraversalProofs --------------------------
(***************************************************************************)
(* Proofs about the walks: for trees of any size and any removals.         *)
(***************************************************************************)
EXTENDS Traversal, SequenceTheorems, FiniteSetTheorems, WellFoundedInduction, TLAPS

-----------------------------------------------------------------------------
(* Numbers *)

\* A set of naturals has a least member, and a greatest one if it is bounded.
LEMMA LeastMember ==
    ASSUME NEW S \in SUBSET Nat, S # {}
    PROVE  \E x \in S : \A y \in S : x <= y
<1>1. PICK x \in S : \A y \in S : ~(<<y, x>> \in OpToRel(<, Nat))
  BY WFMin, NatLessThanWellFounded
<1>2. ASSUME NEW y \in S PROVE x <= y
  <2>1. x \in Nat /\ y \in Nat
    OBVIOUS
  <2>2. y < x => <<y, x>> \in OpToRel(<, Nat)
    BY <2>1 DEF OpToRel
  <2>3. ~(y < x)
    BY <1>1, <2>2, Zenon
  <2> QED  BY <2>1, <2>3
<1> QED  BY <1>2

LEMMA GreatestMember ==
    ASSUME NEW S \in SUBSET Nat, S # {}, NEW n \in Nat, \A x \in S : x <= n
    PROVE  \E x \in S : \A y \in S : y <= x
<1> DEFINE U == {u \in Nat : \A x \in S : x <= u}
<1>1. PICK u \in U : \A v \in U : u <= v
  <2>1. U \in SUBSET Nat /\ n \in U
    OBVIOUS
  <2> HIDE DEF U
  <2> QED  BY <2>1, LeastMember
<1>2. u \in S
  <2> SUFFICES ASSUME u \notin S PROVE FALSE
    OBVIOUS
  <2>1. \A x \in S : x < u
    OBVIOUS
  <2>2. u # 0
    <3>1. PICK x \in S : TRUE
      OBVIOUS
    <3>2. x \in Nat /\ x < u
      BY <2>1, <3>1
    <3> QED  BY <3>2
  <2>3. u - 1 \in U
    BY <2>1, <2>2
  <2> QED  BY <1>1, <2>3
<1> QED  BY <1>2

-----------------------------------------------------------------------------
(* Trees whose nodes are numbered in document order *)

\* e[n] is the last node of the subtree that n is the root of.
Numbered(L, z, e) ==
    /\ L \in [Owners -> Seq(Nodes)]
    /\ e \in [Owners -> Owners]
    /\ z \in Nodes
    /\ \A n \in Owners : n <= e[n] /\ (n <= z => e[n] <= z)
    /\ \A n \in Owners : n > z => L[n] = <<>>
    /\ \A n \in Owners : L[n] = <<>> => e[n] = n
    /\ \A n \in Owners : L[n] # <<>> => L[n][1] = n + 1 /\ e[n] = e[L[n][Len(L[n])]]
    /\ \A n \in Owners : \A k \in 1 .. Len(L[n]) - 1 : L[n][k + 1] = e[L[n][k]] + 1
    /\ \A m, n \in Owners : m < n /\ n <= e[m] => e[n] <= e[m]
    /\ IF L[Document] = <<>> THEN e[1] = z ELSE e[Document] = z

\* n is a node below m
Within(e, m, n) == m < n /\ n <= e[m]

LEMMA OwnersAreNumbers ==
    /\ N \in Nat /\ N >= 1
    /\ \A x \in Owners : x \in Nat /\ x <= N
    /\ \A x \in Nat : x <= N => x \in Owners
    /\ \A x \in Nodes : x \in Owners /\ 1 <= x
    /\ \A x \in Owners : 1 <= x => x \in Nodes
    /\ Document = 0
BY BoundsAreNaturals DEF Owners, Nodes, Document

\* A list's members: what follows a child begins behind its subtree.
LEMMA ChildrenAscend ==
    ASSUME NEW L, NEW z, NEW e, Numbered(L, z, e), NEW n \in Owners,
           NEW j \in DOMAIN L[n], NEW k \in DOMAIN L[n], j < k
    PROVE  e[L[n][j]] < L[n][k]
<1> DEFINE s == L[n]
<1>1. s \in Seq(Nodes) /\ Len(s) \in Nat /\ j \in 1 .. Len(s) /\ k \in 1 .. Len(s)
  <2>1. s \in Seq(Nodes) /\ j \in DOMAIN s /\ k \in DOMAIN s
    BY DEF Numbered
  <2> HIDE DEF s
  <2> QED  BY <2>1
<1>2. \A i \in 1 .. Len(s) : s[i] \in Nodes /\ s[i] \in Owners
  BY <1>1, OwnersAreNumbers
<1>3. \A i \in 1 .. Len(s) - 1 : s[i + 1] = e[s[i]] + 1
  BY DEF Numbered
<1>4. \A m \in Owners : e[m] \in Owners /\ m <= e[m]
  BY DEF Numbered
<1> HIDE DEF s
<1> DEFINE Bad == {i \in j + 1 .. Len(s) : ~(e[s[j]] < s[i])}
<1>5. Bad = {}
  <2> SUFFICES ASSUME Bad # {} PROVE FALSE
    OBVIOUS
  <2>1. PICK i \in Bad : \A h \in Bad : i <= h
    <3>1. Bad \in SUBSET Nat
      BY <1>1
    <3> HIDE DEF Bad
    <3> QED  BY <3>1, LeastMember
  <2>2. CASE i = j + 1
    <3>1. j \in 1 .. Len(s) - 1
      BY <1>1, <2>1, <2>2
    <3>2. s[i] = e[s[j]] + 1 /\ s[j] \in Owners
      BY <1>1, <1>2, <1>3, <2>2, <3>1
    <3>3. e[s[j]] \in Nat
      BY <1>4, <3>2, OwnersAreNumbers
    <3>4. e[s[j]] < s[i]
      BY <3>2, <3>3
    <3> QED  BY <2>1, <3>4
  <2>3. CASE i # j + 1
    <3>1. PICK h \in 1 .. Len(s) - 1 : i = h + 1
      BY <1>1, <2>3
    <3>2. h \in j + 1 .. Len(s) /\ h < i
      BY <1>1, <2>3, <3>1
    <3>3. e[s[j]] < s[h]
      BY <2>1, <3>2
    <3>4. s[h] \in Owners /\ s[j] \in Owners /\ s[i] = e[s[h]] + 1
      BY <1>1, <1>2, <1>3, <3>1
    <3>5. e[s[h]] \in Owners /\ e[s[j]] \in Owners /\ s[h] <= e[s[h]]
      BY <1>4, <3>4
    <3>6. e[s[j]] \in Nat /\ s[h] \in Nat /\ e[s[h]] \in Nat
      BY <3>4, <3>5, OwnersAreNumbers
    <3>7. e[s[j]] < e[s[h]] + 1
      BY <3>3, <3>5, <3>6
    <3> QED  BY <2>1, <3>4, <3>7
  <2> QED  BY <2>2, <2>3
<1> QED  BY <1>1, <1>5 DEF s

\* A child's subtree lies within its parent's.
LEMMA ChildWithin ==
    ASSUME NEW L, NEW z, NEW e, Numbered(L, z, e), NEW n \in Owners, NEW k \in DOMAIN L[n]
    PROVE  /\ L[n][k] \in Nodes
           /\ L[n][k] \in Owners
           /\ n < L[n][k]
           /\ L[n][k] <= e[L[n][k]]
           /\ e[L[n][k]] <= e[n]
<1> DEFINE s == L[n]
           c == s[k]
           l == s[Len(s)]
<1>1. s \in Seq(Nodes) /\ Len(s) \in Nat /\ DOMAIN s = 1 .. Len(s) /\ k \in 1 .. Len(s)
  <2>1. s \in Seq(Nodes) /\ k \in DOMAIN s
    BY DEF Numbered
  <2> HIDE DEF s
  <2> QED  BY <2>1
<1>2. \A i \in 1 .. Len(s) : s[i] \in Nodes /\ s[i] \in Owners
  BY <1>1, OwnersAreNumbers
<1>3. s # <<>> /\ 1 \in DOMAIN s /\ Len(s) \in DOMAIN s
  BY <1>1
<1>4. s[1] = n + 1 /\ e[n] = e[l]
  BY <1>3 DEF Numbered
<1>5. \A m \in Owners : e[m] \in Owners /\ m <= e[m]
  BY DEF Numbered
<1>6. k # 1 => e[s[1]] < c
  BY <1>1, <1>3, ChildrenAscend
<1>7. k # Len(s) => e[c] < l
  BY <1>1, <1>3, ChildrenAscend
<1> HIDE DEF s
<1>8. c \in Owners /\ l \in Owners /\ s[1] \in Owners /\ c \in Nodes
  BY <1>1, <1>2, <1>3
<1>9. n < c
  BY <1>4, <1>5, <1>6, <1>8, OwnersAreNumbers
<1>10. e[c] <= e[n]
  BY <1>4, <1>5, <1>7, <1>8, OwnersAreNumbers
<1> QED  BY <1>5, <1>8, <1>9, <1>10 DEF s

LEMMA MemberWithin ==
    ASSUME NEW L, NEW z, NEW e, Numbered(L, z, e), NEW n \in Owners, NEW c \in Elems(L[n])
    PROVE  /\ c \in Nodes /\ c \in Owners
           /\ Within(e, n, c)
           /\ e[c] <= e[n]
<1>1. PICK k \in DOMAIN L[n] : c = L[n][k]
  BY DEF Elems
<1>2. /\ c \in Nodes /\ c \in Owners /\ n < c /\ c <= e[c] /\ e[c] <= e[n]
  BY <1>1, ChildWithin
<1>3. e[n] \in Owners /\ e[c] \in Owners
  BY <1>2 DEF Numbered
<1> QED  BY <1>2, <1>3, OwnersAreNumbers DEF Within

\* A node below another one is in the subtree of one of its children.
LEMMA ChildAbove ==
    ASSUME NEW L, NEW z, NEW e, Numbered(L, z, e), NEW n \in Owners, NEW m \in Owners,
           Within(e, n, m)
    PROVE  \E k \in DOMAIN L[n] : L[n][k] <= m /\ m <= e[L[n][k]]
<1> DEFINE s == L[n]
<1>1. s \in Seq(Nodes) /\ Len(s) \in Nat /\ DOMAIN s = 1 .. Len(s)
  BY DEF Numbered
<1>2. \A i \in 1 .. Len(s) : s[i] \in Nodes /\ s[i] \in Owners
  BY <1>1, OwnersAreNumbers
<1>3. s # <<>>
  BY OwnersAreNumbers DEF Numbered, Within
<1>4. s[1] = n + 1 /\ e[n] = e[s[Len(s)]]
  BY <1>3 DEF Numbered
<1>5. \A i \in 1 .. Len(s) - 1 : s[i + 1] = e[s[i]] + 1
  BY DEF Numbered
<1>6. \A i \in Owners : e[i] \in Owners
  BY DEF Numbered
<1> HIDE DEF s
<1> DEFINE S == {k \in 1 .. Len(s) : s[k] <= m}
<1>7. 1 \in S
  BY <1>1, <1>3, <1>4, OwnersAreNumbers DEF Within
<1>8. PICK k \in S : \A i \in S : i <= k
  <2>1. S \in SUBSET Nat /\ \A i \in S : i <= Len(s)
    BY <1>1
  <2> HIDE DEF S
  <2> QED  BY <1>1, <1>7, <2>1, GreatestMember
<1>9. k \in 1 .. Len(s) /\ s[k] <= m
  BY <1>8
<1>10. \A i \in 1 .. Len(s) : s[i] <= m => i <= k
  BY <1>8
<1> HIDE DEF S
<1>11. m <= e[s[k]]
  <2>1. CASE k = Len(s)
    BY <1>4, <2>1 DEF Within
  <2>2. CASE k # Len(s)
    <3>1. k \in 1 .. Len(s) - 1 /\ k + 1 \in 1 .. Len(s) /\ ~(k + 1 <= k)
      <4>1. k \in Nat /\ Len(s) \in Nat /\ 1 <= k /\ k <= Len(s)
        BY <1>1, <1>9
      <4> QED  BY <2>2, <4>1
    <3>2. ~(s[k + 1] <= m) /\ s[k + 1] = e[s[k]] + 1
      BY <1>5, <1>10, <3>1
    <3>3. e[s[k]] \in Nat /\ m \in Nat
      BY <1>2, <1>6, <3>1, OwnersAreNumbers
    <3> QED  BY <3>2, <3>3
  <2> QED  BY <2>1, <2>2
<1> QED  BY <1>1, <1>9, <1>11 DEF s

LEMMA WithinTransitive ==
    ASSUME NEW L, NEW z, NEW e, Numbered(L, z, e),
           NEW a \in Owners, NEW b \in Owners, NEW c \in Owners,
           Within(e, a, b), Within(e, b, c) \/ b = c
    PROVE  Within(e, a, c)
<1>1. e[b] <= e[a] /\ e[a] \in Owners /\ e[b] \in Owners
  BY DEF Numbered, Within
<1> QED  BY <1>1, OwnersAreNumbers DEF Within

\* Between a node and its child no node is above the child.
LEMMA NoNodeBetween ==
    ASSUME NEW L, NEW z, NEW e, Numbered(L, z, e), NEW n \in Owners,
           NEW k \in DOMAIN L[n], NEW m \in Owners, n < m, Within(e, m, L[n][k])
    PROVE  FALSE
<1> DEFINE c == L[n][k]
<1>1. /\ c \in Owners /\ n < c /\ c <= e[c] /\ e[c] <= e[n]
      /\ \A i \in Owners : e[i] \in Owners
  BY ChildWithin DEF Numbered
<1>2. m < c /\ c <= e[m]
  BY DEF Within
<1>3. Within(e, n, m)
  BY <1>1, <1>2, OwnersAreNumbers DEF Within
<1>4. PICK i \in DOMAIN L[n] : L[n][i] <= m /\ m <= e[L[n][i]]
  BY <1>3, ChildAbove
<1> DEFINE d == L[n][i]
<1>5. d \in Owners
  BY ChildWithin
<1>6. d = m \/ Within(e, d, m)
  BY <1>4, <1>5, OwnersAreNumbers DEF Within
<1>7. e[m] <= e[d]
  <2>1. CASE d = m
    <3>1. e[m] \in Nat
      BY <1>1, OwnersAreNumbers
    <3> QED  BY <2>1, <3>1
  <2>2. CASE Within(e, d, m)
    <3> HIDE DEF d
    <3> QED  BY <1>5, <2>2 DEF Numbered, Within
  <2> QED  BY <1>6, <2>1, <2>2
<1>8. i \in Nat /\ k \in Nat
  <2>1. L[n] \in Seq(Nodes)
    BY DEF Numbered
  <2> QED  BY <2>1
<1>9. i < k => e[d] < c
  BY ChildrenAscend
<1>10. k < i => e[c] < d
  BY ChildrenAscend
<1>11. d # c /\ d < c /\ c <= e[d]
  BY <1>1, <1>2, <1>4, <1>5, <1>7, OwnersAreNumbers
<1> HIDE DEF c, d
<1> QED  BY <1>1, <1>2, <1>4, <1>5, <1>8, <1>9, <1>10, <1>11, OwnersAreNumbers DEF c, d

LEMMA NearestIsParent ==
    ASSUME NEW L, NEW z, NEW e, Numbered(L, z, e), NEW p \in Owners, NEW m \in Owners,
           Within(e, p, m), \A q \in Owners : p < q => ~Within(e, q, m)
    PROVE  m \in Elems(L[p])
<1>1. PICK i \in DOMAIN L[p] : L[p][i] <= m /\ m <= e[L[p][i]]
  BY ChildAbove
<1>2. L[p][i] \in Owners /\ p < L[p][i]
  BY ChildWithin
<1>3. L[p][i] = m
  BY <1>1, <1>2, OwnersAreNumbers DEF Within
<1> QED  BY <1>3 DEF Elems

LEMMA HasParent ==
    ASSUME NEW L, NEW z, NEW e, Numbered(L, z, e), NEW p \in Owners, NEW m \in Owners,
           Within(e, p, m)
    PROVE  \E q \in Owners : m \in Elems(L[q]) /\ p <= q /\ (p = q \/ Within(e, p, q))
<1> DEFINE S == {q \in Owners : Within(e, q, m)}
<1>1. S \in SUBSET Nat /\ p \in S /\ \A q \in S : q <= N
  BY OwnersAreNumbers
<1>2. PICK q \in S : \A i \in S : i <= q
  <2> HIDE DEF S
  <2> QED  BY <1>1, GreatestMember, OwnersAreNumbers
<1>3. q \in Owners /\ Within(e, q, m) /\ p <= q
  BY <1>1, <1>2
<1>4. ASSUME NEW i \in Owners, q < i PROVE ~Within(e, i, m)
  BY <1>2, <1>4, OwnersAreNumbers
<1>5. m \in Elems(L[q])
  BY <1>3, <1>4, NearestIsParent
<1>6. p = q \/ Within(e, p, q)
  <2>1. e[p] \in Owners /\ m <= e[p] /\ q < m
    BY <1>3 DEF Within, Numbered
  <2> QED  BY <1>3, <2>1, OwnersAreNumbers DEF Within
<1> QED  BY <1>3, <1>5, <1>6

\* The lists of a numbered tree after nodes were removed
Remainder(C, L) ==
    /\ C \in [Owners -> Seq(Nodes)]
    /\ \A p \in Owners : Elems(C[p]) \subseteq Elems(L[p])

LEMMA ParentInRemainder ==
    ASSUME NEW L, NEW z, NEW e, Numbered(L, z, e), NEW C, Remainder(C, L), NEW n \in Owners
    PROVE  /\ \A p \in Owners : n \in Elems(C[p]) => ParentIn(C, n) = p
           /\ ParentIn(C, n) # NIL =>
                /\ ParentIn(C, n) \in Owners
                /\ n \in Elems(C[ParentIn(C, n)])
                /\ n \in Elems(L[ParentIn(C, n)])
                /\ Within(e, ParentIn(C, n), n)
           /\ ParentIn(C, n) = NIL => \A p \in Owners : n \notin Elems(C[p])
<1>1. ASSUME NEW p \in Owners, NEW q \in Owners, n \in Elems(L[p]), n \in Elems(L[q]), p < q
      PROVE  FALSE
  <2>1. PICK i \in DOMAIN L[p] : L[p][i] = n
    BY <1>1 DEF Elems
  <2>2. Within(e, q, n)
    BY <1>1, MemberWithin
  <2> QED  BY <1>1, <2>1, <2>2, NoNodeBetween
<1>2. ASSUME NEW p \in Owners, n \in Elems(L[p]) PROVE Within(e, p, n)
  BY <1>2, MemberWithin
<1>3. \A p \in Owners : n \in Elems(C[p]) => n \in Elems(L[p])
  BY DEF Remainder
<1>4. \A p, q \in Owners : n \in Elems(L[p]) /\ n \in Elems(L[q]) => p = q
  BY <1>1, OwnersAreNumbers
<1>5. NIL \notin Owners
  BY NilIsNoNode, OwnersAreNumbers
<1> DEFINE q == CHOOSE q \in Owners : n \in Elems(C[q])
<1>6. CASE \E p \in Owners : n \in Elems(C[p])
  <2>1. q \in Owners /\ n \in Elems(C[q])
    BY <1>6
  <2>2. ParentIn(C, n) = q
    BY <1>6 DEF ParentIn
  <2> HIDE DEF q
  <2> QED  BY <1>2, <1>3, <1>4, <1>5, <2>1, <2>2
<1>7. CASE ~\E p \in Owners : n \in Elems(C[p])
  BY <1>7 DEF ParentIn
<1> QED  BY <1>6, <1>7

-----------------------------------------------------------------------------
(* Ancestors *)

\* What the recursive definition demands of a function, up to a node j
Climbs(C, g, j) ==
    \A m \in Owners : m <= j =>
        g[m] = IF ParentIn(C, m) \in {Document, NIL} THEN {}
               ELSE {ParentIn(C, m)} \cup g[ParentIn(C, m)]

LEMMA ParentIsSmaller ==
    ASSUME NEW L, NEW z, NEW e, Numbered(L, z, e), NEW C, Remainder(C, L), NEW n \in Owners,
           ParentIn(C, n) \notin {Document, NIL}
    PROVE  /\ ParentIn(C, n) \in Nodes
           /\ ParentIn(C, n) \in Owners
           /\ ParentIn(C, n) < n
<1>1. ParentIn(C, n) \in Owners /\ Within(e, ParentIn(C, n), n)
  BY ParentInRemainder
<1> QED  BY <1>1, OwnersAreNumbers DEF Within

LEMMA ClimbExists ==
    ASSUME NEW L, NEW z, NEW e, Numbered(L, z, e), NEW C, Remainder(C, L)
    PROVE  \E g : g = [m \in Owners |-> IF ParentIn(C, m) \in {Document, NIL} THEN {}
                                        ELSE {ParentIn(C, m)} \cup g[ParentIn(C, m)]]
<1> DEFINE Bad == {j \in Nat : ~\E g : DOMAIN g = Owners /\ Climbs(C, g, j)}
<1>1. Bad = {}
  <2> SUFFICES ASSUME Bad # {} PROVE FALSE
    OBVIOUS
  <2>1. PICK j \in Bad : \A i \in Bad : j <= i
    <3>1. Bad \in SUBSET Nat
      OBVIOUS
    <3> HIDE DEF Bad
    <3> QED  BY <3>1, LeastMember
  <2>2. j \in Nat /\ \A g : DOMAIN g = Owners => ~Climbs(C, g, j)
    BY DEF Bad
  <2>3. PICK g : DOMAIN g = Owners /\ \A i \in Owners : i < j => 
                g[i] = IF ParentIn(C, i) \in {Document, NIL} THEN {}
                       ELSE {ParentIn(C, i)} \cup g[ParentIn(C, i)]
    <3>1. CASE j = 0
      <4> DEFINE g == [i \in Owners |-> {}]
      <4>1. DOMAIN g = Owners
        OBVIOUS
      <4>2. \A i \in Owners : ~(i < j)
        BY <3>1, OwnersAreNumbers
      <4> HIDE DEF g
      <4> QED  BY <4>1, <4>2
    <3>2. CASE j # 0
      <4>1. j - 1 \in Nat /\ j - 1 \notin Bad
        BY <2>1, <2>2, <3>2
      <4>2. PICK g : DOMAIN g = Owners /\ Climbs(C, g, j - 1)
        BY <4>1
      <4>3. \A i \in Owners : i < j => i <= j - 1
        BY <2>2, OwnersAreNumbers
      <4> QED  BY <4>2, <4>3 DEF Climbs
    <3> QED  BY <3>1, <3>2
  <2> HIDE DEF Bad
  <2> DEFINE q == ParentIn(C, j)
             h == [i \in Owners |-> IF i = j
                                    THEN IF q \in {Document, NIL} THEN {} ELSE {q} \cup g[q]
                                    ELSE g[i]]
  <2>4. DOMAIN h = Owners
    OBVIOUS
  <2>5. ASSUME NEW i \in Owners, i <= j
        PROVE  h[i] = IF ParentIn(C, i) \in {Document, NIL} THEN {}
                      ELSE {ParentIn(C, i)} \cup h[ParentIn(C, i)]
    <3> DEFINE p == ParentIn(C, i)
    <3>1. p \notin {Document, NIL} => p \in Owners /\ p # j /\ h[p] = g[p]
      <4>1. p \notin {Document, NIL} => p \in Owners /\ p < i
        BY ParentIsSmaller
      <4>2. p \notin {Document, NIL} => p # j
        BY <2>2, <2>5, <4>1, OwnersAreNumbers
      <4> HIDE DEF p
      <4> QED  BY <4>1, <4>2
    <3>2. CASE i = j
      <4>1. h[i] = IF p \in {Document, NIL} THEN {} ELSE {p} \cup g[p]
        BY <3>2
      <4> HIDE DEF h, p
      <4> QED  BY <3>1, <4>1, Zenon DEF p
    <3>3. CASE i # j
      <4>1. i < j
        BY <2>2, <2>5, <3>3, OwnersAreNumbers
      <4>2. h[i] = g[i]
        BY <3>3
      <4>3. g[i] = IF p \in {Document, NIL} THEN {} ELSE {p} \cup g[p]
        BY <2>3, <4>1
      <4> HIDE DEF h, p
      <4> QED  BY <3>1, <4>2, <4>3, Zenon DEF p
    <3> QED  BY <3>2, <3>3
  <2> HIDE DEF h
  <2>6. Climbs(C, h, j)
    BY <2>5 DEF Climbs
  <2> QED  BY <2>2, <2>4, <2>6
<1>2. N \notin Bad /\ N \in Nat
  BY <1>1, OwnersAreNumbers
<1>3. PICK g : DOMAIN g = Owners /\ Climbs(C, g, N)
  BY <1>2
<1> DEFINE body(m, k) == IF ParentIn(C, m) \in {Document, NIL} THEN {}
                         ELSE {ParentIn(C, m)} \cup k[ParentIn(C, m)]
<1> DEFINE h == [m \in Owners |-> g[m]]
<1>4. \A m \in Owners : h[m] = g[m] /\ g[m] = body(m, g)
  BY <1>3, OwnersAreNumbers DEF Climbs
<1>5. \A m \in Owners : body(m, g) = body(m, h)
  BY ParentIsSmaller
<1>6. h = [m \in Owners |-> body(m, h)]
  <2>1. \A m \in Owners : g[m] = body(m, h)
    BY <1>4, <1>5, Zenon
  <2> HIDE DEF body
  <2>2. [m \in Owners |-> g[m]] = [m \in Owners |-> body(m, h)]
    BY <2>1, Zenon
  <2> QED  BY <2>2 DEF h
<1> QED  BY <1>6

\* The recursion on nodes is sound as parents have smaller numbers.
LEMMA AncestorsUnfold ==
    ASSUME NEW L, NEW z, NEW e, Numbered(L, z, e), NEW C, Remainder(C, L), NEW n \in Owners
    PROVE  AncestorsIn(C, n) =
              IF ParentIn(C, n) \in {Document, NIL} THEN {}
              ELSE {ParentIn(C, n)} \cup AncestorsIn(C, ParentIn(C, n))
<1> DEFINE Def(g) == g = [m \in Owners |-> IF ParentIn(C, m) \in {Document, NIL} THEN {}
                                           ELSE {ParentIn(C, m)} \cup g[ParentIn(C, m)]]
           up == CHOOSE g : Def(g)
<1>1. \A m : AncestorsIn(C, m) = up[m]
  BY DEF AncestorsIn
<1>2. \E g : Def(g)
  BY ClimbExists
<1>3. Def(up)
  <2> HIDE DEF Def
  <2> QED  BY <1>2
<1> HIDE DEF up
<1>4. up[n] = IF ParentIn(C, n) \in {Document, NIL} THEN {}
              ELSE {ParentIn(C, n)} \cup up[ParentIn(C, n)]
  BY <1>3
<1> QED  BY <1>1, <1>4

\* A node's ancestors are those whose subtrees it is in; removals only take some away.
LEMMA AncestorsAreWithin ==
    ASSUME NEW L, NEW z, NEW e, Numbered(L, z, e), NEW C, Remainder(C, L), NEW n \in Owners
    PROVE  \A a \in AncestorsIn(C, n) : a \in Nodes /\ a \in Owners /\ Within(e, a, n)
<1> DEFINE Bad == {m \in Owners : ~\A a \in AncestorsIn(C, m) :
                                     a \in Nodes /\ a \in Owners /\ Within(e, a, m)}
<1>1. Bad = {}
  <2> SUFFICES ASSUME Bad # {} PROVE FALSE
    OBVIOUS
  <2>1. PICK m \in Bad : \A i \in Bad : m <= i
    <3>1. Bad \in SUBSET Nat
      BY OwnersAreNumbers
    <3> HIDE DEF Bad
    <3> QED  BY <3>1, LeastMember
  <2>2. m \in Owners /\ \A i \in Owners : i < m => i \notin Bad
    BY <2>1, OwnersAreNumbers
  <2>3. PICK a \in AncestorsIn(C, m) : ~(a \in Nodes /\ a \in Owners /\ Within(e, a, m))
    BY <2>1
  <2> DEFINE p == ParentIn(C, m)
  <2>4. AncestorsIn(C, m) = IF p \in {Document, NIL} THEN {} ELSE {p} \cup AncestorsIn(C, p)
    BY <2>2, AncestorsUnfold
  <2>5. p \notin {Document, NIL}
    BY <2>3, <2>4
  <2>6. p \in Nodes /\ p \in Owners /\ p < m
    BY <2>2, <2>5, ParentIsSmaller
  <2>7. Within(e, p, m)
    BY <2>2, <2>5, ParentInRemainder
  <2>8. a \in AncestorsIn(C, p)
    BY <2>3, <2>4, <2>5, <2>6, <2>7
  <2>9. p \notin Bad
    BY <2>2, <2>6
  <2>10. a \in Nodes /\ a \in Owners /\ Within(e, a, p)
    BY <2>6, <2>8, <2>9
  <2> HIDE DEF Bad, p
  <2>11. Within(e, a, m)
    BY <2>2, <2>6, <2>7, <2>10, WithinTransitive
  <2> QED  BY <2>3, <2>10, <2>11
<1> QED  BY <1>1

LEMMA WholeRemains ==
    ASSUME NEW L, NEW z, NEW e, Numbered(L, z, e)
    PROVE  Remainder(L, L)
BY DEF Remainder, Numbered

LEMMA WithinAreAncestors ==
    ASSUME NEW L, NEW z, NEW e, Numbered(L, z, e), NEW n \in Owners, NEW a \in Nodes,
           Within(e, a, n)
    PROVE  a \in AncestorsIn(L, n)
<1> DEFINE Bad == {m \in Owners : Within(e, a, m) /\ a \notin AncestorsIn(L, m)}
<1>1. Bad = {}
  <2> SUFFICES ASSUME Bad # {} PROVE FALSE
    OBVIOUS
  <2>1. PICK m \in Bad : \A i \in Bad : m <= i
    <3>1. Bad \in SUBSET Nat
      BY OwnersAreNumbers
    <3> HIDE DEF Bad
    <3> QED  BY <3>1, LeastMember
  <2>2. m \in Owners /\ Within(e, a, m) /\ a \notin AncestorsIn(L, m)
    BY <2>1
  <2>3. PICK q \in Owners : m \in Elems(L[q]) /\ a <= q /\ (a = q \/ Within(e, a, q))
    BY <2>2, HasParent, OwnersAreNumbers
  <2>4. ParentIn(L, m) = q
    BY <2>2, <2>3, WholeRemains, ParentInRemainder
  <2>5. q \notin {Document, NIL}
    BY <2>3, OwnersAreNumbers, NilIsNoNode
  <2>6. AncestorsIn(L, m) = {q} \cup AncestorsIn(L, q)
    BY <2>2, <2>4, <2>5, WholeRemains, AncestorsUnfold
  <2>7. q < m
    BY <2>2, <2>4, <2>5, WholeRemains, ParentIsSmaller
  <2>8. q \notin Bad
    BY <2>1, <2>2, <2>3, <2>7, OwnersAreNumbers
  <2> QED  BY <2>2, <2>3, <2>6, <2>8
<1> QED  BY <1>1

LEMMA AncestorsAndSubtrees ==
    ASSUME NEW L, NEW z, NEW e, Numbered(L, z, e), NEW n \in Owners
    PROVE  \A a : a \in AncestorsIn(L, n) <=> a \in Nodes /\ Within(e, a, n)
BY WithinAreAncestors, AncestorsAreWithin, WholeRemains

-----------------------------------------------------------------------------
(* Building a tree keeps the numbering *)

LEMMA NumberedGrows ==
    ASSUME NEW L, NEW z, NEW e, Numbered(L, z, e), NEW p \in Owners,
           z + 1 \in Nodes, p <= z, e[p] = z
    PROVE  Numbered([L EXCEPT ![p] = Append(@, z + 1)], z + 1,
                    [a \in Owners |-> IF a <= p /\ p <= e[a] THEN z + 1 ELSE e[a]])
<1> DEFINE n == z + 1
           M == [L EXCEPT ![p] = Append(@, n)]
           d == [a \in Owners |-> IF a <= p /\ p <= e[a] THEN n ELSE e[a]]
<1>1. /\ L \in [Owners -> Seq(Nodes)] /\ e \in [Owners -> Owners]
      /\ z \in Nodes /\ z \in Owners /\ z \in Nat /\ p \in Nat
      /\ n \in Nodes /\ n \in Owners /\ n \in Nat /\ z < n
  <2>1. L \in [Owners -> Seq(Nodes)] /\ e \in [Owners -> Owners] /\ z \in Nodes
    BY DEF Numbered
  <2>2. z \in Owners /\ z \in Nat /\ p \in Nat /\ n \in Owners
    BY <2>1, OwnersAreNumbers
  <2> QED  BY <2>1, <2>2
<1>2. \A a \in Owners : a \in Nat /\ e[a] \in Nat /\ a <= e[a] /\ (a <= z => e[a] <= z)
  BY <1>1, OwnersAreNumbers DEF Numbered
<1>3. /\ M \in [Owners -> Seq(Nodes)]
      /\ M[p] = Append(L[p], n)
      /\ \A a \in Owners : a # p => M[a] = L[a]
  BY <1>1
<1>4. d \in [Owners -> Owners]
  BY <1>1
<1>5. \A a \in Owners : d[a] = IF a <= p /\ p <= e[a] THEN n ELSE e[a]
  OBVIOUS
<1> HIDE DEF M, d, n
<1>6. d[p] = n /\ d[n] = n
  <2>1. ~(n <= p) /\ L[n] = <<>>
    BY <1>1 DEF Numbered
  <2>2. e[n] = n
    BY <1>1, <2>1 DEF Numbered
  <2> QED  BY <1>1, <1>2, <1>5, <2>1, <2>2
<1>7. \A a, b \in Owners : a < b /\ b <= e[a] => e[b] <= e[a]
  BY DEF Numbered
<1>8. \A a \in Owners : a <= p /\ p <= e[a] => e[a] = z
  <2>1. ASSUME NEW a \in Owners, a <= p, p <= e[a] PROVE e[a] = z
    <3>1. e[p] <= e[a]
      BY <1>1, <1>2, <1>7, <2>1
    <3>2. a <= z
      BY <1>1, <1>2, <2>1
    <3> QED  BY <1>1, <1>2, <3>1, <3>2
  <2> QED  BY <2>1
<1>9. \A a \in Owners : a <= d[a] /\ (a <= n => d[a] <= n)
  <2> SUFFICES ASSUME NEW a \in Owners PROVE a <= d[a] /\ (a <= n => d[a] <= n)
    OBVIOUS
  <2>1. a <= n => a <= z \/ a = n
    BY <1>1, <1>2 DEF n
  <2>2. a = n => d[a] = n
    BY <1>6
  <2>3. a <= p => a <= n
    BY <1>1, <1>2
  <2>4. d[a] = n \/ d[a] = e[a]
    BY <1>5
  <2>5. d[a] = n => a <= n
    BY <1>1, <1>2, <1>5, <2>3
  <2>6. CASE d[a] = n
    BY <1>1, <2>5, <2>6
  <2>7. CASE d[a] = e[a] /\ d[a] # n
    <3>1. a <= z => e[a] <= z
      BY <1>2
    <3> QED  BY <1>1, <1>2, <2>1, <2>2, <2>7, <3>1
  <2> QED  BY <2>4, <2>6, <2>7
<1>10. \A a \in Owners : a > n => M[a] = <<>>
  <2>1. \A a \in Owners : a > n => a # p /\ a > z
    BY <1>1, <1>2
  <2> QED  BY <1>3, <2>1 DEF Numbered
<1>11. M[p] # <<>> /\ Len(M[p]) = Len(L[p]) + 1 /\ M[p][Len(M[p])] = n
      /\ \A k \in 1 .. Len(L[p]) : M[p][k] = L[p][k]
  <2>1. L[p] \in Seq(Nodes)
    BY <1>1
  <2> QED  BY <1>1, <1>3, <2>1, AppendProperties
<1>12. \A a \in Owners : M[a] = <<>> => d[a] = a
  <2> SUFFICES ASSUME NEW a \in Owners, M[a] = <<>> PROVE d[a] = a
    OBVIOUS
  <2>1. a # p /\ L[a] = <<>>
    BY <1>3, <1>11
  <2>2. e[a] = a
    BY <2>1 DEF Numbered
  <2>3. ~(a <= p /\ p <= a)
    BY <1>1, <1>2, <2>1
  <2> QED  BY <1>5, <2>2, <2>3
<1>13. \A a \in Owners : \A k \in 1 .. Len(L[a]) - 1 :
          d[L[a][k]] = e[L[a][k]] /\ L[a][k + 1] = e[L[a][k]] + 1
  <2> SUFFICES ASSUME NEW a \in Owners, NEW k \in 1 .. Len(L[a]) - 1
               PROVE  d[L[a][k]] = e[L[a][k]] /\ L[a][k + 1] = e[L[a][k]] + 1
    OBVIOUS
  <2>1. L[a] \in Seq(Nodes)
    BY <1>1
  <2>2. k \in DOMAIN L[a] /\ k + 1 \in DOMAIN L[a]
    BY <2>1
  <2> DEFINE b == L[a][k]
             c == L[a][k + 1]
  <2>3. b \in Owners /\ c \in Owners /\ c <= e[c] /\ e[c] <= e[a]
    BY <2>2, ChildWithin
  <2>4. c = e[b] + 1
    BY DEF Numbered
  <2>5. c <= z
    <3>1. L[a] # <<>>
      BY <2>1
    <3>2. a <= z
      BY <1>1, <1>2, <3>1 DEF Numbered
    <3>3. e[a] <= z /\ c \in Nat /\ e[c] \in Nat /\ e[a] \in Nat
      BY <1>2, <2>3, <3>2
    <3> HIDE DEF c
    <3> QED  BY <1>1, <2>3, <3>3
  <2> HIDE DEF b, c
  <2>6. e[b] # z
    BY <1>1, <1>2, <2>3, <2>4, <2>5
  <2>7. d[b] = e[b]
    BY <1>5, <1>8, <2>3, <2>6
  <2> QED  BY <2>4, <2>7 DEF b, c
<1>14. \A a \in Owners : \A k \in 1 .. Len(M[a]) - 1 : M[a][k + 1] = d[M[a][k]] + 1
  <2> SUFFICES ASSUME NEW a \in Owners, NEW k \in 1 .. Len(M[a]) - 1
               PROVE  M[a][k + 1] = d[M[a][k]] + 1
    OBVIOUS
  <2>1. CASE a # p
    <3>1. M[a] = L[a]
      BY <1>3, <2>1
    <3>2. k \in 1 .. Len(L[a]) - 1
      BY <3>1
    <3>3. d[L[a][k]] = e[L[a][k]] /\ L[a][k + 1] = e[L[a][k]] + 1
      BY <1>13, <3>2
    <3> QED  BY <3>1, <3>3
  <2>2. CASE a = p
    <3>1. L[p] \in Seq(Nodes) /\ Len(L[p]) \in Nat /\ Len(M[p]) - 1 = Len(L[p])
      BY <1>1, <1>11
    <3>2. k \in 1 .. Len(L[p])
      BY <2>2, <3>1
    <3>3. CASE k # Len(L[p])
      <4>1. k \in 1 .. Len(L[p]) - 1 /\ k + 1 \in 1 .. Len(L[p])
        BY <3>1, <3>2, <3>3
      <4>2. d[L[p][k]] = e[L[p][k]] /\ L[p][k + 1] = e[L[p][k]] + 1
        BY <1>1, <1>13, <4>1
      <4>3. M[p][k] = L[p][k] /\ M[p][k + 1] = L[p][k + 1]
        BY <1>11, <3>2, <4>1
      <4> QED  BY <2>2, <4>2, <4>3
    <3>4. CASE k = Len(L[p])
      <4>1. L[p] # <<>> /\ k \in DOMAIN L[p]
        BY <3>1, <3>2
      <4>2. L[p][k] \in Owners /\ p < L[p][k]
        BY <4>1, ChildWithin
      <4>3. d[L[p][k]] = z
        <5> DEFINE l == L[p][k]
        <5>1. e[l] = z
          BY <3>4, <4>1 DEF Numbered
        <5>2. ~(l <= p)
          <6> HIDE DEF l
          <6>1. l \in Owners /\ p < l
            BY <4>2 DEF l
          <6> QED  BY <1>1, <1>2, <6>1
        <5> HIDE DEF l
        <5> QED  BY <1>5, <4>2, <5>1, <5>2 DEF l
      <4>4. M[p][k + 1] = n /\ M[p][k] = L[p][k]
        BY <1>11, <3>2, <3>4
      <4> QED  BY <2>2, <4>3, <4>4 DEF n
    <3> QED  BY <3>3, <3>4
  <2> QED  BY <2>1, <2>2
<1>15. \A a \in Owners : M[a] # <<>> => M[a][1] = a + 1 /\ d[a] = d[M[a][Len(M[a])]]
  <2> SUFFICES ASSUME NEW a \in Owners, M[a] # <<>>
               PROVE  M[a][1] = a + 1 /\ d[a] = d[M[a][Len(M[a])]]
    OBVIOUS
  <2>1. CASE a # p
    <3>1. M[a] = L[a] /\ L[a] # <<>> /\ L[a] \in Seq(Nodes)
      BY <1>1, <1>3, <2>1
    <3>2. L[a][1] = a + 1 /\ e[a] = e[L[a][Len(L[a])]] /\ Len(L[a]) \in DOMAIN L[a]
      BY <3>1 DEF Numbered
    <3> DEFINE l == L[a][Len(L[a])]
    <3>3. l \in Owners /\ a < l
      BY <3>2, ChildWithin
    <3>4. (a <= p /\ p <= e[a]) <=> (l <= p /\ p <= e[l])
      <4>1. ASSUME a <= p, p <= e[a] PROVE l <= p
        <5>1. Within(e, a, p)
          <6>1. a < p
            BY <1>1, <1>2, <2>1, <4>1
          <6> QED  BY <4>1, <6>1 DEF Within
        <5>2. PICK k \in DOMAIN L[a] : L[a][k] <= p /\ p <= e[L[a][k]]
          BY <5>1, ChildAbove
        <5>3. L[a][k] \in Owners
          BY <5>2, ChildWithin
        <5>4. e[L[a][k]] = z
          BY <1>8, <5>2, <5>3
        <5>5. CASE k = Len(L[a])
          BY <5>2, <5>5
        <5>6. CASE k # Len(L[a])
          <6>1. k < Len(L[a])
            BY <3>1, <5>6
          <6>2. e[L[a][k]] < l
            BY <3>2, <6>1, ChildrenAscend
          <6>3. a <= z
            <7>1. a \in Nat /\ p \in Nat /\ z \in Nat /\ p <= z
              BY <1>1, <1>2, OwnersAreNumbers
            <7> QED  BY <4>1, <7>1
          <6>4. l <= e[l] /\ e[l] <= e[a] /\ e[a] <= z
            BY <1>2, <3>2, <6>3, ChildWithin
          <6> HIDE DEF l
          <6>5. l \in Nat /\ e[l] \in Nat /\ e[a] \in Nat
            <7>1. l \in Owners /\ e[l] \in Owners /\ e[a] \in Owners
              BY <3>3 DEF Numbered
            <7> QED  BY <7>1, OwnersAreNumbers
          <6>6. z < l
            BY <5>4, <6>2
          <6>7. l <= z
            BY <1>1, <6>4, <6>5
          <6> QED  BY <1>1, <6>5, <6>6, <6>7
        <5> QED  BY <5>5, <5>6
      <4> HIDE DEF l
      <4>2. e[a] = e[l] /\ (l <= p => a <= p)
        <5>1. e[a] = e[l]
          BY <3>2 DEF l
        <5> QED  BY <1>1, <1>2, <3>3, <5>1
      <4> QED  BY <1>1, <1>2, <3>3, <4>1, <4>2
    <3> HIDE DEF l
    <3>5. d[a] = d[l]
      BY <1>5, <3>2, <3>3, <3>4 DEF l
    <3> QED  BY <3>1, <3>2, <3>5 DEF l
  <2>2. CASE a = p
    <3>1. d[a] = d[M[a][Len(M[a])]]
      BY <1>6, <1>11, <2>2
    <3>2. M[p][1] = p + 1
      <4>1. CASE L[p] = <<>>
        <5>1. e[p] = p
          BY <4>1 DEF Numbered
        <5>2. M[p][1] = n
          BY <1>11, <4>1
        <5> QED  BY <5>1, <5>2 DEF n
      <4>2. CASE L[p] # <<>>
        <5>1. L[p][1] = p + 1 /\ 1 \in 1 .. Len(L[p])
          BY <1>1, <4>2 DEF Numbered
        <5> QED  BY <1>11, <5>1
      <4> QED  BY <4>1, <4>2
    <3> QED  BY <2>2, <3>1, <3>2
  <2> QED  BY <2>1, <2>2
<1>16. \A a, b \in Owners : a < b /\ b <= d[a] => d[b] <= d[a]
  <2> SUFFICES ASSUME NEW a \in Owners, NEW b \in Owners, a < b, b <= d[a]
               PROVE  d[b] <= d[a]
    OBVIOUS
  <2>1. CASE d[a] = n
    BY <1>1, <1>9, <2>1
  <2>2. CASE d[a] # n
    <3>1. d[a] = e[a] /\ e[b] <= e[a] /\ ~(a <= p /\ p <= e[a])
      BY <1>5, <1>7, <2>2
    <3>2. a \in Nat /\ b \in Nat /\ p \in Nat /\ e[a] \in Nat /\ e[b] \in Nat
      BY <1>1, <1>2, OwnersAreNumbers
    <3>3. ~(b <= p /\ p <= e[b])
      BY <3>1, <3>2
    <3> QED  BY <1>5, <3>1, <3>3
  <2> QED  BY <2>1, <2>2
<1>17. IF M[Document] = <<>> THEN d[1] = n ELSE d[Document] = n
  <2>1. Document \in Owners /\ 1 \in Owners /\ Document = 0
    BY OwnersAreNumbers
  <2>2. CASE p = Document
    BY <1>6, <1>11, <2>2
  <2>3. CASE p # Document
    <3>1. M[Document] = L[Document]
      BY <1>3, <2>1, <2>3
    <3>2. CASE L[Document] = <<>>
      <4>1. e[1] = z /\ 1 <= p
        BY <1>1, <2>1, <2>3, <3>2 DEF Numbered
      <4> QED  BY <1>1, <1>5, <2>1, <3>1, <3>2, <4>1
    <3>3. CASE L[Document] # <<>>
      <4>1. e[Document] = z
        BY <3>3 DEF Numbered
      <4> QED  BY <1>1, <1>5, <2>1, <3>1, <3>3, <4>1
    <3> QED  BY <3>2, <3>3
  <2> QED  BY <2>2, <2>3
<1>18. Numbered(M, n, d)
  BY <1>1, <1>3, <1>4, <1>9, <1>10, <1>12, <1>14, <1>15, <1>16, <1>17 DEF Numbered
<1> QED  BY <1>18 DEF M, n, d

-----------------------------------------------------------------------------
(* Removals *)

LEMMA RemovedAt ==
    ASSUME NEW S, NEW s \in Seq(S), NEW i \in DOMAIN s
    PROVE  /\ RemoveAt(s, i) \in Seq(S)
           /\ Len(s) \in Nat /\ Len(RemoveAt(s, i)) = Len(s) - 1
           /\ \A k \in 1 .. Len(s) - 1 :
                 RemoveAt(s, i)[k] = IF k < i THEN s[k] ELSE s[k + 1]
<1> DEFINE a == SubSeq(s, 1, i - 1)
           b == SubSeq(s, i + 1, Len(s))
<1>1. i \in Nat /\ 1 <= i /\ i <= Len(s) /\ Len(s) \in Nat
  OBVIOUS
<1>2. a \in Seq(S) /\ Len(a) = i - 1 /\ \A k \in 1 .. i - 1 : a[k] = s[k]
  BY <1>1
<1>3. b \in Seq(S) /\ Len(b) = Len(s) - i /\ \A k \in 1 .. Len(s) - i : b[k] = s[i + k]
  BY <1>1
<1> HIDE DEF a, b
<1>4. /\ a \o b \in Seq(S) /\ Len(a \o b) = Len(a) + Len(b)
      /\ \A k \in 1 .. Len(a) + Len(b) :
            (a \o b)[k] = IF k <= Len(a) THEN a[k] ELSE b[k - Len(a)]
  BY <1>2, <1>3, ConcatProperties
<1>5. RemoveAt(s, i) = a \o b
  BY DEF RemoveAt, a, b
<1>6. ASSUME NEW k \in 1 .. Len(s) - 1
      PROVE  (a \o b)[k] = IF k < i THEN s[k] ELSE s[k + 1]
  <2>1. (a \o b)[k] = IF k <= Len(a) THEN a[k] ELSE b[k - Len(a)]
    <3>1. k \in 1 .. Len(a) + Len(b)
      <4>1. Len(a) + Len(b) = Len(s) - 1
        BY <1>1, <1>2, <1>3
      <4> QED  BY <4>1
    <3> QED  BY <1>4, <3>1
  <2>2. CASE k < i
    BY <1>1, <1>2, <2>1, <2>2
  <2>3. CASE ~(k < i)
    <3>1. k - Len(a) \in 1 .. Len(s) - i /\ i + (k - Len(a)) = k + 1 /\ ~(k <= Len(a))
      BY <1>1, <1>2, <2>3
    <3> QED  BY <1>3, <2>1, <2>3, <3>1
  <2> QED  BY <2>2, <2>3
<1>7. Len(a \o b) = Len(s) - 1
  BY <1>1, <1>2, <1>3, <1>4
<1> QED  BY <1>1, <1>4, <1>5, <1>6, <1>7

\* The child lists C are what is left of L after the nodes in D were removed.
Pruned(C, L, D) ==
    /\ Remainder(C, L)
    /\ \A p \in Owners : \A i, j \in DOMAIN C[p] : i < j => C[p][i] < C[p][j]
    /\ \A p \in Owners : Elems(L[p]) \cap D = {} => C[p] = L[p]
    /\ \A p \in Owners : \A k \in DOMAIN L[p] :
          (\A j \in 1 .. k : L[p][j] \notin D) =>
              k \in DOMAIN C[p] /\ \A j \in 1 .. k : C[p][j] = L[p][j]

\* What is at some index only moves to the front.
Advanced(C, E) ==
    \A p \in Owners : \A k \in DOMAIN E[p] : k \in DOMAIN C[p] /\ C[p][k] <= E[p][k]

\* All that comes behind an index is behind a node.
Later(C, p, k, b) == \A i \in DOMAIN C[p] : k < i => b < C[p][i]

LEMMA RemovalPrunes ==
    ASSUME NEW L, L \in [Owners -> Seq(Nodes)],
           NEW C, NEW D, Pruned(C, L, D), NEW p \in Owners, NEW i \in DOMAIN C[p]
    PROVE  /\ Pruned([C EXCEPT ![p] = RemoveAt(@, i)], L, D \cup {C[p][i]})
           /\ Advanced(C, [C EXCEPT ![p] = RemoveAt(@, i)])
<1> DEFINE E == [C EXCEPT ![p] = RemoveAt(@, i)]
           n == C[p][i]
<1>1. C \in [Owners -> Seq(Nodes)]
  BY DEF Pruned, Remainder
<1>2. C[p] \in Seq(Nodes) /\ i \in 1 .. Len(C[p]) /\ DOMAIN C[p] = 1 .. Len(C[p])
  BY <1>1
<1>3. /\ RemoveAt(C[p], i) \in Seq(Nodes)
      /\ Len(C[p]) \in Nat /\ Len(RemoveAt(C[p], i)) = Len(C[p]) - 1
      /\ \A k \in 1 .. Len(C[p]) - 1 :
            RemoveAt(C[p], i)[k] = IF k < i THEN C[p][k] ELSE C[p][k + 1]
  BY <1>2, RemovedAt
<1>4. /\ E \in [Owners -> Seq(Nodes)]
      /\ E[p] = RemoveAt(C[p], i)
      /\ \A q \in Owners : q # p => E[q] = C[q]
  BY <1>1, <1>3
<1> HIDE DEF E
<1>5. DOMAIN E[p] = 1 .. Len(C[p]) - 1
  BY <1>3, <1>4
<1>6. \A k \in DOMAIN E[p] : E[p][k] = IF k < i THEN C[p][k] ELSE C[p][k + 1]
  BY <1>3, <1>4, <1>5
<1>7. \A k, j \in DOMAIN C[p] : k < j => C[p][k] < C[p][j]
  BY DEF Pruned
<1>8. \A k \in DOMAIN C[p] : C[p][k] \in Nat
  BY <1>2, OwnersAreNumbers
<1>9. Advanced(C, E)
  <2> SUFFICES ASSUME NEW q \in Owners, NEW k \in DOMAIN E[q]
               PROVE  k \in DOMAIN C[q] /\ C[q][k] <= E[q][k]
    BY DEF Advanced
  <2>1. CASE q # p
    <3>1. C[q] \in Seq(Nodes) /\ E[q] = C[q]
      BY <1>1, <1>4, <2>1
    <3>2. C[q][k] \in Nat
      BY <3>1, OwnersAreNumbers
    <3> QED  BY <3>1, <3>2
  <2>2. CASE q = p
    <3>1. k \in 1 .. Len(C[p]) /\ k + 1 \in 1 .. Len(C[p]) /\ k < k + 1
      BY <1>2, <1>3, <1>5, <2>2
    <3>2. C[p][k] < C[p][k + 1] /\ C[p][k] \in Nat
      BY <1>2, <1>7, <1>8, <3>1
    <3>3. E[p][k] = IF k < i THEN C[p][k] ELSE C[p][k + 1]
      BY <1>6, <2>2
    <3>4. C[p][k + 1] \in Nat
      BY <1>2, <1>8, <3>1
    <3> QED  BY <1>2, <2>2, <3>1, <3>2, <3>3, <3>4
  <2> QED  BY <2>1, <2>2
<1>10. Elems(E[p]) \subseteq Elems(C[p])
  <2> SUFFICES ASSUME NEW k \in DOMAIN E[p] PROVE E[p][k] \in Elems(C[p])
    BY DEF Elems
  <2>1. k \in DOMAIN C[p] /\ k + 1 \in DOMAIN C[p]
    BY <1>2, <1>3, <1>5
  <2> QED  BY <1>6, <2>1 DEF Elems
<1>11. Remainder(E, L)
  BY <1>4, <1>10 DEF Pruned, Remainder
<1>12. ASSUME NEW q \in Owners, NEW j \in DOMAIN E[q], NEW k \in DOMAIN E[q], j < k
       PROVE  E[q][j] < E[q][k]
  <2>1. CASE q # p
    BY <1>4, <1>12, <2>1 DEF Pruned
  <2>2. CASE q = p
    <3>1. /\ j \in DOMAIN C[p] /\ j + 1 \in DOMAIN C[p]
          /\ k \in DOMAIN C[p] /\ k + 1 \in DOMAIN C[p]
      <4>1. \A h \in DOMAIN E[p] : h \in DOMAIN C[p] /\ h + 1 \in DOMAIN C[p]
        BY <1>2, <1>3, <1>5
      <4> QED  BY <2>2, <4>1
    <3>2. j \in Nat /\ k \in Nat /\ i \in Nat
      BY <1>2, <3>1
    <3>3. CASE j < i /\ k < i
      BY <1>6, <1>7, <1>12, <2>2, <3>1, <3>3
    <3>4. CASE j < i /\ ~(k < i)
      <4>1. j < k + 1
        BY <1>12, <3>2
      <4> QED  BY <1>6, <1>7, <2>2, <3>1, <3>4, <4>1
    <3>5. CASE ~(j < i)
      <4>1. ~(k < i) /\ j + 1 < k + 1
        BY <1>12, <3>2, <3>5
      <4> QED  BY <1>6, <1>7, <2>2, <3>1, <3>5, <4>1
    <3> QED  BY <3>3, <3>4, <3>5
  <2> QED  BY <2>1, <2>2
<1>13. n \in Elems(L[p])
  <2>1. n \in Elems(C[p])
    BY DEF Elems
  <2> QED  BY <2>1 DEF Pruned, Remainder
<1>14. ASSUME NEW q \in Owners, Elems(L[q]) \cap (D \cup {n}) = {}
       PROVE  E[q] = L[q]
  <2>1. q # p
    BY <1>13, <1>14
  <2>2. Elems(L[q]) \cap D = {}
    BY <1>14
  <2> QED  BY <1>4, <2>1, <2>2 DEF Pruned
<1>15. ASSUME NEW q \in Owners, NEW k \in DOMAIN L[q],
              \A j \in 1 .. k : L[q][j] \notin D \cup {n}
       PROVE  k \in DOMAIN E[q] /\ \A j \in 1 .. k : E[q][j] = L[q][j]
  <2>1. k \in DOMAIN C[q] /\ \A j \in 1 .. k : C[q][j] = L[q][j]
    BY <1>15 DEF Pruned
  <2>2. CASE q # p
    BY <1>4, <2>1, <2>2
  <2>3. CASE q = p
    <3>1. i \notin 1 .. k
      BY <1>15, <2>1, <2>3
    <3>2. k \in 1 .. Len(C[p])
      BY <1>2, <2>1, <2>3
    <3>3. k < i /\ k \in 1 .. Len(C[p]) - 1
      BY <1>2, <1>3, <3>1, <3>2
    <3>4. \A j \in 1 .. k : j \in DOMAIN E[p] /\ j < i
      BY <1>2, <1>3, <1>5, <3>3
    <3> QED  BY <1>5, <1>6, <2>1, <2>3, <3>3, <3>4
  <2> QED  BY <2>2, <2>3
<1> HIDE DEF n
<1>16. Pruned(E, L, D \cup {n})
  BY <1>11, <1>12, <1>14, <1>15 DEF Pruned
<1> QED  BY <1>9, <1>16 DEF E, n

-----------------------------------------------------------------------------
(* What holds of every walk *)

Detached == {r[1] : r \in removed}

\* The tree was left alone, or as much of it as the walk still depends on.
Undisturbed == removed = {} \/ (OnlyResultsRemoved /\ IsRobust(walk))

Base ==
    /\ \E S : yielded \in Seq(S)
    /\ \A r \in removed : r[2] \in Nat /\ r[2] <= Len(yielded)
    /\ ~Started => /\ frames = <<>> /\ yielded = <<>> /\ removed = {}
                   /\ children \in [Owners -> Seq(Nodes)]
    /\ Started => walk \in Walks /\ walk.node <= size /\ Pruned(children, origin, Detached)
    /\ \E e : Numbered(IF Started THEN origin ELSE children, size, e)

LEMMA UndisturbedDetached ==
    ASSUME Base, Undisturbed
    PROVE  Detached \subseteq Elems(yielded)
<1> SUFFICES ASSUME NEW r \in removed PROVE r[1] \in Elems(yielded)
  BY DEF Detached
<1>1. PICK i \in 1 .. r[2] : yielded[i] = r[1]
  BY DEF Undisturbed, OnlyResultsRemoved
<1>2. r[2] \in Nat /\ r[2] <= Len(yielded)
  BY DEF Base
<1>3. PICK S : yielded \in Seq(S)
  BY DEF Base
<1>4. i \in DOMAIN yielded
  BY <1>2, <1>3
<1> QED  BY <1>1, <1>4 DEF Elems

\* A step of a generator yields a node or none.
Proceeds ==
    /\ status' \in {"running", "suspended", "done", "IndexError"}
    /\ yielded' = yielded \/ \E n : yielded' = Append(yielded, n)

LEMMA RunProceeds ==
    ASSUME Run
    PROVE  Proceeds
<1>1. ASSUME NEW new, Continue(new) PROVE Proceeds
  BY <1>1 DEF Continue, Proceeds
<1>2. ASSUME Return PROVE Proceeds
  BY <1>1, <1>2 DEF Return
<1>3. ASSUME NEW n, NEW new, Yield(n, new) PROVE Proceeds
  BY <1>3 DEF Yield, Proceeds
<1>4. ASSUME RaiseIndexError PROVE Proceeds
  BY <1>4 DEF RaiseIndexError, Proceeds
<1>5. CASE StepAncestors
  BY <1>2, <1>3, <1>5 DEF StepAncestors
<1>6. CASE StepChildren
  BY <1>2, <1>3, <1>6 DEF StepChildren
<1>7. CASE StepDescendants
  BY <1>1, <1>2, <1>3, <1>7 DEF StepDescendants
<1>8. CASE StepFollowingSiblings
  BY <1>2, <1>3, <1>4, <1>8 DEF StepFollowingSiblings
<1>9. CASE StepPrecedingSiblings
  BY <1>1, <1>2, <1>3, <1>4, <1>9 DEF StepPrecedingSiblings
<1>10. CASE StepFollowing
  BY <1>1, <1>2, <1>3, <1>10 DEF StepFollowing
<1>11. CASE StepPreceding
  BY <1>1, <1>2, <1>3, <1>11 DEF StepPreceding
<1>12. CASE StepBottomUp
  BY <1>1, <1>2, <1>3, <1>12 DEF StepBottomUp
<1>13. CASE StepBreadthFirst
  BY <1>2, <1>3, <1>13 DEF StepBreadthFirst
<1> QED
  BY <1>5, <1>6, <1>7, <1>8, <1>9, <1>10, <1>11, <1>12, <1>13 DEF Run

LEMMA DetachPrunes ==
    ASSUME Base, NEW n \in Nodes, Detach(n)
    PROVE  /\ Pruned(children', origin, Detached')
           /\ Advanced(children, children')
           /\ removed' # {}
           /\ Started /\ status' = status
<1> DEFINE p == Parent(n)
           i == Position(n)
<1>1. status = "suspended" /\ Started /\ p # NIL
  BY DEF Detach, Started
<1>2. PICK e : Numbered(origin, size, e)
  BY <1>1 DEF Base
<1>3. Pruned(children, origin, Detached)
  BY <1>1 DEF Base
<1>4. Remainder(children, origin) /\ origin \in [Owners -> Seq(Nodes)]
  BY <1>2, <1>3 DEF Pruned, Numbered
<1>5. n \in Owners
  BY OwnersAreNumbers
<1>6. p \in Owners /\ n \in Elems(children[p])
  BY <1>1, <1>2, <1>4, <1>5, ParentInRemainder DEF Parent
<1>7. \E j \in DOMAIN children[p] : children[p][j] = n
  BY <1>6 DEF Elems
<1>8. i \in DOMAIN children[p] /\ children[p][i] = n
  BY <1>7 DEF Position, PositionOf
<1>9. children' = [children EXCEPT ![p] = RemoveAt(@, i)]
  BY DEF Detach
<1>10. Detached' = Detached \cup {n}
  <2> DEFINE r == <<n, Len(yielded)>>
  <2>1. removed' = removed \cup {r} /\ r[1] = n
    BY DEF Detach
  <2> HIDE DEF r
  <2> QED  BY <2>1 DEF Detached
<1> HIDE DEF p, i
<1>11. Pruned(children', origin, Detached') /\ Advanced(children, children')
  BY <1>3, <1>4, <1>6, <1>8, <1>9, <1>10, RemovalPrunes
<1> QED  BY <1>1, <1>11 DEF Detach

LEMMA InitBase == Init => Base
<1> SUFFICES ASSUME Init PROVE Base
  OBVIOUS
<1>1. /\ size = 1 /\ status = "building" /\ yielded = <<>> /\ removed = {} /\ frames = <<>>
      /\ ~Started
  BY DEF Init, Started
<1>2. yielded \in Seq(Nodes)
  BY <1>1
<1> DEFINE alone == [a \in Owners |-> a]
           below == [a \in Owners |-> IF a = Document THEN 1 ELSE a]
<1>3. 1 \in Nodes /\ 1 \in Owners /\ \A a \in Owners : a \in Nat /\ (a > 1 => a # Document)
  BY BoundsAreNaturals, OwnersAreNumbers DEF Nodes, Owners
<1>4. children \in [Owners -> Seq(Nodes)] /\ \E e : Numbered(children, size, e)
  <2>1. CASE children = [p \in Owners |-> <<>>]
    <3>1. Numbered(children, 1, alone)
      BY <1>3, <2>1, OwnersAreNumbers DEF Numbered
    <3> QED  BY <1>1, <3>1 DEF Numbered
  <2>2. CASE children = [p \in Owners |-> IF p = Document THEN <<1>> ELSE <<>>]
    <3>1. <<1>> \in Seq(Nodes) /\ Len(<<1>>) = 1 /\ <<1>>[1] = 1 /\ <<1>> # <<>>
      BY <1>3
    <3>2. children \in [Owners -> Seq(Nodes)]
      BY <1>3, <2>2, <3>1
    <3>3. below \in [Owners -> Owners] /\ below[1] = 1 /\ below[Document] = 1 /\ Document = 0
      BY <1>3, OwnersAreNumbers
    <3>4. \A a \in Owners : a # Document => children[a] = <<>> /\ below[a] = a
      BY <2>2
    <3>5. children[Document] = <<1>>
      BY <2>2, OwnersAreNumbers DEF Owners
    <3> HIDE DEF below
    <3>6. \A a \in Owners : a <= below[a] /\ (a <= 1 => below[a] <= 1)
      BY <1>3, <3>3, <3>4
    <3>7. \A a \in Owners : \A k \in 1 .. Len(children[a]) - 1 : FALSE
      <4> SUFFICES ASSUME NEW a \in Owners PROVE \A k \in 1 .. Len(children[a]) - 1 : FALSE
        OBVIOUS
      <4>1. children[a] = <<>> \/ children[a] = <<1>>
        BY <3>4, <3>5
      <4>2. Len(<<>>) = 0
        OBVIOUS
      <4>3. Len(children[a]) = 0 \/ Len(children[a]) = 1
        BY <3>1, <4>1, <4>2, Zenon
      <4> DEFINE l == Len(children[a])
      <4> HIDE DEF l
      <4>4. l = 0 \/ l = 1
        BY <4>3 DEF l
      <4>5. \A k \in 1 .. l - 1 : FALSE
        BY <4>4
      <4> QED  BY <4>5 DEF l
    <3>8. \A a \in Owners : children[a] # <<>> =>
            children[a][1] = a + 1 /\ below[a] = below[children[a][Len(children[a])]]
      BY <3>1, <3>3, <3>4, <3>5
    <3>9. \A m, n \in Owners : m < n /\ n <= below[m] => below[n] <= below[m]
      BY <1>3, <3>3, <3>4
    <3>10. \A a \in Owners : (a > 1 => children[a] = <<>>) /\ (children[a] = <<>> => below[a] = a)
      BY <1>3, <3>1, <3>3, <3>4, <3>5
    <3>11. Numbered(children, 1, below)
      BY <1>3, <3>1, <3>2, <3>3, <3>5, <3>6, <3>7, <3>8, <3>9, <3>10 DEF Numbered
    <3> QED  BY <1>1, <3>2, <3>11
  <2> QED  BY <2>1, <2>2 DEF Init
<1> QED  BY <1>1, <1>2, <1>4 DEF Base

LEMMA BuildBase ==
    ASSUME Base, NEW p \in Owners, Build(p)
    PROVE  Base'
<1>1. ~Started /\ ~Started' /\ size + 1 \in Nodes /\ size' = size + 1
  BY DEF Build, Started
<1>2. PICK e : Numbered(children, size, e)
  BY <1>1 DEF Base
<1>3. size \in Nodes /\ size \in Owners /\ e \in [Owners -> Owners]
  BY <1>2, OwnersAreNumbers DEF Numbered
<1>4. p <= size /\ e[p] = size
  <2>1. CASE p = Document
    BY <1>2, <1>3, <2>1, OwnersAreNumbers DEF Numbered, Build
  <2>2. CASE p = size
    <3>1. p <= e[p] /\ e[p] <= p
      BY <1>2, <1>3, <2>2, OwnersAreNumbers DEF Numbered
    <3> QED  BY <1>3, <2>2, <3>1, OwnersAreNumbers
  <2>3. CASE p \in Ancestors(size)
    <3>1. Within(e, p, size)
      BY <1>2, <1>3, <2>3, WholeRemains, AncestorsAreWithin DEF Ancestors
    <3>2. p < size /\ size <= e[p] /\ e[p] <= size
      BY <1>2, <1>3, <3>1, OwnersAreNumbers DEF Numbered, Within
    <3> QED  BY <1>3, <3>2, OwnersAreNumbers
  <2> QED  BY <2>1, <2>2, <2>3 DEF Build
<1>5. children' = [children EXCEPT ![p] = Append(@, size + 1)]
  BY DEF Build
<1>6. \E d : Numbered(children', size', d)
  BY <1>1, <1>2, <1>4, <1>5, NumberedGrows
<1>7. children' \in [Owners -> Seq(Nodes)]
  BY <1>6 DEF Numbered
<1> QED  BY <1>1, <1>6, <1>7 DEF Base, Build

LEMMA StartBase ==
    ASSUME Base, NEW w \in Walks, Start(w)
    PROVE  /\ Base' /\ ~Started /\ Started'
           /\ Undisturbed' /\ yielded' = <<>> /\ removed' = {}
           /\ Pruned(children, children, {})
           /\ w.node \in Nodes
<1>1. /\ ~Started /\ Started' /\ origin' = children /\ walk' = w /\ w.node <= size
      /\ children' = children
      /\ size' = size /\ removed' = removed /\ yielded' = yielded
  BY DEF Start, Started, tree
<1>2. yielded = <<>> /\ removed = {} /\ children \in [Owners -> Seq(Nodes)]
  BY <1>1 DEF Base
<1>3. Detached' = {}
  BY <1>1, <1>2 DEF Detached
<1>4. PICK e : Numbered(children, size, e)
  BY <1>1 DEF Base
<1>5. \A p \in Owners : \A i, j \in DOMAIN children[p] : i < j => children[p][i] < children[p][j]
  <2> SUFFICES ASSUME NEW p \in Owners, NEW i \in DOMAIN children[p],
                      NEW j \in DOMAIN children[p], i < j
               PROVE  children[p][i] < children[p][j]
    OBVIOUS
  <2> DEFINE a == children[p][i]
             b == children[p][j]
  <2>1. e[a] < b
    BY <1>4, ChildrenAscend
  <2>2. a \in Owners /\ b \in Owners /\ a <= e[a] /\ e[a] \in Owners
    <3>1. a \in Owners /\ b \in Owners
      BY <1>4, ChildWithin
    <3> HIDE DEF a, b
    <3> QED  BY <1>4, <3>1 DEF Numbered
  <2> HIDE DEF a, b
  <2>3. a < b
    BY <2>1, <2>2, OwnersAreNumbers
  <2> QED  BY <2>3 DEF a, b
<1>6. Pruned(children, children, {})
  BY <1>2, <1>5 DEF Pruned, Remainder
<1>7. Base'
  BY <1>1, <1>2, <1>3, <1>4, <1>6 DEF Base
<1>8. w.node \in Nodes
  BY DEF Walks
<1> QED  BY <1>1, <1>2, <1>6, <1>7, <1>8 DEF Undisturbed

\* What was missing stays missing.
LEMMA MissingStays ==
    ASSUME Base, Started, walk' = walk,
           \/ Proceeds /\ removed' = removed
           \/ yielded' = yielded /\ \E r : removed' = removed \cup {r}
    PROVE  Undisturbed' => Undisturbed
<1> SUFFICES ASSUME Undisturbed' PROVE Undisturbed
  OBVIOUS
<1>1. PICK S : yielded \in Seq(S)
  BY DEF Base
<1>2. CASE removed' = {}
  BY <1>2 DEF Undisturbed
<1>3. CASE removed' # {}
  <2>1. OnlyResultsRemoved' /\ IsRobust(walk)
    BY <1>3 DEF Undisturbed, IsRobust
  <2>2. ASSUME NEW r \in removed PROVE \E i \in 1 .. r[2] : yielded[i] = r[1]
    <3>1. PICK i \in 1 .. r[2] : yielded'[i] = r[1]
      BY <2>1 DEF OnlyResultsRemoved
    <3>2. r[2] \in Nat /\ r[2] <= Len(yielded)
      BY DEF Base
    <3>3. i \in 1 .. Len(yielded)
      BY <1>1, <3>2
    <3>4. yielded'[i] = yielded[i]
      <4>1. CASE yielded' = yielded
        BY <4>1
      <4>2. ASSUME NEW n, yielded' = Append(yielded, n) PROVE yielded'[i] = yielded[i]
        <5>1. yielded \in Seq(S \cup {n}) /\ n \in S \cup {n}
          BY <1>1
        <5> DEFINE U == S \cup {n}
        <5> HIDE DEF U
        <5>2. Append(yielded, n)[i] = yielded[i]
          BY <3>3, <5>1, AppendProperties DEF U
        <5> QED  BY <4>2, <5>2
      <4> QED  BY <4>1, <4>2 DEF Proceeds
    <3> QED  BY <3>1, <3>4
  <2>3. OnlyResultsRemoved
    BY <2>2 DEF OnlyResultsRemoved
  <2> QED  BY <2>1, <2>3 DEF Undisturbed
<1> QED  BY <1>2, <1>3

\* the steps of a walk that was started
Walking ==
    \/ Run \/ Resume \/ (\E n \in Nodes : Detach(n)) \/ UNCHANGED vars

LEMMA WalkingBase ==
    ASSUME Base, Started, Walking
    PROVE  /\ Base' /\ Started'
           /\ Undisturbed' => Undisturbed
           /\ walk' = walk /\ origin' = origin /\ size' = size
<1>1. CASE Run
  <2>1. /\ UNCHANGED <<walk, origin, size, children, removed>>
        /\ Proceeds
    BY <1>1, RunProceeds DEF Run, tree
  <2>2. Started'
    BY <2>1 DEF Proceeds, Started
  <2>3. PICK S : yielded \in Seq(S)
    BY DEF Base
  <2>4. /\ \E T : yielded' \in Seq(T)
        /\ Len(yielded) <= Len(yielded') /\ Len(yielded) \in Nat /\ Len(yielded') \in Nat
    <3>1. CASE yielded' = yielded
      BY <2>3, <3>1
    <3>2. ASSUME NEW n, yielded' = Append(yielded, n)
          PROVE  /\ \E T : yielded' \in Seq(T)
                 /\ Len(yielded) <= Len(yielded') /\ Len(yielded) \in Nat /\ Len(yielded') \in Nat
      <4> DEFINE T == S \cup {n}
      <4>1. yielded \in Seq(T) /\ n \in T
        BY <2>3
      <4> HIDE DEF T
      <4>2. Append(yielded, n) \in Seq(T) /\ Len(Append(yielded, n)) = Len(yielded) + 1
        BY <4>1, AppendProperties
      <4> QED  BY <3>2, <4>1, <4>2
    <3> QED  BY <2>1, <3>1, <3>2 DEF Proceeds
  <2>5. \A r \in removed' : r[2] \in Nat /\ r[2] <= Len(yielded')
    BY <2>1, <2>4 DEF Base
  <2>6. Detached' = Detached
    BY <2>1 DEF Detached
  <2>7. Base'
    BY <2>1, <2>2, <2>4, <2>5, <2>6 DEF Base
  <2> QED  BY <2>1, <2>2, <2>7, MissingStays
<1>2. CASE Resume
  <2>1. /\ UNCHANGED <<walk, origin, size, children, removed, yielded, frames>>
        /\ status' # "building"
    BY <1>2 DEF Resume, tree
  <2>2. Started'
    BY <2>1 DEF Started
  <2>3. Base'
    BY <2>1, <2>2 DEF Base, Detached
  <2> QED  BY <2>1, <2>2, <2>3 DEF Undisturbed, OnlyResultsRemoved
<1>3. ASSUME NEW n \in Nodes, Detach(n)
      PROVE  /\ Base' /\ Started' /\ (Undisturbed' => Undisturbed)
             /\ walk' = walk /\ origin' = origin /\ size' = size
  <2>1. /\ UNCHANGED <<walk, origin, size, yielded, frames, status>>
        /\ removed' = removed \cup {<<n, Len(yielded)>>}
    BY <1>3 DEF Detach
  <2>2. Started'
    BY <2>1 DEF Started
  <2>3. Pruned(children', origin, Detached')
    BY <1>3, DetachPrunes
  <2>4. Len(yielded) \in Nat
    <3>1. PICK S : yielded \in Seq(S)
      BY DEF Base
    <3> QED  BY <3>1
  <2>5. \A r \in removed' : r[2] \in Nat /\ r[2] <= Len(yielded')
    BY <2>1, <2>4 DEF Base
  <2>6. Base'
    BY <2>1, <2>2, <2>3, <2>5 DEF Base
  <2> QED  BY <2>1, <2>2, <2>6, MissingStays
<1>4. CASE UNCHANGED vars
  BY <1>4 DEF vars, Base, Started, Detached, Undisturbed, OnlyResultsRemoved
<1> QED  BY <1>1, <1>2, <1>3, <1>4 DEF Walking

-----------------------------------------------------------------------------
(* Axes *)

LEMMA AxisFacts ==
    ASSUME Base, Started, NEW e, Numbered(origin, size, e), NEW w \in Walks, w.node <= size, NEW m
    PROVE  /\ m \in AxisNodes(w) => m \in Nodes
           /\ w.axis = "ancestors" => (m \in AxisNodes(w) <=> m \in Nodes /\ Within(e, m, w.node))
           /\ w.axis = "children" => (m \in AxisNodes(w) <=> m \in Elems(origin[w.node]))
           /\ w.axis = "following siblings" =>
                (m \in AxisNodes(w) <=>
                    \E p \in Owners : /\ m \in Elems(origin[p]) /\ w.node \in Elems(origin[p])
                                      /\ m > w.node)
           /\ w.axis = "preceding siblings" =>
                (m \in AxisNodes(w) <=>
                    \E p \in Owners : /\ m \in Elems(origin[p]) /\ w.node \in Elems(origin[p])
                                      /\ m < w.node)
           /\ w.axis = "descendants" => (m \in AxisNodes(w) <=> m \in Nodes /\ Within(e, w.node, m))
           /\ w.axis = "following" =>
                (m \in AxisNodes(w) <=>
                    m \in Nodes /\ w.node < m /\ m <= size /\ (w.wide \/ ~Within(e, w.node, m)))
           /\ w.axis = "preceding" =>
                (m \in AxisNodes(w) <=>
                    m \in Nodes /\ m < w.node /\ (w.wide \/ ~Within(e, m, w.node)))
           /\ w.axis \in {"reversed descendants", "bottom up", "breadth first"} =>
                (m \in AxisNodes(w) <=> m \in Nodes /\ (m = w.node \/ Within(e, w.node, m)))
<1> DEFINE n == w.node
<1>1. n \in Nodes /\ n \in Owners /\ w.wide \in BOOLEAN
      /\ w.axis \in {"ancestors", "children", "following siblings", "preceding siblings",
                     "descendants", "reversed descendants", "bottom up", "breadth first",
                     "following", "preceding"}
  BY OwnersAreNumbers DEF Walks
<1>2. \A k \in Owners : \A a : a \in AncestorsIn(origin, k) <=> a \in Nodes /\ Within(e, a, k)
  BY AncestorsAndSubtrees
<1>3. m \in Descendants(n) <=> m \in Nodes /\ Within(e, n, m)
  BY <1>1, <1>2, OwnersAreNumbers DEF Descendants
<1>4. \A p \in Owners : \A c \in Elems(origin[p]) : c \in Nodes /\ c \in Owners
  BY MemberWithin
<1>5. m \in Siblings(n) <=> \E p \in Owners : m \in Elems(origin[p]) /\ n \in Elems(origin[p])
  <2>1. ASSUME m \in Siblings(n)
        PROVE  \E p \in Owners : m \in Elems(origin[p]) /\ n \in Elems(origin[p])
    <3> DEFINE p == ParentIn(origin, m)
    <3>1. m \in Owners /\ p # NIL /\ ParentIn(origin, n) = p
      BY <2>1, OwnersAreNumbers DEF Siblings
    <3>2. p \in Owners /\ m \in Elems(origin[p])
      BY <3>1, WholeRemains, ParentInRemainder
    <3>3. n \in Elems(origin[p])
      BY <1>1, <3>1, WholeRemains, ParentInRemainder
    <3> QED  BY <3>2, <3>3
  <2>2. ASSUME NEW p \in Owners, m \in Elems(origin[p]), n \in Elems(origin[p])
        PROVE  m \in Siblings(n)
    <3>1. m \in Nodes /\ m \in Owners
      BY <1>4, <2>2
    <3>2. ParentIn(origin, m) = p /\ ParentIn(origin, n) = p
      BY <1>1, <2>2, <3>1, WholeRemains, ParentInRemainder
    <3>3. p # NIL
      BY NilIsNoNode, OwnersAreNumbers
    <3> QED  BY <3>1, <3>2, <3>3 DEF Siblings
  <2> QED  BY <2>1, <2>2
<1>6. size \in Nodes
  BY DEF Numbered
<1> HIDE DEF n
<1>7. w.node = n
  BY DEF n
<1>8. CASE w.axis = "ancestors"
  <2>1. AxisNodes(w) = AncestorsIn(origin, n)
    BY <1>7, <1>8 DEF AxisNodes
  <2> QED  BY <1>1, <1>2, <1>7, <1>8, <2>1
<1>9. CASE w.axis = "children"
  <2>1. AxisNodes(w) = Elems(origin[n])
    BY <1>7, <1>9 DEF AxisNodes
  <2> QED  BY <1>1, <1>4, <1>7, <1>9, <2>1
<1>10. CASE w.axis = "following siblings"
  <2>1. AxisNodes(w) = {k \in Siblings(n) : k > n}
    BY <1>7, <1>10 DEF AxisNodes
  <2> QED  BY <1>1, <1>4, <1>5, <1>7, <1>10, <2>1
<1>11. CASE w.axis = "preceding siblings"
  <2>1. AxisNodes(w) = {k \in Siblings(n) : k < n}
    BY <1>7, <1>11 DEF AxisNodes
  <2> QED  BY <1>1, <1>4, <1>5, <1>7, <1>11, <2>1
<1>12. CASE w.axis = "descendants"
  <2>1. AxisNodes(w) = Descendants(n)
    BY <1>7, <1>12 DEF AxisNodes
  <2> QED  BY <1>1, <1>3, <1>7, <1>12, <2>1
<1>13. CASE w.axis = "following"
  <2>1. AxisNodes(w) = (n + 1 .. size) \ (IF w.wide THEN {} ELSE Descendants(n))
    BY <1>7, <1>13 DEF AxisNodes
  <2>2. m \in n + 1 .. size <=> m \in Nodes /\ n < m /\ m <= size
    <3>1. n \in Nat /\ 1 <= n /\ size \in Nat /\ size <= N
      BY <1>1, <1>6, OwnersAreNumbers
    <3> QED  BY <3>1, OwnersAreNumbers DEF Nodes
  <2> QED  BY <1>1, <1>3, <1>7, <1>13, <2>1, <2>2
<1>14. CASE w.axis = "preceding"
  <2>1. AxisNodes(w) = (1 .. n - 1) \ (IF w.wide THEN {} ELSE AncestorsIn(origin, n))
    BY <1>7, <1>14 DEF AxisNodes
  <2>2. m \in 1 .. n - 1 <=> m \in Nodes /\ m < n
    <3>1. n \in Nat /\ n <= N
      BY <1>1, OwnersAreNumbers
    <3> QED  BY <3>1, OwnersAreNumbers DEF Nodes
  <2> QED  BY <1>1, <1>2, <1>7, <1>14, <2>1, <2>2
<1>15. CASE w.axis \in {"reversed descendants", "bottom up", "breadth first"}
  <2>1. AxisNodes(w) = Descendants(n) \cup {n}
    BY <1>7, <1>15 DEF AxisNodes
  <2> QED  BY <1>1, <1>3, <1>7, <1>15, <2>1
<1> QED  BY <1>1, <1>8, <1>9, <1>10, <1>11, <1>12, <1>13, <1>14, <1>15

LEMMA AxisStays ==
    ASSUME origin' = origin, size' = size, walk' = walk
    PROVE  /\ AxisNodes(walk)' = AxisNodes(walk)
           /\ \A a, m, n : Precedes(a, m, n)' <=> Precedes(a, m, n)
<1>1. \A n : Descendants(n)' = Descendants(n)
  BY DEF Descendants
<1>2. \A n : Siblings(n)' = Siblings(n)
  BY DEF Siblings
<1>3. AxisNodes(walk)' = AxisNodes(walk)
  BY <1>1, <1>2 DEF AxisNodes
<1>4. \A m, n : AfterDescendants(m, n)' <=> AfterDescendants(m, n)
  BY DEF AfterDescendants
<1>5. \A m, n : Higher(m, n)' <=> Higher(m, n)
  BY DEF Higher, Depth
<1>6. \A a, m, n : Precedes(a, m, n)' <=> Precedes(a, m, n)
  BY <1>4, <1>5 DEF Precedes
<1> QED  BY <1>3, <1>6

-----------------------------------------------------------------------------
(* Progress of walks that go up or down the nodes' numbers *)

Keeps ==
    /\ walk' = walk /\ origin' = origin /\ size' = size
    /\ Undisturbed' => Undisturbed

LEMMA ResultAdded ==
    ASSUME Base, Keeps, NEW c, yielded' = Append(yielded, c)
    PROVE  /\ Elems(yielded') = Elems(yielded) \cup {c}
           /\ /\ InOrder /\ c \in AxisNodes(walk)
              /\ \A m \in Elems(yielded) : Precedes(walk.axis, m, c)
              => InOrder'
<1>1. PICK S : yielded \in Seq(S)
  BY DEF Base
<1> DEFINE T == S \cup {c}
           l == Len(yielded)
<1>2. yielded \in Seq(T) /\ c \in T
  BY <1>1
<1> HIDE DEF T
<1>3. l \in Nat /\ DOMAIN yielded = 1 .. l
  BY <1>1
<1>4. Len(yielded') = l + 1 /\ DOMAIN yielded' = 1 .. l + 1
  <2>1. yielded' \in Seq(T) /\ Len(yielded') = l + 1
    BY <1>2, AppendProperties
  <2> QED  BY <2>1
<1>5. yielded'[l + 1] = c /\ \A k \in 1 .. l : yielded'[k] = yielded[k]
  BY <1>2, AppendProperties
<1> HIDE DEF l
<1>6. Elems(yielded') = Elems(yielded) \cup {c}
  <2>1. ASSUME NEW x \in Elems(yielded') PROVE x \in Elems(yielded) \cup {c}
    <3>1. PICK k \in 1 .. l + 1 : yielded'[k] = x
      BY <1>4, <2>1 DEF Elems
    <3>2. k \in 1 .. l \/ k = l + 1
      BY <1>3, <3>1
    <3> QED  BY <1>3, <1>5, <3>1, <3>2 DEF Elems
  <2>2. c \in Elems(yielded')
    <3>1. l + 1 \in 1 .. l + 1
      BY <1>3
    <3> QED  BY <1>4, <1>5, <3>1 DEF Elems
  <2>3. ASSUME NEW x \in Elems(yielded) PROVE x \in Elems(yielded')
    <3>1. PICK k \in 1 .. l : yielded[k] = x
      BY <1>3, <2>3 DEF Elems
    <3>2. k \in 1 .. l + 1
      BY <1>3, <3>1
    <3> QED  BY <1>4, <1>5, <3>1, <3>2 DEF Elems
  <2> QED  BY <2>1, <2>2, <2>3
<1>7. ASSUME InOrder, c \in AxisNodes(walk),
             \A m \in Elems(yielded) : Precedes(walk.axis, m, c)
      PROVE  InOrder'
  <2>1. /\ AxisNodes(walk)' = AxisNodes(walk) /\ walk' = walk
        /\ \A a, m, n : Precedes(a, m, n)' <=> Precedes(a, m, n)
    BY AxisStays DEF Keeps
  <2>2. Elems(yielded)' \subseteq AxisNodes(walk)'
    BY <1>6, <1>7, <2>1 DEF InOrder
  <2>3. ASSUME NEW i \in DOMAIN yielded', NEW j \in DOMAIN yielded', i < j
        PROVE  Precedes(walk.axis, yielded'[i], yielded'[j])
    <3>1. i \in 1 .. l
      BY <1>3, <1>4, <2>3
    <3>2. CASE j \in 1 .. l
      BY <1>3, <1>5, <1>7, <2>3, <3>1, <3>2 DEF InOrder
    <3>3. CASE j \notin 1 .. l
      <4>1. j = l + 1
        BY <1>3, <1>4, <3>3
      <4>2. yielded'[i] \in Elems(yielded)
        BY <1>3, <1>5, <3>1 DEF Elems
      <4> QED  BY <1>5, <1>7, <4>1, <4>2
    <3> QED  BY <3>2, <3>3
  <2>4. \A i, j \in DOMAIN yielded' : i < j => Precedes(walk.axis, yielded[i], yielded[j])'
    BY <2>1, <2>3
  <2> QED  BY <2>1, <2>2, <2>4 DEF InOrder
<1> QED  BY <1>6, <1>7

LEMMA OrderStays ==
    ASSUME Keeps, yielded' = yielded
    PROVE  /\ InOrder => InOrder'
           /\ Exhausted => Exhausted'
<1>1. /\ AxisNodes(walk)' = AxisNodes(walk) /\ walk' = walk
      /\ \A a, m, n : Precedes(a, m, n)' <=> Precedes(a, m, n)
  BY AxisStays DEF Keeps
<1> QED  BY <1>1 DEF InOrder, Exhausted

\* What is promised of the walk's order
Claimed == walk.axis \in Forward \/ Undisturbed

\* Of the axis, the nodes up to y were yielded, in their order.
UpTo(y) ==
    /\ y \in Nat
    /\ Claimed => InOrder /\ \A m \in Elems(yielded) : m <= y
    /\ Undisturbed => \A m \in AxisNodes(walk) : m <= y => m \in Elems(yielded)

DownTo(y) ==
    /\ y \in Nat
    /\ Claimed => InOrder /\ \A m \in Elems(yielded) : y <= m
    /\ Undisturbed => \A m \in AxisNodes(walk) : y <= m => m \in Elems(yielded)

Rising == {"children", "following siblings", "descendants", "following"}
Falling == {"ancestors", "preceding siblings", "preceding", "reversed descendants"}

LEMMA AxisIsTyped ==
    ASSUME Base, Started
    PROVE  AxisNodes(walk) \subseteq Nodes /\ \A m \in AxisNodes(walk) : m \in Nat
<1>1. PICK e : Numbered(origin, size, e)
  BY DEF Base
<1>2. walk \in Walks /\ walk.node <= size
  BY DEF Base
<1> QED  BY <1>1, <1>2, AxisFacts, OwnersAreNumbers

LEMMA ProgressStays ==
    ASSUME Keeps, yielded' = yielded, NEW y
    PROVE  /\ UpTo(y) => UpTo(y)'
           /\ DownTo(y) => DownTo(y)'
<1>1. AxisNodes(walk)' = AxisNodes(walk)
  BY AxisStays DEF Keeps
<1>2. Claimed' => Claimed
  BY DEF Claimed, Keeps
<1>3. Undisturbed' => Undisturbed
  BY DEF Keeps
<1> QED  BY <1>1, <1>2, <1>3, OrderStays DEF UpTo, DownTo

LEMMA YieldsUp ==
    ASSUME Base, Started, Keeps, NEW y, UpTo(y), NEW c, yielded' = Append(yielded, c),
           walk.axis \in Rising, c \in AxisNodes(walk), y < c,
           Undisturbed => \A m \in AxisNodes(walk) : m < c => m <= y
    PROVE  UpTo(c)'
<1>1. AxisNodes(walk)' = AxisNodes(walk)
  BY AxisStays DEF Keeps
<1>2. Claimed' => Claimed
  BY DEF Claimed, Keeps
<1>3. Undisturbed' => Undisturbed
  BY DEF Keeps
<1>4. \A m \in AxisNodes(walk) : m \in Nat
  BY AxisIsTyped
<1>5. y \in Nat /\ c \in Nat
  BY <1>4 DEF UpTo
<1>6. Elems(yielded') = Elems(yielded) \cup {c}
  BY ResultAdded
<1>7. ASSUME Claimed'
      PROVE  InOrder' /\ \A m \in Elems(yielded') : m <= c
  <2>1. InOrder /\ \A m \in Elems(yielded) : m \in AxisNodes(walk) /\ m <= y
    BY <1>2, <1>7 DEF UpTo, InOrder
  <2>2. ASSUME NEW m \in Elems(yielded) PROVE m < c /\ m \in Nat
    <3>1. m \in Nat /\ m <= y
      BY <1>4, <2>1
    <3> QED  BY <1>5, <3>1
  <2>3. \A m \in Elems(yielded) : Precedes(walk.axis, m, c)
    BY <2>2 DEF Precedes, Rising
  <2>4. InOrder'
    BY <2>1, <2>3, ResultAdded
  <2>5. \A m \in Elems(yielded') : m <= c
    BY <1>5, <1>6, <2>2
  <2> QED  BY <2>4, <2>5
<1>8. ASSUME Undisturbed', NEW m \in AxisNodes(walk), m <= c
      PROVE  m \in Elems(yielded')
  <2>1. CASE m = c
    BY <1>6, <2>1
  <2>2. CASE m # c
    <3>1. m < c
      BY <1>4, <1>5, <1>8, <2>2
    <3> QED  BY <1>3, <1>6, <1>8, <3>1 DEF UpTo
  <2> QED  BY <2>1, <2>2
<1> QED  BY <1>1, <1>5, <1>7, <1>8 DEF UpTo

LEMMA YieldsDown ==
    ASSUME Base, Started, Keeps, NEW y, DownTo(y), NEW c, yielded' = Append(yielded, c),
           walk.axis \in Falling, c \in AxisNodes(walk), c < y,
           Undisturbed => \A m \in AxisNodes(walk) : c < m => y <= m
    PROVE  DownTo(c)'
<1>1. AxisNodes(walk)' = AxisNodes(walk)
  BY AxisStays DEF Keeps
<1>2. Claimed' => Claimed
  BY DEF Claimed, Keeps
<1>3. Undisturbed' => Undisturbed
  BY DEF Keeps
<1>4. \A m \in AxisNodes(walk) : m \in Nat
  BY AxisIsTyped
<1>5. y \in Nat /\ c \in Nat
  BY <1>4 DEF DownTo
<1>6. Elems(yielded') = Elems(yielded) \cup {c}
  BY ResultAdded
<1>7. ASSUME Claimed'
      PROVE  InOrder' /\ \A m \in Elems(yielded') : c <= m
  <2>1. InOrder /\ \A m \in Elems(yielded) : m \in AxisNodes(walk) /\ y <= m
    BY <1>2, <1>7 DEF DownTo, InOrder
  <2>2. ASSUME NEW m \in Elems(yielded) PROVE c < m /\ m \in Nat
    <3>1. m \in Nat /\ y <= m
      BY <1>4, <2>1
    <3> QED  BY <1>5, <3>1
  <2>3. \A m \in Elems(yielded) : Precedes(walk.axis, m, c)
    BY <1>4, <1>5, <2>1, <2>2 DEF Precedes, Falling
  <2>4. InOrder'
    BY <2>1, <2>3, ResultAdded
  <2>5. \A m \in Elems(yielded') : c <= m
    BY <1>5, <1>6, <2>2
  <2> QED  BY <2>4, <2>5
<1>8. ASSUME Undisturbed', NEW m \in AxisNodes(walk), c <= m
      PROVE  m \in Elems(yielded')
  <2>1. CASE m = c
    BY <1>6, <2>1
  <2>2. CASE m # c
    <3>1. c < m
      BY <1>4, <1>5, <1>8, <2>2
    <3> QED  BY <1>3, <1>6, <1>8, <3>1 DEF DownTo
  <2> QED  BY <2>1, <2>2
<1> QED  BY <1>1, <1>5, <1>7, <1>8 DEF DownTo

-----------------------------------------------------------------------------
(* Stacks *)

IsSeq(s) == \E S : s \in Seq(S)

LEMMA Pushed ==
    ASSUME NEW s, IsSeq(s), NEW x
    PROVE  /\ IsSeq(Append(s, x)) /\ Append(s, x) # <<>>
           /\ Last(Append(s, x)) = x
           /\ Front(Append(s, x)) = s
           /\ s \o <<x>> = Append(s, x)
           /\ Len(s) \in Nat /\ DOMAIN s = 1 .. Len(s)
           /\ Len(Append(s, x)) = Len(s) + 1
           /\ DOMAIN Append(s, x) = 1 .. Len(s) + 1
           /\ Append(s, x)[Len(s) + 1] = x
           /\ \A k \in DOMAIN s : Append(s, x)[k] = s[k]
<1>1. PICK S : s \in Seq(S)
  BY DEF IsSeq
<1> DEFINE T == S \cup {x}
<1>2. s \in Seq(T) /\ x \in T
  BY <1>1
<1> HIDE DEF T
<1>3. /\ Append(s, x) \in Seq(T) /\ Append(s, x) # <<>>
      /\ Len(Append(s, x)) = Len(s) + 1 /\ Append(s, x)[Len(s) + 1] = x
      /\ \A k \in 1 .. Len(s) : Append(s, x)[k] = s[k]
  BY <1>2, AppendProperties
<1>4. Len(s) \in Nat /\ DOMAIN s = 1 .. Len(s) /\ DOMAIN Append(s, x) = 1 .. Len(s) + 1
  BY <1>2, <1>3
<1>5. Last(Append(s, x)) = x
  BY <1>3 DEF Last
<1>6. Front(Append(s, x)) = s
  <2> DEFINE a == Append(s, x)
             b == SubSeq(a, 1, Len(s))
  <2>1. (Len(s) + 1) - 1 = Len(s)
    BY <1>4
  <2>2. Front(a) = b
    BY <1>3, <2>1 DEF Front
  <2>3. \A k \in 1 .. Len(s) : a[k] \in T
    BY <1>2, <1>3
  <2> HIDE DEF a
  <2>4. b \in Seq(T) /\ Len(b) = Len(s) /\ \A k \in 1 .. Len(s) : b[k] = a[k]
    BY <1>4, <2>3
  <2> HIDE DEF b
  <2>5. \A k \in 1 .. Len(s) : b[k] = s[k]
    BY <1>3, <2>4 DEF a
  <2>6. b = s
    BY <1>2, <2>4, <2>5
  <2> QED  BY <2>2, <2>6 DEF a
<1>7. s \o <<x>> = Append(s, x)
  BY <1>2, AppendIsConcat
<1> QED  BY <1>3, <1>4, <1>5, <1>6, <1>7 DEF IsSeq

LEMMA PushedTwice ==
    ASSUME NEW s, IsSeq(s), NEW x, NEW y
    PROVE  s \o <<x, y>> = Append(Append(s, x), y)
<1>1. PICK S : s \in Seq(S)
  BY DEF IsSeq
<1> DEFINE T == S \cup {x, y}
<1>2. s \in Seq(T) /\ x \in T /\ y \in T
  BY <1>1
<1> HIDE DEF T
<1>3. s \o <<x>> = Append(s, x) /\ Append(s, x) \in Seq(T) /\ <<x>> \in Seq(T) /\ <<y>> \in Seq(T)
  BY <1>2, AppendIsConcat, AppendProperties
<1>4. Append(s, x) \o <<y>> = Append(Append(s, x), y)
  BY <1>2, <1>3, AppendIsConcat
<1>5. <<x>> \o <<y>> = <<x, y>>
  <2>1. <<x, y>> = Append(<<x>>, y)
    OBVIOUS
  <2> QED  BY <1>2, <1>3, <2>1, AppendIsConcat
<1>6. (s \o <<x>>) \o <<y>> = s \o (<<x>> \o <<y>>)
  BY <1>2, <1>3, ConcatAssociative
<1> QED  BY <1>3, <1>4, <1>5, <1>6

LEMMA Popping ==
    ASSUME NEW s, IsSeq(s), s # <<>>
    PROVE  s = Append(Front(s), Last(s)) /\ IsSeq(Front(s))
<1>1. PICK S : s \in Seq(S)
  BY DEF IsSeq
<1> DEFINE a == Front(s)
           x == Last(s)
<1>2. Len(s) \in Nat /\ Len(s) >= 1
  BY <1>1
<1>3. x \in S /\ x = s[Len(s)]
  BY <1>1, <1>2 DEF Last
<1>4. a \in Seq(S) /\ Len(a) = Len(s) - 1 /\ \A k \in 1 .. Len(s) - 1 : a[k] = s[k]
  <2>1. \A k \in 1 .. Len(s) - 1 : s[k] \in S
    BY <1>1, <1>2
  <2>2. 1 \in Int /\ Len(s) - 1 \in Int
    BY <1>2
  <2> DEFINE l == Len(s) - 1
             b == SubSeq(s, 1, l)
  <2> HIDE DEF l
  <2>3. b \in Seq(S) /\ Len(b) = (IF 1 <= l THEN l - 1 + 1 ELSE 0)
        /\ \A k \in 1 .. l - 1 + 1 : b[k] = s[1 + k - 1]
    BY <2>1, <2>2, SubSeqProperties DEF l
  <2> HIDE DEF b
  <2>4. l \in Nat /\ l = Len(s) - 1
    BY <1>2 DEF l
  <2>5. Len(b) = l
    BY <2>3, <2>4
  <2>6. ASSUME NEW k \in 1 .. l PROVE b[k] = s[k]
    <3>1. k \in 1 .. l - 1 + 1 /\ 1 + k - 1 = k
      BY <2>4
    <3> QED  BY <2>3, <3>1
  <2> QED  BY <2>3, <2>4, <2>5, <2>6 DEF Front, b
<1> HIDE DEF a, x
<1>5. Append(a, x) \in Seq(S) /\ Len(Append(a, x)) = Len(s)
      /\ \A k \in 1 .. Len(s) : Append(a, x)[k] = s[k]
  <2>1. /\ Append(a, x) \in Seq(S) /\ Len(Append(a, x)) = Len(a) + 1
        /\ Append(a, x)[Len(a) + 1] = x
        /\ \A k \in 1 .. Len(a) : Append(a, x)[k] = a[k]
    BY <1>3, <1>4, AppendProperties
  <2>2. Len(a) + 1 = Len(s)
    BY <1>2, <1>4
  <2>3. ASSUME NEW k \in 1 .. Len(s) PROVE Append(a, x)[k] = s[k]
    <3>1. k \in 1 .. Len(a) \/ k = Len(a) + 1
      BY <1>2, <1>4
    <3> QED  BY <1>3, <1>4, <2>1, <2>2, <3>1
  <2> QED  BY <2>1, <2>2, <2>3
<1>6. s = Append(a, x)
  BY <1>1, <1>5
<1> QED  BY <1>4, <1>6 DEF a, x, IsSeq

\* What becomes of the frames when the topmost one, fr, makes a step
LEMMA TopFrame ==
    ASSUME NEW G, IsSeq(G), NEW fr, frames = Append(G, fr)
    PROVE  /\ f = fr
           /\ frames # <<>>
           /\ Inner(<<>>) = G
           /\ \A x : Inner(<<x>>) = Append(G, x) /\ Append(G, x) # <<>> /\ IsSeq(Append(G, x))
           /\ \A x, y : Inner(<<x, y>>) = Append(Append(G, x), y)
                        /\ Append(Append(G, x), y) # <<>>
<1>1. f = fr /\ frames # <<>> /\ Front(frames) = G
  BY Pushed DEF f
<1>2. G \o <<>> = G
  BY ConcatEmptySeq DEF IsSeq
<1>3. \A x : G \o <<x>> = Append(G, x) /\ Append(G, x) # <<>> /\ IsSeq(Append(G, x))
  BY Pushed
<1>4. \A x, y : G \o <<x, y>> = Append(Append(G, x), y) /\ Append(Append(G, x), y) # <<>>
  BY <1>3, Pushed, PushedTwice
<1> QED  BY <1>1, <1>2, <1>3, <1>4 DEF Inner

LEMMA OneFrame ==
    ASSUME NEW x
    PROVE  /\ <<x>> = Append(<<>>, x) /\ IsSeq(<<>>) /\ IsSeq(<<x>>)
           /\ \A y : <<x, y>> = Append(<<x>>, y) /\ IsSeq(<<x, y>>)
           /\ \A y, z : <<x, y, z>> = Append(<<x, y>>, z)
<1>1. <<x>> \in Seq({x}) /\ <<>> \in Seq({x}) /\ <<x>> = Append(<<>>, x)
  OBVIOUS
<1>2. \A y : <<x, y>> \in Seq({x, y}) /\ <<x, y>> = Append(<<x>>, y)
  OBVIOUS
<1>3. \A y, z : <<x, y, z>> = Append(<<x, y>>, z)
  OBVIOUS
<1> QED  BY <1>1, <1>2, <1>3 DEF IsSeq

-----------------------------------------------------------------------------
(* Up to where a node's list was walked *)

Done(L, e, o, p) == IF p = 0 THEN o ELSE e[L[o][p]]

LEMMA DoneNext ==
    ASSUME NEW L, NEW z, NEW e, Numbered(L, z, e), NEW o \in Owners, NEW p \in Nat,
           p + 1 \in DOMAIN L[o]
    PROVE  L[o][p + 1] = Done(L, e, o, p) + 1
<1>1. L[o] \in Seq(Nodes)
  BY DEF Numbered
<1> DEFINE l == Len(L[o])
<1>2. DOMAIN L[o] = 1 .. l /\ l \in Nat
  BY <1>1
<1>3. CASE p = 0
  <2>1. L[o] # <<>>
    BY <1>1, <1>2
  <2> QED  BY <1>3, <2>1 DEF Numbered, Done
<1>4. CASE p # 0
  <2>1. p \in 1 .. l - 1
    BY <1>2, <1>4
  <2> QED  BY <1>4, <2>1 DEF Numbered, Done
<1> QED  BY <1>3, <1>4

LEMMA DoneAll ==
    ASSUME NEW L, NEW z, NEW e, Numbered(L, z, e), NEW o \in Owners
    PROVE  Done(L, e, o, Len(L[o])) = e[o]
<1>1. L[o] \in Seq(Nodes)
  BY DEF Numbered
<1>2. CASE L[o] = <<>>
  BY <1>2 DEF Numbered, Done
<1>3. CASE L[o] # <<>>
  <2>1. Len(L[o]) # 0
    BY <1>1, <1>3
  <2> QED  BY <1>3, <2>1 DEF Numbered, Done
<1> QED  BY <1>2, <1>3

LEMMA SiblingsApart ==
    ASSUME NEW L, NEW z, NEW e, Numbered(L, z, e), NEW p \in Owners,
           NEW b \in Elems(L[p]), NEW c \in Elems(L[p]), b < c
    PROVE  e[b] < c
<1>1. PICK i \in DOMAIN L[p] : L[p][i] = b
  BY DEF Elems
<1>2. PICK j \in DOMAIN L[p] : L[p][j] = c
  BY DEF Elems
<1>3. L[p] \in Seq(Nodes)
  BY DEF Numbered
<1>4. i \in Nat /\ j \in Nat
  BY <1>3
<1>5. b \in Owners /\ c \in Owners /\ c <= e[c] /\ e[c] \in Owners
  <2>1. b \in Owners /\ c \in Owners
    BY MemberWithin
  <2> QED  BY <2>1 DEF Numbered
<1>6. ~(j < i)
  <2>1. j < i => e[c] < b
    BY <1>1, <1>2, ChildrenAscend
  <2> QED  BY <1>5, <2>1, OwnersAreNumbers
<1>7. i # j
  BY <1>1, <1>2, <1>5, OwnersAreNumbers
<1>8. i < j
  BY <1>4, <1>6, <1>7
<1> QED  BY <1>1, <1>2, <1>8, ChildrenAscend

-----------------------------------------------------------------------------
(* A walk's steps *)

\* what a walk that is over leaves
Ended ==
    /\ status \in {"done", "IndexError"}
    /\ Claimed => InOrder
    /\ Undisturbed => Exhausted /\ status = "done"

Active == status \in {"running", "suspended"}

\* The generator rests while the client does something.
Rests ==
    /\ Keeps
    /\ frames' = frames
    /\ yielded' = yielded
    /\ Advanced(children, children')

LEMMA RunsTop ==
    ASSUME Run
    PROVE  /\ f.gen = "ancestors" => StepAncestors
           /\ f.gen = "children" => StepChildren
           /\ f.gen = "descendants" => StepDescendants
           /\ f.gen = "following siblings" => StepFollowingSiblings
           /\ f.gen = "preceding siblings" => StepPrecedingSiblings
           /\ f.gen = "following" => StepFollowing
           /\ f.gen = "preceding" => StepPreceding
           /\ f.gen = "bottom up" => StepBottomUp
           /\ f.gen = "breadth first" => StepBreadthFirst
           /\ UNCHANGED <<children, size, root, walk, removed, origin>>
BY DEF Run, tree, StepAncestors, StepChildren, StepDescendants, StepFollowingSiblings,
       StepPrecedingSiblings, StepFollowing, StepPreceding, StepBottomUp, StepBreadthFirst

LEMMA LeftAlone ==
    ASSUME Base, Started, Undisturbed, ~IsRobust(walk)
    PROVE  removed = {} /\ Detached = {} /\ children = origin
<1>1. removed = {} /\ Detached = {}
  BY DEF Undisturbed, Detached
<1>2. PICK e : Numbered(origin, size, e)
  BY DEF Base
<1>3. Pruned(children, origin, {})
  BY <1>1 DEF Base
<1>4. children \in [Owners -> Seq(Nodes)] /\ origin \in [Owners -> Seq(Nodes)]
  BY <1>2, <1>3 DEF Pruned, Remainder, Numbered
<1>5. \A p \in Owners : children[p] = origin[p]
  BY <1>3 DEF Pruned
<1>6. children = origin
  BY <1>4, <1>5
<1> QED  BY <1>1, <1>6

\* The walk is over when there is no frame left.
LEMMA WalkEnds ==
    ASSUME Started, Keeps, NEW G, IsSeq(G), NEW fr, frames = Append(G, fr), G = <<>>,
           Return,
           Claimed => InOrder, Undisturbed => Exhausted
    PROVE  Ended'
<1>1. Inner(<<>>) = G
  BY TopFrame
<1>2. status' = "done" /\ yielded' = yielded
  BY <1>1 DEF Return, Continue
<1>3. Claimed' => Claimed
  BY DEF Claimed, Keeps
<1>4. Undisturbed' => Undisturbed
  BY DEF Keeps
<1> QED  BY <1>2, <1>3, <1>4, OrderStays DEF Ended

\* An error ends a walk only when what it depends on was removed.
LEMMA WalkFails ==
    ASSUME Started, Keeps, RaiseIndexError, Claimed => InOrder, ~Undisturbed
    PROVE  Ended'
<1>1. status' = "IndexError" /\ yielded' = yielded
  BY DEF RaiseIndexError
<1>2. Claimed' => Claimed
  BY DEF Claimed, Keeps
<1>3. ~Undisturbed'
  BY DEF Keeps
<1> QED  BY <1>1, <1>2, <1>3, OrderStays DEF Ended

-----------------------------------------------------------------------------
(* Ancestors *)

AncestorsWalk(e) ==
    \E x \in Nodes :
        /\ frames = <<AncestorsFrame(x)>>
        /\ DownTo(x)
        /\ x = walk.node \/ Within(e, x, walk.node)

LEMMA AncestorsRest ==
    ASSUME NEW e, AncestorsWalk(e), Rests
    PROVE  AncestorsWalk(e)'
<1>1. PICK x \in Nodes : /\ frames = <<AncestorsFrame(x)>> /\ DownTo(x)
                         /\ x = walk.node \/ Within(e, x, walk.node)
  BY DEF AncestorsWalk
<1>2. DownTo(x)'
  BY <1>1, ProgressStays DEF Rests
<1>3. frames' = <<AncestorsFrame(x)>> /\ (x = walk'.node \/ Within(e, x, walk'.node))
  BY <1>1 DEF Rests, Keeps
<1> QED  BY <1>2, <1>3 DEF AncestorsWalk, AncestorsFrame

LEMMA AncestorsStep ==
    ASSUME Base, Started, NEW e, Numbered(origin, size, e), Keeps, Run,
           walk.axis = "ancestors", AncestorsWalk(e)
    PROVE  (Active' /\ AncestorsWalk(e)') \/ Ended'
<1>1. PICK x \in Nodes : /\ frames = <<AncestorsFrame(x)>> /\ DownTo(x)
                         /\ x = walk.node \/ Within(e, x, walk.node)
  BY DEF AncestorsWalk
<1>2. PICK n : n = walk.node
  OBVIOUS
<1>3. PICK p : p = Parent(x)
  OBVIOUS
<1> DEFINE fr == AncestorsFrame(x)
<1>4. frames = Append(<<>>, fr) /\ IsSeq(<<>>)
  BY <1>1, OneFrame
<1>5. fr.gen = "ancestors" /\ fr.node = x
  BY DEF AncestorsFrame
<1> HIDE DEF fr
<1>6. f = fr /\ \A y : Inner(<<y>>) = Append(<<>>, y)
  BY <1>4, TopFrame
<1>7. StepAncestors
  BY <1>5, <1>6, RunsTop
<1>8. IF p \in {Document, NIL} THEN Return ELSE Yield(p, <<AncestorsFrame(p)>>)
  BY <1>5, <1>6, <1>7, <1>3 DEF StepAncestors
<1>9. x \in Owners /\ n \in Owners /\ n \in Nodes /\ walk \in Walks /\ walk.node <= size
  BY <1>2, OwnersAreNumbers DEF Base, Walks
<1>10. Remainder(children, origin)
  BY DEF Base, Pruned
<1>11. \A m : m \in AxisNodes(walk) <=> m \in Nodes /\ Within(e, m, n)
  BY <1>9, <1>2, AxisFacts
<1>12. Undisturbed => children = origin
  BY LeftAlone DEF IsRobust
<1>13. p = ParentIn(children, x) /\ n = walk.node
  BY <1>2, <1>3 DEF Parent
<1>14. \A m \in Owners : Within(e, m, n) /\ m < x => Within(e, m, x)
  <2> SUFFICES ASSUME NEW m \in Owners, Within(e, m, n), m < x PROVE Within(e, m, x)
    OBVIOUS
  <2>1. e[m] \in Owners
    BY DEF Numbered
  <2>2. m < n /\ n <= e[m]
    BY DEF Within
  <2>3. x = n \/ x < n
    BY <1>1, <1>13 DEF Within
  <2> QED  BY <1>9, <2>1, <2>2, <2>3, OwnersAreNumbers DEF Within
<1>15. CASE p \in {Document, NIL}
  <2>1. Claimed => InOrder
    BY <1>1 DEF DownTo
  <2>2. ASSUME Undisturbed PROVE Exhausted
    <3>1. ParentIn(origin, x) \in {Document, NIL}
      BY <1>12, <1>13, <1>15, <2>2
    <3>2. AncestorsIn(origin, x) = {}
      BY <1>9, <3>1, WholeRemains, AncestorsUnfold
    <3>3. \A m \in Nodes : ~Within(e, m, x)
      BY <1>9, <3>2, WithinAreAncestors
    <3>4. \A m \in AxisNodes(walk) : x <= m
      BY <1>9, <1>11, <1>14, <3>3, OwnersAreNumbers
    <3> QED  BY <1>1, <2>2, <3>4 DEF DownTo, Exhausted
  <2>3. Return
    BY <1>8, <1>15
  <2>4. Ended'
    BY <1>4, <2>1, <2>2, <2>3, WalkEnds
  <2> QED  BY <2>4
<1>16. CASE p \notin {Document, NIL}
  <2>1. p \in Nodes /\ p \in Owners /\ p < x
    BY <1>9, <1>10, <1>13, <1>16, ParentIsSmaller
  <2>2. p \in Elems(origin[p]) \/ x \in Elems(origin[p])
    BY <1>9, <1>10, <1>13, <1>16, ParentInRemainder
  <2>3. Within(e, p, x)
    BY <1>9, <1>10, <1>13, <1>16, ParentInRemainder
  <2>4. Within(e, p, n)
    <3>1. CASE x = n
      BY <2>3, <3>1
    <3>2. CASE Within(e, x, n)
      BY <1>9, <2>1, <2>3, <3>2, WithinTransitive
    <3> QED  BY <1>1, <1>13, <3>1, <3>2
  <2>5. p \in AxisNodes(walk)
    BY <1>11, <2>1, <2>4
  <2>6. Yield(p, <<AncestorsFrame(p)>>)
    BY <1>8, <1>16
  <2>7. yielded' = Append(yielded, p) /\ status' = "suspended" /\ frames' = <<AncestorsFrame(p)>>
    <3>1. Inner(<<AncestorsFrame(p)>>) = <<AncestorsFrame(p)>>
      BY <1>6, OneFrame
    <3> QED  BY <2>6, <3>1 DEF Yield
  <2>8. ASSUME Undisturbed, NEW m \in AxisNodes(walk), p < m PROVE x <= m
    <3>1. m \in Nodes /\ m \in Owners /\ Within(e, m, n)
      BY <1>11, <2>8, OwnersAreNumbers
    <3>2. CASE m < x
      <4>1. Within(e, m, x)
        BY <1>14, <3>1, <3>2
      <4>2. x \in Elems(origin[p])
        BY <1>9, <1>10, <1>13, <1>16, ParentInRemainder
      <4>3. PICK k \in DOMAIN origin[p] : origin[p][k] = x
        BY <4>2 DEF Elems
      <4> QED  BY <2>1, <2>8, <3>1, <4>1, <4>3, NoNodeBetween
    <3> QED  BY <1>9, <3>1, <3>2, OwnersAreNumbers
  <2>9. DownTo(p)'
    BY <1>1, <2>1, <2>5, <2>7, <2>8, YieldsDown DEF Falling
  <2>10. walk'.node = n
    BY <1>13 DEF Keeps
  <2>11. AncestorsWalk(e)'
    BY <2>1, <2>4, <2>7, <2>9, <2>10 DEF AncestorsWalk, AncestorsFrame
  <2>12. Active'
    BY <2>7 DEF Active
  <2> QED  BY <2>11, <2>12
<1> QED  BY <1>15, <1>16

\* A walk as it starts
Fresh(e) ==
    /\ Base /\ Started /\ Numbered(origin, size, e)
    /\ children = origin /\ yielded = <<>> /\ removed = {}
    /\ frames = <<FirstFrame(walk)>> /\ status = "running"

LEMMA NothingYet ==
    ASSUME Base, Started, yielded = <<>>, NEW y \in Nat
    PROVE  /\ InOrder
           /\ (\A m \in AxisNodes(walk) : y < m) => UpTo(y)
           /\ (\A m \in AxisNodes(walk) : m < y) => DownTo(y)
<1>1. Elems(yielded) = {} /\ DOMAIN yielded = {}
  BY DEF Elems
<1>2. InOrder
  BY <1>1 DEF InOrder
<1>3. \A m \in AxisNodes(walk) : m \in Nat
  BY AxisIsTyped
<1>4. ASSUME \A m \in AxisNodes(walk) : y < m
      PROVE  \A m \in AxisNodes(walk) : ~(m <= y)
  BY <1>3, <1>4
<1>5. ASSUME \A m \in AxisNodes(walk) : m < y
      PROVE  \A m \in AxisNodes(walk) : ~(y <= m)
  BY <1>3, <1>5
<1> QED  BY <1>1, <1>2, <1>4, <1>5 DEF UpTo, DownTo

LEMMA AncestorsStart ==
    ASSUME NEW e, Fresh(e), walk.axis = "ancestors"
    PROVE  AncestorsWalk(e)
<1>1. walk \in Walks /\ walk.node \in Nodes /\ walk.node <= size /\ walk.node \in Nat
  BY OwnersAreNumbers DEF Fresh, Base, Walks
<1>2. \A m \in AxisNodes(walk) : m < walk.node
  BY <1>1, AxisFacts DEF Fresh, Within
<1>3. DownTo(walk.node)
  BY <1>1, <1>2, NothingYet DEF Fresh
<1>4. frames = <<AncestorsFrame(walk.node)>>
  BY DEF Fresh, FirstFrame
<1> QED  BY <1>1, <1>3, <1>4 DEF AncestorsWalk

-----------------------------------------------------------------------------
(* Children *)

LEMMA LaterStays ==
    ASSUME NEW C, NEW E, Advanced(C, E), NEW p \in Owners, NEW k, NEW b \in Nat,
           C \in [Owners -> Seq(Nodes)], E \in [Owners -> Seq(Nodes)], Later(C, p, k, b)
    PROVE  Later(E, p, k, b)
<1> SUFFICES ASSUME NEW i \in DOMAIN E[p], k < i PROVE b < E[p][i]
  BY DEF Later
<1>1. i \in DOMAIN C[p] /\ C[p][i] <= E[p][i]
  BY DEF Advanced
<1>2. b < C[p][i]
  BY <1>1 DEF Later
<1>3. C[p] \in Seq(Nodes) /\ E[p] \in Seq(Nodes)
  OBVIOUS
<1>4. C[p][i] \in Nat /\ E[p][i] \in Nat
  <2>1. C[p][i] \in Nodes /\ E[p][i] \in Nodes
    BY <1>1, <1>3
  <2> QED  BY <2>1, OwnersAreNumbers
<1> QED  BY <1>1, <1>2, <1>4

LEMMA ListsAreTyped ==
    ASSUME Base, Started
    PROVE  /\ children \in [Owners -> Seq(Nodes)]
           /\ origin \in [Owners -> Seq(Nodes)]
           /\ Remainder(children, origin)
           /\ \A p \in Owners : \A i \in DOMAIN children[p] :
                /\ i \in Nat /\ i >= 1
                /\ children[p][i] \in Nodes /\ children[p][i] \in Nat
                /\ children[p][i] \in Elems(origin[p])
           /\ \A p \in Owners : \A i \in DOMAIN origin[p] :
                /\ i \in Nat /\ i >= 1
                /\ origin[p][i] \in Nodes /\ origin[p][i] \in Nat
           /\ \A p \in Owners : DOMAIN children[p] = 1 .. Len(children[p]) /\ Len(children[p]) \in Nat
           /\ \A p \in Owners : DOMAIN origin[p] = 1 .. Len(origin[p]) /\ Len(origin[p]) \in Nat
           /\ \A p \in Owners : \A i, j \in DOMAIN children[p] :
                i < j => children[p][i] < children[p][j]
<1>1. PICK e : Numbered(origin, size, e)
  BY DEF Base
<1>2. Pruned(children, origin, Detached)
  BY DEF Base
<1>3. /\ children \in [Owners -> Seq(Nodes)] /\ origin \in [Owners -> Seq(Nodes)]
      /\ \A p \in Owners : Elems(children[p]) \subseteq Elems(origin[p])
      /\ Remainder(children, origin)
  BY <1>1, <1>2 DEF Numbered, Pruned, Remainder
<1>4. ASSUME NEW s \in Seq(Nodes)
      PROVE  /\ DOMAIN s = 1 .. Len(s) /\ Len(s) \in Nat
             /\ \A i \in DOMAIN s : i \in Nat /\ i >= 1 /\ s[i] \in Nodes
  OBVIOUS
<1>5. \A p \in Owners : children[p] \in Seq(Nodes) /\ origin[p] \in Seq(Nodes)
  BY <1>3
<1>6. ASSUME NEW p \in Owners, NEW i \in DOMAIN children[p] 
      PROVE  children[p][i] \in Elems(origin[p])
  BY <1>3 DEF Elems
<1>7. \A n \in Nodes : n \in Nat
  BY OwnersAreNumbers
<1>8. \A p \in Owners : \A i, j \in DOMAIN children[p] :
         i < j => children[p][i] < children[p][j]
  BY <1>2 DEF Pruned
<1> QED  BY <1>3, <1>4, <1>5, <1>6, <1>7, <1>8

ChildrenWalk(e) ==
    \E k \in Nat, y \in Nat :
        /\ 1 <= k
        /\ frames = <<[gen |-> "children", owner |-> walk.node, next |-> k]>>
        /\ UpTo(y)
        /\ Later(children, walk.node, k - 1, y)
        /\ Undisturbed => \A i \in DOMAIN origin[walk.node] : i < k => origin[walk.node][i] <= y

LEMMA ChildrenStart ==
    ASSUME NEW e, Fresh(e), walk.axis = "children"
    PROVE  ChildrenWalk(e)
<1>1. PICK n : n = walk.node
  OBVIOUS
<1>2. walk \in Walks /\ n \in Nodes /\ n \in Owners /\ n <= size /\ n \in Nat
  BY <1>1, OwnersAreNumbers DEF Fresh, Base, Walks
<1>3. \A m \in Elems(origin[n]) : n < m
  BY <1>2, MemberWithin DEF Fresh, Within
<1>4. \A m \in AxisNodes(walk) : m \in Elems(origin[n])
  BY <1>1, <1>2, AxisFacts DEF Fresh
<1>5. UpTo(n)
  BY <1>2, <1>3, <1>4, NothingYet DEF Fresh
<1>6. frames = <<[gen |-> "children", owner |-> n, next |-> 1]>>
  BY <1>1 DEF Fresh, FirstFrame, ChildrenFrame
<1>7. Later(children, n, 0, n)
  BY <1>3 DEF Later, Elems, Fresh
<1>8. \A i \in DOMAIN origin[n] : ~(i < 1)
  BY <1>2, ListsAreTyped DEF Fresh
<1> QED  BY <1>1, <1>2, <1>5, <1>6, <1>7, <1>8 DEF ChildrenWalk

LEMMA ChildrenRest ==
    ASSUME Base, Base', Started, Started', NEW e, ChildrenWalk(e), Rests
    PROVE  ChildrenWalk(e)'
<1>1. PICK k \in Nat, y \in Nat :
        /\ 1 <= k
        /\ frames = <<[gen |-> "children", owner |-> walk.node, next |-> k]>>
        /\ UpTo(y)
        /\ Later(children, walk.node, k - 1, y)
        /\ Undisturbed => \A i \in DOMAIN origin[walk.node] : i < k => origin[walk.node][i] <= y
  BY DEF ChildrenWalk
<1>2. UpTo(y)'
  BY <1>1, ProgressStays DEF Rests
<1>3. walk.node \in Owners
  BY OwnersAreNumbers DEF Base, Walks
<1>4. children \in [Owners -> Seq(Nodes)] /\ children' \in [Owners -> Seq(Nodes)]
  BY DEF Base, Pruned, Remainder
<1>5. Later(children', walk.node, k - 1, y)
  BY <1>1, <1>3, <1>4, LaterStays DEF Rests
<1>6. /\ frames' = <<[gen |-> "children", owner |-> walk'.node, next |-> k]>>
      /\ Later(children', walk'.node, k - 1, y)
      /\ Undisturbed' =>
            \A i \in DOMAIN origin'[walk'.node] : i < k => origin'[walk'.node][i] <= y
  BY <1>1, <1>5 DEF Rests, Keeps
<1> QED  BY <1>1, <1>2, <1>6 DEF ChildrenWalk

LEMMA ChildrenStep ==
    ASSUME Base, Started, NEW e, Numbered(origin, size, e), Keeps, Run,
           walk.axis = "children", ChildrenWalk(e)
    PROVE  (Active' /\ ChildrenWalk(e)') \/ Ended'
<1>1. PICK n : n = walk.node
  OBVIOUS
<1>2. PICK k \in Nat, y \in Nat :
        /\ 1 <= k
        /\ frames = <<[gen |-> "children", owner |-> n, next |-> k]>>
        /\ UpTo(y)
        /\ Later(children, n, k - 1, y)
        /\ Undisturbed => \A i \in DOMAIN origin[n] : i < k => origin[n][i] <= y
  BY <1>1 DEF ChildrenWalk
<1> DEFINE fr == [gen |-> "children", owner |-> n, next |-> k]
           next == [gen |-> "children", owner |-> n, next |-> k + 1]
<1>3. frames = Append(<<>>, fr) /\ IsSeq(<<>>)
  BY <1>2, OneFrame
<1>4. fr.gen = "children" /\ fr.owner = n /\ fr.next = k /\ [fr EXCEPT !.next = @ + 1] = next
  OBVIOUS
<1> HIDE DEF fr, next
<1>5. f = fr /\ \A x : Inner(<<x>>) = <<x>>
  BY <1>3, TopFrame, OneFrame
<1>6. StepChildren
  BY <1>4, <1>5, RunsTop
<1>7. PICK c : c = children[n][k]
  OBVIOUS
<1>8. IF k <= Len(children[n]) THEN Yield(c, <<next>>) ELSE Return
  BY <1>4, <1>5, <1>6, <1>7 DEF StepChildren
<1>9. n \in Owners /\ n \in Nodes /\ walk \in Walks /\ walk.node <= size
  BY <1>1, OwnersAreNumbers DEF Base, Walks
<1>10. \A m : m \in AxisNodes(walk) <=> m \in Elems(origin[n])
  BY <1>1, <1>9, AxisFacts
<1>11. Undisturbed => children = origin
  BY LeftAlone DEF IsRobust
<1>12. DOMAIN children[n] = 1 .. Len(children[n]) /\ Len(children[n]) \in Nat
  BY <1>9, ListsAreTyped
<1>13. CASE k <= Len(children[n])
  <2>1. k \in DOMAIN children[n]
    BY <1>2, <1>12, <1>13
  <2>2. c \in Nodes /\ c \in Nat /\ c \in Elems(origin[n])
    BY <1>7, <1>9, <2>1, ListsAreTyped
  <2>3. y < c
    BY <1>2, <1>7, <2>1 DEF Later
  <2>4. yielded' = Append(yielded, c) /\ status' = "suspended" /\ frames' = <<next>>
    BY <1>5, <1>8, <1>13 DEF Yield
  <2>5. ASSUME Undisturbed, NEW m \in AxisNodes(walk), m < c PROVE m <= y
    <3>1. PICK i \in DOMAIN children[n] : children[n][i] = m
      BY <1>10, <1>11, <2>5 DEF Elems
    <3>2. i \in Nat /\ m \in Nat
      BY <1>9, <3>1, ListsAreTyped
    <3>3. ~(k < i) /\ i # k
      <4>1. k < i => c < m
        BY <1>7, <1>9, <2>1, <3>1, ListsAreTyped
      <4> QED  BY <1>7, <2>2, <2>5, <3>1, <3>2, <4>1
    <3>4. i < k
      BY <3>2, <3>3
    <3> QED  BY <1>2, <1>11, <2>5, <3>1, <3>4
  <2>6. UpTo(c)'
    BY <1>2, <1>10, <2>2, <2>3, <2>4, <2>5, YieldsUp DEF Rising
  <2>7. Later(children, n, k, c)
    BY <1>7, <1>9, <2>1, ListsAreTyped DEF Later
  <2>8. ASSUME Undisturbed, NEW i \in DOMAIN origin[n], i < k + 1 PROVE origin[n][i] <= c
    <3>1. i \in Nat /\ origin[n][i] \in Nat
      BY <1>9, ListsAreTyped
    <3>2. CASE i = k
      BY <1>7, <1>11, <2>2, <2>8, <3>2
    <3>3. CASE i # k
      <4>1. i < k
        BY <2>8, <3>1, <3>3
      <4>2. origin[n][i] <= y
        BY <1>2, <2>8, <4>1
      <4> QED  BY <2>2, <2>3, <3>1, <4>2
    <3> QED  BY <3>2, <3>3
  <2>9. walk' = walk /\ origin' = origin /\ children' = children /\ (Undisturbed' => Undisturbed)
    BY RunsTop DEF Keeps
  <2>10. k + 1 \in Nat /\ 1 <= k + 1 /\ (k + 1) - 1 = k
    BY <1>2
  <2>11. ChildrenWalk(e)'
    BY <1>1, <2>2, <2>4, <2>6, <2>7, <2>8, <2>9, <2>10 DEF ChildrenWalk, next
  <2> QED  BY <2>4, <2>11 DEF Active
<1>14. CASE ~(k <= Len(children[n]))
  <2>1. Return
    BY <1>8, <1>14
  <2>2. ASSUME Undisturbed PROVE Exhausted
    <3>1. \A i \in DOMAIN origin[n] : i < k
      BY <1>11, <1>12, <1>14, <2>2
    <3>2. \A m \in Elems(origin[n]) : m <= y
      BY <1>2, <2>2, <3>1 DEF Elems
    <3> QED  BY <1>2, <1>10, <2>2, <3>2 DEF UpTo, Exhausted
  <2> QED  BY <1>2, <1>3, <2>1, <2>2, WalkEnds DEF UpTo
<1> QED  BY <1>13, <1>14

-----------------------------------------------------------------------------
(* Following siblings *)

FollowingSiblingsState(o, deep, k, l) ==
    [gen |-> "following siblings", owner |-> o, deep |-> deep, next |-> k, end |-> l]

\* What a frame that walks over n's following siblings has ahead, when y is the latest node.
SiblingsAhead(n, o, k, l, y) ==
    /\ k \in Nat /\ l \in Nat /\ 1 <= k
    /\ o = NIL => k > l /\ (Undisturbed => \A p \in Owners : n \notin Elems(origin[p]))
    /\ o # NIL =>
        /\ o \in Owners
        /\ n \in Elems(origin[o])
        /\ Later(children, o, k - 1, y)
        /\ Undisturbed =>
            /\ l = Len(origin[o])
            /\ \A i \in DOMAIN origin[o] : i < k => origin[o][i] <= y

Plain == FALSE

Deeper(deep, c) == IF deep THEN <<DescendantsFrame(c)>> ELSE <<>>

LEMMA NilIsNoOwner == NIL \notin Owners
BY NilIsNoNode, OwnersAreNumbers

LEMMA RunAdvances ==
    ASSUME Base, Started, Run
    PROVE  Advanced(children, children')
<1>1. children' = children
  BY RunsTop
<1>2. \A p \in Owners : \A k \in DOMAIN children[p] : children[p][k] \in Nat
  BY ListsAreTyped
<1>3. \A p \in Owners : \A k \in DOMAIN children[p] : children[p][k] <= children[p][k]
  BY <1>2
<1> QED  BY <1>1, <1>3 DEF Advanced

LEMMA SiblingsStay ==
    ASSUME Base, Base', Started, Started', Keeps, Advanced(children, children'),
           NEW n, NEW o, NEW k, NEW l, NEW y \in Nat, SiblingsAhead(n, o, k, l, y)
    PROVE  SiblingsAhead(n, o, k, l, y)'
<1>1. children \in [Owners -> Seq(Nodes)] /\ children' \in [Owners -> Seq(Nodes)]
  BY DEF Base, Pruned, Remainder
<1>2. o # NIL => o \in Owners /\ Later(children, o, k - 1, y)
  BY DEF SiblingsAhead
<1>3. o # NIL => Later(children', o, k - 1, y)
  BY <1>1, <1>2, LaterStays
<1>4. origin' = origin /\ (Undisturbed' => Undisturbed)
  BY DEF Keeps
<1> QED  BY <1>3, <1>4 DEF SiblingsAhead

\* n's following siblings begin behind n's subtree.
LEMMA SiblingsFrameStarts ==
    ASSUME Base, Started, NEW e, Numbered(origin, size, e), NEW n \in Nodes, NEW deep,
           Undisturbed => children = origin
    PROVE  \E o, k, l :
              /\ FollowingSiblingsFrame(n, deep) = FollowingSiblingsState(o, deep, k, l)
              /\ \A y \in Nat : n <= y /\ y <= e[n] => SiblingsAhead(n, o, k, l, y)
              /\ o = Parent(n)
              /\ o # NIL /\ Undisturbed => k - 1 \in DOMAIN origin[o] /\ origin[o][k - 1] = n
<1>1. PICK o : o = Parent(n)
  OBVIOUS
<1>2. o = ParentIn(children, n) /\ n \in Owners /\ n \in Nat
  BY <1>1, OwnersAreNumbers DEF Parent
<1>3. Remainder(children, origin)
  BY ListsAreTyped
<1>4. CASE o = NIL
  <2>1. FollowingSiblingsFrame(n, deep) = FollowingSiblingsState(o, deep, 1, 0)
    BY <1>1, <1>4 DEF FollowingSiblingsFrame, FollowingSiblingsState
  <2>2. Undisturbed => \A p \in Owners : n \notin Elems(origin[p])
    BY <1>2, <1>3, <1>4, ParentInRemainder
  <2>3. \A y \in Nat : SiblingsAhead(n, o, 1, 0, y)
    BY <1>4, <2>2 DEF SiblingsAhead
  <2> QED  BY <1>1, <1>4, <2>1, <2>3
<1>5. CASE o # NIL
  <2>1. o \in Owners /\ n \in Elems(children[o]) /\ n \in Elems(origin[o])
    BY <1>2, <1>3, <1>5, ParentInRemainder
  <2>2. PICK p : p = Position(n)
    OBVIOUS
  <2>3. p \in DOMAIN children[o] /\ children[o][p] = n
    <3>1. \E i \in DOMAIN children[o] : children[o][i] = n
      BY <2>1 DEF Elems
    <3> QED  BY <1>1, <2>2, <3>1 DEF Position, PositionOf
  <2>4. p \in Nat /\ p >= 1 /\ Len(children[o]) \in Nat
    BY <2>1, <2>3, ListsAreTyped
  <2>5. FollowingSiblingsFrame(n, deep) = FollowingSiblingsState(o, deep, p + 1, Len(children[o]))
    BY <1>1, <1>5, <2>2 DEF FollowingSiblingsFrame, FollowingSiblingsState
  <2>6. ASSUME NEW y \in Nat, n <= y, y <= e[n]
        PROVE  SiblingsAhead(n, o, p + 1, Len(children[o]), y)
    <3>1. ASSUME NEW i \in DOMAIN children[o], p < i PROVE y < children[o][i]
      <4>1. n < children[o][i] /\ children[o][i] \in Nat /\ children[o][i] \in Elems(origin[o])
        BY <2>1, <2>3, <3>1, ListsAreTyped
      <4>2. e[n] < children[o][i]
        BY <2>1, <4>1, SiblingsApart
      <4>3. e[n] \in Nat
        BY <1>2, OwnersAreNumbers DEF Numbered
      <4> QED  BY <2>6, <4>1, <4>2, <4>3
    <3>2. Later(children, o, (p + 1) - 1, y)
      BY <2>4, <3>1 DEF Later
    <3>3. ASSUME Undisturbed, NEW i \in DOMAIN origin[o], i < p + 1 PROVE origin[o][i] <= y
      <4>1. i \in Nat /\ children = origin /\ children[o][i] \in Nat
        BY <2>1, <3>3, ListsAreTyped
      <4>2. i = p \/ i < p
        BY <2>4, <3>3, <4>1
      <4>3. i < p => children[o][i] < n
        BY <2>1, <2>3, <4>1, ListsAreTyped
      <4>4. children[o][i] <= n
        BY <1>2, <2>3, <4>1, <4>2, <4>3
      <4> QED  BY <1>2, <2>6, <4>1, <4>4
    <3> QED  BY <1>5, <2>1, <2>4, <3>2, <3>3 DEF SiblingsAhead
  <2>7. Undisturbed => (p + 1) - 1 \in DOMAIN origin[o] /\ origin[o][(p + 1) - 1] = n
    BY <2>3, <2>4
  <2> QED  BY <1>1, <2>5, <2>6, <2>7
<1> QED  BY <1>4, <1>5

\* how such a frame's step goes on
SiblingsOutcome(e, n, o, deep, k, l, y) ==
    \/ k > l /\ Return
    \/ RaiseIndexError /\ ~Undisturbed
    \/ \E c \in Elems(origin[o]) :
          /\ o \in Owners /\ k <= l /\ y < c
          /\ Yield(c, <<FollowingSiblingsState(o, deep, k + 1, l)>> \o Deeper(deep, c))
          /\ \A z \in Nat : c <= z /\ z <= e[c] => SiblingsAhead(n, o, k + 1, l, z)
          /\ Undisturbed => k \in DOMAIN origin[o] /\ origin[o][k] = c

LEMMA SiblingsFrameSteps ==
    ASSUME Base, Started, NEW e, Numbered(origin, size, e), Run,
           NEW G, IsSeq(G), NEW n, NEW o, NEW deep, NEW k, NEW l, NEW y \in Nat,
           frames = Append(G, FollowingSiblingsState(o, deep, k, l)),
           SiblingsAhead(n, o, k, l, y),
           Undisturbed => children = origin
    PROVE  SiblingsOutcome(e, n, o, deep, k, l, y)
<1> DEFINE fr == FollowingSiblingsState(o, deep, k, l)
           next == FollowingSiblingsState(o, deep, k + 1, l)
<1>1. /\ fr.gen = "following siblings" /\ fr.owner = o /\ fr.next = k /\ fr.end = l
      /\ fr.deep = deep /\ [fr EXCEPT !.next = @ + 1] = next
  <2>1. fr.gen = "following siblings" /\ fr.owner = o /\ fr.next = k /\ fr.end = l
    BY DEF FollowingSiblingsState
  <2>2. fr.deep = deep
    BY Zenon DEF FollowingSiblingsState
  <2>3. [fr EXCEPT !.next = @ + 1] = next
    <3>1. PICK g : g = "following siblings"
      OBVIOUS
    <3> DEFINE r(i) == [gen |-> g, owner |-> o, deep |-> deep, next |-> i, end |-> l]
    <3>2. \A i : [r(k) EXCEPT !.next = i] = r(i)
      OBVIOUS
    <3>3. \A i : r(i) = FollowingSiblingsState(o, deep, i, l)
      BY <3>1, Zenon DEF FollowingSiblingsState
    <3>4. fr = r(k) /\ next = r(k + 1) /\ fr.next = k
      BY <2>1, <3>3
    <3> QED  BY <3>2, <3>4
  <2> QED  BY <2>1, <2>2, <2>3, Zenon
<1> HIDE DEF fr, next
<1>2. f = fr
  BY TopFrame DEF fr
<1>3. StepFollowingSiblings
  BY <1>1, <1>2, RunsTop
<1>4. PICK c : c = children[o][k]
  OBVIOUS
<1>5. IF k > l THEN Return
      ELSE IF k > Len(children[o]) THEN RaiseIndexError
      ELSE Yield(c, <<next>> \o Deeper(deep, c))
  BY <1>1, <1>2, <1>3, <1>4 DEF StepFollowingSiblings, Deeper
<1>6. k \in Nat /\ l \in Nat /\ 1 <= k
  BY DEF SiblingsAhead
<1>7. CASE k > l
  BY <1>5, <1>7 DEF SiblingsOutcome
<1>8. CASE ~(k > l)
  <2>1. /\ o # NIL /\ o \in Owners /\ n \in Elems(origin[o])
        /\ Later(children, o, k - 1, y)
        /\ Undisturbed =>
            /\ l = Len(origin[o])
            /\ \A i \in DOMAIN origin[o] : i < k => origin[o][i] <= y
    BY <1>8 DEF SiblingsAhead
  <2>2. DOMAIN children[o] = 1 .. Len(children[o]) /\ Len(children[o]) \in Nat
    BY <2>1, ListsAreTyped
  <2>3. CASE k > Len(children[o])
    <3>1. ~Undisturbed
      BY <1>6, <1>8, <2>1, <2>2, <2>3
    <3> QED  BY <1>5, <1>8, <2>3, <3>1 DEF SiblingsOutcome
  <2>4. CASE ~(k > Len(children[o]))
    <3>1. k \in DOMAIN children[o]
      BY <1>6, <2>2, <2>4
    <3>2. c \in Nat /\ c \in Elems(origin[o])
      BY <1>4, <2>1, <3>1, ListsAreTyped
    <3>3. y < c
      BY <1>4, <1>6, <2>1, <3>1 DEF Later
    <3>4. ASSUME NEW z \in Nat, c <= z, z <= e[c]
          PROVE  SiblingsAhead(n, o, k + 1, l, z)
      <4>1. ASSUME NEW i \in DOMAIN children[o], k < i PROVE z < children[o][i]
        <5>1. c < children[o][i] /\ children[o][i] \in Nat
              /\ children[o][i] \in Elems(origin[o])
          BY <1>4, <2>1, <3>1, <4>1, ListsAreTyped
        <5>2. e[c] < children[o][i]
          BY <2>1, <3>2, <5>1, SiblingsApart
        <5>3. e[c] \in Nat
          <6>1. c \in Owners
            BY <2>1, <3>2, MemberWithin
          <6> QED  BY <6>1, OwnersAreNumbers DEF Numbered
        <5> QED  BY <3>4, <5>1, <5>2, <5>3
      <4>2. Later(children, o, (k + 1) - 1, z)
        BY <1>6, <4>1 DEF Later
      <4>3. ASSUME Undisturbed, NEW i \in DOMAIN origin[o], i < k + 1 PROVE origin[o][i] <= z
        <5>1. i \in Nat /\ children = origin /\ origin[o][i] \in Nat
          BY <2>1, <4>3, ListsAreTyped
        <5>2. CASE i = k
          BY <1>4, <3>4, <5>1, <5>2
        <5>3. CASE i # k
          <6>1. i < k
            BY <1>6, <4>3, <5>1, <5>3
          <6>2. origin[o][i] <= y
            BY <2>1, <4>3, <6>1
          <6> QED  BY <3>2, <3>3, <3>4, <5>1, <6>2
        <5> QED  BY <5>2, <5>3
      <4>4. k + 1 \in Nat /\ 1 <= k + 1
        BY <1>6
      <4> QED  BY <1>6, <2>1, <4>2, <4>3, <4>4 DEF SiblingsAhead
    <3>5. Undisturbed => k \in DOMAIN origin[o] /\ origin[o][k] = c
      BY <1>4, <3>1
    <3>6. k <= l
      BY <1>6, <1>8
    <3>7. Yield(c, <<next>> \o Deeper(deep, c))
      BY <1>5, <1>8, <2>4
    <3> QED  BY <2>1, <3>2, <3>3, <3>4, <3>5, <3>6, <3>7
             DEF next, SiblingsOutcome
  <2> QED  BY <2>3, <2>4
<1> QED  BY <1>7, <1>8

\* which siblings there are, by the list they are in
LEMMA OneParent ==
    ASSUME NEW L, NEW z, NEW e, Numbered(L, z, e), NEW n \in Owners, NEW p \in Owners,
           NEW q \in Owners, n \in Elems(L[p]), n \in Elems(L[q])
    PROVE  p = q
BY WholeRemains, ParentInRemainder

OnFollowingSiblings == walk.axis = "following siblings"

FollowingSiblingsWalk(e) ==
    \E o, k, l : \E y \in Nat :
        /\ frames = <<FollowingSiblingsState(o, Plain, k, l)>>
        /\ UpTo(y)
        /\ walk.node <= y
        /\ SiblingsAhead(walk.node, o, k, l, y)

LEMMA FollowingSiblingsStart ==
    ASSUME NEW e, Fresh(e), OnFollowingSiblings
    PROVE  FollowingSiblingsWalk(e)
<1>1. PICK n : n = walk.node
  OBVIOUS
<1>2. walk \in Walks /\ n \in Nodes /\ n \in Owners /\ n <= size /\ n \in Nat
  BY <1>1, OwnersAreNumbers DEF Fresh, Base, Walks
<1>3. \A m \in AxisNodes(walk) : n < m
  <2> SUFFICES ASSUME NEW m \in AxisNodes(walk) PROVE n < m
    OBVIOUS
  <2>1. m \in Nat
    BY AxisIsTyped DEF Fresh
  <2>2. m > n
    BY <1>1, <1>2, AxisFacts, Zenon DEF Fresh, OnFollowingSiblings
  <2> QED  BY <1>2, <2>1, <2>2
<1>4. UpTo(n)
  BY <1>2, <1>3, NothingYet DEF Fresh
<1>5. PICK o, k, l :
        /\ FollowingSiblingsFrame(n, Plain) = FollowingSiblingsState(o, Plain, k, l)
        /\ \A y \in Nat : n <= y /\ y <= e[n] => SiblingsAhead(n, o, k, l, y)
  BY <1>2, SiblingsFrameStarts DEF Fresh
<1>6. n <= n /\ n <= e[n]
  <2>1. Numbered(origin, size, e)
    BY DEF Fresh
  <2>2. n <= e[n]
    BY <1>2, <2>1 DEF Numbered
  <2> QED  BY <1>2, <2>2
<1>7. frames = <<FollowingSiblingsState(o, Plain, k, l)>>
  <2>1. FirstFrame(walk) = FollowingSiblingsFrame(n, Plain)
    BY <1>1, Zenon DEF FirstFrame, OnFollowingSiblings, Plain
  <2> QED  BY <1>5, <2>1 DEF Fresh
<1> QED  BY <1>1, <1>2, <1>4, <1>5, <1>6, <1>7 DEF FollowingSiblingsWalk

LEMMA FollowingSiblingsRest ==
    ASSUME Base, Base', Started, Started', NEW e, FollowingSiblingsWalk(e), Rests
    PROVE  FollowingSiblingsWalk(e)'
<1>1. PICK n : n = walk.node
  OBVIOUS
<1>2. PICK o, k, l : \E y \in Nat :
        /\ frames = <<FollowingSiblingsState(o, Plain, k, l)>>
        /\ UpTo(y)
        /\ n <= y
        /\ SiblingsAhead(n, o, k, l, y)
  BY <1>1 DEF FollowingSiblingsWalk
<1>3. PICK y \in Nat :
        /\ frames = <<FollowingSiblingsState(o, Plain, k, l)>>
        /\ UpTo(y)
        /\ n <= y
        /\ SiblingsAhead(n, o, k, l, y)
  BY <1>2
<1>4. UpTo(y)'
  BY <1>3, ProgressStays DEF Rests
<1>5. SiblingsAhead(n, o, k, l, y)'
  BY <1>3, SiblingsStay DEF Rests
<1>6. frames' = <<FollowingSiblingsState(o, Plain, k, l)>> /\ walk'.node = n
  BY <1>1, <1>3 DEF Rests, Keeps
<1> QED  BY <1>3, <1>4, <1>5, <1>6 DEF FollowingSiblingsWalk, FollowingSiblingsState

LEMMA FollowingSiblingsStep ==
    ASSUME Base, Base', Started, Started', NEW e, Numbered(origin, size, e), Keeps, Run,
           OnFollowingSiblings, FollowingSiblingsWalk(e)
    PROVE  (Active' /\ FollowingSiblingsWalk(e)') \/ Ended'
<1>1. PICK n : n = walk.node
  OBVIOUS
<1>2. PICK o, k, l : \E y \in Nat :
        /\ frames = <<FollowingSiblingsState(o, Plain, k, l)>>
        /\ UpTo(y)
        /\ n <= y
        /\ SiblingsAhead(n, o, k, l, y)
  BY <1>1 DEF FollowingSiblingsWalk
<1>3. PICK y \in Nat :
        /\ frames = <<FollowingSiblingsState(o, Plain, k, l)>>
        /\ UpTo(y)
        /\ n <= y
        /\ SiblingsAhead(n, o, k, l, y)
  BY <1>2
<1>4. n \in Owners /\ n \in Nodes /\ n \in Nat /\ walk \in Walks /\ walk.node <= size
  BY <1>1, OwnersAreNumbers DEF Base, Walks
<1>5. \A m : m \in AxisNodes(walk) <=>
                \E p \in Owners : m \in Elems(origin[p]) /\ n \in Elems(origin[p]) /\ m > n
  BY <1>1, <1>4, AxisFacts, Zenon DEF OnFollowingSiblings
<1>6. Undisturbed => children = origin
  BY LeftAlone, Zenon DEF IsRobust, OnFollowingSiblings
<1>7. frames = Append(<<>>, FollowingSiblingsState(o, Plain, k, l)) /\ IsSeq(<<>>)
  BY <1>3, OneFrame
<1>8. SiblingsOutcome(e, n, o, Plain, k, l, y)
  BY <1>3, <1>6, <1>7, SiblingsFrameSteps
<1>9. ASSUME Undisturbed, o \in Owners, NEW m \in AxisNodes(walk)
      PROVE  \E i \in DOMAIN origin[o] : origin[o][i] = m
  <2>1. PICK p \in Owners : m \in Elems(origin[p]) /\ n \in Elems(origin[p])
    BY <1>5, <1>9
  <2>2. o # NIL
    BY <1>9, NilIsNoOwner
  <2>3. p = o
    BY <1>3, <1>4, <1>9, <2>1, <2>2, OneParent DEF SiblingsAhead
  <2> QED  BY <2>1, <2>3 DEF Elems
<1>10. CASE k > l /\ Return
  <2>1. ASSUME Undisturbed PROVE Exhausted
    <3>1. CASE o = NIL
      <4>1. AxisNodes(walk) = {}
        BY <1>3, <1>5, <2>1, <3>1 DEF SiblingsAhead
      <4> QED  BY <4>1 DEF Exhausted
    <3>2. CASE o # NIL
      <4>1. o \in Owners /\ l = Len(origin[o]) /\ l \in Nat /\ k \in Nat
            /\ \A i \in DOMAIN origin[o] : i < k => origin[o][i] <= y
        BY <1>3, <2>1, <3>2 DEF SiblingsAhead
      <4>2. \A i \in DOMAIN origin[o] : i < k
        BY <1>10, <4>1, ListsAreTyped
      <4>3. \A m \in AxisNodes(walk) : m <= y
        BY <1>9, <2>1, <4>1, <4>2
      <4> QED  BY <1>3, <2>1, <4>3 DEF UpTo, Exhausted
    <3> QED  BY <3>1, <3>2
  <2> QED  BY <1>3, <1>7, <1>10, <2>1, WalkEnds DEF UpTo
<1>11. CASE RaiseIndexError /\ ~Undisturbed
  BY <1>3, <1>11, WalkFails DEF UpTo
<1>12. ASSUME NEW c \in Elems(origin[o]),
              /\ o \in Owners /\ k <= l /\ y < c
              /\ Yield(c, <<FollowingSiblingsState(o, Plain, k + 1, l)>>
                             \o Deeper(Plain, c))
              /\ \A z \in Nat : c <= z /\ z <= e[c] => SiblingsAhead(n, o, k + 1, l, z)
              /\ Undisturbed => k \in DOMAIN origin[o] /\ origin[o][k] = c
       PROVE  Active' /\ FollowingSiblingsWalk(e)'
  <2> DEFINE next == FollowingSiblingsState(o, Plain, k + 1, l)
  <2>1. c \in Nodes /\ c \in Owners /\ c \in Nat
    <3>1. c \in Nodes /\ c \in Owners
      BY <1>12, MemberWithin
    <3> QED  BY <3>1, OwnersAreNumbers
  <2>2. c <= e[c] /\ n < c /\ c > n
    <3>1. c <= e[c]
      BY <2>1 DEF Numbered
    <3> QED  BY <1>3, <1>4, <1>12, <2>1, <3>1
  <2>3. SiblingsAhead(n, o, k + 1, l, c)
    BY <1>12, <2>1, <2>2
  <2>4. SiblingsAhead(n, o, k + 1, l, c)'
    BY <2>1, <2>3, RunAdvances, SiblingsStay
  <2>5. Yield(c, <<next>>)
    <3>1. Yield(c, <<next>> \o Deeper(Plain, c))
      BY <1>12
    <3>2. <<next>> \o Deeper(Plain, c) = <<next>>
      <4> HIDE DEF next
      <4> QED  BY DEF Deeper, Plain
    <3> HIDE DEF next
    <3> QED  BY <3>1, <3>2
  <2>6. yielded' = Append(yielded, c) /\ status' = "suspended" /\ frames' = <<next>>
    <3> HIDE DEF next
    <3>1. Inner(<<next>>) = <<next>>
      BY <1>7, TopFrame, OneFrame
    <3> QED  BY <2>5, <3>1 DEF Yield
  <2>7. c \in AxisNodes(walk)
    <3>1. n \in Elems(origin[o])
      BY <1>3, <1>12, NilIsNoOwner DEF SiblingsAhead
    <3> QED  BY <1>5, <1>12, <2>2, <3>1
  <2>8. ASSUME Undisturbed, NEW m \in AxisNodes(walk), m < c PROVE m <= y
    <3>1. PICK i \in DOMAIN origin[o] : origin[o][i] = m
      BY <1>9, <1>12, <2>8
    <3>2. /\ k \in DOMAIN origin[o] /\ origin[o][k] = c /\ children = origin
          /\ i \in Nat /\ k \in Nat /\ m \in Nat
      BY <1>6, <1>12, <2>8, <3>1, ListsAreTyped
    <3>3. ~(k < i) /\ i # k
      <4>1. k < i => c < m
        BY <1>12, <3>1, <3>2, ListsAreTyped
      <4> QED  BY <2>1, <2>8, <3>1, <3>2, <4>1
    <3>4. i < k
      BY <3>2, <3>3
    <3>5. o # NIL
      BY <1>12, NilIsNoOwner
    <3> QED  BY <1>3, <2>8, <3>1, <3>4, <3>5 DEF SiblingsAhead
  <2>9. UpTo(c)'
    <3>1. walk.axis \in Rising
      BY Zenon DEF Rising, OnFollowingSiblings
    <3> QED  BY <1>3, <1>12, <2>6, <2>7, <2>8, <3>1, YieldsUp
  <2>10. walk'.node = n /\ n <= c
    BY <1>1, <1>4, <2>1, <2>2 DEF Keeps
  <2>11. FollowingSiblingsWalk(e)'
    BY <2>1, <2>4, <2>6, <2>9, <2>10 DEF FollowingSiblingsWalk, FollowingSiblingsState
  <2> QED  BY <2>6, <2>11 DEF Active
<1> QED  BY <1>8, <1>10, <1>11, <1>12 DEF SiblingsOutcome

-----------------------------------------------------------------------------
(* Preceding siblings *)

\* What was not yielded is where it was, if only results were removed.
LEMMA StillThere ==
    ASSUME Base, Started, Undisturbed, NEW o \in Owners, NEW k \in DOMAIN origin[o],
           \A j \in 1 .. k : origin[o][j] \notin Elems(yielded)
    PROVE  k \in DOMAIN children[o] /\ \A j \in 1 .. k : children[o][j] = origin[o][j]
<1>1. Detached \subseteq Elems(yielded)
  BY UndisturbedDetached
<1>2. \A j \in 1 .. k : origin[o][j] \notin Detached
  BY <1>1
<1>3. Pruned(children, origin, Detached)
  BY DEF Base
<1> QED  BY <1>2, <1>3 DEF Pruned

LEMMA StillWhole ==
    ASSUME Base, Started, Undisturbed, NEW e, Numbered(origin, size, e), NEW n \in Owners,
           NEW y \in Nat, e[n] < y, \A m \in Elems(yielded) : y <= m
    PROVE  children[n] = origin[n]
<1>1. Detached \subseteq Elems(yielded)
  BY UndisturbedDetached
<1>2. ASSUME NEW c \in Elems(origin[n]), c \in Detached PROVE FALSE
  <2>1. c \in Owners /\ e[n] \in Owners /\ c <= e[n] /\ c \in Elems(yielded)
    <3>1. c \in Owners /\ Within(e, n, c)
      BY MemberWithin
    <3> QED  BY <1>1, <1>2, <3>1 DEF Within, Numbered
  <2>2. y <= c
    BY <2>1
  <2> QED  BY <2>1, <2>2, OwnersAreNumbers
<1>3. Pruned(children, origin, Detached)
  BY DEF Base
<1> QED  BY <1>2, <1>3 DEF Pruned

PrecedingSiblingsState(o, deep, k) ==
    [gen |-> "preceding siblings", owner |-> o, deep |-> deep, next |-> k]

\* What a frame that walks back over n's preceding siblings has ahead.
SiblingsBehind(L, n, o, k) ==
    /\ k \in Nat
    /\ o = NIL => k = 0 /\ \A p \in Owners : n \notin Elems(L[p])
    /\ o # NIL =>
        /\ o \in Owners
        /\ n \in Elems(L[o])
        /\ k + 1 \in DOMAIN L[o]

LEMMA SiblingsBehindStart ==
    ASSUME Base, Started, NEW e, Numbered(origin, size, e), NEW n \in Nodes, NEW deep,
           Undisturbed, \A m \in Elems(yielded) : n <= m,
           n \notin Elems(yielded) \/ children = origin
    PROVE  \E o, k :
              /\ PrecedingSiblingsFrame(n, deep) = PrecedingSiblingsState(o, deep, k)
              /\ SiblingsBehind(origin, n, o, k)
              /\ o = Parent(n)
              /\ o # NIL => origin[o][k + 1] = n
<1>1. PICK o : o = Parent(n)
  OBVIOUS
<1>2. o = ParentIn(children, n) /\ n \in Owners /\ n \in Nat
  BY <1>1, OwnersAreNumbers DEF Parent
<1>3. Remainder(children, origin)
  BY ListsAreTyped
<1>4. ASSUME NEW q \in Owners, n \in Elems(origin[q])
      PROVE  \E p \in DOMAIN origin[q] : /\ p \in DOMAIN children[q] /\ origin[q][p] = n
                                         /\ children[q][p] = n /\ p \in Nat /\ p >= 1
                                         /\ o = q
  <2>1. PICK p \in DOMAIN origin[q] : origin[q][p] = n
    BY <1>4 DEF Elems
  <2>2. p \in Nat /\ p >= 1 /\ DOMAIN origin[q] = 1 .. Len(origin[q]) /\ Len(origin[q]) \in Nat
    BY <2>1, ListsAreTyped
  <2>3. ASSUME n \notin Elems(yielded), NEW j \in 1 .. p
        PROVE  origin[q][j] \notin Elems(yielded)
    <3>1. CASE j = p
      BY <2>1, <2>3, <3>1
    <3>2. CASE j # p
      <4>1. j \in DOMAIN origin[q] /\ j < p
        BY <2>2, <3>2
      <4>2. e[origin[q][j]] < n /\ origin[q][j] <= e[origin[q][j]]
        BY <2>1, <4>1, ChildrenAscend, ChildWithin
      <4>3. origin[q][j] \in Nat /\ e[origin[q][j]] \in Nat
        <5>1. origin[q][j] \in Owners
          BY <4>1, ChildWithin
        <5> QED  BY <5>1, OwnersAreNumbers DEF Numbered
      <4>4. ~(n <= origin[q][j])
        BY <1>2, <4>2, <4>3
      <4> QED  BY <4>4
    <3> QED  BY <3>1, <3>2
  <2>4. p \in DOMAIN children[q] /\ \A j \in 1 .. p : children[q][j] = origin[q][j]
    <3>1. CASE n \notin Elems(yielded)
      BY <2>1, <2>3, <3>1, StillThere
    <3>2. CASE children = origin
      BY <2>1, <3>2
    <3> QED  BY <3>1, <3>2
  <2>5. children[q][p] = n
    BY <2>1, <2>2, <2>4
  <2>6. n \in Elems(children[q])
    BY <2>4, <2>5 DEF Elems
  <2>7. o = q
    BY <1>2, <1>3, <2>6, ParentInRemainder
  <2> QED  BY <2>1, <2>2, <2>4, <2>5, <2>7
<1>5. CASE o = NIL
  <2>1. PrecedingSiblingsFrame(n, deep) = PrecedingSiblingsState(o, deep, 0)
    BY <1>1, <1>5, Zenon DEF PrecedingSiblingsFrame, PrecedingSiblingsState
  <2>2. ASSUME NEW q \in Owners, n \in Elems(origin[q]) PROVE FALSE
    BY <1>4, <1>5, <2>2, NilIsNoOwner
  <2>3. SiblingsBehind(origin, n, o, 0)
    BY <1>5, <2>2 DEF SiblingsBehind
  <2> QED  BY <1>1, <1>5, <2>1, <2>3
<1>6. CASE o # NIL
  <2>1. o \in Owners /\ n \in Elems(children[o]) /\ n \in Elems(origin[o])
    BY <1>2, <1>3, <1>6, ParentInRemainder
  <2>2. PICK p \in DOMAIN origin[o] : /\ p \in DOMAIN children[o] /\ origin[o][p] = n
                                      /\ children[o][p] = n /\ p \in Nat /\ p >= 1
    BY <1>4, <2>1
  <2>3. \A i \in DOMAIN children[o] : children[o][i] = n => i = p
    <3> SUFFICES ASSUME NEW i \in DOMAIN children[o], children[o][i] = n PROVE i = p
      OBVIOUS
    <3>1. (i < p => children[o][i] < n) /\ (p < i => n < children[o][i]) /\ i \in Nat
      BY <2>1, <2>2, ListsAreTyped
    <3> QED  BY <1>2, <2>2, <3>1
  <2>4. Position(n) = p
    BY <1>1, <2>2, <2>3 DEF Position, PositionOf
  <2>5. PrecedingSiblingsFrame(n, deep) = PrecedingSiblingsState(o, deep, p - 1)
    BY <1>1, <1>6, <2>4, Zenon DEF PrecedingSiblingsFrame, PrecedingSiblingsState
  <2>6. (p - 1) + 1 = p /\ p - 1 \in Nat
    BY <2>2
  <2>7. SiblingsBehind(origin, n, o, p - 1)
    BY <1>6, <2>1, <2>2, <2>6 DEF SiblingsBehind
  <2> QED  BY <1>1, <2>2, <2>5, <2>6, <2>7
<1> QED  BY <1>5, <1>6

BottomUpState(forward, s) == [gen |-> "bottom up", forward |-> forward, stack |-> s]

\* how such a frame's step goes on
BackwardsOutcome(e, n, o, deep, k) ==
    \/ k = 0 /\ Return
    \/ /\ k - 1 \in Nat /\ k \in DOMAIN origin[o] /\ o # NIL /\ o \in Owners
       /\ SiblingsBehind(origin, n, o, k - 1)
       /\ LET c == origin[o][k] IN
          /\ c < origin[o][k + 1] /\ e[c] + 1 = origin[o][k + 1]
          /\ deep => Continue(<<PrecedingSiblingsState(o, deep, k - 1),
                                BottomUpState(Plain, <<[node |-> c, rest |-> origin[c]]>>)>>)
          /\ ~deep => Yield(c, <<PrecedingSiblingsState(o, deep, k - 1)>>)

LEMMA BackwardsSteps ==
    ASSUME Base, Started, NEW e, Numbered(origin, size, e), Run, Undisturbed,
           NEW G, IsSeq(G), NEW n, NEW o, NEW deep, NEW k, NEW y \in Nat,
           frames = Append(G, PrecedingSiblingsState(o, deep, k)),
           SiblingsBehind(origin, n, o, k), o # NIL => y = origin[o][k + 1],
           \A m \in Elems(yielded) : y <= m
    PROVE  BackwardsOutcome(e, n, o, deep, k)
<1> DEFINE fr == PrecedingSiblingsState(o, deep, k)
           next == PrecedingSiblingsState(o, deep, k - 1)
<1>1. /\ fr.gen = "preceding siblings" /\ fr.owner = o /\ fr.next = k
      /\ fr.deep = deep /\ [fr EXCEPT !.next = @ - 1] = next
  <2>1. fr.gen = "preceding siblings" /\ fr.owner = o /\ fr.next = k
    BY DEF PrecedingSiblingsState
  <2>2. fr.deep = deep
    BY Zenon DEF PrecedingSiblingsState
  <2>3. [fr EXCEPT !.next = @ - 1] = next
    <3>1. PICK g : g = "preceding siblings"
      OBVIOUS
    <3> DEFINE r(i) == [gen |-> g, owner |-> o, deep |-> deep, next |-> i]
    <3>2. \A i : [r(k) EXCEPT !.next = i] = r(i)
      OBVIOUS
    <3>3. \A i : r(i) = PrecedingSiblingsState(o, deep, i)
      BY <3>1, Zenon DEF PrecedingSiblingsState
    <3>4. fr = r(k) /\ next = r(k - 1) /\ fr.next = k
      BY <2>1, <3>3
    <3> QED  BY <3>2, <3>4
  <2> QED  BY <2>1, <2>2, <2>3, Zenon
<1> HIDE DEF fr, next
<1>2. f = fr
  BY TopFrame DEF fr
<1>3. StepPrecedingSiblings
  BY <1>1, <1>2, RunsTop
<1>4. PICK c : c = children[o][k]
  OBVIOUS
<1>5. IF k = 0 THEN Return
      ELSE IF k > Len(children[o]) THEN RaiseIndexError
      ELSE IF deep THEN Continue(<<next, BottomUpFrame(c, FALSE)>>) ELSE Yield(c, <<next>>)
  BY <1>1, <1>2, <1>3, <1>4 DEF StepPrecedingSiblings
<1>6. CASE k = 0
  BY <1>5, <1>6 DEF BackwardsOutcome
<1>7. CASE k # 0
  <2>1. /\ k \in Nat /\ k - 1 \in Nat /\ (k - 1) + 1 = k /\ o # NIL
        /\ o \in Owners /\ n \in Elems(origin[o])
        /\ k + 1 \in DOMAIN origin[o]
    BY <1>7 DEF SiblingsBehind
  <2>2. k \in DOMAIN origin[o] /\ k < k + 1 /\ DOMAIN origin[o] = 1 .. Len(origin[o])
        /\ Len(origin[o]) \in Nat
    <3>1. DOMAIN origin[o] = 1 .. Len(origin[o]) /\ Len(origin[o]) \in Nat
      BY <2>1, ListsAreTyped
    <3> QED  BY <1>7, <2>1, <3>1
  <2>3. \A j \in 1 .. k : /\ j \in DOMAIN origin[o] /\ origin[o][j] \in Nat
                          /\ e[origin[o][j]] \in Nat
                          /\ origin[o][j] <= e[origin[o][j]] /\ e[origin[o][j]] < y
    <3> SUFFICES ASSUME NEW j \in 1 .. k
                 PROVE  /\ j \in DOMAIN origin[o] /\ origin[o][j] \in Nat
                        /\ e[origin[o][j]] \in Nat
                        /\ origin[o][j] <= e[origin[o][j]] /\ e[origin[o][j]] < y
      OBVIOUS
    <3>1. j \in DOMAIN origin[o] /\ j < k + 1
      BY <2>1, <2>2
    <3>2. origin[o][j] \in Owners /\ origin[o][j] <= e[origin[o][j]]
      BY <2>1, <3>1, ChildWithin
    <3>3. e[origin[o][j]] < y
      BY <2>1, <3>1, ChildrenAscend
    <3>4. e[origin[o][j]] \in Owners
      BY <3>2 DEF Numbered
    <3> QED  BY <3>1, <3>2, <3>3, <3>4, OwnersAreNumbers
  <2>4. \A j \in 1 .. k : origin[o][j] \notin Elems(yielded)
    BY <2>3
  <2>5. k \in DOMAIN children[o] /\ children[o][k] = origin[o][k]
    <3>1. k \in DOMAIN children[o] /\ \A j \in 1 .. k : children[o][j] = origin[o][j]
      BY <2>1, <2>2, <2>4, StillThere
    <3>2. k \in 1 .. k
      BY <2>2
    <3> QED  BY <3>1, <3>2
  <2>6. ~(k > Len(children[o]))
    <3>1. DOMAIN children[o] = 1 .. Len(children[o]) /\ Len(children[o]) \in Nat
      BY <2>1, ListsAreTyped
    <3> QED  BY <2>5, <3>1
  <2>7. c = origin[o][k] /\ c \in Owners /\ e[c] < y
    <3>1. c = origin[o][k]
      BY <1>4, <2>5
    <3>2. c \in Owners
      BY <2>1, <2>2, <3>1, ChildWithin
    <3>3. k \in 1 .. k
      BY <2>2
    <3> QED  BY <2>3, <3>1, <3>2, <3>3
  <2>8. c < origin[o][k + 1] /\ e[c] + 1 = origin[o][k + 1]
    <3>1. y = origin[o][k + 1]
      BY <2>1
    <3>2. origin[o][k + 1] = e[origin[o][k]] + 1
      <4>1. k \in 1 .. Len(origin[o]) - 1
        BY <2>1, <2>2
      <4> QED  BY <2>1, <4>1 DEF Numbered
    <3>3. c \in Nat /\ e[c] \in Nat /\ c <= e[c]
      <4>1. k \in 1 .. k
        BY <2>2
      <4> QED  BY <2>3, <2>7, <4>1
    <3> QED  BY <2>7, <3>1, <3>2, <3>3
  <2>9. children[c] = origin[c]
    BY <2>7, StillWhole
  <2>10. BottomUpFrame(c, FALSE) = BottomUpState(Plain, <<[node |-> c, rest |-> origin[c]]>>)
    BY <2>9, Zenon DEF BottomUpFrame, BottomUpState, Plain
  <2>11. SiblingsBehind(origin, n, o, k - 1)
    BY <2>1, <2>2 DEF SiblingsBehind
  <2>12. /\ deep => Continue(<<next, BottomUpState(Plain, <<[node |-> c, rest |-> origin[c]]>>)>>)
         /\ ~deep => Yield(c, <<next>>)
    BY <1>5, <1>7, <2>6, <2>10
  <2> QED  BY <2>1, <2>2, <2>7, <2>8, <2>11, <2>12 DEF BackwardsOutcome, next
<1> QED  BY <1>6, <1>7

OnPrecedingSiblings == walk.axis = "preceding siblings"

PrecedingSiblingsWalk(e) ==
    Undisturbed =>
        \E o, k : \E y \in Nat :
            /\ frames = <<PrecedingSiblingsState(o, Plain, k)>>
            /\ DownTo(y)
            /\ y <= walk.node
            /\ SiblingsBehind(origin, walk.node, o, k)
            /\ o # NIL => y = origin[o][k + 1]

LEMMA PrecedingSiblingsStart ==
    ASSUME NEW e, Fresh(e), OnPrecedingSiblings
    PROVE  PrecedingSiblingsWalk(e)
<1>1. PICK n : n = walk.node
  OBVIOUS
<1>2. walk \in Walks /\ n \in Nodes /\ n \in Owners /\ n <= size /\ n \in Nat
  BY <1>1, OwnersAreNumbers DEF Fresh, Base, Walks
<1>3. \A m \in AxisNodes(walk) : m < n
  <2> SUFFICES ASSUME NEW m \in AxisNodes(walk) PROVE m < n
    OBVIOUS
  <2> QED  BY <1>1, <1>2, AxisFacts, Zenon DEF Fresh, OnPrecedingSiblings
<1>4. DownTo(n) /\ n <= n
  BY <1>2, <1>3, NothingYet DEF Fresh
<1>5. Elems(yielded) = {}
  BY DEF Elems, Fresh
<1>6. Undisturbed
  BY DEF Undisturbed, Fresh
<1>7. PICK o, k :
        /\ PrecedingSiblingsFrame(n, Plain) = PrecedingSiblingsState(o, Plain, k)
        /\ SiblingsBehind(origin, n, o, k)
        /\ o # NIL => origin[o][k + 1] = n
  BY <1>2, <1>5, <1>6, SiblingsBehindStart DEF Fresh
<1>8. frames = <<PrecedingSiblingsState(o, Plain, k)>>
  <2>1. FirstFrame(walk) = PrecedingSiblingsFrame(n, Plain)
    BY <1>1, Zenon DEF FirstFrame, OnPrecedingSiblings, Plain
  <2> QED  BY <1>7, <2>1 DEF Fresh
<1> QED  BY <1>1, <1>2, <1>4, <1>7, <1>8 DEF PrecedingSiblingsWalk

LEMMA PrecedingSiblingsRest ==
    ASSUME NEW e, PrecedingSiblingsWalk(e), Rests
    PROVE  PrecedingSiblingsWalk(e)'
<1> SUFFICES ASSUME Undisturbed'
             PROVE  \E o, k : \E y \in Nat :
                        /\ frames' = <<PrecedingSiblingsState(o, Plain, k)>>
                        /\ DownTo(y)'
                        /\ y <= walk'.node
                        /\ SiblingsBehind(origin', walk'.node, o, k)
                        /\ o # NIL => y = origin'[o][k + 1]
  BY DEF PrecedingSiblingsWalk, PrecedingSiblingsState
<1>1. PICK n : n = walk.node
  OBVIOUS
<1>2. Undisturbed
  BY DEF Rests, Keeps
<1>3. PICK o, k : \E y \in Nat :
        /\ frames = <<PrecedingSiblingsState(o, Plain, k)>>
        /\ DownTo(y)
        /\ y <= n
        /\ SiblingsBehind(origin, n, o, k)
        /\ o # NIL => y = origin[o][k + 1]
  BY <1>1, <1>2 DEF PrecedingSiblingsWalk
<1>4. PICK y \in Nat :
        /\ frames = <<PrecedingSiblingsState(o, Plain, k)>>
        /\ DownTo(y)
        /\ y <= n
        /\ SiblingsBehind(origin, n, o, k)
        /\ o # NIL => y = origin[o][k + 1]
  BY <1>3
<1>5. DownTo(y)'
  BY <1>4, ProgressStays DEF Rests
<1>6. origin' = origin /\ frames' = frames /\ walk'.node = n
  BY <1>1 DEF Rests, Keeps
<1>7. SiblingsBehind(origin', walk'.node, o, k)
  BY <1>4, <1>6
<1> QED  BY <1>4, <1>5, <1>6, <1>7

LEMMA PrecedingSiblingsStep ==
    ASSUME Base, Started, NEW e, Numbered(origin, size, e), Keeps, Run,
           OnPrecedingSiblings, PrecedingSiblingsWalk(e)
    PROVE  (Active' /\ PrecedingSiblingsWalk(e)') \/ Ended'
<1>1. PICK n : n = walk.node
  OBVIOUS
<1>2. CASE ~Undisturbed
  <2>1. ~Undisturbed' /\ ~Claimed'
    BY <1>2, Zenon DEF Keeps, Claimed, OnPrecedingSiblings, Forward
  <2>2. status' \in {"running", "suspended", "done", "IndexError"}
    BY RunProceeds DEF Proceeds
  <2> QED  BY <2>1, <2>2 DEF Active, Ended, PrecedingSiblingsWalk
<1>3. CASE Undisturbed
  <2>1. PICK o, k : \E y \in Nat :
          /\ frames = <<PrecedingSiblingsState(o, Plain, k)>>
          /\ DownTo(y)
          /\ y <= n
          /\ SiblingsBehind(origin, n, o, k)
          /\ o # NIL => y = origin[o][k + 1]
    BY <1>1, <1>3 DEF PrecedingSiblingsWalk
  <2>2. PICK y \in Nat :
          /\ frames = <<PrecedingSiblingsState(o, Plain, k)>>
          /\ DownTo(y)
          /\ y <= n
          /\ SiblingsBehind(origin, n, o, k)
          /\ o # NIL => y = origin[o][k + 1]
    BY <2>1
  <2>3. n \in Owners /\ n \in Nodes /\ n \in Nat /\ walk \in Walks /\ walk.node <= size
    BY <1>1, OwnersAreNumbers DEF Base, Walks
  <2>4. \A m : m \in AxisNodes(walk) <=>
                  \E p \in Owners : m \in Elems(origin[p]) /\ n \in Elems(origin[p]) /\ m < n
    BY <1>1, <2>3, AxisFacts, Zenon DEF OnPrecedingSiblings
  <2>5. frames = Append(<<>>, PrecedingSiblingsState(o, Plain, k)) /\ IsSeq(<<>>)
    BY <2>2, OneFrame
  <2>6. \A m \in Elems(yielded) : y <= m
    BY <1>3, <2>2 DEF DownTo, Claimed
  <2>7. BackwardsOutcome(e, n, o, Plain, k)
    BY <1>3, <2>2, <2>5, <2>6, BackwardsSteps
  <2>8. ASSUME o \in Owners, o # NIL, NEW m \in AxisNodes(walk)
        PROVE  \E i \in DOMAIN origin[o] : origin[o][i] = m
    <3>1. PICK p \in Owners : m \in Elems(origin[p]) /\ n \in Elems(origin[p])
      BY <2>4
    <3>2. p = o
      BY <2>2, <2>3, <2>8, <3>1, OneParent DEF SiblingsBehind
    <3> QED  BY <3>1, <3>2 DEF Elems
  <2>9. CASE k = 0 /\ Return
    <3>1. Exhausted
      <4>1. CASE o = NIL
        <5>1. AxisNodes(walk) = {}
          BY <2>2, <2>4, <4>1 DEF SiblingsBehind
        <5> QED  BY <5>1 DEF Exhausted
      <4>2. CASE o # NIL
        <5>1. o \in Owners /\ k + 1 = 1 /\ 1 \in DOMAIN origin[o] /\ y = origin[o][1]
          BY <2>2, <2>9, <4>2 DEF SiblingsBehind
        <5>2. ASSUME NEW m \in AxisNodes(walk) PROVE y <= m
          <6>1. PICK i \in DOMAIN origin[o] : origin[o][i] = m
            BY <2>8, <4>2, <5>1
          <6>2. i = 1 \/ 1 < i
            BY <5>1, <6>1, ListsAreTyped
          <6>3. 1 < i => e[origin[o][1]] < origin[o][i]
            BY <5>1, <6>1, ChildrenAscend
          <6>4. y <= e[y] /\ y \in Owners /\ e[y] \in Owners /\ m \in Nat
            <7>1. y \in Owners /\ y <= e[y]
              BY <5>1, ChildWithin
            <7>2. m \in Nat
              BY <5>1, <6>1, ListsAreTyped
            <7> QED  BY <7>1, <7>2 DEF Numbered
          <6>5. e[y] \in Nat /\ y \in Nat
            BY <6>4, OwnersAreNumbers
          <6> QED  BY <5>1, <6>1, <6>2, <6>3, <6>4, <6>5
        <5> QED  BY <1>3, <2>2, <5>2 DEF DownTo, Exhausted
      <4> QED  BY <4>1, <4>2
    <3>2. Claimed => InOrder
      BY <2>2 DEF DownTo
    <3> QED  BY <2>5, <2>9, <3>1, <3>2, WalkEnds
  <2>10. CASE k - 1 \in Nat /\ k \in DOMAIN origin[o] /\ o # NIL /\ o \in Owners
              /\ SiblingsBehind(origin, n, o, k - 1)
              /\ LET c == origin[o][k] IN
                 /\ c < origin[o][k + 1] /\ e[c] + 1 = origin[o][k + 1]
                 /\ Yield(c, <<PrecedingSiblingsState(o, Plain, k - 1)>>)
    <3> DEFINE next == PrecedingSiblingsState(o, Plain, k - 1)
    <3>1. PICK c : c = origin[o][k]
      OBVIOUS
    <3>2. c \in Nat /\ c < y /\ y = origin[o][k + 1] /\ Yield(c, <<next>>)
      <4>1. c \in Nat
        BY <2>10, <3>1, ListsAreTyped
      <4> QED  BY <2>2, <2>10, <3>1, <4>1
    <3>3. yielded' = Append(yielded, c) /\ status' = "suspended" /\ frames' = <<next>>
      <4> HIDE DEF next
      <4>1. Inner(<<next>>) = <<next>>
        BY <2>5, TopFrame, OneFrame
      <4> QED  BY <3>2, <4>1 DEF Yield
    <3>4. c \in AxisNodes(walk)
      <4>1. n \in Elems(origin[o]) /\ c \in Elems(origin[o])
        BY <2>2, <2>10, <3>1 DEF SiblingsBehind, Elems
      <4>2. c < n
        BY <2>2, <2>3, <3>2
      <4> QED  BY <2>4, <2>10, <4>1, <4>2
    <3>5. ASSUME NEW m \in AxisNodes(walk), c < m PROVE y <= m
      <4>1. PICK i \in DOMAIN origin[o] : origin[o][i] = m
        BY <2>8, <2>10
      <4>2. i \in Nat /\ m \in Nat /\ k \in Nat /\ k + 1 \in DOMAIN origin[o]
        BY <2>2, <2>10, <4>1, ListsAreTyped DEF SiblingsBehind
      <4>3. \A x \in Elems(origin[o]) : x \in Owners /\ x <= e[x] /\ e[x] \in Owners
        <5> SUFFICES ASSUME NEW x \in Elems(origin[o])
                     PROVE  x \in Owners /\ x <= e[x] /\ e[x] \in Owners
          OBVIOUS
        <5>1. x \in Owners
          BY <2>10, MemberWithin
        <5> QED  BY <5>1 DEF Numbered
      <4>4. m \in Elems(origin[o]) /\ y \in Elems(origin[o]) /\ c \in Elems(origin[o])
        BY <2>10, <3>1, <3>2, <4>1, <4>2 DEF Elems
      <4>5. ~(i < k) /\ i # k
        <5>1. i < k => e[m] < c
          BY <2>10, <3>1, <4>1, ChildrenAscend
        <5>2. e[m] \in Nat /\ m <= e[m]
          BY <4>3, <4>4, OwnersAreNumbers
        <5> QED  BY <3>1, <3>2, <3>5, <4>1, <4>2, <5>1, <5>2
      <4>6. i = k + 1 \/ k + 1 < i
        BY <4>2, <4>5
      <4>7. k + 1 < i => e[y] < m
        BY <2>10, <3>2, <4>1, <4>2, ChildrenAscend
      <4>8. e[y] \in Nat /\ y <= e[y]
        BY <4>3, <4>4, OwnersAreNumbers
      <4> QED  BY <2>2, <3>2, <4>1, <4>2, <4>6, <4>7, <4>8
    <3>6. walk.axis \in Falling
      BY Zenon DEF Falling, OnPrecedingSiblings
    <3>7. DownTo(c)'
      BY <2>2, <3>2, <3>3, <3>4, <3>5, <3>6, YieldsDown
    <3>8. walk'.node = n /\ origin' = origin /\ c <= n
      BY <1>1, <2>2, <2>3, <3>2 DEF Keeps
    <3>9. SiblingsBehind(origin', walk'.node, o, k - 1)
      BY <2>10, <3>8
    <3>10. c = origin'[o][(k - 1) + 1]
      <4>1. (k - 1) + 1 = k
        BY <2>2 DEF SiblingsBehind
      <4> QED  BY <3>1, <3>8, <4>1
    <3>11. PrecedingSiblingsWalk(e)'
      <4>1. /\ frames' = <<PrecedingSiblingsState(o, Plain, k - 1)>>
            /\ DownTo(c)'
            /\ c <= walk'.node
            /\ SiblingsBehind(origin', walk'.node, o, k - 1)
            /\ o # NIL => c = origin'[o][(k - 1) + 1]
        BY <3>3, <3>7, <3>8, <3>9, <3>10
      <4> QED  BY <3>2, <4>1 DEF PrecedingSiblingsWalk, PrecedingSiblingsState
    <3> QED  BY <3>3, <3>11 DEF Active
  <2> QED  BY <2>7, <2>9, <2>10 DEF BackwardsOutcome, Plain
<1> QED  BY <1>2, <1>3

-----------------------------------------------------------------------------
(* Descendants *)

LevelAt(o, p) == [owner |-> o, pointer |-> p]

\* The children from x's pointer on are behind n's subtree.
Above(C, e, x, n) == e[n] <= e[x.owner] /\ Later(C, x.owner, x.pointer, e[n])

IsLevel(e, c, x) ==
    /\ x.owner \in Owners /\ x.pointer \in Nat
    /\ x.owner = c \/ Within(e, c, x.owner)

\* for the levels that the walk over c's descendants will return to
Stacked(C, e, c, s) ==
    /\ \A i \in DOMAIN s : IsLevel(e, c, s[i])
    /\ \A i, j \in DOMAIN s : i < j => Above(C, e, s[i], s[j].owner)

LEMMA StackedPush ==
    ASSUME NEW C, NEW e, NEW c, NEW s, IsSeq(s), NEW x
    PROVE  Stacked(C, e, c, Append(s, x)) <=>
              /\ Stacked(C, e, c, s)
              /\ IsLevel(e, c, x)
              /\ \A i \in DOMAIN s : Above(C, e, s[i], x.owner)
<1> DEFINE t == Append(s, x)
           l == Len(s)
<1>1. /\ l \in Nat /\ DOMAIN s = 1 .. l /\ DOMAIN t = 1 .. l + 1
      /\ t[l + 1] = x /\ \A k \in DOMAIN s : t[k] = s[k]
  BY Pushed
<1> HIDE DEF t, l
<1>2. ASSUME Stacked(C, e, c, t)
      PROVE  /\ Stacked(C, e, c, s)
             /\ IsLevel(e, c, x)
             /\ \A i \in DOMAIN s : Above(C, e, s[i], x.owner)
  <2>1. l + 1 \in DOMAIN t /\ \A i \in DOMAIN s : i \in DOMAIN t /\ i < l + 1
    BY <1>1
  <2>2. Stacked(C, e, c, s)
    BY <1>1, <1>2, <2>1 DEF Stacked
  <2> QED  BY <1>1, <1>2, <2>1, <2>2 DEF Stacked
<1>3. ASSUME Stacked(C, e, c, s), IsLevel(e, c, x),
             \A i \in DOMAIN s : Above(C, e, s[i], x.owner)
      PROVE  Stacked(C, e, c, t)
  <2>1. ASSUME NEW i \in DOMAIN t PROVE i \in DOMAIN s \/ i = l + 1
    BY <1>1, <2>1
  <2>2. \A i \in DOMAIN t : IsLevel(e, c, t[i])
    BY <1>1, <1>3, <2>1 DEF Stacked
  <2>3. ASSUME NEW i \in DOMAIN t, NEW j \in DOMAIN t, i < j
        PROVE  Above(C, e, t[i], t[j].owner)
    <3>1. i \in DOMAIN s
      BY <1>1, <2>3
    <3>2. CASE j \in DOMAIN s
      BY <1>1, <1>3, <2>3, <3>1, <3>2 DEF Stacked
    <3>3. CASE j = l + 1
      BY <1>1, <1>3, <3>1, <3>3
    <3> QED  BY <2>1, <3>2, <3>3
  <2> QED  BY <2>2, <2>3 DEF Stacked
<1> QED  BY <1>2, <1>3 DEF t

\* n is the child that the latest level's pointer is at, or the first node.
Hangs(L, c, s, n) ==
    IF s = <<>> THEN n = c
    ELSE /\ Last(s).pointer \in DOMAIN L[Last(s).owner]
         /\ L[Last(s).owner][Last(s).pointer] = n

Chained(L, c, s) ==
    \A i \in DOMAIN s :
        IF i = 1 THEN s[i].owner = c
        ELSE /\ s[i - 1].pointer \in DOMAIN L[s[i - 1].owner]
             /\ L[s[i - 1].owner][s[i - 1].pointer] = s[i].owner

LEMMA ChainedPush ==
    ASSUME NEW L, NEW c, NEW s, IsSeq(s), NEW x
    PROVE  Chained(L, c, Append(s, x)) <=> Chained(L, c, s) /\ Hangs(L, c, s, x.owner)
<1> DEFINE t == Append(s, x)
           l == Len(s)
<1>1. /\ l \in Nat /\ DOMAIN s = 1 .. l /\ DOMAIN t = 1 .. l + 1
      /\ t[l + 1] = x /\ \A k \in DOMAIN s : t[k] = s[k]
  BY Pushed
<1>2. s = <<>> <=> l = 0
  <2>1. PICK S : s \in Seq(S)
    BY DEF IsSeq
  <2> QED  BY <2>1
<1>3. Last(s) = s[l]
  BY DEF Last
<1> HIDE DEF t, l
<1>4. Hangs(L, c, s, x.owner) <=>
         IF l = 0 THEN x.owner = c
         ELSE s[l].pointer \in DOMAIN L[s[l].owner] /\ L[s[l].owner][s[l].pointer] = x.owner
  BY <1>2, <1>3 DEF Hangs
<1>5. ASSUME Chained(L, c, t)
      PROVE  Chained(L, c, s) /\ Hangs(L, c, s, x.owner)
  <2>1. \A i \in DOMAIN s : i \in DOMAIN t /\ (i # 1 => i - 1 \in DOMAIN s)
    BY <1>1
  <2>2. Chained(L, c, s)
    BY <1>1, <1>5, <2>1 DEF Chained
  <2>3. l + 1 \in DOMAIN t /\ (l + 1) - 1 = l /\ (l # 0 => l \in DOMAIN s) /\ (l + 1 = 1 <=> l = 0)
    BY <1>1
  <2>4. IF l + 1 = 1 THEN t[l + 1].owner = c
        ELSE /\ t[(l + 1) - 1].pointer \in DOMAIN L[t[(l + 1) - 1].owner]
             /\ L[t[(l + 1) - 1].owner][t[(l + 1) - 1].pointer] = t[l + 1].owner
    BY <1>5, <2>3 DEF Chained
  <2> QED  BY <1>1, <1>4, <2>2, <2>3, <2>4
<1>6. ASSUME Chained(L, c, s), Hangs(L, c, s, x.owner)
      PROVE  Chained(L, c, t)
  <2> SUFFICES ASSUME NEW i \in DOMAIN t
               PROVE  IF i = 1 THEN t[i].owner = c
                      ELSE /\ t[i - 1].pointer \in DOMAIN L[t[i - 1].owner]
                           /\ L[t[i - 1].owner][t[i - 1].pointer] = t[i].owner
    BY DEF Chained
  <2>1. CASE i \in DOMAIN s
    <3>1. t[i] = s[i] /\ (i # 1 => t[i - 1] = s[i - 1])
      BY <1>1, <2>1
    <3> QED  BY <1>6, <2>1, <3>1 DEF Chained
  <2>2. CASE i \notin DOMAIN s
    <3>1. i = l + 1 /\ i - 1 = l /\ (i = 1 <=> l = 0) /\ t[i] = x /\ (i # 1 => t[i - 1] = s[l])
      BY <1>1, <2>2
    <3> QED  BY <1>4, <1>6, <3>1
  <2> QED  BY <2>1, <2>2
<1> QED  BY <1>5, <1>6 DEF t

DescendantsState(s, o, p, r, l) ==
    [gen |-> "descendants", stack |-> s, owner |-> o, pointer |-> p, rest |-> r, last |-> l]

\* No copied slice is left and nothing was yielded from it.
Idle(C, e, y, s, r, l) ==
    /\ r = <<>> /\ l = NIL /\ s # <<>>
    /\ \A i \in DOMAIN s : y <= e[s[i].owner] /\ Later(C, s[i].owner, s[i].pointer, y)

\* r is what is left of a copied slice of o's children, l what was yielded of it.
Looping(C, L, e, c, y, s, o, p, r, l) ==
    /\ IsLevel(e, c, LevelAt(o, p))
    /\ \A i \in DOMAIN s : Above(C, e, s[i], o)
    /\ y <= e[o]
    /\ r \in Seq(Nodes)
    /\ \A i \in DOMAIN r : r[i] \in Elems(L[o]) /\ y < r[i]
    /\ \A i, j \in DOMAIN r : i < j => r[i] < r[j]
    /\ \A i \in DOMAIN C[o] : p < i => i - p \in DOMAIN r /\ r[i - p] <= C[o][i]
    /\ l # NIL => l = y /\ l \in Elems(L[o])

DescendantsOrder(C, L, e, c, y, s, o, p, r, l) ==
    /\ IsSeq(s)
    /\ c <= y /\ y <= e[c]
    /\ Stacked(C, e, c, s)
    /\ Idle(C, e, y, s, r, l) \/ Looping(C, L, e, c, y, s, o, p, r, l)

\* where the walk is in a tree that is left alone
DescendantsExact(L, e, c, y, s, o, p, r, l) ==
    /\ Chained(L, c, s)
    /\ \/ /\ s # <<>> /\ r = <<>> /\ l = NIL
          /\ Last(s).pointer # 0 => Last(s).pointer \in DOMAIN L[Last(s).owner]
          /\ y = Done(L, e, Last(s).owner, Last(s).pointer)
       \/ /\ Hangs(L, c, s, o)
          /\ o \in Owners /\ p \in Nat
          /\ p # 0 => p \in DOMAIN L[o]
          /\ Len(r) = Len(L[o]) - p
          /\ \A i \in 1 .. Len(r) : r[i] = L[o][p + i]
          /\ IF l = NIL THEN y = Done(L, e, o, p)
             ELSE p # 0 /\ l = L[o][p] /\ y = l

\* fr walks over c's descendants and y is the latest node.
DescendantsAt(e, c, y, fr) ==
    \E s, o, p, r, l :
        /\ fr = DescendantsState(s, o, p, r, l)
        /\ DescendantsOrder(children, origin, e, c, y, s, o, p, r, l)
        /\ Undisturbed => DescendantsExact(origin, e, c, y, s, o, p, r, l)

LEMMA DescendantsStay ==
    ASSUME Base, Base', Started, Started', Keeps, Advanced(children, children'),
           NEW e, Numbered(origin, size, e), NEW c \in Owners, NEW y \in Nat, NEW fr,
           DescendantsAt(e, c, y, fr)
    PROVE  DescendantsAt(e, c, y, fr)'
<1>1. PICK s, o, p, r, l :
        /\ fr = DescendantsState(s, o, p, r, l)
        /\ DescendantsOrder(children, origin, e, c, y, s, o, p, r, l)
        /\ Undisturbed => DescendantsExact(origin, e, c, y, s, o, p, r, l)
  BY DEF DescendantsAt
<1> DEFINE C == children
           E == children'
<1>2. C \in [Owners -> Seq(Nodes)] /\ E \in [Owners -> Seq(Nodes)] /\ Advanced(C, E)
  BY DEF Base, Pruned, Remainder
<1>3. \A n \in Owners : \A i \in DOMAIN C[n] : C[n][i] \in Nat
  BY ListsAreTyped
<1>4. \A n \in Owners : \A i \in DOMAIN E[n] : E[n][i] \in Nat
  <2> SUFFICES ASSUME NEW n \in Owners, NEW i \in DOMAIN E[n] PROVE E[n][i] \in Nat
    OBVIOUS
  <2>1. E[n] \in Seq(Nodes)
    BY <1>2
  <2>2. E[n][i] \in Nodes
    BY <2>1
  <2> QED  BY <2>2, OwnersAreNumbers
<1> HIDE DEF C, E
<1>5. \A n \in Owners, b \in Nat : \A k : Later(C, n, k, b) => Later(E, n, k, b)
  BY <1>2, LaterStays
<1>6. \A n \in Owners : e[n] \in Nat
  BY OwnersAreNumbers DEF Numbered
<1>7. DescendantsOrder(C, origin, e, c, y, s, o, p, r, l)
  BY <1>1 DEF C
<1>8. Stacked(C, e, c, s)
  BY <1>7 DEF DescendantsOrder
<1>9. Stacked(E, e, c, s)
  <2>1. ASSUME NEW i \in DOMAIN s, NEW j \in DOMAIN s, i < j
        PROVE  Above(E, e, s[i], s[j].owner)
    <3>1. s[i].owner \in Owners /\ s[j].owner \in Owners /\ Above(C, e, s[i], s[j].owner)
      BY <1>8, <2>1 DEF Stacked, IsLevel
    <3> QED  BY <1>5, <1>6, <3>1 DEF Above
  <2> QED  BY <1>8, <2>1 DEF Stacked
<1>10. ASSUME Idle(C, e, y, s, r, l) PROVE Idle(E, e, y, s, r, l)
  <2>1. \A i \in DOMAIN s : s[i].owner \in Owners
    BY <1>8 DEF Stacked, IsLevel
  <2> QED  BY <1>5, <1>10, <2>1 DEF Idle
<1>11. ASSUME Looping(C, origin, e, c, y, s, o, p, r, l)
       PROVE  Looping(E, origin, e, c, y, s, o, p, r, l)
  <2>1. o \in Owners /\ p \in Nat
    BY <1>11 DEF Looping, IsLevel, LevelAt
  <2>2. \A i \in DOMAIN s : Above(E, e, s[i], o)
    <3> SUFFICES ASSUME NEW i \in DOMAIN s PROVE Above(E, e, s[i], o)
      OBVIOUS
    <3>1. s[i].owner \in Owners /\ Above(C, e, s[i], o)
      BY <1>8, <1>11 DEF Stacked, IsLevel, Looping
    <3> QED  BY <1>5, <1>6, <2>1, <3>1 DEF Above
  <2>3. ASSUME NEW i \in DOMAIN E[o], p < i PROVE i - p \in DOMAIN r /\ r[i - p] <= E[o][i]
    <3>1. i \in DOMAIN C[o] /\ C[o][i] <= E[o][i]
      BY <1>2, <2>1 DEF Advanced
    <3>2. i - p \in DOMAIN r /\ r[i - p] <= C[o][i] /\ r \in Seq(Nodes)
      BY <1>11, <2>3, <3>1 DEF Looping
    <3>3. r[i - p] \in Nat
      <4>1. r[i - p] \in Nodes
        BY <3>2
      <4> QED  BY <4>1, OwnersAreNumbers
    <3> QED  BY <1>3, <1>4, <2>1, <3>1, <3>2, <3>3
  <2> QED  BY <1>11, <2>2, <2>3 DEF Looping
<1>12. DescendantsOrder(E, origin, e, c, y, s, o, p, r, l)
  BY <1>7, <1>9, <1>10, <1>11 DEF DescendantsOrder
<1>13. origin' = origin /\ (Undisturbed' => Undisturbed)
  BY DEF Keeps
<1>14. DescendantsOrder(children', origin', e, c, y, s, o, p, r, l)
  BY <1>12, <1>13 DEF E
<1> QED  BY <1>1, <1>13, <1>14 DEF DescendantsAt

\* how such a frame's step goes on
DescendantsOutcome(e, c, y) ==
    \/ Return /\ c <= y /\ y <= e[c] /\ (Undisturbed => y = e[c])
    \/ \E fr : Continue(<<fr>>) /\ DescendantsAt(e, c, y, fr)
    \/ \E fr : \E z \in Nodes :
          /\ Yield(z, <<fr>>) /\ DescendantsAt(e, c, z, fr)
          /\ y < z /\ Within(e, c, z)
          /\ Undisturbed => z = y + 1

\* The latest result has children: they come next.
LEMMA DescendantsDescend ==
    ASSUME Base, Started, NEW e, Numbered(origin, size, e), NEW c \in Owners, NEW y \in Nat,
           NEW s, NEW o, NEW p, NEW r, NEW l,
           DescendantsOrder(children, origin, e, c, y, s, o, p, r, l), l # NIL
    PROVE  /\ DescendantsOrder(children, origin, e, c, y,
                               Append(Append(s, LevelAt(o, p)), LevelAt(l, 0)), o, p, <<>>, NIL)
           /\ DescendantsExact(origin, e, c, y, s, o, p, r, l) =>
                 DescendantsExact(origin, e, c, y,
                                  Append(Append(s, LevelAt(o, p)), LevelAt(l, 0)), o, p, <<>>, NIL)
<1> DEFINE a == LevelAt(o, p)
           b == LevelAt(l, 0)
           t == Append(s, a)
           u == Append(t, b)
<1>1. a.owner = o /\ a.pointer = p /\ b.owner = l /\ b.pointer = 0
  BY DEF LevelAt
<1>2. Looping(children, origin, e, c, y, s, o, p, r, l) /\ IsSeq(s) /\ c <= y /\ y <= e[c]
      /\ Stacked(children, e, c, s)
  BY DEF DescendantsOrder, Idle
<1> HIDE DEF a, b
<1>3. /\ IsLevel(e, c, a) /\ o \in Owners /\ p \in Nat
      /\ l = y /\ l \in Elems(origin[o])
      /\ \A i \in DOMAIN s : Above(children, e, s[i], o)
      /\ y <= e[o]
  BY <1>1, <1>2 DEF Looping, IsLevel, LevelAt, a
<1>4. l \in Owners /\ Within(e, o, l) /\ e[l] <= e[o] /\ e[o] \in Nat /\ e[l] \in Nat
      /\ l <= e[l] /\ l \in Nat
  <2>1. l \in Owners /\ Within(e, o, l) /\ e[l] <= e[o]
    BY <1>3, MemberWithin
  <2>2. l <= e[l] /\ e[l] \in Owners /\ e[o] \in Owners
    BY <1>3, <2>1 DEF Numbered
  <2> QED  BY <2>1, <2>2, OwnersAreNumbers
<1>5. IsSeq(t) /\ IsSeq(u) /\ u # <<>> /\ Last(u) = b /\ Last(t) = a /\ t # <<>>
      /\ DOMAIN t = 1 .. Len(s) + 1 /\ DOMAIN s = 1 .. Len(s) /\ Len(s) \in Nat
      /\ t[Len(s) + 1] = a /\ \A i \in DOMAIN s : t[i] = s[i]
  BY <1>2, Pushed
<1>6. DOMAIN u = 1 .. Len(t) + 1 /\ DOMAIN t = 1 .. Len(t) /\ Len(t) \in Nat
      /\ u[Len(t) + 1] = b /\ \A i \in DOMAIN t : u[i] = t[i]
  BY <1>5, Pushed
<1>7. \A i \in DOMAIN children[o] : p < i => y < children[o][i] /\ e[l] < children[o][i]
  <2> SUFFICES ASSUME NEW i \in DOMAIN children[o], p < i
               PROVE  y < children[o][i] /\ e[l] < children[o][i]
    OBVIOUS
  <2>1. i - p \in DOMAIN r /\ r[i - p] <= children[o][i] /\ y < r[i - p] /\ r \in Seq(Nodes)
    BY <1>2 DEF Looping
  <2>2. r[i - p] \in Nat /\ children[o][i] \in Nat /\ children[o][i] \in Elems(origin[o])
    <3>1. r[i - p] \in Nodes
      BY <2>1
    <3> QED  BY <1>3, <3>1, ListsAreTyped, OwnersAreNumbers
  <2>3. y < children[o][i]
    BY <2>1, <2>2
  <2> QED  BY <1>3, <2>2, <2>3, SiblingsApart
<1>8. IsLevel(e, c, b)
  <2>1. Within(e, c, l)
    BY <1>1, <1>3, <1>4, WithinTransitive DEF IsLevel
  <2> QED  BY <1>1, <1>4, <2>1 DEF IsLevel
<1>9. Stacked(children, e, c, t)
  BY <1>1, <1>2, <1>3, StackedPush
<1>10. \A i \in DOMAIN s : s[i].owner \in Owners
  BY <1>2 DEF Stacked, IsLevel
<1>11. \A i \in DOMAIN children[o] : children[o][i] \in Nat
  BY <1>3, ListsAreTyped
<1>12. \A i \in DOMAIN s : /\ Above(children, e, s[i], l)
                           /\ y <= e[s[i].owner] /\ Later(children, s[i].owner, s[i].pointer, y)
  <2> SUFFICES ASSUME NEW i \in DOMAIN s
               PROVE  /\ Above(children, e, s[i], l)
                      /\ y <= e[s[i].owner] /\ Later(children, s[i].owner, s[i].pointer, y)
    OBVIOUS
  <2> DEFINE q == s[i].owner
             h == s[i].pointer
  <2>1. e[o] <= e[q] /\ Later(children, q, h, e[o]) /\ q \in Owners
    BY <1>3, <1>10 DEF Above
  <2> HIDE DEF q, h
  <2>2. e[q] \in Nat
    BY <2>1, OwnersAreNumbers DEF Numbered
  <2>3. \A j \in DOMAIN children[q] : children[q][j] \in Nat
    BY <2>1, ListsAreTyped
  <2>4. \A j \in DOMAIN children[q] : h < j => e[o] < children[q][j]
    BY <2>1 DEF Later
  <2>5. Later(children, q, h, e[l]) /\ Later(children, q, h, y)
    BY <1>3, <1>4, <2>3, <2>4 DEF Later
  <2>6. e[l] <= e[q] /\ y <= e[q]
    BY <1>3, <1>4, <2>1, <2>2
  <2> QED  BY <2>5, <2>6 DEF Above, q, h
<1>13. \A i \in DOMAIN t : /\ Above(children, e, t[i], l)
                           /\ y <= e[t[i].owner] /\ Later(children, t[i].owner, t[i].pointer, y)
  <2> SUFFICES ASSUME NEW i \in DOMAIN t
               PROVE  /\ Above(children, e, t[i], l)
                      /\ y <= e[t[i].owner] /\ Later(children, t[i].owner, t[i].pointer, y)
    OBVIOUS
  <2>1. CASE i \in DOMAIN s
    BY <1>5, <1>12, <2>1
  <2>2. CASE i \notin DOMAIN s
    <3>1. t[i] = a
      <4>1. i = Len(s) + 1
        BY <1>5, <2>2
      <4> QED  BY <1>5, <4>1
    <3>2. Above(children, e, a, l) /\ y <= e[a.owner] /\ Later(children, a.owner, a.pointer, y)
      BY <1>1, <1>3, <1>4, <1>7 DEF Above, Later
    <3> QED  BY <3>1, <3>2
  <2> QED  BY <2>1, <2>2
<1>14. Stacked(children, e, c, u)
  BY <1>1, <1>5, <1>8, <1>9, <1>13, StackedPush
<1>15. ASSUME NEW i \in DOMAIN u
       PROVE  y <= e[u[i].owner] /\ Later(children, u[i].owner, u[i].pointer, y)
  <2>1. CASE i \in DOMAIN t
    BY <1>6, <1>13, <2>1
  <2>2. CASE i \notin DOMAIN t
    <3>1. u[i] = b
      <4>1. i = Len(t) + 1
        BY <1>6, <2>2
      <4> QED  BY <1>6, <4>1
    <3>2. ASSUME NEW j \in DOMAIN children[l] PROVE y < children[l][j]
      <4>1. children[l][j] \in Elems(origin[l])
        BY <1>4, ListsAreTyped
      <4>2. Within(e, l, children[l][j])
        BY <1>4, <4>1, MemberWithin
      <4> QED  BY <1>3, <4>2 DEF Within
    <3> QED  BY <1>1, <1>3, <1>4, <3>1, <3>2 DEF Later
  <2> QED  BY <2>1, <2>2
<1>16. Idle(children, e, y, u, <<>>, NIL)
  BY <1>5, <1>15 DEF Idle
<1>17. DescendantsOrder(children, origin, e, c, y, u, o, p, <<>>, NIL)
  BY <1>2, <1>5, <1>14, <1>16 DEF DescendantsOrder
<1>18. ASSUME DescendantsExact(origin, e, c, y, s, o, p, r, l)
       PROVE  DescendantsExact(origin, e, c, y, u, o, p, <<>>, NIL)
  <2>1. /\ Chained(origin, c, s) /\ Hangs(origin, c, s, o)
        /\ p \in DOMAIN origin[o] /\ l = origin[o][p]
    BY <1>18 DEF DescendantsExact
  <2>2. Chained(origin, c, t)
    BY <1>1, <1>2, <2>1, ChainedPush
  <2>3. Hangs(origin, c, t, l)
    BY <1>1, <1>5, <2>1 DEF Hangs
  <2>4. Chained(origin, c, u)
    BY <1>1, <1>5, <2>2, <2>3, ChainedPush
  <2>5. y = Done(origin, e, l, 0)
    BY <1>3 DEF Done
  <2> QED  BY <1>1, <1>5, <2>4, <2>5 DEF DescendantsExact
<1> QED  BY <1>17, <1>18 DEF a, b

\* The slice goes on.
LEMMA DescendantsGoOn ==
    ASSUME Base, Started, NEW e, Numbered(origin, size, e), NEW c \in Owners, NEW y \in Nat,
           NEW s, NEW o, NEW p, NEW r, NEW l,
           DescendantsOrder(children, origin, e, c, y, s, o, p, r, l), r # <<>>
    PROVE  /\ Head(r) \in Nodes /\ y < Head(r) /\ Within(e, c, Head(r))
           /\ DescendantsOrder(children, origin, e, c, Head(r), s, o, p + 1, Tail(r), Head(r))
           /\ /\ DescendantsExact(origin, e, c, y, s, o, p, r, l)
              /\ l # NIL => origin[l] = <<>>
              => /\ Head(r) = y + 1
                 /\ DescendantsExact(origin, e, c, Head(r), s, o, p + 1, Tail(r), Head(r))
<1>1. Looping(children, origin, e, c, y, s, o, p, r, l) /\ IsSeq(s) /\ c <= y /\ y <= e[c]
      /\ Stacked(children, e, c, s)
  BY DEF DescendantsOrder, Idle
<1>2. /\ IsLevel(e, c, LevelAt(o, p)) /\ o \in Owners /\ p \in Nat
      /\ o = c \/ Within(e, c, o)
  BY <1>1 DEF Looping, IsLevel, LevelAt
<1> DEFINE z == Head(r)
           q == Tail(r)
<1>3. /\ z = r[1] /\ 1 \in DOMAIN r /\ q \in Seq(Nodes) /\ DOMAIN q = 1 .. Len(q)
      /\ Len(q) \in Nat /\ Len(r) = Len(q) + 1 /\ DOMAIN r = 1 .. Len(q) + 1
      /\ \A i \in 1 .. Len(q) : q[i] = r[i + 1]
  <2>1. r \in Seq(Nodes)
    BY <1>1 DEF Looping
  <2> QED  BY <2>1
<1> HIDE DEF z, q
<1>4. /\ \A i \in DOMAIN r : r[i] \in Elems(origin[o]) /\ y < r[i]
      /\ \A i, j \in DOMAIN r : i < j => r[i] < r[j]
      /\ \A i \in DOMAIN children[o] : p < i => i - p \in DOMAIN r /\ r[i - p] <= children[o][i]
      /\ \A i \in DOMAIN s : Above(children, e, s[i], o)
      /\ y <= e[o]
      /\ l # NIL => l = y /\ l \in Elems(origin[o])
  BY <1>1 DEF Looping
<1>5. /\ z \in Elems(origin[o]) /\ y < z /\ z \in Nodes /\ z \in Owners /\ Within(e, o, z)
      /\ e[z] <= e[o] /\ z \in Nat /\ e[z] \in Nat /\ z <= e[o] /\ e[o] \in Nat
  <2>1. z \in Elems(origin[o]) /\ y < z
    BY <1>3, <1>4
  <2>2. z \in Nodes /\ z \in Owners /\ Within(e, o, z) /\ e[z] <= e[o]
    BY <1>2, <2>1, MemberWithin
  <2>3. e[z] \in Owners /\ e[o] \in Owners
    BY <1>2, <2>2 DEF Numbered
  <2> QED  BY <2>1, <2>2, <2>3, OwnersAreNumbers DEF Within
<1>6. Within(e, c, z)
  BY <1>2, <1>5, WithinTransitive
<1>7. IsLevel(e, c, LevelAt(o, p + 1))
  BY <1>2 DEF IsLevel, LevelAt
<1>8. \A i \in 1 .. Len(q) : q[i] \in Elems(origin[o]) /\ z < q[i]
  BY <1>3, <1>4
<1>9. \A i, j \in DOMAIN q : i < j => q[i] < q[j]
  BY <1>3, <1>4
<1>10. \A i \in DOMAIN children[o] :
          p + 1 < i => i - (p + 1) \in DOMAIN q /\ q[i - (p + 1)] <= children[o][i]
  <2> SUFFICES ASSUME NEW i \in DOMAIN children[o], p + 1 < i
               PROVE  i - (p + 1) \in DOMAIN q /\ q[i - (p + 1)] <= children[o][i]
    OBVIOUS
  <2>1. i \in Nat
    BY <1>2, ListsAreTyped
  <2>2. i - p \in DOMAIN r /\ r[i - p] <= children[o][i]
    BY <1>2, <1>4, <2>1
  <2>3. i - (p + 1) \in 1 .. Len(q) /\ (i - (p + 1)) + 1 = i - p
    BY <1>2, <1>3, <2>1, <2>2
  <2> QED  BY <1>3, <2>2, <2>3
<1>11. Looping(children, origin, e, c, z, s, o, p + 1, q, z)
  BY <1>3, <1>4, <1>5, <1>7, <1>8, <1>9, <1>10 DEF Looping
<1>12. c <= z /\ z <= e[c]
  BY <1>6, <1>5, OwnersAreNumbers DEF Within
<1>13. DescendantsOrder(children, origin, e, c, z, s, o, p + 1, q, z)
  BY <1>1, <1>11, <1>12 DEF DescendantsOrder
<1>14. ASSUME DescendantsExact(origin, e, c, y, s, o, p, r, l), l # NIL => origin[l] = <<>>
       PROVE  z = y + 1 /\ DescendantsExact(origin, e, c, z, s, o, p + 1, q, z)
  <2>1. /\ Chained(origin, c, s) /\ Hangs(origin, c, s, o)
        /\ p # 0 => p \in DOMAIN origin[o]
        /\ Len(r) = Len(origin[o]) - p
        /\ \A i \in 1 .. Len(r) : r[i] = origin[o][p + i]
        /\ IF l = NIL THEN y = Done(origin, e, o, p)
           ELSE p # 0 /\ l = origin[o][p] /\ y = l
    BY <1>14 DEF DescendantsExact
  <2>2. y = Done(origin, e, o, p)
    <3>1. ASSUME l # NIL PROVE e[l] = l
      <4>1. l \in Owners
        BY <1>2, <1>4, <3>1, MemberWithin
      <4> QED  BY <1>14, <3>1, <4>1 DEF Numbered
    <3> QED  BY <2>1, <3>1 DEF Done
  <2>3. p + 1 \in DOMAIN origin[o] /\ DOMAIN origin[o] = 1 .. Len(origin[o])
        /\ Len(origin[o]) \in Nat
    <3>1. DOMAIN origin[o] = 1 .. Len(origin[o]) /\ Len(origin[o]) \in Nat
      BY <1>2, ListsAreTyped
    <3> QED  BY <1>2, <1>3, <2>1, <3>1
  <2>4. z = origin[o][p + 1]
    <3>1. 1 \in 1 .. Len(r)
      BY <1>3
    <3> QED  BY <1>3, <2>1, <3>1
  <2>5. z = y + 1
    BY <1>2, <2>2, <2>3, <2>4, DoneNext
  <2>6. Len(q) = Len(origin[o]) - (p + 1)
    <3>1. PICK a \in Nat : a = Len(r)
      BY <1>3
    <3>2. PICK b \in Nat : b = Len(origin[o])
      BY <2>3
    <3>3. Len(q) = a - 1
      BY <1>3, <3>1
    <3>4. a = b - p
      BY <2>1, <3>1, <3>2
    <3> QED  BY <1>2, <3>2, <3>3, <3>4
  <2>7. ASSUME NEW i \in 1 .. Len(q) PROVE q[i] = origin[o][(p + 1) + i]
    <3>1. i + 1 \in 1 .. Len(r) /\ p + (i + 1) = (p + 1) + i
      BY <1>2, <1>3
    <3> QED  BY <1>3, <2>1, <3>1
  <2>8. z # NIL /\ p + 1 # 0 /\ p + 1 \in Nat
    BY <1>2, <1>5, NilIsNoOwner
  <2> QED  BY <1>2, <2>1, <2>3, <2>4, <2>5, <2>6, <2>7, <2>8 DEF DescendantsExact
<1> QED  BY <1>5, <1>6, <1>13, <1>14 DEF z, q

LEMMA Sliced ==
    ASSUME NEW S, NEW s \in Seq(S), NEW p \in Nat
    PROVE  LET q == SubSeq(s, p + 1, Len(s)) IN
           /\ q \in Seq(S) /\ Len(q) \in Nat /\ DOMAIN q = 1 .. Len(q)
           /\ Len(q) = IF p <= Len(s) THEN Len(s) - p ELSE 0
           /\ \A k \in 1 .. Len(q) : q[k] = s[p + k] /\ p + k \in DOMAIN s
<1> DEFINE m == p + 1
           n == Len(s)
           q == SubSeq(s, m, n)
<1>1. n \in Nat /\ DOMAIN s = 1 .. n /\ \A i \in 1 .. n : s[i] \in S
  OBVIOUS
<1>2. m \in Int /\ n \in Int /\ m \in Nat
  BY <1>1
<1>3. \A i \in m .. n : s[i] \in S
  BY <1>1, <1>2
<1> HIDE DEF m, n
<1>4. /\ q \in Seq(S)
      /\ Len(q) = (IF m <= n THEN n - m + 1 ELSE 0)
      /\ \A k \in 1 .. n - m + 1 : q[k] = s[m + k - 1]
  BY <1>2, <1>3, SubSeqProperties
<1> HIDE DEF q
<1>5. Len(q) = IF p <= n THEN n - p ELSE 0
  BY <1>1, <1>4 DEF m
<1>6. Len(q) \in Nat /\ DOMAIN q = 1 .. Len(q)
  BY <1>4
<1>7. ASSUME NEW k \in 1 .. Len(q) PROVE q[k] = s[p + k] /\ p + k \in DOMAIN s
  <2>1. k \in 1 .. n - m + 1 /\ m + k - 1 = p + k /\ p + k \in 1 .. n
    BY <1>1, <1>5, <1>6 DEF m
  <2> QED  BY <1>1, <1>4, <2>1
<1> QED  BY <1>4, <1>5, <1>6, <1>7 DEF q, m, n

\* The slice is used up, the latest level is returned to.
LEMMA DescendantsGoUp ==
    ASSUME Base, Started, NEW e, Numbered(origin, size, e), NEW c \in Owners, NEW y \in Nat,
           NEW s, NEW o, NEW p, NEW l, NEW t, IsSeq(t), NEW x, s = Append(t, x),
           DescendantsOrder(children, origin, e, c, y, s, o, p, <<>>, l)
    PROVE  LET q == SubSeq(children[x.owner], x.pointer + 1, Len(children[x.owner])) IN
           /\ DescendantsOrder(children, origin, e, c, y, t, x.owner, x.pointer, q, NIL)
           /\ /\ DescendantsExact(origin, e, c, y, s, o, p, <<>>, l)
              /\ l # NIL => origin[l] = <<>>
              /\ children = origin
              => DescendantsExact(origin, e, c, y, t, x.owner, x.pointer, q, NIL)
<1> DEFINE q == SubSeq(children[x.owner], x.pointer + 1, Len(children[x.owner]))
<1>1. IsSeq(s) /\ c <= y /\ y <= e[c] /\ Stacked(children, e, c, s)
      /\ (Idle(children, e, y, s, <<>>, l) \/ Looping(children, origin, e, c, y, s, o, p, <<>>, l))
  BY DEF DescendantsOrder
<1>2. /\ Stacked(children, e, c, t) /\ IsLevel(e, c, x)
      /\ \A i \in DOMAIN t : Above(children, e, t[i], x.owner)
  <2>1. Stacked(children, e, c, s)
    BY <1>1
  <2>2. Stacked(children, e, c, Append(t, x))
    BY <2>1, Zenon
  <2> QED  BY <2>2, StackedPush
<1>3. x.owner \in Owners /\ x.pointer \in Nat
  BY <1>2 DEF IsLevel
<1>4. Len(s) \in DOMAIN s /\ s[Len(s)] = x /\ s # <<>> /\ Last(s) = x
  <2>1. Len(t) \in Nat /\ Len(s) = Len(t) + 1 /\ s[Len(t) + 1] = x
        /\ DOMAIN s = 1 .. Len(t) + 1 /\ s # <<>> /\ Last(s) = x
    BY Pushed
  <2> QED  BY <2>1
<1>5. y <= e[x.owner] /\ Later(children, x.owner, x.pointer, y)
  <2>1. CASE Idle(children, e, y, s, <<>>, l)
    BY <1>4, <2>1 DEF Idle
  <2>2. CASE Looping(children, origin, e, c, y, s, o, p, <<>>, l)
    <3>1. Above(children, e, x, o) /\ y <= e[o] /\ o \in Owners
      BY <1>4, <2>2 DEF Looping, IsLevel, LevelAt
    <3>2. e[o] \in Nat /\ e[x.owner] \in Nat
      BY <1>3, <3>1, OwnersAreNumbers DEF Numbered
    <3>3. \A i \in DOMAIN children[x.owner] : children[x.owner][i] \in Nat
      BY <1>3, ListsAreTyped
    <3> QED  BY <3>1, <3>2, <3>3 DEF Above, Later
  <2> QED  BY <1>1, <2>1, <2>2
<1>6. children[x.owner] \in Seq(Nodes)
  BY <1>3, ListsAreTyped
<1>7. /\ q \in Seq(Nodes) /\ Len(q) \in Nat /\ DOMAIN q = 1 .. Len(q)
      /\ Len(q) = IF x.pointer <= Len(children[x.owner])
                  THEN Len(children[x.owner]) - x.pointer ELSE 0
      /\ \A k \in 1 .. Len(q) : /\ q[k] = children[x.owner][x.pointer + k]
                                /\ x.pointer + k \in DOMAIN children[x.owner]
  BY <1>3, <1>6, Sliced
<1> HIDE DEF q
<1>8. \A i \in DOMAIN q : q[i] \in Elems(origin[x.owner]) /\ y < q[i]
  <2> SUFFICES ASSUME NEW i \in DOMAIN q
               PROVE  q[i] \in Elems(origin[x.owner]) /\ y < q[i]
    OBVIOUS
  <2>1. x.pointer < x.pointer + i
    BY <1>3, <1>7
  <2> QED  BY <1>3, <1>5, <1>7, <2>1, ListsAreTyped DEF Later
<1>9. \A i, j \in DOMAIN q : i < j => q[i] < q[j]
  <2> SUFFICES ASSUME NEW i \in DOMAIN q, NEW j \in DOMAIN q, i < j PROVE q[i] < q[j]
    OBVIOUS
  <2>1. i \in 1 .. Len(q) /\ j \in 1 .. Len(q)
    BY <1>7
  <2>2. x.pointer + i < x.pointer + j
    BY <1>3, <2>1
  <2>3. /\ q[i] = children[x.owner][x.pointer + i]
        /\ x.pointer + i \in DOMAIN children[x.owner]
        /\ q[j] = children[x.owner][x.pointer + j]
        /\ x.pointer + j \in DOMAIN children[x.owner]
    BY <1>7, <2>1
  <2> QED  BY <1>3, <2>2, <2>3, ListsAreTyped
<1>10. ASSUME NEW i \in DOMAIN children[x.owner], x.pointer < i
       PROVE  i - x.pointer \in DOMAIN q /\ q[i - x.pointer] <= children[x.owner][i]
  <2>1. i \in 1 .. Len(children[x.owner]) /\ Len(children[x.owner]) \in Nat
        /\ children[x.owner][i] \in Nat
    BY <1>3, ListsAreTyped
  <2>2. PICK a \in Nat : a = Len(children[x.owner])
    BY <2>1
  <2>3. i \in Nat /\ x.pointer \in Nat /\ i <= a
    BY <1>3, <2>1, <2>2
  <2>4. Len(q) = a - x.pointer
    BY <1>7, <1>10, <2>2, <2>3
  <2>5. i - x.pointer \in 1 .. Len(q) /\ x.pointer + (i - x.pointer) = i
    BY <1>10, <2>2, <2>3, <2>4
  <2> QED  BY <1>7, <2>1, <2>5
<1>11. IsLevel(e, c, LevelAt(x.owner, x.pointer))
  BY <1>2 DEF IsLevel, LevelAt
<1>12. Looping(children, origin, e, c, y, t, x.owner, x.pointer, q, NIL)
  BY <1>2, <1>5, <1>7, <1>8, <1>9, <1>10, <1>11 DEF Looping
<1>13. DescendantsOrder(children, origin, e, c, y, t, x.owner, x.pointer, q, NIL)
  BY <1>1, <1>2, <1>12 DEF DescendantsOrder
<1>14. ASSUME DescendantsExact(origin, e, c, y, s, o, p, <<>>, l),
              l # NIL => origin[l] = <<>>,
              children = origin
       PROVE  DescendantsExact(origin, e, c, y, t, x.owner, x.pointer, q, NIL)
  <2>1. Chained(origin, c, t) /\ Hangs(origin, c, t, x.owner)
    BY <1>14, ChainedPush DEF DescendantsExact
  <2>2. /\ x.pointer # 0 => x.pointer \in DOMAIN origin[x.owner]
        /\ y = Done(origin, e, x.owner, x.pointer)
    <3>1. CASE /\ x.pointer # 0 => x.pointer \in DOMAIN origin[x.owner]
               /\ y = Done(origin, e, x.owner, x.pointer)
      BY <3>1
    <3>2. CASE ~(/\ x.pointer # 0 => x.pointer \in DOMAIN origin[x.owner]
                 /\ y = Done(origin, e, x.owner, x.pointer))
      <4>1. /\ Hangs(origin, c, s, o)
            /\ o \in Owners /\ p \in Nat
            /\ p # 0 => p \in DOMAIN origin[o]
            /\ Len(<<>>) = Len(origin[o]) - p
            /\ IF l = NIL THEN y = Done(origin, e, o, p)
               ELSE p # 0 /\ l = origin[o][p] /\ y = l
        BY <1>4, <1>14, <3>2 DEF DescendantsExact
      <4>2. x.pointer \in DOMAIN origin[x.owner] /\ origin[x.owner][x.pointer] = o
        BY <1>4, <4>1 DEF Hangs
      <4>3. x.pointer # 0
        BY <1>3, <4>2, ListsAreTyped
      <4>4. l # NIL => l \in Elems(origin[o])
        BY <4>1 DEF Elems
      <4>5. 0 = Len(origin[o]) - p
        <5>1. Len(<<>>) = 0
          OBVIOUS
        <5> QED  BY <4>1, <5>1
      <4>6. y = e[o]
        <5>1. Len(origin[o]) \in Nat
          BY <4>1, ListsAreTyped
        <5>2. p = Len(origin[o])
          BY <4>1, <4>5, <5>1
        <5>3. Done(origin, e, o, p) = e[o]
          BY <4>1, <5>2, DoneAll
        <5>4. ASSUME l # NIL PROVE e[l] = l
          <6>1. l \in Owners
            BY <4>1, <4>4, <5>4, MemberWithin
          <6> QED  BY <1>14, <5>4, <6>1 DEF Numbered
        <5> QED  BY <4>1, <5>3, <5>4 DEF Done
      <4> QED  BY <4>2, <4>3, <4>6 DEF Done
    <3> QED  BY <3>1, <3>2
  <2>3. Len(q) = Len(origin[x.owner]) - x.pointer
    <3>1. DOMAIN origin[x.owner] = 1 .. Len(origin[x.owner]) /\ Len(origin[x.owner]) \in Nat
      BY <1>3, ListsAreTyped
    <3>2. x.pointer <= Len(origin[x.owner])
      BY <1>3, <2>2, <3>1
    <3> QED  BY <1>7, <1>14, <3>2
  <2> QED  BY <1>3, <1>7, <1>14, <2>1, <2>2, <2>3 DEF DescendantsExact
<1> QED  BY <1>13, <1>14 DEF q

LEMMA DescendantsReturn ==
    ASSUME Base, Started, NEW e, Numbered(origin, size, e), NEW c \in Owners, NEW y \in Nat,
           NEW o, NEW p, NEW l,
           DescendantsOrder(children, origin, e, c, y, <<>>, o, p, <<>>, l),
           DescendantsExact(origin, e, c, y, <<>>, o, p, <<>>, l),
           l # NIL => origin[l] = <<>>
    PROVE  y = e[c]
<1>1. /\ o = c /\ o \in Owners /\ p \in Nat
      /\ p # 0 => p \in DOMAIN origin[o]
      /\ Len(<<>>) = Len(origin[o]) - p
      /\ IF l = NIL THEN y = Done(origin, e, o, p)
         ELSE p # 0 /\ l = origin[o][p] /\ y = l
  BY DEF DescendantsExact, Hangs
<1>2. Len(<<>>) = 0 /\ Len(origin[o]) \in Nat
  BY <1>1, ListsAreTyped
<1>3. p = Len(origin[o])
  BY <1>1, <1>2
<1>4. Done(origin, e, o, p) = e[o]
  BY <1>1, <1>3, DoneAll
<1>5. ASSUME l # NIL PROVE e[l] = l
  <2>1. l \in Elems(origin[o])
    BY <1>1, <1>5 DEF Elems
  <2>2. l \in Owners
    BY <1>1, <2>1, MemberWithin
  <2> QED  BY <1>5, <2>2 DEF Numbered
<1> QED  BY <1>1, <1>4, <1>5 DEF Done

LEMMA DescendantsFields ==
    ASSUME NEW s, NEW o, NEW p, NEW r, NEW l, NEW fr, fr = DescendantsState(s, o, p, r, l)
    PROVE  /\ fr.gen = "descendants" /\ fr.stack = s /\ fr.owner = o /\ fr.pointer = p
           /\ fr.rest = r /\ fr.last = l
BY DEF DescendantsState

DescendTo(fr, a, b, c) == [fr EXCEPT !.stack = a, !.rest = b, !.last = c]

GoOnWith(fr, a, b, c) == [fr EXCEPT !.rest = a, !.last = b, !.pointer = c]

GoUpTo(fr, a, b, c, d, h) ==
    [fr EXCEPT !.stack = a, !.last = b, !.owner = c, !.pointer = d, !.rest = h]

LEMMA DescendantsDeeper ==
    ASSUME NEW s, NEW o, NEW p, NEW r, NEW l, NEW fr, fr = DescendantsState(s, o, p, r, l),
           NEW a, NEW b, NEW c
    PROVE  DescendTo(fr, a, b, c) = DescendantsState(a, o, p, b, c)
<1>1. [fr EXCEPT !.stack = a] = DescendantsState(a, o, p, r, l)
  BY DEF DescendantsState
<1>2. [DescendantsState(a, o, p, r, l) EXCEPT !.rest = b] = DescendantsState(a, o, p, b, l)
  BY DEF DescendantsState
<1>3. [DescendantsState(a, o, p, b, l) EXCEPT !.last = c] = DescendantsState(a, o, p, b, c)
  BY DEF DescendantsState
<1>4. [fr EXCEPT !.stack = a, !.rest = b, !.last = c]
         = [[[fr EXCEPT !.stack = a] EXCEPT !.rest = b] EXCEPT !.last = c]
  BY Zenon
<1> QED  BY <1>1, <1>2, <1>3, <1>4, Zenon DEF DescendTo

LEMMA DescendantsNext ==
    ASSUME NEW s, NEW o, NEW p, NEW r, NEW l, NEW fr, fr = DescendantsState(s, o, p, r, l),
           NEW a, NEW b, NEW c
    PROVE  GoOnWith(fr, a, b, c) = DescendantsState(s, o, c, a, b)
<1>1. [fr EXCEPT !.rest = a] = DescendantsState(s, o, p, a, l)
  BY DEF DescendantsState
<1>2. [DescendantsState(s, o, p, a, l) EXCEPT !.last = b] = DescendantsState(s, o, p, a, b)
  BY DEF DescendantsState
<1>3. [DescendantsState(s, o, p, a, b) EXCEPT !.pointer = c] = DescendantsState(s, o, c, a, b)
  BY DEF DescendantsState
<1>4. [fr EXCEPT !.rest = a, !.last = b, !.pointer = c]
         = [[[fr EXCEPT !.rest = a] EXCEPT !.last = b] EXCEPT !.pointer = c]
  BY Zenon
<1> QED  BY <1>1, <1>2, <1>3, <1>4, Zenon DEF GoOnWith

LEMMA DescendantsHigher ==
    ASSUME NEW s, NEW o, NEW p, NEW r, NEW l, NEW fr, fr = DescendantsState(s, o, p, r, l),
           NEW a, NEW b, NEW c, NEW d, NEW h
    PROVE  GoUpTo(fr, a, b, c, d, h) = DescendantsState(a, c, d, h, b)
<1>1. [fr EXCEPT !.stack = a] = DescendantsState(a, o, p, r, l)
  BY DEF DescendantsState
<1>2. [DescendantsState(a, o, p, r, l) EXCEPT !.last = b] = DescendantsState(a, o, p, r, b)
  BY DEF DescendantsState
<1>3. [DescendantsState(a, o, p, r, b) EXCEPT !.owner = c] = DescendantsState(a, c, p, r, b)
  BY DEF DescendantsState
<1>4. [DescendantsState(a, c, p, r, b) EXCEPT !.pointer = d] = DescendantsState(a, c, d, r, b)
  BY DEF DescendantsState
<1>5. [DescendantsState(a, c, d, r, b) EXCEPT !.rest = h] = DescendantsState(a, c, d, h, b)
  BY DEF DescendantsState
<1>6. [fr EXCEPT !.stack = a, !.last = b, !.owner = c, !.pointer = d, !.rest = h]
         = [[[[[fr EXCEPT !.stack = a] EXCEPT !.last = b] EXCEPT !.owner = c]
               EXCEPT !.pointer = d] EXCEPT !.rest = h]
  BY Zenon
<1>7. [[fr EXCEPT !.stack = a] EXCEPT !.last = b] = DescendantsState(a, o, p, r, b)
  BY <1>1, <1>2, Zenon
<1>8. [[[fr EXCEPT !.stack = a] EXCEPT !.last = b] EXCEPT !.owner = c]
         = DescendantsState(a, c, p, r, b)
  BY <1>3, <1>7, Zenon
<1>9. [[[[fr EXCEPT !.stack = a] EXCEPT !.last = b] EXCEPT !.owner = c] EXCEPT !.pointer = d]
         = DescendantsState(a, c, d, r, b)
  BY <1>4, <1>8, Zenon
<1> QED  BY <1>5, <1>6, <1>9, Zenon DEF GoUpTo

LEMMA DescendantsSteps ==
    ASSUME Base, Started, NEW e, Numbered(origin, size, e), Run, NEW G, IsSeq(G),
           NEW c \in Owners, NEW y \in Nat, NEW fr, frames = Append(G, fr),
           DescendantsAt(e, c, y, fr), Undisturbed => children = origin
    PROVE  DescendantsOutcome(e, c, y)
<1>1. PICK s, o, p, r, l :
        /\ fr = DescendantsState(s, o, p, r, l)
        /\ DescendantsOrder(children, origin, e, c, y, s, o, p, r, l)
        /\ Undisturbed => DescendantsExact(origin, e, c, y, s, o, p, r, l)
  BY DEF DescendantsAt
<1>2. f = fr
  BY TopFrame
<1>3. /\ fr.gen = "descendants" /\ fr.stack = s /\ fr.owner = o /\ fr.pointer = p
      /\ fr.rest = r /\ fr.last = l
  BY <1>1, DescendantsFields
<1>4. StepDescendants
  BY <1>2, <1>3, RunsTop
<1>5. IsSeq(s) /\ c <= y /\ y <= e[c]
  BY <1>1 DEF DescendantsOrder
<1>6. CASE l # NIL /\ children[l] # <<>>
  <2> DEFINE u == Append(Append(s, LevelAt(o, p)), LevelAt(l, 0))
             next == DescendantsState(u, o, p, <<>>, NIL)
  <2>1. s \o Descend(o, p, l) = u
    BY <1>5, PushedTwice DEF Descend, LevelAt
  <2>2. Continue(<<DescendTo(fr, fr.stack \o Descend(fr.owner, fr.pointer, fr.last),
                             <<>>, NIL)>>)
    BY <1>2, <1>3, <1>4, <1>6 DEF StepDescendants, DescendTo
  <2> HIDE DEF u
  <2>3. Continue(<<next>>)
    <3>1. DescendTo(fr, u, <<>>, NIL) = next
      BY <1>1, DescendantsDeeper
    <3> QED  BY <1>3, <2>1, <2>2, <3>1
  <2>4. /\ DescendantsOrder(children, origin, e, c, y, u, o, p, <<>>, NIL)
        /\ DescendantsExact(origin, e, c, y, s, o, p, r, l) =>
              DescendantsExact(origin, e, c, y, u, o, p, <<>>, NIL)
    BY <1>1, <1>6, DescendantsDescend DEF u
  <2>5. DescendantsAt(e, c, y, next)
    BY <1>1, <2>4 DEF DescendantsAt
  <2> QED  BY <2>3, <2>5 DEF DescendantsOutcome
<1>7. CASE ~(l # NIL /\ children[l] # <<>>)
  <2>1. Undisturbed /\ l # NIL => origin[l] = <<>>
    BY <1>7
  <2>2. CASE r # <<>>
    <3> DEFINE next == DescendantsState(s, o, p + 1, Tail(r), Head(r))
    <3>1. Yield(Head(fr.rest),
                <<GoOnWith(fr, Tail(fr.rest), Head(fr.rest), fr.pointer + 1)>>)
      BY <1>2, <1>3, <1>4, <1>7, <2>2 DEF StepDescendants, GoOnWith
    <3>2. Yield(Head(r), <<next>>)
      <4>1. GoOnWith(fr, Tail(r), Head(r), p + 1) = next
        BY <1>1, DescendantsNext
      <4> QED  BY <1>3, <3>1, <4>1
    <3>3. /\ Head(r) \in Nodes /\ y < Head(r) /\ Within(e, c, Head(r))
          /\ DescendantsOrder(children, origin, e, c, Head(r), s, o, p + 1, Tail(r), Head(r))
          /\ Undisturbed =>
                /\ Head(r) = y + 1
                /\ DescendantsExact(origin, e, c, Head(r), s, o, p + 1, Tail(r), Head(r))
      BY <1>1, <2>1, <2>2, DescendantsGoOn
    <3>4. DescendantsAt(e, c, Head(r), next)
      BY <3>3 DEF DescendantsAt
    <3> QED  BY <3>2, <3>3, <3>4 DEF DescendantsOutcome
  <2>3. CASE r = <<>> /\ s = <<>>
    <3>1. Return
      BY <1>2, <1>3, <1>4, <1>7, <2>3 DEF StepDescendants
    <3>2. Undisturbed => y = e[c]
      BY <1>1, <2>1, <2>3, DescendantsReturn
    <3> QED  BY <1>5, <3>1, <3>2 DEF DescendantsOutcome
  <2>4. CASE r = <<>> /\ s # <<>>
    <3>1. PICK t, x : t = Front(s) /\ x = Last(s)
      OBVIOUS
    <3>2. IsSeq(t) /\ s = Append(t, x)
      BY <1>5, <2>4, <3>1, Popping
    <3> DEFINE q == SubSeq(children[x.owner], x.pointer + 1, Len(children[x.owner]))
               next == DescendantsState(t, x.owner, x.pointer, q, NIL)
    <3>3. Continue(<<GoUpTo(fr, Front(fr.stack), NIL,
                            Last(fr.stack).owner, Last(fr.stack).pointer,
                            SubSeq(children[Last(fr.stack).owner],
                                   Last(fr.stack).pointer + 1,
                                   Len(children[Last(fr.stack).owner])))>>)
      BY <1>2, <1>3, <1>4, <1>7, <2>4 DEF StepDescendants, GoUpTo
    <3>4. Continue(<<next>>)
      <4>1. GoUpTo(fr, t, NIL, x.owner, x.pointer, q) = next
        BY <1>1, DescendantsHigher
      <4> QED  BY <1>3, <3>1, <3>3, <4>1
    <3>5. /\ DescendantsOrder(children, origin, e, c, y, t, x.owner, x.pointer, q, NIL)
          /\ Undisturbed => DescendantsExact(origin, e, c, y, t, x.owner, x.pointer, q, NIL)
      BY <1>1, <2>1, <2>4, <3>2, DescendantsGoUp
    <3>6. DescendantsAt(e, c, y, next)
      BY <3>5 DEF DescendantsAt
    <3> QED  BY <3>4, <3>6 DEF DescendantsOutcome
  <2> QED  BY <2>2, <2>3, <2>4
<1> QED  BY <1>6, <1>7

LEMMA DescendantsFrameStarts ==
    ASSUME Base, Started, NEW e, Numbered(origin, size, e), NEW c \in Nodes
    PROVE  DescendantsAt(e, c, c, DescendantsFrame(c))
<1> DEFINE x == LevelAt(c, 0)
           s == <<x>>
<1>1. c \in Owners /\ c \in Nat
  BY OwnersAreNumbers
<1>2. c <= e[c]
  BY <1>1 DEF Numbered
<1>3. x.owner = c /\ x.pointer = 0
  BY DEF LevelAt
<1>4. DescendantsFrame(c) = DescendantsState(s, c, 0, <<>>, NIL)
  BY DEF DescendantsFrame, DescendantsState, LevelAt
<1> HIDE DEF x
<1>5. /\ s = Append(<<>>, x) /\ IsSeq(<<>>) /\ IsSeq(s) /\ s # <<>> /\ Last(s) = x
      /\ DOMAIN s = {1} /\ s[1] = x
  <2>1. s = Append(<<>>, x) /\ IsSeq(<<>>) /\ IsSeq(s)
    BY OneFrame
  <2>2. s # <<>> /\ Last(s) = x
    BY <2>1, Pushed
  <2> QED  BY <2>1, <2>2
<1>6. Stacked(children, e, c, s)
  <2>1. Stacked(children, e, c, <<>>)
    BY DEF Stacked
  <2>2. IsLevel(e, c, x)
    BY <1>1, <1>3 DEF IsLevel
  <2>3. Stacked(children, e, c, Append(<<>>, x))
    <3>1. PICK t : t = <<>>
      OBVIOUS
    <3>2. \A i \in DOMAIN t : Above(children, e, t[i], x.owner)
      BY <3>1
    <3> HIDE DEF x
    <3>3. Stacked(children, e, c, Append(t, x))
      BY <1>5, <2>1, <2>2, <3>1, <3>2, StackedPush
    <3> QED  BY <3>1, <3>3, Zenon
  <2> QED  BY <1>5, <2>3, Zenon
<1>7. Later(children, c, 0, c)
  <2> SUFFICES ASSUME NEW i \in DOMAIN children[c] PROVE c < children[c][i]
    BY DEF Later
  <2>1. children[c][i] \in Elems(origin[c])
    BY <1>1, ListsAreTyped
  <2>2. Within(e, c, children[c][i])
    BY <1>1, <2>1, MemberWithin
  <2> QED  BY <2>2 DEF Within
<1>8. Idle(children, e, c, s, <<>>, NIL)
  BY <1>2, <1>3, <1>5, <1>7 DEF Idle
<1>9. DescendantsOrder(children, origin, e, c, c, s, c, 0, <<>>, NIL)
  BY <1>1, <1>2, <1>5, <1>6, <1>8 DEF DescendantsOrder
<1>10. DescendantsExact(origin, e, c, c, s, c, 0, <<>>, NIL)
  <2>1. Chained(origin, c, <<>>) /\ Hangs(origin, c, <<>>, c)
    BY DEF Chained, Hangs
  <2>2. Chained(origin, c, s)
    <3>1. Chained(origin, c, Append(<<>>, x))
      BY <1>3, <1>5, <2>1, ChainedPush
    <3> QED  BY <1>5, <3>1, Zenon
  <2>3. c = Done(origin, e, c, 0)
    BY DEF Done
  <2> QED  BY <1>3, <1>5, <2>2, <2>3 DEF DescendantsExact
<1> QED  BY <1>4, <1>9, <1>10 DEF DescendantsAt

DescendantsWalk(e) ==
    \E fr : \E y \in Nat :
        /\ frames = <<fr>>
        /\ UpTo(y)
        /\ DescendantsAt(e, walk.node, y, fr)

LEMMA DescendantsStart ==
    ASSUME NEW e, Fresh(e), walk.axis = "descendants"
    PROVE  DescendantsWalk(e)
<1>1. PICK n : n = walk.node
  OBVIOUS
<1>2. walk \in Walks /\ n \in Nodes /\ n \in Owners /\ n <= size /\ n \in Nat
  BY <1>1, OwnersAreNumbers DEF Fresh, Base, Walks
<1>3. \A m \in AxisNodes(walk) : n < m
  BY <1>1, <1>2, AxisFacts DEF Fresh, Within
<1>4. UpTo(n)
  BY <1>2, <1>3, NothingYet DEF Fresh
<1>5. DescendantsAt(e, n, n, DescendantsFrame(n))
  BY <1>2, DescendantsFrameStarts DEF Fresh
<1>6. frames = <<DescendantsFrame(n)>>
  BY <1>1 DEF Fresh, FirstFrame
<1> QED  BY <1>1, <1>2, <1>4, <1>5, <1>6 DEF DescendantsWalk

LEMMA DescendantsRest ==
    ASSUME Base, Base', Started, Started', NEW e, Numbered(origin, size, e),
           DescendantsWalk(e), Rests
    PROVE  DescendantsWalk(e)'
<1>1. PICK n : n = walk.node
  OBVIOUS
<1>2. PICK fr : \E y \in Nat : frames = <<fr>> /\ UpTo(y) /\ DescendantsAt(e, n, y, fr)
  BY <1>1 DEF DescendantsWalk
<1>3. PICK y \in Nat : frames = <<fr>> /\ UpTo(y) /\ DescendantsAt(e, n, y, fr)
  BY <1>2
<1>4. n \in Owners
  BY <1>1, OwnersAreNumbers DEF Base, Walks
<1>5. UpTo(y)'
  BY <1>3, ProgressStays DEF Rests
<1>6. DescendantsAt(e, n, y, fr)'
  BY <1>3, <1>4, DescendantsStay DEF Rests
<1>7. frames' = <<fr>> /\ walk'.node = n
  BY <1>1, <1>3 DEF Rests, Keeps
<1> QED  BY <1>3, <1>5, <1>6, <1>7 DEF DescendantsWalk

LEMMA DescendantsStep ==
    ASSUME Base, Base', Started, Started', NEW e, Numbered(origin, size, e), Keeps, Run,
           walk.axis = "descendants", DescendantsWalk(e)
    PROVE  (Active' /\ DescendantsWalk(e)') \/ Ended'
<1>1. PICK n : n = walk.node
  OBVIOUS
<1>2. PICK fr : \E y \in Nat : frames = <<fr>> /\ UpTo(y) /\ DescendantsAt(e, n, y, fr)
  BY <1>1 DEF DescendantsWalk
<1>3. PICK y \in Nat : frames = <<fr>> /\ UpTo(y) /\ DescendantsAt(e, n, y, fr)
  BY <1>2
<1>4. n \in Owners /\ n \in Nodes /\ n \in Nat /\ walk \in Walks /\ walk.node <= size
  BY <1>1, OwnersAreNumbers DEF Base, Walks
<1>5. \A m : m \in AxisNodes(walk) <=> m \in Nodes /\ Within(e, n, m)
  BY <1>1, <1>4, AxisFacts
<1>6. Undisturbed => children = origin
  BY LeftAlone DEF IsRobust
<1>7. frames = Append(<<>>, fr) /\ IsSeq(<<>>) /\ \A x : Inner(<<x>>) = <<x>>
  <2>1. frames = Append(<<>>, fr) /\ IsSeq(<<>>)
    BY <1>3, OneFrame
  <2> QED  BY <2>1, TopFrame, OneFrame
<1>8. DescendantsOutcome(e, n, y)
  BY <1>3, <1>4, <1>6, <1>7, DescendantsSteps
<1>9. walk'.node = n
  BY <1>1 DEF Keeps
<1>10. ASSUME Return, Undisturbed => y = e[n]
       PROVE  Ended'
  <2>1. ASSUME Undisturbed PROVE Exhausted
    <3>1. \A m \in AxisNodes(walk) : m <= y
      BY <1>5, <1>10, <2>1 DEF Within
    <3> QED  BY <1>3, <2>1, <3>1 DEF UpTo, Exhausted
  <2> QED  BY <1>3, <1>7, <1>10, <2>1, WalkEnds DEF UpTo
<1>11. ASSUME NEW next, Continue(<<next>>), DescendantsAt(e, n, y, next)
       PROVE  Active' /\ DescendantsWalk(e)'
  <2>1. yielded' = yielded /\ status' = "running" /\ frames' = <<next>>
    <3>1. Inner(<<next>>) = <<next>> /\ <<next>> # <<>>
      BY <1>7
    <3> QED  BY <1>11, <3>1 DEF Continue
  <2>2. UpTo(y)'
    BY <1>3, <2>1, ProgressStays
  <2>3. DescendantsAt(e, n, y, next)'
    BY <1>3, <1>4, <1>11, RunAdvances, DescendantsStay
  <2> QED  BY <1>3, <1>9, <2>1, <2>2, <2>3 DEF DescendantsWalk, Active
<1>12. ASSUME NEW z \in Nodes, NEW next, Yield(z, <<next>>), DescendantsAt(e, n, z, next),
              y < z, Within(e, n, z), Undisturbed => z = y + 1
       PROVE  Active' /\ DescendantsWalk(e)'
  <2>1. yielded' = Append(yielded, z) /\ status' = "suspended" /\ frames' = <<next>>
    BY <1>7, <1>12 DEF Yield
  <2>2. z \in Nat /\ z \in AxisNodes(walk)
    BY <1>5, <1>12, OwnersAreNumbers
  <2>3. ASSUME Undisturbed, NEW m \in AxisNodes(walk), m < z PROVE m <= y
    <3>1. m \in Nat
      BY AxisIsTyped
    <3> QED  BY <1>3, <1>12, <2>3, <3>1
  <2>4. UpTo(z)'
    BY <1>3, <1>12, <2>1, <2>2, <2>3, YieldsUp DEF Rising
  <2>5. DescendantsAt(e, n, z, next)'
    BY <1>4, <1>12, <2>2, RunAdvances, DescendantsStay
  <2> QED  BY <1>9, <2>1, <2>2, <2>4, <2>5 DEF DescendantsWalk, Active
<1> QED  BY <1>8, <1>10, <1>11, <1>12 DEF DescendantsOutcome

-----------------------------------------------------------------------------
(* The stack of a bottom-up walk *)

ListAt(n, r) == [node |-> n, rest |-> r]

\* A node below c, or c, with children that are still to be walked
IsListLevel(L, e, c, x) ==
    /\ x = ListAt(x.node, x.rest)
    /\ x.node \in Nodes
    /\ x.node = c \/ Within(e, c, x.node)
    /\ x.rest \in Seq(Nodes)
    /\ \A k \in DOMAIN x.rest : x.rest[k] \in Elems(L[x.node])
    /\ \A j, k \in DOMAIN x.rest : j < k => x.rest[j] < x.rest[k]

LEMMA ListFields ==
    ASSUME NEW n, NEW r
    PROVE  /\ ListAt(n, r).node = n /\ ListAt(n, r).rest = r
           /\ \A q : [ListAt(n, r) EXCEPT !.rest = q] = ListAt(n, q)
BY DEF ListAt

Restacked(fr, t) == [fr EXCEPT !.stack = t]

OnBottomUp(fr) == fr.gen = "bottom up"

LEMMA BottomUpFields ==
    ASSUME NEW forward, NEW s, NEW fr, fr = BottomUpState(forward, s)
    PROVE  /\ OnBottomUp(fr) /\ fr.forward = forward /\ fr.stack = s
           /\ \A t : Restacked(fr, t) = BottomUpState(forward, t)
<1>1. OnBottomUp(fr)
  BY Zenon DEF BottomUpState, OnBottomUp
<1>2. PICK g : g = "bottom up"
  OBVIOUS
<1> DEFINE r(t) == [gen |-> g, forward |-> forward, stack |-> t]
<1>3. \A t : r(t) = BottomUpState(forward, t)
  BY <1>2, Zenon DEF BottomUpState
<1>4. /\ r(s).forward = forward /\ r(s).stack = s
      /\ \A t : [r(s) EXCEPT !.stack = t] = r(t)
  OBVIOUS
<1>5. fr = r(s)
  BY <1>3
<1>6. fr.forward = forward /\ fr.stack = s
  BY <1>4, <1>5
<1>7. \A t : Restacked(fr, t) = BottomUpState(forward, t)
  BY <1>3, <1>4, <1>5 DEF Restacked
<1> QED  BY <1>1, <1>6, <1>7, Zenon

\* the step of such a frame, by its stack
BottomUpTurn(forward, s) ==
    IF s = <<>> THEN Return
    ELSE IF Last(s).rest = <<>>
    THEN Yield(Last(s).node, <<BottomUpState(forward, Front(s))>>)
    ELSE LET n == Last(s).node
             r == Last(s).rest
             m == IF forward THEN Head(r) ELSE Last(r)
             kept == Append(Front(s), ListAt(n, IF forward THEN Tail(r) ELSE Front(r)))
         IN  IF children[m] = <<>> THEN Yield(m, <<BottomUpState(forward, kept)>>)
             ELSE Continue(<<BottomUpState(forward, Append(kept, ListAt(m, children[m])))>>)

LEMMA BottomUpTurns ==
    ASSUME Run, NEW G, IsSeq(G), NEW forward, NEW s, frames = Append(G, BottomUpState(forward, s)),
           s # <<>> => Last(s) = ListAt(Last(s).node, Last(s).rest)
    PROVE  BottomUpTurn(forward, s)
<1>1. PICK fr : fr = BottomUpState(forward, s)
  OBVIOUS
<1>2. frames = Append(G, fr)
  BY <1>1
<1>3. f = fr
  BY <1>2, TopFrame
<1>4. /\ OnBottomUp(fr) /\ fr.forward = forward /\ fr.stack = s
      /\ \A t : Restacked(fr, t) = BottomUpState(forward, t)
  BY <1>1, BottomUpFields
<1>5. StepBottomUp
  BY <1>3, <1>4, RunsTop, Zenon DEF OnBottomUp
<1>6. IF fr.stack = <<>> THEN Return
      ELSE LET top == Last(fr.stack)
               under == Front(fr.stack) IN
           IF top.rest = <<>> THEN Yield(top.node, <<Restacked(fr, under)>>)
           ELSE LET n == IF fr.forward THEN Head(top.rest) ELSE Last(top.rest)
                    kept == Append(under, Popped(top)) IN
                IF children[n] = <<>> THEN Yield(n, <<Restacked(fr, kept)>>)
                ELSE Continue(<<Restacked(fr, Append(kept, [node |-> n, rest |-> children[n]]))>>)
  BY <1>3, <1>5, Zenon DEF StepBottomUp, Restacked
<1>7. ASSUME s # <<>>
      PROVE  Popped(Last(s)) = ListAt(Last(s).node, IF forward THEN Tail(Last(s).rest)
                                                    ELSE Front(Last(s).rest))
  <2>1. PICK x, n, r : x = Last(s) /\ x = ListAt(n, r) /\ n = x.node /\ r = x.rest
    BY <1>7
  <2>2. Popped(x) = IF forward THEN [x EXCEPT !.rest = Tail(x.rest)]
                    ELSE [x EXCEPT !.rest = Front(x.rest)]
    BY <1>3, <1>4, Zenon DEF Popped
  <2>3. \A q : [x EXCEPT !.rest = q] = ListAt(n, q)
    BY <2>1, ListFields
  <2>4. Popped(x) = ListAt(n, IF forward THEN Tail(r) ELSE Front(r))
    BY <2>1, <2>2, <2>3
  <2> QED  BY <2>1, <2>4
<1>8. CASE s = <<>>
  BY <1>4, <1>6, <1>8, Zenon DEF BottomUpTurn
<1>9. CASE s # <<>>
  <2> DEFINE x == Last(s)
             m == IF forward THEN Head(x.rest) ELSE Last(x.rest)
             kept == Append(Front(s), Popped(x))
  <2>1. IF x.rest = <<>> THEN Yield(x.node, <<Restacked(fr, Front(s))>>)
        ELSE IF children[m] = <<>> THEN Yield(m, <<Restacked(fr, kept)>>)
             ELSE Continue(<<Restacked(fr, Append(kept, [node |-> m, rest |-> children[m]]))>>)
    BY <1>4, <1>6, <1>9, Zenon
  <2>2. Restacked(fr, Front(s)) = BottomUpState(forward, Front(s))
    BY <1>4, Zenon
  <2>3. Restacked(fr, kept) = BottomUpState(forward, kept)
    BY <1>4, Zenon
  <2>4. Restacked(fr, Append(kept, [node |-> m, rest |-> children[m]]))
           = BottomUpState(forward, Append(kept, ListAt(m, children[m])))
    BY <1>4, Zenon DEF ListAt
  <2>5. IF x.rest = <<>> THEN Yield(x.node, <<BottomUpState(forward, Front(s))>>)
        ELSE IF children[m] = <<>> THEN Yield(m, <<BottomUpState(forward, kept)>>)
             ELSE Continue(<<BottomUpState(forward, Append(kept, ListAt(m, children[m])))>>)
    BY <2>1, <2>2, <2>3, <2>4, Zenon
  <2> HIDE DEF kept
  <2>6. kept = Append(Front(s), ListAt(x.node, IF forward THEN Tail(x.rest) ELSE Front(x.rest)))
    BY <1>7, <1>9, Zenon DEF kept
  <2> QED  BY <1>9, <2>5, <2>6, Zenon DEF BottomUpTurn
<1> QED  BY <1>8, <1>9, Zenon

-----------------------------------------------------------------------------
(* Reversed descendants *)

\* A level's node and the subtrees of its rest end before n.
Before(e, x, n) == x.node < n /\ \A k \in DOMAIN x.rest : e[x.rest[k]] < n

\* s is the stack of a walk back over c's descendants that is at y.
ReverseOrder(L, e, c, y, s) ==
    /\ IsSeq(s)
    /\ \A i \in DOMAIN s : IsListLevel(L, e, c, s[i]) /\ Before(e, s[i], y)
    /\ \A i, j \in DOMAIN s : i < j => Before(e, s[i], s[j].node)

LEMMA ReversePush ==
    ASSUME NEW L, NEW e, NEW c, NEW y, NEW s, IsSeq(s), NEW x
    PROVE  ReverseOrder(L, e, c, y, Append(s, x)) <=>
              /\ ReverseOrder(L, e, c, y, s)
              /\ IsListLevel(L, e, c, x) /\ Before(e, x, y)
              /\ \A i \in DOMAIN s : Before(e, s[i], x.node)
<1> DEFINE t == Append(s, x)
           l == Len(s)
<1>1. /\ l \in Nat /\ DOMAIN s = 1 .. l /\ DOMAIN t = 1 .. l + 1 /\ IsSeq(t)
      /\ t[l + 1] = x /\ \A k \in DOMAIN s : t[k] = s[k]
  BY Pushed
<1> HIDE DEF t, l
<1>2. ASSUME ReverseOrder(L, e, c, y, t)
      PROVE  /\ ReverseOrder(L, e, c, y, s)
             /\ IsListLevel(L, e, c, x) /\ Before(e, x, y)
             /\ \A i \in DOMAIN s : Before(e, s[i], x.node)
  <2>1. l + 1 \in DOMAIN t /\ \A i \in DOMAIN s : i \in DOMAIN t /\ i < l + 1
    BY <1>1
  <2>2. ReverseOrder(L, e, c, y, s)
    BY <1>1, <1>2, <2>1 DEF ReverseOrder
  <2> QED  BY <1>1, <1>2, <2>1, <2>2 DEF ReverseOrder
<1>3. ASSUME ReverseOrder(L, e, c, y, s), IsListLevel(L, e, c, x), Before(e, x, y),
             \A i \in DOMAIN s : Before(e, s[i], x.node)
      PROVE  ReverseOrder(L, e, c, y, t)
  <2>1. ASSUME NEW i \in DOMAIN t PROVE i \in DOMAIN s \/ i = l + 1
    BY <1>1, <2>1
  <2>2. \A i \in DOMAIN t : IsListLevel(L, e, c, t[i]) /\ Before(e, t[i], y)
    BY <1>1, <1>3, <2>1 DEF ReverseOrder
  <2>3. ASSUME NEW i \in DOMAIN t, NEW j \in DOMAIN t, i < j
        PROVE  Before(e, t[i], t[j].node)
    <3>1. i \in DOMAIN s
      BY <1>1, <2>3
    <3>2. CASE j \in DOMAIN s
      BY <1>1, <1>3, <2>3, <3>1, <3>2 DEF ReverseOrder
    <3>3. CASE j = l + 1
      BY <1>1, <1>3, <3>1, <3>3
    <3> QED  BY <2>1, <3>2, <3>3
  <2> QED  BY <1>1, <2>2, <2>3 DEF ReverseOrder
<1> QED  BY <1>2, <1>3 DEF t

\* What is before a node is before any later one.
LEMMA BeforeLater ==
    ASSUME NEW L, NEW z, NEW e, Numbered(L, z, e), NEW c, NEW x, IsListLevel(L, e, c, x),
           NEW m \in Nat, NEW n \in Nat, m <= n, Before(e, x, m)
    PROVE  Before(e, x, n)
<1>1. x.node \in Nat /\ \A k \in DOMAIN x.rest : e[x.rest[k]] \in Nat
  <2>1. x.node \in Nodes /\ \A k \in DOMAIN x.rest : x.rest[k] \in Nodes
    BY DEF IsListLevel
  <2>2. \A k \in DOMAIN x.rest : e[x.rest[k]] \in Owners
    BY <2>1, OwnersAreNumbers DEF Numbered
  <2> QED  BY <2>1, <2>2, OwnersAreNumbers
<1> QED  BY <1>1 DEF Before

\* The last of a level's children is taken.
LEMMA ReverseTake ==
    ASSUME NEW L, NEW z, NEW e, Numbered(L, z, e), NEW c \in Nodes, NEW y \in Nat,
           NEW s, IsSeq(s), NEW n, NEW r, IsSeq(r), NEW m,
           ReverseOrder(L, e, c, y, Append(s, ListAt(n, Append(r, m))))
    PROVE  /\ ReverseOrder(L, e, c, m, Append(s, ListAt(n, r)))
           /\ n \in Nodes /\ m \in Nodes /\ m \in Elems(L[n])
           /\ m < y /\ e[m] < y /\ Within(e, c, m)
<1> DEFINE x == ListAt(n, Append(r, m))
           w == ListAt(n, r)
           q == Append(r, m)
<1>1. x.node = n /\ x.rest = q /\ w.node = n /\ w.rest = r
  BY ListFields
<1>2. /\ ReverseOrder(L, e, c, y, s) /\ IsListLevel(L, e, c, x) /\ Before(e, x, y)
      /\ \A i \in DOMAIN s : Before(e, s[i], n)
  BY <1>1, ReversePush
<1>3. w = ListAt(w.node, w.rest)
  BY <1>1
<1> HIDE DEF x, w
<1>4. /\ Len(r) \in Nat /\ DOMAIN r = 1 .. Len(r) /\ DOMAIN q = 1 .. Len(r) + 1
      /\ q[Len(r) + 1] = m /\ \A k \in DOMAIN r : q[k] = r[k]
  BY Pushed
<1> HIDE DEF q
<1>5. /\ n \in Nodes /\ q \in Seq(Nodes) /\ (n = c \/ Within(e, c, n))
      /\ \A k \in DOMAIN q : q[k] \in Elems(L[n])
      /\ \A j, k \in DOMAIN q : j < k => q[j] < q[k]
  BY <1>1, <1>2 DEF IsListLevel
<1>6. \A k \in DOMAIN r : k \in DOMAIN q /\ q[k] = r[k] /\ k < Len(r) + 1
  BY <1>4
<1>7. Len(r) + 1 \in DOMAIN q
  BY <1>4
<1>8. m \in Elems(L[n]) /\ m \in Nodes /\ m \in Owners /\ m \in Nat /\ n \in Owners
      /\ n \in Nat /\ Within(e, n, m)
  <2>1. m \in Elems(L[n]) /\ n \in Owners
    BY <1>4, <1>5, <1>7, OwnersAreNumbers
  <2> QED  BY <2>1, MemberWithin, OwnersAreNumbers
<1>9. m <= e[m] /\ e[m] \in Nat
  <2>1. m <= e[m] /\ e[m] \in Owners
    BY <1>8 DEF Numbered
  <2> QED  BY <2>1, OwnersAreNumbers
<1>10. e[m] < y
  BY <1>1, <1>2, <1>4, <1>7 DEF Before
<1>11. m < y
  BY <1>8, <1>9, <1>10
<1>12. n < m
  BY <1>8 DEF Within
<1>13. Within(e, c, m)
  <2>1. c \in Owners
    BY OwnersAreNumbers
  <2> QED  BY <1>5, <1>8, <2>1, WithinTransitive
<1>14. r \in Seq(Nodes)
  <2>1. \A k \in 1 .. Len(r) : r[k] \in Nodes
    BY <1>4, <1>5, <1>6
  <2>2. PICK S : r \in Seq(S)
    BY DEF IsSeq
  <2> QED  BY <1>4, <2>1, <2>2
<1>15. ASSUME NEW k \in DOMAIN r PROVE r[k] \in Elems(L[n]) /\ e[r[k]] < m
  <2>1. r[k] \in Elems(L[n]) /\ r[k] < m
    BY <1>4, <1>5, <1>6, <1>7
  <2> QED  BY <1>8, <2>1, SiblingsApart
<1>16. \A j, k \in DOMAIN r : j < k => r[j] < r[k]
  BY <1>5, <1>6
<1>17. IsListLevel(L, e, c, w)
  BY <1>1, <1>3, <1>5, <1>14, <1>15, <1>16 DEF IsListLevel
<1>18. Before(e, w, m)
  BY <1>1, <1>12, <1>15 DEF Before
<1>19. \A i \in DOMAIN s : IsListLevel(L, e, c, s[i]) /\ Before(e, s[i], n)
  BY <1>2 DEF ReverseOrder
<1>20. \A i \in DOMAIN s : Before(e, s[i], m)
  <2> SUFFICES ASSUME NEW i \in DOMAIN s PROVE Before(e, s[i], m)
    OBVIOUS
  <2>1. n <= m /\ IsListLevel(L, e, c, s[i]) /\ Before(e, s[i], n)
    BY <1>8, <1>12, <1>19
  <2> QED  BY <1>8, <2>1, BeforeLater
<1>21. ReverseOrder(L, e, c, m, s)
  BY <1>2, <1>20 DEF ReverseOrder
<1>22. ReverseOrder(L, e, c, m, Append(s, w))
  BY <1>1, <1>2, <1>17, <1>18, <1>21, ReversePush
<1> QED  BY <1>5, <1>8, <1>10, <1>11, <1>13, <1>22 DEF w

\* The children of the node that was taken are next.
LEMMA ReverseInto ==
    ASSUME NEW L, NEW z, NEW e, Numbered(L, z, e), NEW c, NEW y \in Nat,
           NEW s, IsSeq(s), NEW m \in Nodes, ReverseOrder(L, e, c, m, s),
           m < y, e[m] < y, Within(e, c, m), \A i \in DOMAIN s : Before(e, s[i], m),
           NEW q \in Seq(Nodes), \A k \in DOMAIN q : q[k] \in Elems(L[m]),
           \A j, k \in DOMAIN q : j < k => q[j] < q[k]
    PROVE  ReverseOrder(L, e, c, y, Append(s, ListAt(m, q)))
<1> DEFINE x == ListAt(m, q)
<1>1. x.node = m /\ x.rest = q
  BY ListFields
<1>2. x = ListAt(x.node, x.rest)
  BY <1>1
<1> HIDE DEF x
<1>3. m \in Nat /\ m \in Owners /\ e[m] \in Nat
  <2>1. m \in Owners /\ m \in Nat
    BY OwnersAreNumbers
  <2> QED  BY <2>1, OwnersAreNumbers DEF Numbered
<1>4. IsListLevel(L, e, c, x)
  BY <1>1, <1>2 DEF IsListLevel
<1>5. Before(e, x, y)
  <2> SUFFICES ASSUME NEW k \in DOMAIN q PROVE e[q[k]] < y
    BY <1>1 DEF Before
  <2>1. q[k] \in Owners /\ e[q[k]] <= e[m]
    BY <1>3, MemberWithin
  <2>2. e[q[k]] \in Nat
    BY <2>1, OwnersAreNumbers DEF Numbered
  <2> QED  BY <1>3, <2>1, <2>2
<1>6. \A i \in DOMAIN s : IsListLevel(L, e, c, s[i]) /\ Before(e, s[i], m)
  BY DEF ReverseOrder
<1>7. \A i \in DOMAIN s : Before(e, s[i], y)
  <2> SUFFICES ASSUME NEW i \in DOMAIN s PROVE Before(e, s[i], y)
    OBVIOUS
  <2>1. m <= y
    BY <1>3
  <2> QED  BY <1>3, <1>6, <2>1, BeforeLater
<1>8. ReverseOrder(L, e, c, y, s)
  BY <1>6, <1>7 DEF ReverseOrder
<1> QED  BY <1>1, <1>4, <1>5, <1>6, <1>8, ReversePush DEF x

\* the index of the child that is walked below a level
Turn(L, forward, x) == IF forward THEN Len(L[x.node]) - Len(x.rest) ELSE Len(x.rest) + 1

\* A level's rest is the end that was not walked of its node's list.
Fits(L, forward, x) ==
    /\ Len(x.rest) <= Len(L[x.node])
    /\ \A k \in DOMAIN x.rest :
          x.rest[k] = L[x.node][IF forward THEN Len(L[x.node]) - Len(x.rest) + k ELSE k]

TurnsAt(L, forward, c, s, n) ==
    IF s = <<>> THEN n = c
    ELSE /\ Turn(L, forward, Last(s)) \in DOMAIN L[Last(s).node]
         /\ L[Last(s).node][Turn(L, forward, Last(s))] = n

Turned(L, forward, c, s) ==
    \A i \in DOMAIN s :
        /\ Fits(L, forward, s[i])
        /\ IF i = 1 THEN s[i].node = c
           ELSE /\ Turn(L, forward, s[i - 1]) \in DOMAIN L[s[i - 1].node]
                /\ L[s[i - 1].node][Turn(L, forward, s[i - 1])] = s[i].node

LEMMA TurnedPush ==
    ASSUME NEW L, NEW forward, NEW c, NEW s, IsSeq(s), NEW x
    PROVE  Turned(L, forward, c, Append(s, x)) <=>
              /\ Turned(L, forward, c, s)
              /\ Fits(L, forward, x)
              /\ TurnsAt(L, forward, c, s, x.node)
<1> DEFINE t == Append(s, x)
           l == Len(s)
<1>1. /\ l \in Nat /\ DOMAIN s = 1 .. l /\ DOMAIN t = 1 .. l + 1
      /\ t[l + 1] = x /\ \A k \in DOMAIN s : t[k] = s[k]
  BY Pushed
<1>2. s = <<>> <=> l = 0
  <2>1. PICK S : s \in Seq(S)
    BY DEF IsSeq
  <2> QED  BY <2>1
<1>3. Last(s) = s[l]
  BY DEF Last
<1> HIDE DEF t, l
<1> DEFINE Follows(a, n) == /\ Turn(L, forward, a) \in DOMAIN L[a.node]
                            /\ L[a.node][Turn(L, forward, a)] = n
<1>4. TurnsAt(L, forward, c, s, x.node) <=> IF l = 0 THEN x.node = c ELSE Follows(s[l], x.node)
  BY <1>2, <1>3 DEF TurnsAt
<1>5. \A u : Turned(L, forward, c, u) <=>
                \A i \in DOMAIN u : /\ Fits(L, forward, u[i])
                                    /\ IF i = 1 THEN u[i].node = c
                                       ELSE Follows(u[i - 1], u[i].node)
  BY DEF Turned
<1> HIDE DEF Follows
<1>6. ASSUME Turned(L, forward, c, t)
      PROVE  Turned(L, forward, c, s) /\ Fits(L, forward, x) /\ TurnsAt(L, forward, c, s, x.node)
  <2>1. \A i \in DOMAIN s : i \in DOMAIN t /\ (i # 1 => i - 1 \in DOMAIN s)
    BY <1>1
  <2>2. Turned(L, forward, c, s)
    <3> SUFFICES ASSUME NEW i \in DOMAIN s
                 PROVE  /\ Fits(L, forward, s[i])
                        /\ IF i = 1 THEN s[i].node = c ELSE Follows(s[i - 1], s[i].node)
      BY <1>5
    <3>1. i \in DOMAIN t /\ t[i] = s[i] /\ (i # 1 => t[i - 1] = s[i - 1])
      BY <1>1, <2>1
    <3> QED  BY <1>5, <1>6, <3>1
  <2>3. l + 1 \in DOMAIN t /\ (l + 1) - 1 = l /\ (l # 0 => l \in DOMAIN s) /\ (l + 1 = 1 <=> l = 0)
    BY <1>1
  <2>4. /\ Fits(L, forward, t[l + 1])
        /\ IF l + 1 = 1 THEN t[l + 1].node = c ELSE Follows(t[(l + 1) - 1], t[l + 1].node)
    BY <1>5, <1>6, <2>3
  <2> QED  BY <1>1, <1>4, <2>2, <2>3, <2>4
<1>7. ASSUME Turned(L, forward, c, s), Fits(L, forward, x), TurnsAt(L, forward, c, s, x.node)
      PROVE  Turned(L, forward, c, t)
  <2> SUFFICES ASSUME NEW i \in DOMAIN t
               PROVE  /\ Fits(L, forward, t[i])
                      /\ IF i = 1 THEN t[i].node = c ELSE Follows(t[i - 1], t[i].node)
    BY <1>5
  <2>1. CASE i \in DOMAIN s
    <3>1. t[i] = s[i] /\ (i # 1 => t[i - 1] = s[i - 1])
      BY <1>1, <2>1
    <3> QED  BY <1>5, <1>7, <2>1, <3>1
  <2>2. CASE i \notin DOMAIN s
    <3>1. i = l + 1 /\ i - 1 = l /\ (i = 1 <=> l = 0) /\ t[i] = x /\ (i # 1 => t[i - 1] = s[l])
      BY <1>1, <2>2
    <3> QED  BY <1>4, <1>7, <3>1
  <2> QED  BY <2>1, <2>2
<1> QED  BY <1>6, <1>7 DEF t

\* where the walk is in a tree that is as it was found
ReverseExact(L, e, c, y, s) ==
    /\ Turned(L, Plain, c, s)
    /\ y = IF s = <<>> THEN c ELSE Done(L, e, Last(s).node, Len(Last(s).rest)) + 1

\* A level is left, its node comes after its children.
LEMMA ReverseLeave ==
    ASSUME NEW L, NEW z, NEW e, Numbered(L, z, e), NEW c, NEW y,
           NEW s, IsSeq(s), NEW n \in Nodes, \A i \in DOMAIN s : IsListLevel(L, e, c, s[i]),
           ReverseExact(L, e, c, y, Append(s, ListAt(n, <<>>)))
    PROVE  y = n + 1 /\ ReverseExact(L, e, c, n, s)
<1> DEFINE x == ListAt(n, <<>>)
           t == Append(s, x)
<1>1. x.node = n /\ x.rest = <<>>
  BY ListFields
<1> HIDE DEF x
<1>2. t # <<>> /\ Last(t) = x
  BY Pushed
<1>3. Turned(L, Plain, c, s) /\ TurnsAt(L, Plain, c, s, n)
  BY <1>1, TurnedPush DEF ReverseExact, x
<1>4. Len(<<>>) = 0
  OBVIOUS
<1>5. y = n + 1
  <2>1. y = Done(L, e, x.node, Len(x.rest)) + 1
    <3> HIDE DEF t
    <3>1. ReverseExact(L, e, c, y, t)
      BY DEF x, t
    <3> QED  BY <1>2, <3>1 DEF ReverseExact
  <2> QED  BY <1>1, <1>4, <2>1 DEF Done
<1>6. CASE s = <<>>
  BY <1>3, <1>5, <1>6 DEF ReverseExact, TurnsAt
<1>7. CASE s # <<>>
  <2>1. PICK w : w = Last(s)
    OBVIOUS
  <2>2. w.node \in Owners /\ w.rest \in Seq(Nodes)
    <3>1. PICK S : s \in Seq(S)
      BY DEF IsSeq
    <3>2. Len(s) \in DOMAIN s
      BY <1>7, <3>1
    <3>3. IsListLevel(L, e, c, w)
      BY <2>1, <3>2 DEF Last
    <3> QED  BY <3>3, OwnersAreNumbers DEF IsListLevel
  <2>3. Len(w.rest) \in Nat
    BY <2>2
  <2>4. Len(w.rest) + 1 \in DOMAIN L[w.node] /\ L[w.node][Len(w.rest) + 1] = n
    BY <1>3, <1>7, <2>1 DEF TurnsAt, Turn, Plain
  <2>5. n = Done(L, e, w.node, Len(w.rest)) + 1
    BY <2>2, <2>3, <2>4, DoneNext
  <2> QED  BY <1>3, <1>5, <1>7, <2>1, <2>5 DEF ReverseExact
<1> QED  BY <1>6, <1>7

LEMMA ReverseTakeExact ==
    ASSUME NEW L, NEW z, NEW e, Numbered(L, z, e), NEW c, NEW y,
           NEW s, IsSeq(s), NEW n \in Nodes, NEW r, IsSeq(r), NEW m,
           ReverseExact(L, e, c, y, Append(s, ListAt(n, Append(r, m))))
    PROVE  /\ ReverseExact(L, e, c, m, Append(s, ListAt(n, r)))
           /\ TurnsAt(L, Plain, c, Append(s, ListAt(n, r)), m)
           /\ y = e[m] + 1
<1> DEFINE x == ListAt(n, Append(r, m))
           w == ListAt(n, r)
           q == Append(r, m)
           t == Append(s, x)
           u == Append(s, w)
<1>1. x.node = n /\ x.rest = q /\ w.node = n /\ w.rest = r
  BY ListFields
<1>2. t # <<>> /\ Last(t) = x /\ u # <<>> /\ Last(u) = w
  BY Pushed
<1>3. /\ Turned(L, Plain, c, s) /\ Fits(L, Plain, x) /\ TurnsAt(L, Plain, c, s, n)
  BY <1>1, TurnedPush DEF ReverseExact
<1>4. y = Done(L, e, x.node, Len(x.rest)) + 1
  <2> HIDE DEF t
  <2>1. ReverseExact(L, e, c, y, t)
    BY DEF t
  <2> QED  BY <1>2, <2>1 DEF ReverseExact
<1> HIDE DEF x, w
<1>5. /\ Len(r) \in Nat /\ DOMAIN r = 1 .. Len(r) /\ DOMAIN q = 1 .. Len(r) + 1
      /\ Len(q) = Len(r) + 1
      /\ q[Len(r) + 1] = m /\ \A k \in DOMAIN r : q[k] = r[k]
  BY Pushed
<1> HIDE DEF q
<1>6. n \in Owners /\ DOMAIN L[n] = 1 .. Len(L[n]) /\ Len(L[n]) \in Nat
  <2>1. n \in Owners
    BY OwnersAreNumbers
  <2>2. L[n] \in Seq(Nodes)
    BY <2>1 DEF Numbered
  <2> QED  BY <2>1, <2>2
<1>7. Len(r) + 1 <= Len(L[n]) /\ \A k \in DOMAIN q : q[k] = L[n][k]
  BY <1>1, <1>3, <1>5 DEF Fits, Plain
<1>8. Len(r) + 1 \in DOMAIN L[n] /\ L[n][Len(r) + 1] = m
  BY <1>5, <1>6, <1>7
<1>9. y = e[m] + 1
  <2>1. Done(L, e, n, Len(r) + 1) = e[m]
    BY <1>5, <1>8 DEF Done
  <2> QED  BY <1>1, <1>4, <1>5, <2>1
<1>10. m = Done(L, e, n, Len(r)) + 1
  BY <1>5, <1>6, <1>8, DoneNext
<1>11. Fits(L, Plain, w)
  BY <1>1, <1>5, <1>6, <1>7 DEF Fits, Plain
<1>12. Turned(L, Plain, c, u)
  BY <1>1, <1>3, <1>11, TurnedPush
<1>13. TurnsAt(L, Plain, c, u, m)
  <2> HIDE DEF u
  <2> QED  BY <1>1, <1>2, <1>8 DEF TurnsAt, Turn, Plain
<1>14. ReverseExact(L, e, c, m, u)
  <2> HIDE DEF u
  <2> QED  BY <1>1, <1>2, <1>10, <1>12 DEF ReverseExact
<1> QED  BY <1>9, <1>13, <1>14 DEF u, w

LEMMA ReverseIntoExact ==
    ASSUME NEW L, NEW z, NEW e, Numbered(L, z, e), NEW c, NEW y,
           NEW s, IsSeq(s), NEW m \in Nodes, Turned(L, Plain, c, s),
           TurnsAt(L, Plain, c, s, m), y = e[m] + 1
    PROVE  ReverseExact(L, e, c, y, Append(s, ListAt(m, L[m])))
<1> DEFINE x == ListAt(m, L[m])
           t == Append(s, x)
<1>1. x.node = m /\ x.rest = L[m]
  BY ListFields
<1> HIDE DEF x
<1>2. t # <<>> /\ Last(t) = x
  BY Pushed
<1>3. m \in Owners /\ Len(L[m]) \in Nat
  <2>1. m \in Owners
    BY OwnersAreNumbers
  <2>2. L[m] \in Seq(Nodes)
    BY <2>1 DEF Numbered
  <2> QED  BY <2>1, <2>2
<1>4. Fits(L, Plain, x)
  BY <1>1, <1>3 DEF Fits, Plain
<1>5. Turned(L, Plain, c, t)
  BY <1>1, <1>4, TurnedPush
<1>6. Done(L, e, m, Len(L[m])) = e[m]
  BY <1>3, DoneAll
<1> HIDE DEF t
<1>7. ReverseExact(L, e, c, y, t)
  BY <1>1, <1>2, <1>5, <1>6 DEF ReverseExact
<1> QED  BY <1>7 DEF t, x

\* fr walks back over c's descendants and c, and y is the latest node or behind the last one.
ReverseAt(e, c, y, fr) ==
    \E s : /\ fr = BottomUpState(Plain, s)
           /\ ReverseOrder(origin, e, c, y, s)
           /\ Undisturbed => ReverseExact(origin, e, c, y, s)

LEMMA ReverseStays ==
    ASSUME Keeps, NEW e, NEW c, NEW y, NEW fr, ReverseAt(e, c, y, fr)
    PROVE  ReverseAt(e, c, y, fr)'
BY Zenon DEF ReverseAt, Keeps, BottomUpState, Plain

\* how such a frame's step goes on
ReverseOutcome(e, c, y) ==
    \/ Return /\ (Undisturbed => y = c)
    \/ \E fr : Continue(<<fr>>) /\ ReverseAt(e, c, y, fr)
    \/ \E fr : \E z \in Nodes :
          /\ Yield(z, <<fr>>) /\ ReverseAt(e, c, z, fr)
          /\ z < y /\ (z = c \/ Within(e, c, z))
          /\ Undisturbed => y = z + 1

LEMMA ReverseSteps ==
    ASSUME Base, Started, NEW e, Numbered(origin, size, e), Run, NEW G, IsSeq(G),
           NEW c \in Nodes, NEW y \in Nat, NEW fr, frames = Append(G, fr),
           ReverseAt(e, c, y, fr), Undisturbed => \A m \in Elems(yielded) : y <= m
    PROVE  ReverseOutcome(e, c, y)
<1>1. PICK s : /\ fr = BottomUpState(Plain, s)
               /\ ReverseOrder(origin, e, c, y, s)
               /\ Undisturbed => ReverseExact(origin, e, c, y, s)
  BY DEF ReverseAt
<1>2. IsSeq(s)
  BY <1>1 DEF ReverseOrder
<1>3. s # <<>> => IsListLevel(origin, e, c, Last(s))
  <2> SUFFICES ASSUME s # <<>> PROVE IsListLevel(origin, e, c, Last(s))
    OBVIOUS
  <2>1. PICK S : s \in Seq(S)
    BY <1>2 DEF IsSeq
  <2>2. Len(s) \in DOMAIN s
    BY <2>1
  <2> QED  BY <1>1, <2>2 DEF ReverseOrder, Last
<1>4. s # <<>> => Last(s) = ListAt(Last(s).node, Last(s).rest)
  BY <1>3 DEF IsListLevel
<1>5. BottomUpTurn(Plain, s)
  <2>1. frames = Append(G, BottomUpState(Plain, s))
    BY <1>1
  <2> QED  BY <1>4, <2>1, BottomUpTurns
<1>6. CASE s = <<>>
  <2>1. Return
    BY <1>5, <1>6, Zenon DEF BottomUpTurn
  <2>2. Undisturbed => y = c
    BY <1>1, <1>6 DEF ReverseExact
  <2> QED  BY <2>1, <2>2 DEF ReverseOutcome
<1>7. CASE s # <<>>
  <2>1. PICK t, x : t = Front(s) /\ x = Last(s)
    OBVIOUS
  <2>2. PICK n, r : n = x.node /\ r = x.rest
    OBVIOUS
  <2>3. x = ListAt(n, r) /\ IsListLevel(origin, e, c, x) /\ IsSeq(t) /\ s = Append(t, x)
    BY <1>2, <1>3, <1>4, <1>7, <2>1, <2>2, Popping
  <2>4. n \in Nodes /\ IsSeq(r) /\ (n = c \/ Within(e, c, n))
    BY <2>2, <2>3 DEF IsListLevel, IsSeq
  <2>5. s = Append(t, ListAt(n, r))
    BY <2>3, Zenon
  <2>6. /\ ReverseOrder(origin, e, c, y, t)
        /\ Before(e, x, y)
        /\ \A i \in DOMAIN t : Before(e, t[i], n)
    BY <1>1, <2>2, <2>3, ReversePush
  <2>7. CASE r = <<>>
    <3>1. Yield(n, <<BottomUpState(Plain, t)>>)
      BY <1>5, <1>7, <2>1, <2>2, <2>7, Zenon DEF BottomUpTurn
    <3>2. ReverseOrder(origin, e, c, n, t)
      BY <2>6 DEF ReverseOrder
    <3>3. n < y
      BY <2>2, <2>6 DEF Before
    <3>4. Undisturbed => y = n + 1 /\ ReverseExact(origin, e, c, n, t)
      <4> SUFFICES ASSUME Undisturbed PROVE y = n + 1 /\ ReverseExact(origin, e, c, n, t)
        OBVIOUS
      <4>1. ReverseExact(origin, e, c, y, Append(t, ListAt(n, <<>>)))
        BY <1>1, <2>5, <2>7
      <4>2. \A i \in DOMAIN t : IsListLevel(origin, e, c, t[i])
        BY <2>6 DEF ReverseOrder
      <4> QED  BY <2>3, <2>4, <4>1, <4>2, ReverseLeave
    <3>5. ReverseAt(e, c, n, BottomUpState(Plain, t))
      BY <3>2, <3>4 DEF ReverseAt
    <3> QED  BY <2>4, <3>1, <3>3, <3>4, <3>5 DEF ReverseOutcome
  <2>8. CASE r # <<>>
    <3>1. PICK m, q : m = Last(r) /\ q = Front(r)
      OBVIOUS
    <3>2. r = Append(q, m) /\ IsSeq(q)
      BY <2>4, <2>8, <3>1, Popping
    <3>3. PICK kept : kept = Append(t, ListAt(n, q))
      OBVIOUS
    <3>4. IF children[m] = <<>> THEN Yield(m, <<BottomUpState(Plain, kept)>>)
          ELSE Continue(<<BottomUpState(Plain, Append(kept, ListAt(m, children[m])))>>)
      <4>1. ~Plain
        BY DEF Plain
      <4> QED  BY <1>5, <1>7, <2>1, <2>2, <2>8, <3>1, <3>3, <4>1, Zenon DEF BottomUpTurn
    <3>5. s = Append(t, ListAt(n, Append(q, m)))
      BY <2>5, <3>2, Zenon
    <3>6. /\ ReverseOrder(origin, e, c, m, kept)
          /\ m \in Nodes /\ m \in Elems(origin[n]) /\ m < y /\ e[m] < y /\ Within(e, c, m)
      BY <1>1, <2>3, <3>2, <3>3, <3>5, ReverseTake
    <3>7. m \in Owners /\ IsSeq(kept) /\ \A i \in DOMAIN kept : Before(e, kept[i], m)
      BY <3>6, OwnersAreNumbers DEF ReverseOrder
    <3>8. ASSUME Undisturbed
          PROVE  /\ ReverseExact(origin, e, c, m, kept)
                 /\ TurnsAt(origin, Plain, c, kept, m)
                 /\ y = e[m] + 1
                 /\ children[m] = origin[m]
      <4>1. ReverseExact(origin, e, c, y, Append(t, ListAt(n, Append(q, m))))
        BY <1>1, <3>5, <3>8
      <4>2. children[m] = origin[m]
        BY <3>6, <3>7, <3>8, StillWhole
      <4> QED  BY <2>3, <2>4, <3>2, <3>3, <4>1, <4>2, ReverseTakeExact
    <3>9. CASE children[m] = <<>>
      <4>1. Yield(m, <<BottomUpState(Plain, kept)>>)
        BY <3>4, <3>9
      <4>2. ReverseAt(e, c, m, BottomUpState(Plain, kept))
        BY <3>6, <3>8 DEF ReverseAt
      <4>3. Undisturbed => y = m + 1
        <5>1. origin[m] = <<>> => e[m] = m
          BY <3>7 DEF Numbered
        <5> QED  BY <3>8, <3>9, <5>1
      <4> QED  BY <3>6, <4>1, <4>2, <4>3 DEF ReverseOutcome
    <3>10. CASE children[m] # <<>>
      <4>1. PICK u : u = Append(kept, ListAt(m, children[m]))
        OBVIOUS
      <4>2. Continue(<<BottomUpState(Plain, u)>>)
        BY <3>4, <3>10, <4>1
      <4>3. /\ children[m] \in Seq(Nodes)
            /\ \A k \in DOMAIN children[m] : children[m][k] \in Elems(origin[m])
            /\ \A j, k \in DOMAIN children[m] : j < k => children[m][j] < children[m][k]
        BY <3>7, ListsAreTyped
      <4>4. ReverseOrder(origin, e, c, y, u)
        BY <3>6, <3>7, <4>1, <4>3, ReverseInto
      <4>5. Undisturbed => ReverseExact(origin, e, c, y, u)
        <5> SUFFICES ASSUME Undisturbed PROVE ReverseExact(origin, e, c, y, u)
          OBVIOUS
        <5>1. Turned(origin, Plain, c, kept)
          BY <3>8 DEF ReverseExact
        <5>2. ReverseExact(origin, e, c, y, Append(kept, ListAt(m, origin[m])))
          BY <3>6, <3>7, <3>8, <5>1, ReverseIntoExact
        <5> QED  BY <3>8, <4>1, <5>2
      <4>6. ReverseAt(e, c, y, BottomUpState(Plain, u))
        BY <4>4, <4>5 DEF ReverseAt
      <4> QED  BY <4>2, <4>6 DEF ReverseOutcome
    <3> QED  BY <3>9, <3>10
  <2> QED  BY <2>7, <2>8
<1> QED  BY <1>6, <1>7

LEMMA ReverseFrameStarts ==
    ASSUME Base, Started, NEW e, Numbered(origin, size, e), NEW c \in Nodes, NEW q,
           q \in Seq(Nodes), \A k \in DOMAIN q : q[k] \in Elems(origin[c]),
           \A j, k \in DOMAIN q : j < k => q[j] < q[k], Undisturbed => q = origin[c]
    PROVE  ReverseAt(e, c, e[c] + 1, BottomUpState(Plain, <<ListAt(c, q)>>))
<1>1. PICK t, x : t = <<>> /\ x = ListAt(c, q)
  OBVIOUS
<1>2. <<x>> = Append(t, x) /\ IsSeq(t)
  BY <1>1, OneFrame
<1>3. DOMAIN t = {}
  BY <1>1
<1>4. x.node = c /\ x.rest = q
  BY <1>1, ListFields
<1>5. c \in Owners /\ c \in Nat /\ c <= e[c] /\ e[c] \in Nat
  <2>1. c \in Owners /\ c \in Nat
    BY OwnersAreNumbers
  <2> QED  BY <2>1, OwnersAreNumbers DEF Numbered
<1>6. IsListLevel(origin, e, c, x)
  BY <1>1, <1>4 DEF IsListLevel
<1>7. Before(e, x, e[c] + 1)
  <2>1. ASSUME NEW k \in DOMAIN q PROVE e[q[k]] < e[c] + 1
    <3>1. q[k] \in Owners /\ e[q[k]] <= e[c]
      BY <1>5, MemberWithin
    <3>2. e[q[k]] \in Nat
      BY <3>1, OwnersAreNumbers DEF Numbered
    <3> QED  BY <1>5, <3>1, <3>2
  <2>2. c < e[c] + 1
    BY <1>5
  <2> QED  BY <1>4, <2>1, <2>2 DEF Before
<1>8. ReverseOrder(origin, e, c, e[c] + 1, t)
  BY <1>2, <1>3 DEF ReverseOrder
<1>9. ReverseOrder(origin, e, c, e[c] + 1, Append(t, x))
  BY <1>2, <1>3, <1>6, <1>7, <1>8, ReversePush
<1>10. ASSUME Undisturbed PROVE ReverseExact(origin, e, c, e[c] + 1, Append(t, x))
  <2>1. Turned(origin, Plain, c, t) /\ TurnsAt(origin, Plain, c, t, c)
    BY <1>1, <1>3 DEF Turned, TurnsAt
  <2>2. x = ListAt(c, origin[c])
    BY <1>1, <1>10
  <2>3. ReverseExact(origin, e, c, e[c] + 1, Append(t, ListAt(c, origin[c])))
    BY <1>2, <2>1, ReverseIntoExact
  <2> QED  BY <2>2, <2>3, Zenon
<1>11. ReverseAt(e, c, e[c] + 1, BottomUpState(Plain, Append(t, x)))
  BY <1>9, <1>10 DEF ReverseAt
<1> QED  BY <1>1, <1>2, <1>11, Zenon

OnReversedDescendants == walk.axis = "reversed descendants"

ReversedDescendantsWalk(e) ==
    \E fr : \E y \in Nat :
        /\ frames = <<fr>>
        /\ DownTo(y)
        /\ ReverseAt(e, walk.node, y, fr)

LEMMA ReversedDescendantsStart ==
    ASSUME NEW e, Fresh(e), OnReversedDescendants
    PROVE  ReversedDescendantsWalk(e)
<1>1. PICK n : n = walk.node
  OBVIOUS
<1>2. walk \in Walks /\ n \in Nodes /\ n \in Owners /\ n <= size /\ n \in Nat
  BY <1>1, OwnersAreNumbers DEF Fresh, Base, Walks
<1>3. Numbered(origin, size, e) /\ Base /\ Started
  BY DEF Fresh
<1>4. e[n] \in Nat /\ n <= e[n] /\ e[n] + 1 \in Nat
  <2>1. n <= e[n] /\ e[n] \in Owners
    BY <1>2, <1>3 DEF Numbered
  <2> QED  BY <2>1, OwnersAreNumbers
<1>5. \A m \in AxisNodes(walk) : m < e[n] + 1
  <2> SUFFICES ASSUME NEW m \in AxisNodes(walk) PROVE m < e[n] + 1
    OBVIOUS
  <2>1. m \in Nat
    BY <1>3, AxisIsTyped
  <2>2. walk.axis \in {"reversed descendants", "bottom up", "breadth first"}
    BY Zenon DEF OnReversedDescendants
  <2>3. m = n \/ Within(e, n, m)
    BY <1>1, <1>2, <1>3, <2>2, AxisFacts, Zenon
  <2> QED  BY <1>4, <2>1, <2>3 DEF Within
<1>6. DownTo(e[n] + 1)
  BY <1>3, <1>4, <1>5, NothingYet DEF Fresh
<1>7. frames = <<BottomUpState(Plain, <<ListAt(n, children[n])>>)>>
  <2>1. FirstFrame(walk) = BottomUpFrame(n, FALSE)
    BY <1>1, Zenon DEF FirstFrame, OnReversedDescendants
  <2>2. BottomUpFrame(n, FALSE) = BottomUpState(Plain, <<ListAt(n, children[n])>>)
    BY Zenon DEF BottomUpFrame, BottomUpState, Plain, ListAt
  <2> QED  BY <2>1, <2>2 DEF Fresh
<1>8. ReverseAt(e, n, e[n] + 1, BottomUpState(Plain, <<ListAt(n, children[n])>>))
  <2>1. /\ children[n] \in Seq(Nodes) /\ children = origin
        /\ \A k \in DOMAIN children[n] : children[n][k] \in Elems(origin[n])
        /\ \A j, k \in DOMAIN children[n] : j < k => children[n][j] < children[n][k]
    BY <1>2, <1>3, ListsAreTyped DEF Fresh
  <2> QED  BY <1>2, <1>3, <2>1, ReverseFrameStarts
<1> QED  BY <1>1, <1>4, <1>6, <1>7, <1>8 DEF ReversedDescendantsWalk

LEMMA ReversedDescendantsRest ==
    ASSUME Base, Started, NEW e, ReversedDescendantsWalk(e), Rests
    PROVE  ReversedDescendantsWalk(e)'
<1>1. PICK n : n = walk.node
  OBVIOUS
<1>2. PICK fr : \E y \in Nat : frames = <<fr>> /\ DownTo(y) /\ ReverseAt(e, n, y, fr)
  BY <1>1 DEF ReversedDescendantsWalk
<1>3. PICK y \in Nat : frames = <<fr>> /\ DownTo(y) /\ ReverseAt(e, n, y, fr)
  BY <1>2
<1>4. DownTo(y)'
  BY <1>3, ProgressStays DEF Rests
<1>5. ReverseAt(e, n, y, fr)'
  BY <1>3, ReverseStays DEF Rests
<1>6. frames' = <<fr>> /\ walk'.node = n
  BY <1>1, <1>3 DEF Rests, Keeps
<1> QED  BY <1>3, <1>4, <1>5, <1>6 DEF ReversedDescendantsWalk

LEMMA ReversedDescendantsStep ==
    ASSUME Base, Started, NEW e, Numbered(origin, size, e), Keeps, Run,
           OnReversedDescendants, ReversedDescendantsWalk(e)
    PROVE  (Active' /\ ReversedDescendantsWalk(e)') \/ Ended'
<1>1. PICK n : n = walk.node
  OBVIOUS
<1>2. PICK fr : \E y \in Nat : frames = <<fr>> /\ DownTo(y) /\ ReverseAt(e, n, y, fr)
  BY <1>1 DEF ReversedDescendantsWalk
<1>3. PICK y \in Nat : frames = <<fr>> /\ DownTo(y) /\ ReverseAt(e, n, y, fr)
  BY <1>2
<1>4. n \in Owners /\ n \in Nodes /\ n \in Nat /\ walk \in Walks /\ walk.node <= size
  BY <1>1, OwnersAreNumbers DEF Base, Walks
<1>5. \A m : m \in AxisNodes(walk) <=> m \in Nodes /\ (m = n \/ Within(e, n, m))
  <2>1. walk.axis \in {"reversed descendants", "bottom up", "breadth first"}
    BY Zenon DEF OnReversedDescendants
  <2> QED  BY <1>1, <1>4, <2>1, AxisFacts, Zenon
<1>6. frames = Append(<<>>, fr) /\ IsSeq(<<>>) /\ \A x : Inner(<<x>>) = <<x>>
  <2>1. frames = Append(<<>>, fr) /\ IsSeq(<<>>)
    BY <1>3, OneFrame
  <2> QED  BY <2>1, TopFrame, OneFrame
<1>7. ReverseOutcome(e, n, y)
  <2>1. Undisturbed => \A m \in Elems(yielded) : y <= m
    BY <1>3 DEF DownTo, Claimed
  <2> QED  BY <1>3, <1>4, <1>6, <2>1, ReverseSteps
<1>8. walk'.node = n
  BY <1>1 DEF Keeps
<1>9. ASSUME Return, Undisturbed => y = n
      PROVE  Ended'
  <2>1. ASSUME Undisturbed PROVE Exhausted
    <3>1. \A m \in AxisNodes(walk) : y <= m
      <4> SUFFICES ASSUME NEW m \in AxisNodes(walk) PROVE y <= m
        OBVIOUS
      <4>1. m \in Nat /\ (m = n \/ Within(e, n, m))
        BY <1>5, AxisIsTyped
      <4> QED  BY <1>4, <1>9, <2>1, <4>1 DEF Within
    <3> QED  BY <1>3, <2>1, <3>1 DEF DownTo, Exhausted
  <2> QED  BY <1>3, <1>6, <1>9, <2>1, WalkEnds DEF DownTo
<1>10. ASSUME NEW next, Continue(<<next>>), ReverseAt(e, n, y, next)
       PROVE  Active' /\ ReversedDescendantsWalk(e)'
  <2>1. yielded' = yielded /\ status' = "running" /\ frames' = <<next>>
    <3>1. Inner(<<next>>) = <<next>> /\ <<next>> # <<>>
      BY <1>6
    <3> QED  BY <1>10, <3>1 DEF Continue
  <2>2. DownTo(y)'
    BY <1>3, <2>1, ProgressStays
  <2>3. ReverseAt(e, n, y, next)'
    BY <1>10, ReverseStays
  <2> QED  BY <1>3, <1>8, <2>1, <2>2, <2>3 DEF ReversedDescendantsWalk, Active
<1>11. ASSUME NEW z \in Nodes, NEW next, Yield(z, <<next>>), ReverseAt(e, n, z, next),
              z < y, z = n \/ Within(e, n, z), Undisturbed => y = z + 1
       PROVE  Active' /\ ReversedDescendantsWalk(e)'
  <2>1. yielded' = Append(yielded, z) /\ status' = "suspended" /\ frames' = <<next>>
    BY <1>6, <1>11 DEF Yield
  <2>2. z \in Nat /\ z \in AxisNodes(walk)
    BY <1>5, <1>11, OwnersAreNumbers
  <2>3. ASSUME Undisturbed, NEW m \in AxisNodes(walk), z < m PROVE y <= m
    <3>1. m \in Nat
      BY AxisIsTyped
    <3> QED  BY <1>3, <1>11, <2>2, <2>3, <3>1
  <2>4. DownTo(z)'
    <3>1. walk.axis \in Falling
      BY Zenon DEF Falling, OnReversedDescendants
    <3> QED  BY <1>3, <1>11, <2>1, <2>2, <2>3, <3>1, YieldsDown
  <2>5. ReverseAt(e, n, z, next)'
    BY <1>11, ReverseStays
  <2> QED  BY <1>8, <2>1, <2>2, <2>4, <2>5 DEF ReversedDescendantsWalk, Active
<1> QED  BY <1>7, <1>9, <1>10, <1>11 DEF ReverseOutcome

-----------------------------------------------------------------------------
(* All that precedes a node *)

\* Only the first node of a tree without a document has no parent.
LEMMA NoParent ==
    ASSUME NEW L, NEW z, NEW e, Numbered(L, z, e), NEW x \in Nodes, x <= z,
           \A p \in Owners : x \notin Elems(L[p])
    PROVE  x = 1 /\ L[Document] = <<>>
<1>1. \A p \in Owners : ~Within(e, p, x)
  <2>1. x \in Owners
    BY OwnersAreNumbers
  <2> QED  BY <2>1, HasParent
<1>2. 1 \in Owners /\ 0 \in Owners /\ x \in Nat /\ 1 <= x /\ Document = 0
  BY OwnersAreNumbers
<1>3. IF L[Document] = <<>> THEN e[1] = z ELSE e[Document] = z
  BY DEF Numbered
<1>4. CASE L[Document] # <<>>
  <2>1. Within(e, 0, x)
    BY <1>2, <1>3, <1>4 DEF Within
  <2> QED  BY <1>1, <1>2, <2>1
<1>5. CASE L[Document] = <<>>
  <2>1. 1 < x => Within(e, 1, x)
    BY <1>3, <1>5 DEF Within
  <2> QED  BY <1>1, <1>2, <1>5, <2>1
<1> QED  BY <1>4, <1>5

PrecedingState(x, p, wide, at) ==
    [gen |-> "preceding", node |-> x, parent |-> p, wide |-> wide, at |-> at]

Deep == TRUE

OnPreceding == walk.axis = "preceding"

\* The walk is about to go over a node's siblings, the walk's node or one above it.
PrecedingAt(e) ==
    \E x \in Nodes :
        /\ frames = <<PrecedingState(x, NIL, walk.wide, "start")>>
        /\ DownTo(x)
        /\ x = walk.node \/ Within(e, x, walk.node)

\* It is between two siblings of such a node,
PrecedingAside(e) ==
    \E x \in Nodes, p \in Owners : \E k \in Nat :
        /\ frames = <<PrecedingState(x, p, walk.wide, "parent"),
                      PrecedingSiblingsState(p, Deep, k)>>
        /\ x = walk.node \/ Within(e, x, walk.node)
        /\ SiblingsBehind(origin, x, p, k)
        /\ DownTo(origin[p][k + 1])
        /\ origin[p][k + 1] <= x

\* below one of them
PrecedingBelow(e) ==
    \E x \in Nodes, p \in Owners : \E k, y \in Nat : \E fr :
        /\ frames = <<PrecedingState(x, p, walk.wide, "parent"),
                      PrecedingSiblingsState(p, Deep, k), fr>>
        /\ x = walk.node \/ Within(e, x, walk.node)
        /\ SiblingsBehind(origin, x, p, k)
        /\ DownTo(y)
        /\ ReverseAt(e, origin[p][k + 1], y, fr)
        /\ e[origin[p][k + 1]] < x

\* or through with them.
PrecedingUp(e) ==
    \E x \in Nodes, p \in Owners :
        /\ frames = <<PrecedingState(x, p, walk.wide, "parent")>>
        /\ x = walk.node \/ Within(e, x, walk.node)
        /\ x \in Elems(origin[p])
        /\ DownTo(p + 1)

PrecedingWalk(e) ==
    Undisturbed =>
        PrecedingAt(e) \/ PrecedingAside(e) \/ PrecedingBelow(e) \/ PrecedingUp(e)

UpwardsTo(fr, q) == [fr EXCEPT !.at = "parent", !.parent = q]

IsPreceding(fr, x, p, wide, at) ==
    /\ fr.gen = "preceding" /\ fr.node = x /\ fr.parent = p /\ fr.wide = wide /\ fr.at = at
    /\ \A q : UpwardsTo(fr, q) = PrecedingState(x, q, wide, "parent")

LEMMA PrecedingFields ==
    ASSUME NEW x, NEW p, NEW wide, NEW at, NEW fr, fr = PrecedingState(x, p, wide, at)
    PROVE  IsPreceding(fr, x, p, wide, at)
<1>1. fr.gen = "preceding" /\ fr.node = x /\ fr.parent = p /\ fr.at = at
  BY DEF PrecedingState
<1>2. fr.wide = wide
  BY Zenon DEF PrecedingState
<1>3. \A q : UpwardsTo(fr, q) = PrecedingState(x, q, wide, "parent")
  <2> SUFFICES ASSUME NEW q
               PROVE  UpwardsTo(fr, q) = PrecedingState(x, q, wide, "parent")
    OBVIOUS
  <2>1. [fr EXCEPT !.at = "parent"] = PrecedingState(x, p, wide, "parent")
    BY DEF PrecedingState
  <2>2. [PrecedingState(x, p, wide, "parent") EXCEPT !.parent = q]
           = PrecedingState(x, q, wide, "parent")
    BY DEF PrecedingState
  <2>3. UpwardsTo(fr, q) = [[fr EXCEPT !.at = "parent"] EXCEPT !.parent = q]
    BY DEF UpwardsTo
  <2> QED  BY <2>1, <2>2, <2>3, Zenon
<1> QED  BY <1>1, <1>2, <1>3, Zenon DEF IsPreceding

\* how the step of such a frame goes on
GoesUp(p, wide) ==
    IF p = Document THEN Return
    ELSE IF wide THEN Yield(p, <<PrecedingState(p, NIL, Deep, "start")>>)
    ELSE Continue(<<PrecedingState(p, NIL, Plain, "start")>>)

LEMMA PrecedingTurns ==
    ASSUME Run, NEW G, IsSeq(G), NEW x, NEW p, NEW wide, NEW at,
           frames = Append(G, PrecedingState(x, p, wide, at))
    PROVE  /\ at = "start" =>
                IF Parent(x) = NIL THEN Return
                ELSE Continue(<<PrecedingState(x, Parent(x), wide, "parent"),
                                PrecedingSiblingsFrame(x, Deep)>>)
           /\ at = "parent" => GoesUp(p, wide)
<1>1. PICK fr : fr = PrecedingState(x, p, wide, at)
  OBVIOUS
<1>2. f = fr
  <2>1. frames = Append(G, fr)
    BY <1>1
  <2> QED  BY <2>1, TopFrame
<1>3. /\ fr.gen = "preceding" /\ fr.node = x /\ fr.parent = p /\ fr.wide = wide /\ fr.at = at
      /\ \A q : UpwardsTo(fr, q) = PrecedingState(x, q, wide, "parent")
  <2>1. IsPreceding(fr, x, p, wide, at)
    BY <1>1, PrecedingFields, Zenon
  <2> QED  BY <2>1, Zenon DEF IsPreceding
<1>4. StepPreceding
  BY <1>2, <1>3, RunsTop
<1>5. PrecedingFrame(p, TRUE) = PrecedingState(p, NIL, Deep, "start")
  BY Zenon DEF PrecedingFrame, PrecedingState, Deep
<1>6. PrecedingFrame(p, FALSE) = PrecedingState(p, NIL, Plain, "start")
  BY Zenon DEF PrecedingFrame, PrecedingState, Plain
<1>7. \/ /\ at = "start"
         /\ IF Parent(x) = NIL THEN Return
            ELSE Continue(<<UpwardsTo(fr, Parent(x)), PrecedingSiblingsFrame(x, TRUE)>>)
      \/ /\ at = "parent"
         /\ IF p = Document THEN Return
            ELSE IF wide THEN Yield(p, <<PrecedingFrame(p, TRUE)>>)
            ELSE Continue(<<PrecedingFrame(p, FALSE)>>)
  BY <1>2, <1>3, <1>4, Zenon DEF StepPreceding, EndsPreceding, Upwards, UpwardsTo
<1>8. "start" # "parent"
  OBVIOUS
<1>9. UpwardsTo(fr, Parent(x)) = PrecedingState(x, Parent(x), wide, "parent")
  BY <1>3, Zenon
<1> QED  BY <1>5, <1>6, <1>7, <1>8, <1>9, Zenon DEF Deep, GoesUp

LEMMA PrecedingStart ==
    ASSUME NEW e, Fresh(e), OnPreceding
    PROVE  PrecedingWalk(e)
<1>1. PICK n : n = walk.node
  OBVIOUS
<1>2. walk \in Walks /\ n \in Nodes /\ n \in Owners /\ n <= size /\ n \in Nat
  BY <1>1, OwnersAreNumbers DEF Fresh, Base, Walks
<1>3. Numbered(origin, size, e) /\ Base /\ Started
  BY DEF Fresh
<1>4. \A m \in AxisNodes(walk) : m < n
  <2> SUFFICES ASSUME NEW m \in AxisNodes(walk) PROVE m < n
    OBVIOUS
  <2> QED  BY <1>1, <1>2, <1>3, AxisFacts DEF OnPreceding
<1>5. DownTo(n)
  BY <1>2, <1>3, <1>4, NothingYet DEF Fresh
<1>6. frames = <<PrecedingState(n, NIL, walk.wide, "start")>>
  <2>1. FirstFrame(walk) = PrecedingFrame(n, walk.wide)
    BY <1>1, Zenon DEF FirstFrame, OnPreceding
  <2> QED  BY <2>1 DEF Fresh, PrecedingFrame, PrecedingState
<1> QED  BY <1>1, <1>2, <1>5, <1>6 DEF PrecedingWalk, PrecedingAt

LEMMA PrecedingRest ==
    ASSUME NEW e, PrecedingWalk(e), Rests
    PROVE  PrecedingWalk(e)'
<1> SUFFICES ASSUME Undisturbed'
             PROVE  (PrecedingAt(e) \/ PrecedingAside(e) \/ PrecedingBelow(e) \/ PrecedingUp(e))'
  BY DEF PrecedingWalk
<1>1. Undisturbed /\ frames' = frames /\ walk' = walk /\ origin' = origin
  BY DEF Rests, Keeps
<1>2. \A y : DownTo(y) => DownTo(y)'
  BY ProgressStays DEF Rests
<1>3. \A c, y, fr : ReverseAt(e, c, y, fr) => ReverseAt(e, c, y, fr)'
  BY ReverseStays DEF Rests
<1>4. CASE PrecedingAt(e)
  BY <1>1, <1>2, <1>4 DEF PrecedingAt, PrecedingState
<1>5. CASE PrecedingAside(e)
  <2>1. PICK x \in Nodes, p \in Owners : \E k \in Nat :
          /\ frames = <<PrecedingState(x, p, walk.wide, "parent"),
                        PrecedingSiblingsState(p, Deep, k)>>
          /\ x = walk.node \/ Within(e, x, walk.node)
          /\ SiblingsBehind(origin, x, p, k)
          /\ DownTo(origin[p][k + 1])
          /\ origin[p][k + 1] <= x
    BY <1>5, Zenon DEF PrecedingAside
  <2>2. PICK k \in Nat :
          /\ frames = <<PrecedingState(x, p, walk.wide, "parent"),
                        PrecedingSiblingsState(p, Deep, k)>>
          /\ x = walk.node \/ Within(e, x, walk.node)
          /\ SiblingsBehind(origin, x, p, k)
          /\ DownTo(origin[p][k + 1])
          /\ origin[p][k + 1] <= x
    BY <2>1, Zenon
  <2>3. DownTo(origin[p][k + 1])'
    BY <1>1, <1>2, <2>2
  <2>4. /\ frames' = <<PrecedingState(x, p, walk'.wide, "parent"),
                       PrecedingSiblingsState(p, Deep, k)>>
        /\ x = walk'.node \/ Within(e, x, walk'.node)
        /\ SiblingsBehind(origin', x, p, k)
        /\ origin'[p][k + 1] <= x
    BY <1>1, <2>2
  <2> QED  BY <2>3, <2>4 DEF PrecedingAside, PrecedingState, PrecedingSiblingsState, Deep
<1>6. CASE PrecedingBelow(e)
  <2>1. PICK x \in Nodes, p \in Owners : \E k, y \in Nat : \E fr :
          /\ frames = <<PrecedingState(x, p, walk.wide, "parent"),
                        PrecedingSiblingsState(p, Deep, k), fr>>
          /\ x = walk.node \/ Within(e, x, walk.node)
          /\ SiblingsBehind(origin, x, p, k)
          /\ DownTo(y)
          /\ ReverseAt(e, origin[p][k + 1], y, fr)
          /\ e[origin[p][k + 1]] < x
    BY <1>6, Zenon DEF PrecedingBelow
  <2>2. PICK k, y \in Nat : \E fr :
          /\ frames = <<PrecedingState(x, p, walk.wide, "parent"),
                        PrecedingSiblingsState(p, Deep, k), fr>>
          /\ x = walk.node \/ Within(e, x, walk.node)
          /\ SiblingsBehind(origin, x, p, k)
          /\ DownTo(y)
          /\ ReverseAt(e, origin[p][k + 1], y, fr)
          /\ e[origin[p][k + 1]] < x
    BY <2>1
  <2>3. PICK fr :
          /\ frames = <<PrecedingState(x, p, walk.wide, "parent"),
                        PrecedingSiblingsState(p, Deep, k), fr>>
          /\ x = walk.node \/ Within(e, x, walk.node)
          /\ SiblingsBehind(origin, x, p, k)
          /\ DownTo(y)
          /\ ReverseAt(e, origin[p][k + 1], y, fr)
          /\ e[origin[p][k + 1]] < x
    BY <2>2
  <2>4. PICK c : c = origin[p][k + 1]
    OBVIOUS
  <2>5. ReverseAt(e, c, y, fr)'
    BY <1>3, <2>3, <2>4
  <2>6. c = origin'[p][k + 1] /\ DownTo(y)'
    BY <1>1, <1>2, <2>3, <2>4
  <2>7. ReverseAt(e, origin[p][k + 1], y, fr)'
    BY <2>5, <2>6, Zenon DEF ReverseAt
  <2>8. PrecedingBelow(e)'
    BY <1>1, <2>3, <2>6, <2>7
       DEF PrecedingBelow, PrecedingState, PrecedingSiblingsState, SiblingsBehind, Deep
  <2> QED  BY <2>8
<1>7. CASE PrecedingUp(e)
  BY <1>1, <1>2, <1>7 DEF PrecedingUp, PrecedingState
<1> QED  BY <1>1, <1>4, <1>5, <1>6, <1>7 DEF PrecedingWalk

LEMMA PrecedingAxis ==
    ASSUME Base, Started, NEW e, Numbered(origin, size, e), OnPreceding, NEW n, n = walk.node
    PROVE  /\ n \in Nodes /\ n \in Owners /\ n \in Nat /\ n <= size
           /\ walk.wide \in BOOLEAN
           /\ \A m : m \in AxisNodes(walk) <=>
                        m \in Nodes /\ m < n /\ (walk.wide \/ ~Within(e, m, n))
           /\ Undisturbed /\ walk.wide => children = origin
           /\ walk.axis \in Falling
<1>1. walk \in Walks /\ walk.node <= size
  BY DEF Base
<1>2. n \in Nodes /\ n \in Owners /\ n \in Nat /\ n <= size /\ walk.wide \in BOOLEAN
  BY <1>1, OwnersAreNumbers DEF Walks
<1>3. ASSUME NEW m PROVE m \in AxisNodes(walk) <=>
                            m \in Nodes /\ m < n /\ (walk.wide \/ ~Within(e, m, n))
  BY <1>1, AxisFacts DEF OnPreceding
<1>4. ASSUME Undisturbed, walk.wide PROVE children = origin
  <2>1. ~IsRobust(walk)
    BY <1>4, Zenon DEF IsRobust, OnPreceding
  <2> QED  BY <1>4, <2>1, LeftAlone
<1>5. walk.axis \in Falling
  BY Zenon DEF Falling, OnPreceding
<1> QED  BY <1>2, <1>3, <1>4, <1>5

LEMMA PrecedingAtStep ==
    ASSUME Base, Started, NEW e, Numbered(origin, size, e), Keeps, Run, OnPreceding,
           Undisturbed, PrecedingAt(e)
    PROVE  (Active' /\ PrecedingAside(e)') \/ Ended'
<1>1. PICK w : w = walk.node
  OBVIOUS
<1>2. PICK x \in Nodes : /\ frames = <<PrecedingState(x, NIL, walk.wide, "start")>>
                         /\ DownTo(x)
                         /\ x = w \/ Within(e, x, w)
  BY <1>1 DEF PrecedingAt
<1>3. /\ w \in Nodes /\ w \in Owners /\ w \in Nat /\ w <= size
      /\ walk.wide \in BOOLEAN
      /\ \A m : m \in AxisNodes(walk) <=> m \in Nodes /\ m < w /\ (walk.wide \/ ~Within(e, m, w))
      /\ walk.wide => children = origin
  BY <1>1, PrecedingAxis
<1>4. x \in Owners /\ x \in Nat /\ x <= w /\ x <= size /\ 1 <= x
  <2>1. x \in Owners /\ x \in Nat /\ 1 <= x
    BY OwnersAreNumbers
  <2>2. x <= w
    BY <1>2, <1>3, <2>1 DEF Within
  <2>3. size \in Nat
    BY OwnersAreNumbers DEF Numbered
  <2> QED  BY <1>3, <2>1, <2>2, <2>3
<1>5. InOrder /\ \A m \in Elems(yielded) : x <= m
  BY <1>2 DEF DownTo, Claimed
<1>6. x \notin Elems(yielded) \/ children = origin
  <2>1. CASE walk.wide
    BY <1>3, <2>1
  <2>2. CASE ~walk.wide
    <3>1. x \notin AxisNodes(walk)
      BY <1>2, <1>3, <2>2
    <3> QED  BY <1>5, <3>1 DEF InOrder
  <2> QED  BY <2>1, <2>2
<1>7. PICK o, k : /\ PrecedingSiblingsFrame(x, Deep) = PrecedingSiblingsState(o, Deep, k)
                  /\ SiblingsBehind(origin, x, o, k)
                  /\ o = Parent(x)
                  /\ o # NIL => origin[o][k + 1] = x
  BY <1>5, <1>6, SiblingsBehindStart
<1>8. frames = Append(<<>>, PrecedingState(x, NIL, walk.wide, "start")) /\ IsSeq(<<>>)
  BY <1>2, OneFrame
<1>9. IF o = NIL THEN Return
      ELSE Continue(<<PrecedingState(x, o, walk.wide, "parent"),
                      PrecedingSiblingsFrame(x, Deep)>>)
  BY <1>7, <1>8, PrecedingTurns
<1>10. CASE o = NIL
  <2>1. x = 1
    BY <1>4, <1>7, <1>10, NoParent DEF SiblingsBehind
  <2>2. \A m \in AxisNodes(walk) : x <= m
    BY <1>3, <2>1, OwnersAreNumbers
  <2>3. Exhausted
    BY <1>2, <2>2 DEF DownTo, Exhausted
  <2> QED  BY <1>5, <1>8, <1>9, <1>10, <2>3, WalkEnds
<1>11. CASE o # NIL
  <2>1. PICK a, b : /\ a = PrecedingState(x, o, walk.wide, "parent")
                    /\ b = PrecedingSiblingsState(o, Deep, k)
    OBVIOUS
  <2>2. Continue(<<a, b>>)
    BY <1>7, <1>9, <1>11, <2>1
  <2>3. yielded' = yielded /\ status' = "running" /\ frames' = <<a, b>>
    <3>1. Inner(<<a, b>>) = <<a, b>> /\ <<a, b>> # <<>>
      BY <1>8, TopFrame, OneFrame
    <3> QED  BY <2>2, <3>1 DEF Continue
  <2>4. DownTo(x)'
    BY <1>2, <2>3, ProgressStays
  <2>5. walk' = walk /\ origin' = origin
    BY DEF Keeps
  <2>6. o \in Owners /\ k \in Nat /\ x = origin'[o][k + 1] /\ x <= x
    BY <1>4, <1>7, <1>11, <2>5 DEF SiblingsBehind
  <2>7. DownTo(origin[o][k + 1])'
    BY <2>4, <2>6, Zenon DEF DownTo
  <2>8. PrecedingAside(e)'
    <3>1. frames' = <<PrecedingState(x, o, walk'.wide, "parent"),
                      PrecedingSiblingsState(o, Deep, k)>>
      BY <2>1, <2>3, <2>5
    <3>2. SiblingsBehind(origin', x, o, k) /\ (x = walk'.node \/ Within(e, x, walk'.node))
      BY <1>1, <1>2, <1>7, <2>5
    <3> QED  BY <2>6, <2>7, <3>1, <3>2
             DEF PrecedingAside, PrecedingState, PrecedingSiblingsState, Deep
  <2> QED  BY <2>3, <2>8 DEF Active
<1> QED  BY <1>10, <1>11

LEMMA PrecedingAsideStep ==
    ASSUME Base, Started, NEW e, Numbered(origin, size, e), Keeps, Run, OnPreceding,
           Undisturbed, PrecedingAside(e)
    PROVE  Active' /\ (PrecedingUp(e)' \/ PrecedingBelow(e)')
<1>1. PICK w : w = walk.node
  OBVIOUS
<1>2. PICK x \in Nodes, p \in Owners : \E k \in Nat :
        /\ frames = <<PrecedingState(x, p, walk.wide, "parent"),
                      PrecedingSiblingsState(p, Deep, k)>>
        /\ x = w \/ Within(e, x, w)
        /\ SiblingsBehind(origin, x, p, k)
        /\ DownTo(origin[p][k + 1])
        /\ origin[p][k + 1] <= x
  BY <1>1 DEF PrecedingAside
<1>3. PICK k \in Nat :
        /\ frames = <<PrecedingState(x, p, walk.wide, "parent"),
                      PrecedingSiblingsState(p, Deep, k)>>
        /\ x = w \/ Within(e, x, w)
        /\ SiblingsBehind(origin, x, p, k)
        /\ DownTo(origin[p][k + 1])
        /\ origin[p][k + 1] <= x
  BY <1>2
<1>4. PICK a, y : a = PrecedingState(x, p, walk.wide, "parent") /\ y = origin[p][k + 1]
  OBVIOUS
<1>5. p # NIL /\ y \in Nat /\ x \in Nat
  <2>1. p # NIL
    BY NilIsNoOwner
  <2>2. y \in Nat
    BY <1>3, <1>4 DEF DownTo
  <2> QED  BY <2>1, <2>2, OwnersAreNumbers
<1>6. \A m \in Elems(yielded) : y <= m
  BY <1>3, <1>4 DEF DownTo, Claimed
<1>7. frames = Append(<<a>>, PrecedingSiblingsState(p, Deep, k)) /\ IsSeq(<<a>>)
  BY <1>3, <1>4, OneFrame
<1>8. BackwardsOutcome(e, x, p, Deep, k)
  BY <1>3, <1>4, <1>5, <1>6, <1>7, BackwardsSteps
<1>9. walk' = walk /\ origin' = origin
  BY DEF Keeps
<1>10. CASE k = 0 /\ Return
  <2>1. yielded' = yielded /\ status' = "running" /\ frames' = <<a>>
    <3>1. Inner(<<>>) = <<a>> /\ <<a>> # <<>>
      BY <1>7, TopFrame
    <3> QED  BY <1>10, <3>1 DEF Return, Continue
  <2>2. y = p + 1
    <3>1. 1 \in DOMAIN origin[p] /\ y = origin[p][1]
      BY <1>3, <1>4, <1>5, <1>10 DEF SiblingsBehind
    <3>2. origin[p] # <<>>
      BY <3>1
    <3> QED  BY <3>1, <3>2 DEF Numbered
  <2>3. DownTo(y)'
    BY <1>3, <1>4, <2>1, ProgressStays
  <2>4. DownTo(p + 1)'
    BY <2>2, <2>3, Zenon DEF DownTo
  <2>5. x \in Elems(origin'[p]) /\ (x = walk'.node \/ Within(e, x, walk'.node))
        /\ frames' = <<PrecedingState(x, p, walk'.wide, "parent")>>
    BY <1>1, <1>3, <1>4, <1>5, <1>9, <2>1 DEF SiblingsBehind
  <2>6. PrecedingUp(e)'
    BY <2>4, <2>5 DEF PrecedingUp, PrecedingState
  <2> QED  BY <2>1, <2>6 DEF Active
<1>11. CASE /\ k - 1 \in Nat /\ k \in DOMAIN origin[p]
            /\ SiblingsBehind(origin, x, p, k - 1)
            /\ LET c == origin[p][k] IN
               /\ c < origin[p][k + 1] /\ e[c] + 1 = origin[p][k + 1]
               /\ Continue(<<PrecedingSiblingsState(p, Deep, k - 1),
                             BottomUpState(Plain, <<[node |-> c, rest |-> origin[c]]>>)>>)
  <2>1. PICK c : c = origin[p][k]
    OBVIOUS
  <2>2. PICK b, fr : /\ b = PrecedingSiblingsState(p, Deep, k - 1)
                     /\ fr = BottomUpState(Plain, <<ListAt(c, origin[c])>>)
    OBVIOUS
  <2>3. Continue(<<b, fr>>) /\ y = e[c] + 1
    BY <1>4, <1>11, <2>1, <2>2, Zenon DEF ListAt
  <2>4. yielded' = yielded /\ status' = "running" /\ frames' = <<a, b, fr>>
    <3>1. <<a, b>> = Append(<<a>>, b) /\ <<a, b, fr>> = Append(<<a, b>>, fr)
      BY OneFrame
    <3>2. Inner(<<b, fr>>) = Append(Append(<<a>>, b), fr)
          /\ Append(Append(<<a>>, b), fr) # <<>>
      BY <1>7, TopFrame
    <3>3. Inner(<<b, fr>>) = <<a, b, fr>> /\ <<a, b, fr>> # <<>>
      BY <3>1, <3>2, Zenon
    <3> QED  BY <2>3, <3>3 DEF Continue
  <2>5. c \in Nodes /\ c \in Owners /\ e[c] \in Nat
    <3>1. c \in Nodes /\ c \in Owners
      BY <1>11, <2>1, ChildWithin
    <3> QED  BY <3>1, OwnersAreNumbers DEF Numbered
  <2>6. ReverseAt(e, c, y, fr)
    <3>1. /\ origin[c] \in Seq(Nodes)
          /\ \A i \in DOMAIN origin[c] : origin[c][i] \in Elems(origin[c])
          /\ \A i, j \in DOMAIN origin[c] : i < j => origin[c][i] < origin[c][j]
      <4>1. origin[c] \in Seq(Nodes)
        BY <2>5, ListsAreTyped
      <4>2. ASSUME NEW i \in DOMAIN origin[c], NEW j \in DOMAIN origin[c], i < j
            PROVE  origin[c][i] < origin[c][j]
        <5>1. e[origin[c][i]] < origin[c][j]
          BY <2>5, <4>2, ChildrenAscend
        <5>2. origin[c][i] \in Owners /\ origin[c][i] <= e[origin[c][i]] /\ origin[c][j] \in Owners
          BY <2>5, ChildWithin
        <5>3. origin[c][i] \in Nat /\ origin[c][j] \in Nat /\ e[origin[c][i]] \in Nat
          BY <5>2, OwnersAreNumbers DEF Numbered
        <5> QED  BY <5>1, <5>2, <5>3
      <4> QED  BY <4>1, <4>2 DEF Elems
    <3>2. ReverseAt(e, c, e[c] + 1, BottomUpState(Plain, <<ListAt(c, origin[c])>>))
      BY <2>5, <3>1, ReverseFrameStarts
    <3> QED  BY <2>2, <2>3, <3>2, Zenon
  <2>7. ReverseAt(e, c, y, fr)' /\ DownTo(y)'
    BY <1>3, <1>4, <2>4, <2>6, ReverseStays, ProgressStays
  <2>8. (k - 1) + 1 = k
    OBVIOUS
  <2>9. c = origin'[p][(k - 1) + 1] /\ e[c] < x
    BY <1>3, <1>4, <1>5, <1>9, <2>1, <2>3, <2>5, <2>8
  <2>10. ReverseAt(e, origin[p][(k - 1) + 1], y, fr)' /\ e[origin'[p][(k - 1) + 1]] < x
    BY <2>7, <2>9, Zenon DEF ReverseAt
  <2>11. frames' = <<PrecedingState(x, p, walk'.wide, "parent"),
                     PrecedingSiblingsState(p, Deep, k - 1), fr>>
    BY <1>4, <1>9, <2>2, <2>4
  <2>12. SiblingsBehind(origin', x, p, k - 1) /\ (x = walk'.node \/ Within(e, x, walk'.node))
    BY <1>1, <1>3, <1>9, <1>11
  <2>13. PrecedingBelow(e)'
    <3>1. PICK j : j = k - 1 /\ j \in Nat
      BY <1>11
    <3> QED  BY <1>5, <2>7, <2>10, <2>11, <2>12, <3>1
             DEF PrecedingBelow, PrecedingState, PrecedingSiblingsState, Deep
  <2> QED  BY <2>4, <2>13 DEF Active
<1> QED  BY <1>8, <1>10, <1>11 DEF BackwardsOutcome, Deep

LEMMA PrecedingBelowStep ==
    ASSUME Base, Started, NEW e, Numbered(origin, size, e), Keeps, Run, OnPreceding,
           Undisturbed, PrecedingBelow(e)
    PROVE  Active' /\ (PrecedingAside(e)' \/ PrecedingBelow(e)')
<1>1. PICK w : w = walk.node
  OBVIOUS
<1>2. PICK x \in Nodes, p \in Owners : \E k, y \in Nat : \E fr :
        /\ frames = <<PrecedingState(x, p, walk.wide, "parent"),
                      PrecedingSiblingsState(p, Deep, k), fr>>
        /\ x = w \/ Within(e, x, w)
        /\ SiblingsBehind(origin, x, p, k)
        /\ DownTo(y)
        /\ ReverseAt(e, origin[p][k + 1], y, fr)
        /\ e[origin[p][k + 1]] < x
  BY <1>1 DEF PrecedingBelow
<1>3. PICK k, y \in Nat : \E fr :
        /\ frames = <<PrecedingState(x, p, walk.wide, "parent"),
                      PrecedingSiblingsState(p, Deep, k), fr>>
        /\ x = w \/ Within(e, x, w)
        /\ SiblingsBehind(origin, x, p, k)
        /\ DownTo(y)
        /\ ReverseAt(e, origin[p][k + 1], y, fr)
        /\ e[origin[p][k + 1]] < x
  BY <1>2
<1>4. PICK fr :
        /\ frames = <<PrecedingState(x, p, walk.wide, "parent"),
                      PrecedingSiblingsState(p, Deep, k), fr>>
        /\ x = w \/ Within(e, x, w)
        /\ SiblingsBehind(origin, x, p, k)
        /\ DownTo(y)
        /\ ReverseAt(e, origin[p][k + 1], y, fr)
        /\ e[origin[p][k + 1]] < x
  BY <1>3
<1>5. PICK a, b, c : /\ a = PrecedingState(x, p, walk.wide, "parent")
                     /\ b = PrecedingSiblingsState(p, Deep, k)
                     /\ c = origin[p][k + 1]
  OBVIOUS
<1>6. /\ w \in Nodes /\ w \in Owners /\ w \in Nat
      /\ \A m : m \in AxisNodes(walk) <=> m \in Nodes /\ m < w /\ (walk.wide \/ ~Within(e, m, w))
      /\ walk.axis \in Falling
  BY <1>1, PrecedingAxis
<1>7. p # NIL /\ x \in Owners /\ x \in Nat /\ x <= w
  <2>1. p # NIL /\ x \in Owners /\ x \in Nat
    BY NilIsNoOwner, OwnersAreNumbers
  <2> QED  BY <1>4, <1>6, <2>1 DEF Within
<1>8. c \in Nodes /\ c \in Owners /\ c \in Nat /\ e[c] \in Nat /\ c <= e[c] /\ e[c] < x
  <2>1. k + 1 \in DOMAIN origin[p]
    BY <1>4, <1>7 DEF SiblingsBehind
  <2>2. c \in Nodes /\ c \in Owners
    BY <1>5, <2>1, ChildWithin
  <2> QED  BY <1>4, <1>5, <2>2, OwnersAreNumbers DEF Numbered
<1>9. frames = Append(<<a, b>>, fr) /\ IsSeq(<<a, b>>)
  <2>1. frames = <<a, b, fr>>
    BY <1>4, <1>5
  <2>2. <<a, b, fr>> = Append(<<a, b>>, fr)
    BY OneFrame
  <2>3. IsSeq(<<a, b>>)
    BY OneFrame
  <2> QED  BY <2>1, <2>2, <2>3
<1>10. ReverseOutcome(e, c, y)
  <2>1. \A m \in Elems(yielded) : y <= m
    BY <1>4 DEF DownTo, Claimed
  <2>2. ReverseAt(e, c, y, fr)
    BY <1>4, <1>5
  <2> QED  BY <1>8, <1>9, <2>1, <2>2, ReverseSteps
<1>11. walk' = walk /\ origin' = origin
  BY DEF Keeps
<1>12. \A g : Inner(<<g>>) = <<a, b, g>> /\ <<a, b, g>> # <<>>
  <2>1. \A g : Inner(<<g>>) = Append(<<a, b>>, g) /\ Append(<<a, b>>, g) # <<>>
    BY <1>9, TopFrame
  <2>2. \A g : <<a, b, g>> = Append(<<a, b>>, g)
    BY OneFrame
  <2> QED  BY <2>1, <2>2
<1>13. ASSUME NEW z \in Nat, NEW g, frames' = <<a, b, g>>, ReverseAt(e, c, z, g), DownTo(z)'
       PROVE  PrecedingBelow(e)'
  <2>1. ReverseAt(e, c, z, g)'
    BY <1>13, ReverseStays
  <2>2. c = origin'[p][k + 1]
    BY <1>5, <1>11
  <2>3. ReverseAt(e, origin[p][k + 1], z, g)' /\ e[origin'[p][k + 1]] < x
    BY <1>8, <2>1, <2>2, Zenon DEF ReverseAt
  <2>4. frames' = <<PrecedingState(x, p, walk'.wide, "parent"),
                    PrecedingSiblingsState(p, Deep, k), g>>
    BY <1>5, <1>11, <1>13
  <2>5. SiblingsBehind(origin', x, p, k) /\ (x = walk'.node \/ Within(e, x, walk'.node))
    BY <1>1, <1>4, <1>11
  <2> QED  BY <1>13, <2>3, <2>4, <2>5
           DEF PrecedingBelow, PrecedingState, PrecedingSiblingsState, Deep
<1>14. CASE Return /\ (Undisturbed => y = c)
  <2>1. yielded' = yielded /\ status' = "running" /\ frames' = <<a, b>>
    <3>1. Inner(<<>>) = <<a, b>> /\ <<a, b>> # <<>>
      BY <1>9, TopFrame
    <3> QED  BY <1>14, <3>1 DEF Return, Continue
  <2>2. DownTo(y)' /\ y = origin'[p][k + 1]
    BY <1>4, <1>5, <1>11, <1>14, <2>1, ProgressStays
  <2>3. DownTo(origin[p][k + 1])' /\ origin'[p][k + 1] <= x
    <3>1. c <= x
      BY <1>7, <1>8
    <3> QED  BY <1>5, <1>11, <1>14, <2>2, <3>1, Zenon DEF DownTo
  <2>4. frames' = <<PrecedingState(x, p, walk'.wide, "parent"),
                    PrecedingSiblingsState(p, Deep, k)>>
    BY <1>5, <1>11, <2>1
  <2>5. SiblingsBehind(origin', x, p, k) /\ (x = walk'.node \/ Within(e, x, walk'.node))
    BY <1>1, <1>4, <1>11
  <2>6. PrecedingAside(e)'
    BY <2>3, <2>4, <2>5 DEF PrecedingAside, PrecedingState, PrecedingSiblingsState, Deep
  <2> QED  BY <2>1, <2>6 DEF Active
<1>15. ASSUME NEW g, Continue(<<g>>), ReverseAt(e, c, y, g)
       PROVE  Active' /\ PrecedingBelow(e)'
  <2>1. yielded' = yielded /\ status' = "running" /\ frames' = <<a, b, g>>
    BY <1>12, <1>15 DEF Continue
  <2>2. DownTo(y)'
    BY <1>4, <2>1, ProgressStays
  <2> QED  BY <1>13, <1>15, <2>1, <2>2 DEF Active
<1>16. ASSUME NEW z \in Nodes, NEW g, Yield(z, <<g>>), ReverseAt(e, c, z, g),
              z < y, z = c \/ Within(e, c, z), Undisturbed => y = z + 1
       PROVE  Active' /\ PrecedingBelow(e)'
  <2>1. yielded' = Append(yielded, z) /\ status' = "suspended" /\ frames' = <<a, b, g>>
    BY <1>12, <1>16 DEF Yield
  <2>2. z \in Owners /\ z \in Nat /\ e[z] \in Nat /\ e[z] <= e[c] /\ z <= e[c]
    <3>1. z \in Owners /\ z \in Nat
      BY OwnersAreNumbers
    <3>2. e[z] \in Nat
      BY <3>1, OwnersAreNumbers DEF Numbered
    <3>3. CASE z = c
      BY <1>8, <3>1, <3>2, <3>3
    <3>4. CASE Within(e, c, z)
      <4>1. e[z] <= e[c]
        BY <1>8, <3>1, <3>4 DEF Within, Numbered
      <4> QED  BY <3>1, <3>2, <3>4, <4>1 DEF Within
    <3> QED  BY <1>16, <3>1, <3>2, <3>3, <3>4
  <2>3. z \in AxisNodes(walk)
    <3>1. z < w /\ e[z] < w
      BY <1>6, <1>7, <1>8, <2>2
    <3>2. ~Within(e, z, w)
      BY <1>6, <2>2, <3>1 DEF Within
    <3> QED  BY <1>6, <3>1, <3>2
  <2>4. ASSUME NEW m \in AxisNodes(walk), z < m PROVE y <= m
    <3>1. m \in Nat
      BY AxisIsTyped
    <3> QED  BY <1>16, <2>2, <2>4, <3>1
  <2>5. DownTo(z)'
    BY <1>4, <1>6, <1>16, <2>1, <2>3, <2>4, YieldsDown
  <2> QED  BY <1>13, <1>16, <2>1, <2>2, <2>5 DEF Active
<1> QED  BY <1>10, <1>14, <1>15, <1>16 DEF ReverseOutcome

LEMMA PrecedingUpStep ==
    ASSUME Base, Started, NEW e, Numbered(origin, size, e), Keeps, Run, OnPreceding,
           Undisturbed, PrecedingUp(e)
    PROVE  (Active' /\ PrecedingAt(e)') \/ Ended'
<1>1. PICK w : w = walk.node
  OBVIOUS
<1>2. PICK x \in Nodes, p \in Owners :
        /\ frames = <<PrecedingState(x, p, walk.wide, "parent")>>
        /\ x = w \/ Within(e, x, w)
        /\ x \in Elems(origin[p])
        /\ DownTo(p + 1)
  BY <1>1 DEF PrecedingUp
<1>3. /\ w \in Nodes /\ w \in Owners /\ w \in Nat
      /\ walk.wide \in BOOLEAN
      /\ \A m : m \in AxisNodes(walk) <=> m \in Nodes /\ m < w /\ (walk.wide \/ ~Within(e, m, w))
      /\ walk.axis \in Falling
  BY <1>1, PrecedingAxis
<1>4. p \in Nat /\ Within(e, p, w) /\ p < w
  <2>1. x \in Owners /\ p \in Nat /\ Within(e, p, x)
    BY <1>2, MemberWithin, OwnersAreNumbers
  <2>2. Within(e, p, w)
    BY <1>2, <1>3, <2>1, WithinTransitive
  <2> QED  BY <2>1, <2>2 DEF Within
<1>5. frames = Append(<<>>, PrecedingState(x, p, walk.wide, "parent")) /\ IsSeq(<<>>)
  BY <1>2, OneFrame
<1>6. IF p = Document THEN Return
      ELSE IF walk.wide THEN Yield(p, <<PrecedingState(p, NIL, Deep, "start")>>)
      ELSE Continue(<<PrecedingState(p, NIL, Plain, "start")>>)
  <2>1. GoesUp(p, walk.wide)
    BY <1>5, PrecedingTurns
  <2> QED  BY <2>1, Zenon DEF GoesUp
<1>7. \A g : Inner(<<g>>) = <<g>> /\ <<g>> # <<>>
  <2>1. \A g : Inner(<<g>>) = Append(<<>>, g)
    BY <1>5, TopFrame, Zenon
  <2>2. \A g : <<g>> = Append(<<>>, g) /\ <<g>> # <<>>
    OBVIOUS
  <2> QED  BY <2>1, <2>2
<1>8. walk' = walk /\ origin' = origin
  BY DEF Keeps
<1>9. CASE p = Document
  <2>1. \A m \in AxisNodes(walk) : p + 1 <= m
    <3>1. p + 1 = 1
      BY <1>9 DEF Document
    <3> QED  BY <1>3, <3>1, OwnersAreNumbers
  <2>2. Exhausted /\ InOrder
    BY <1>2, <2>1 DEF DownTo, Exhausted, Claimed
  <2> QED  BY <1>5, <1>6, <1>9, <2>2, WalkEnds
<1>10. ASSUME p # Document, DownTo(p)', frames' = <<PrecedingState(p, NIL, walk.wide, "start")>>
       PROVE  PrecedingAt(e)'
  <2>1. p \in Nodes
    BY <1>10 DEF Owners, Document
  <2>2. frames' = <<PrecedingState(p, NIL, walk'.wide, "start")>> /\ Within(e, p, walk'.node)
    BY <1>1, <1>4, <1>8, <1>10
  <2> QED  BY <1>10, <2>1, <2>2 DEF PrecedingAt, PrecedingState
<1>11. CASE p # Document /\ walk.wide
  <2>1. walk.wide = Deep
    BY <1>3, <1>11 DEF Deep
  <2>2. Yield(p, <<PrecedingState(p, NIL, walk.wide, "start")>>)
    BY <1>6, <1>11, <2>1, Zenon
  <2>3. /\ yielded' = Append(yielded, p) /\ status' = "suspended"
        /\ frames' = <<PrecedingState(p, NIL, walk.wide, "start")>>
    BY <1>7, <2>2 DEF Yield
  <2>4. p \in Nodes /\ p \in AxisNodes(walk)
    BY <1>3, <1>4, <1>11 DEF Owners, Document
  <2>5. ASSUME NEW m \in AxisNodes(walk), p < m PROVE p + 1 <= m
    <3>1. m \in Nat
      BY AxisIsTyped
    <3> QED  BY <1>4, <2>5, <3>1
  <2>6. DownTo(p)'
    <3>1. p < p + 1
      BY <1>4
    <3> QED  BY <1>2, <1>3, <2>3, <2>4, <2>5, <3>1, YieldsDown
  <2> QED  BY <1>10, <1>11, <2>3, <2>6 DEF Active
<1>12. CASE p # Document /\ ~walk.wide
  <2>1. walk.wide = Plain
    BY <1>3, <1>12 DEF Plain
  <2>2. Continue(<<PrecedingState(p, NIL, walk.wide, "start")>>)
    BY <1>6, <1>12, <2>1, Zenon
  <2>3. /\ yielded' = yielded /\ status' = "running"
        /\ frames' = <<PrecedingState(p, NIL, walk.wide, "start")>>
    BY <1>7, <2>2 DEF Continue
  <2>4. DownTo(p)
    <3>1. p \notin AxisNodes(walk)
      BY <1>3, <1>4, <1>12
    <3>2. \A m \in AxisNodes(walk) : m \in Nat /\ (p <= m => p + 1 <= m)
      <4> SUFFICES ASSUME NEW m \in AxisNodes(walk) PROVE m \in Nat /\ (p <= m => p + 1 <= m)
        OBVIOUS
      <4>1. m \in Nat /\ m # p
        BY <3>1, AxisIsTyped
      <4> QED  BY <1>4, <4>1
    <3>3. InOrder /\ \A m \in Elems(yielded) : m \in AxisNodes(walk) /\ p + 1 <= m
      BY <1>2 DEF DownTo, Claimed, InOrder
    <3>4. \A m \in Elems(yielded) : p <= m
      <4> SUFFICES ASSUME NEW m \in Elems(yielded) PROVE p <= m
        OBVIOUS
      <4>1. m \in Nat /\ p + 1 <= m
        BY <3>2, <3>3
      <4> QED  BY <1>4, <4>1
    <3> QED  BY <1>2, <1>4, <3>2, <3>3, <3>4 DEF DownTo
  <2>5. DownTo(p)'
    BY <2>3, <2>4, ProgressStays
  <2> QED  BY <1>10, <1>12, <2>3, <2>5 DEF Active
<1> QED  BY <1>9, <1>11, <1>12

LEMMA PrecedingStep ==
    ASSUME Base, Started, NEW e, Numbered(origin, size, e), Keeps, Run,
           OnPreceding, PrecedingWalk(e)
    PROVE  (Active' /\ PrecedingWalk(e)') \/ Ended'
<1>1. CASE ~Undisturbed
  <2>1. ~Undisturbed' /\ ~Claimed'
    BY <1>1, Zenon DEF Keeps, Claimed, OnPreceding, Forward
  <2>2. status' \in {"running", "suspended", "done", "IndexError"}
    BY RunProceeds DEF Proceeds
  <2> QED  BY <2>1, <2>2 DEF Active, Ended, PrecedingWalk
<1>2. CASE Undisturbed
  <2>1. PrecedingAt(e) \/ PrecedingAside(e) \/ PrecedingBelow(e) \/ PrecedingUp(e)
    BY <1>2 DEF PrecedingWalk
  <2>2. \/ Ended'
        \/ /\ Active'
           /\ PrecedingAt(e)' \/ PrecedingAside(e)' \/ PrecedingBelow(e)' \/ PrecedingUp(e)'
    BY <1>2, <2>1, PrecedingAtStep, PrecedingAsideStep, PrecedingBelowStep, PrecedingUpStep
  <2> QED  BY <2>2 DEF PrecedingWalk
<1> QED  BY <1>1, <1>2

-----------------------------------------------------------------------------
(* All that follows a node *)

LEMMA MemberBounded ==
    ASSUME NEW L, NEW z, NEW e, Numbered(L, z, e), NEW o \in Owners
    PROVE  /\ e[o] \in Nat /\ z \in Nat
           /\ o <= z => e[o] <= z
           /\ \A c \in Elems(L[o]) : c \in Nodes /\ c \in Owners /\ c <= z /\ e[c] <= z
                                     /\ e[o] <= z /\ c <= e[c] /\ e[c] \in Nat
<1>1. e[o] \in Nat /\ z \in Nat /\ (o <= z => e[o] <= z)
  BY OwnersAreNumbers DEF Numbered
<1>2. ASSUME NEW c \in Elems(L[o])
      PROVE  c \in Nodes /\ c \in Owners /\ c <= z /\ e[c] <= z /\ e[o] <= z
             /\ c <= e[c] /\ e[c] \in Nat
  <2>1. c \in Nodes /\ c \in Owners /\ e[c] <= e[o]
    BY <1>2, MemberWithin
  <2>2. L[o] # <<>>
    BY <1>2 DEF Elems
  <2>3. o <= z
    BY <1>1, <2>2, OwnersAreNumbers DEF Numbered
  <2>4. c <= e[c] /\ e[c] \in Nat /\ c \in Nat
    BY <2>1, OwnersAreNumbers DEF Numbered
  <2> QED  BY <1>1, <2>1, <2>3, <2>4
<1> QED  BY <1>1, <1>2

OnFollowing == walk.axis = "following"

\* The walk is past y, and past what it leaves out of its node's subtree.
Past(e, y) ==
    /\ UpTo(y)
    /\ walk.node <= y
    /\ walk.wide \/ e[walk.node] <= y

LEMMA FollowingAxis ==
    ASSUME Base, Started, NEW e, Numbered(origin, size, e), OnFollowing, NEW w, w = walk.node
    PROVE  /\ w \in Nodes /\ w \in Owners /\ w \in Nat /\ w <= size
           /\ w <= e[w] /\ e[w] \in Nat /\ e[w] <= size /\ size \in Nat
           /\ walk.wide \in BOOLEAN
           /\ \A m : m \in AxisNodes(walk) <=>
                        /\ m \in Nodes /\ w < m /\ m <= size
                        /\ walk.wide \/ ~Within(e, w, m)
           /\ Undisturbed => children = origin
           /\ walk.axis \in Rising
           /\ Claimed
<1>1. walk \in Walks /\ walk.node <= size
  BY DEF Base
<1>2. w \in Nodes /\ w \in Owners /\ w \in Nat /\ w <= size /\ walk.wide \in BOOLEAN
  BY <1>1, OwnersAreNumbers DEF Walks
<1>3. w <= e[w] /\ e[w] \in Nat /\ e[w] <= size /\ size \in Nat
  BY <1>2, OwnersAreNumbers DEF Numbered
<1>4. ASSUME NEW m PROVE m \in AxisNodes(walk) <=>
                            /\ m \in Nodes /\ w < m /\ m <= size
                            /\ walk.wide \/ ~Within(e, w, m)
  BY <1>1, AxisFacts DEF OnFollowing
<1>5. ASSUME Undisturbed PROVE children = origin
  <2>1. ~IsRobust(walk)
    BY Zenon DEF IsRobust, OnFollowing
  <2> QED  BY <1>5, <2>1, LeftAlone
<1>6. walk.axis \in Rising /\ Claimed
  BY Zenon DEF Rising, Claimed, Forward, OnFollowing
<1> QED  BY <1>2, <1>3, <1>4, <1>5, <1>6

LEMMA PastStays ==
    ASSUME Keeps, yielded' = yielded, NEW e, NEW y, Past(e, y)
    PROVE  Past(e, y)'
<1>1. UpTo(y)'
  BY ProgressStays DEF Past
<1>2. walk' = walk
  BY DEF Keeps
<1> QED  BY <1>1, <1>2 DEF Past

LEMMA PastYields ==
    ASSUME Base, Started, NEW e, Numbered(origin, size, e), OnFollowing, Keeps,
           NEW y \in Nat, Past(e, y), NEW z \in Nodes, z <= size, y < z,
           yielded' = Append(yielded, z), Undisturbed => z = y + 1
    PROVE  Past(e, z)'
<1>1. PICK w : w = walk.node
  OBVIOUS
<1>2. /\ w \in Nat /\ e[w] \in Nat /\ walk.wide \in BOOLEAN
      /\ \A m : m \in AxisNodes(walk) <=> /\ m \in Nodes /\ w < m /\ m <= size
                                          /\ walk.wide \/ ~Within(e, w, m)
      /\ walk.axis \in Rising
  BY <1>1, FollowingAxis
<1>3. UpTo(y) /\ w <= y /\ (walk.wide \/ e[w] <= y)
  BY <1>1 DEF Past
<1>4. z \in Nat
  BY OwnersAreNumbers
<1>5. w < z /\ (walk.wide \/ e[w] < z)
  BY <1>2, <1>3, <1>4
<1>6. z \in AxisNodes(walk)
  BY <1>2, <1>4, <1>5 DEF Within
<1>7. ASSUME Undisturbed, NEW m \in AxisNodes(walk), m < z PROVE m <= y
  <2>1. m \in Nat
    BY AxisIsTyped
  <2> QED  BY <1>7, <2>1
<1>8. UpTo(z)'
  BY <1>2, <1>3, <1>6, <1>7, YieldsUp
<1>9. walk' = walk
  BY DEF Keeps
<1> QED  BY <1>1, <1>2, <1>4, <1>5, <1>8, <1>9 DEF Past

LEMMA PastEnds ==
    ASSUME Base, Started, NEW e, Numbered(origin, size, e), OnFollowing, Keeps,
           NEW y \in Nat, Past(e, y), NEW fr, frames = <<fr>>, Return,
           Undisturbed => y = size
    PROVE  Ended'
<1>1. frames = Append(<<>>, fr) /\ IsSeq(<<>>)
  BY OneFrame
<1>2. Claimed => InOrder
  BY DEF Past, UpTo
<1>3. ASSUME Undisturbed PROVE Exhausted
  <2>1. \A m \in AxisNodes(walk) : m <= y
    BY <1>3, FollowingAxis
  <2> QED  BY <1>3, <2>1 DEF Past, UpTo, Exhausted
<1> QED  BY <1>1, <1>2, <1>3, WalkEnds

FollowingState(x, wide, at) ==
    [gen |-> "following", node |-> x, wide |-> wide, at |-> at]

AtPlace(fr, at) == [fr EXCEPT !.at = at]

IsFollowing(fr, x, wide, at) ==
    /\ fr.gen = "following" /\ fr.node = x /\ fr.wide = wide /\ fr.at = at
    /\ \A a : AtPlace(fr, a) = FollowingState(x, wide, a)

LEMMA FollowingFields ==
    ASSUME NEW x, NEW wide, NEW at, NEW fr, fr = FollowingState(x, wide, at)
    PROVE  IsFollowing(fr, x, wide, at)
<1>1. fr.gen = "following" /\ fr.node = x /\ fr.at = at
  BY DEF FollowingState
<1>2. fr.wide = wide
  BY Zenon DEF FollowingState
<1>3. \A a : AtPlace(fr, a) = FollowingState(x, wide, a)
  BY DEF FollowingState, AtPlace
<1> QED  BY <1>1, <1>2, <1>3, Zenon DEF IsFollowing

\* how the steps of such a frame go on
GoesDown(x, wide) == Continue(<<FollowingState(x, wide, "siblings")>> \o Deeper(wide, x))

GoesAside(x, wide) ==
    IF Parent(x) = NIL THEN Return
    ELSE Continue(<<FollowingState(x, wide, "ancestors"), FollowingSiblingsFrame(x, Deep)>>)

WithSibling(x) == {a \in Ancestors(x) : HasFollowingSibling(a)}

NextSibling(a) == children[Parent(a)][Position(a) + 1]

GoesOver(x) ==
    IF WithSibling(x) = {} THEN Return
    ELSE Yield(NextSibling(Greatest(WithSibling(x))),
               <<FollowingState(NextSibling(Greatest(WithSibling(x))), Deep, "start")>>)

LEMMA FollowingTurns ==
    ASSUME Run, NEW G, IsSeq(G), NEW x, NEW wide, NEW at,
           frames = Append(G, FollowingState(x, wide, at))
    PROVE  /\ at = "start" => GoesDown(x, wide)
           /\ at = "siblings" => GoesAside(x, wide)
           /\ at = "ancestors" => GoesOver(x)
<1>1. PICK fr : fr = FollowingState(x, wide, at)
  OBVIOUS
<1>2. f = fr
  <2>1. frames = Append(G, fr)
    BY <1>1
  <2> QED  BY <2>1, TopFrame
<1>3. /\ fr.gen = "following" /\ fr.node = x /\ fr.wide = wide /\ fr.at = at
      /\ \A a : AtPlace(fr, a) = FollowingState(x, wide, a)
  <2>1. IsFollowing(fr, x, wide, at)
    BY <1>1, FollowingFields, Zenon
  <2> QED  BY <2>1, Zenon DEF IsFollowing
<1>4. StepFollowing
  BY <1>2, <1>3, RunsTop
<1>5. \A n : FollowingFrame(n, TRUE) = FollowingState(n, Deep, "start")
  BY Zenon DEF FollowingFrame, FollowingState, Deep
<1>6. \/ at = "start" /\ Continue(<<AtPlace(fr, "siblings")>> \o Deeper(wide, x))
      \/ /\ at = "siblings"
         /\ IF Parent(x) = NIL THEN Return
            ELSE Continue(<<AtPlace(fr, "ancestors"), FollowingSiblingsFrame(x, TRUE)>>)
      \/ /\ at = "ancestors"
         /\ IF WithSibling(x) = {} THEN Return
            ELSE Yield(NextSibling(Greatest(WithSibling(x))),
                       <<FollowingFrame(NextSibling(Greatest(WithSibling(x))), TRUE)>>)
  BY <1>2, <1>3, <1>4, Zenon DEF StepFollowing, AtPlace, Deeper, WithSibling, NextSibling
<1>7. "start" # "siblings" /\ "start" # "ancestors" /\ "siblings" # "ancestors"
  OBVIOUS
<1>8. /\ AtPlace(fr, "siblings") = FollowingState(x, wide, "siblings")
      /\ AtPlace(fr, "ancestors") = FollowingState(x, wide, "ancestors")
  BY <1>3, Zenon
<1> QED  BY <1>5, <1>6, <1>7, <1>8, Zenon DEF GoesDown, GoesAside, GoesOver, Deep

\* what _fetch_following_sibling finds
LEMMA SiblingFound ==
    ASSUME Base, Started, NEW e, Numbered(origin, size, e), NEW a \in Nodes,
           HasFollowingSibling(a)
    PROVE  /\ \E q \in Owners : NextSibling(a) \in Elems(origin[q])
           /\ e[a] < NextSibling(a)
           /\ children = origin => NextSibling(a) = e[a] + 1
<1>1. PICK q, p, c : q = Parent(a) /\ p = Position(a) /\ c = NextSibling(a)
  OBVIOUS
<1>2. a \in Owners /\ a \in Nat /\ q # NIL
  BY <1>1, OwnersAreNumbers DEF HasFollowingSibling
<1>3. Remainder(children, origin)
  BY ListsAreTyped
<1>4. q \in Owners /\ a \in Elems(children[q]) /\ a \in Elems(origin[q])
  BY <1>1, <1>2, <1>3, ParentInRemainder DEF Parent
<1>5. p \in DOMAIN children[q] /\ children[q][p] = a
  <2>1. \E i \in DOMAIN children[q] : children[q][i] = a
    BY <1>4 DEF Elems
  <2> QED  BY <1>1, <2>1 DEF Position, PositionOf
<1>6. p \in Nat /\ Len(children[q]) \in Nat /\ DOMAIN children[q] = 1 .. Len(children[q])
  BY <1>4, <1>5, ListsAreTyped
<1>7. p # Len(children[q])
  BY <1>1, <1>5 DEF HasFollowingSibling, Last
<1>8. p + 1 \in DOMAIN children[q] /\ c = children[q][p + 1] /\ p < p + 1
  BY <1>1, <1>5, <1>6, <1>7 DEF NextSibling
<1>9. a < c /\ c \in Elems(origin[q])
  BY <1>4, <1>5, <1>8, ListsAreTyped
<1>10. e[a] < c
  BY <1>4, <1>9, SiblingsApart
<1>11. ASSUME children = origin PROVE c = e[a] + 1
  <2>1. p \in 1 .. Len(origin[q]) - 1
    BY <1>5, <1>6, <1>7, <1>11
  <2> QED  BY <1>4, <1>5, <1>8, <1>11, <2>1 DEF Numbered
<1> QED  BY <1>1, <1>4, <1>9, <1>10, <1>11

LEMMA AboveParent ==
    ASSUME Base, Started, NEW e, Numbered(origin, size, e), NEW x \in Nodes,
           NEW o \in Owners, x \in Elems(origin[o]), NEW a \in Ancestors(x)
    PROVE  a \in Nodes /\ a \in Owners /\ (a = o \/ Within(e, a, o)) /\ e[o] <= e[a]
<1>1. x \in Owners /\ Remainder(children, origin)
  BY ListsAreTyped, OwnersAreNumbers
<1>2. a \in Nodes /\ Within(e, a, x)
  BY <1>1, AncestorsAreWithin DEF Ancestors
<1>3. a \in Owners
  BY <1>2, OwnersAreNumbers
<1>4. PICK q \in Owners : x \in Elems(origin[q]) /\ (a = q \/ Within(e, a, q))
  BY <1>1, <1>2, <1>3, HasParent
<1>5. q = o
  BY <1>1, <1>4, OneParent
<1>6. e[o] \in Nat
  BY OwnersAreNumbers DEF Numbered
<1>7. e[o] <= e[a]
  BY <1>3, <1>4, <1>5, <1>6 DEF Within, Numbered
<1> QED  BY <1>2, <1>3, <1>4, <1>5, <1>7

\* A subtree that does not reach to the end is followed by a sibling of one of the nodes
\* that it is the end of.
LEMMA SiblingAbove ==
    ASSUME Base, Started, NEW e, Numbered(origin, size, e), NEW x \in Nodes,
           NEW o \in Owners, x \in Elems(origin[o]), children = origin, e[o] # size
    PROVE  \E a \in WithSibling(x) : e[a] = e[o]
<1> DEFINE S == {a \in Nodes : (a = o \/ Within(e, a, o)) /\ e[a] = e[o]}
<1>1. /\ \A a \in Owners : e[a] \in Nat
      /\ IF origin[Document] = <<>> THEN e[1] = size ELSE e[Document] = size
      /\ 1 \in Nodes /\ 0 \in Owners /\ Document = 0
  <2>1. \A a \in Owners : e[a] \in Nat
    BY OwnersAreNumbers DEF Numbered
  <2>2. IF origin[Document] = <<>> THEN e[1] = size ELSE e[Document] = size
    BY DEF Numbered
  <2>3. 1 \in Nodes /\ 0 \in Owners /\ Document = 0
    BY OwnersAreNumbers
  <2> QED  BY <2>1, <2>2, <2>3
<1>2. o \in Nodes
  <2>1. o = Document => origin[Document] # <<>>
    BY DEF Elems
  <2>2. o # Document
    BY <1>1, <2>1
  <2> QED  BY <2>2 DEF Owners
<1>3. PICK a \in S : \A b \in S : a <= b
  <2>1. S \in SUBSET Nat /\ S # {}
    BY <1>2, OwnersAreNumbers
  <2> HIDE DEF S
  <2> QED  BY <2>1, LeastMember
<1>4. a \in Nodes /\ a \in Owners /\ (a = o \/ Within(e, a, o)) /\ e[a] = e[o] /\ a <= size
  <2>1. a \in Nodes /\ (a = o \/ Within(e, a, o)) /\ e[a] = e[o]
    BY <1>3
  <2>2. a \in Nat /\ a \in Owners /\ o \in Nat /\ o <= size /\ size \in Nat
    <3>1. o <= e[o] /\ e[o] <= size
      <4>1. o <= e[o]
        BY DEF Numbered
      <4>2. e[o] <= size
        BY MemberBounded
      <4> QED  BY <4>1, <4>2
    <3> QED  BY <1>1, <2>1, <3>1, MemberBounded, OwnersAreNumbers
  <2> QED  BY <2>1, <2>2 DEF Within
<1>5. Within(e, a, x)
  <2>1. Within(e, o, x) /\ x \in Owners
    BY MemberWithin, OwnersAreNumbers
  <2> QED  BY <1>4, <2>1, WithinTransitive
<1>6. PICK q \in Owners : a \in Elems(origin[q])
  <2> SUFFICES ASSUME \A q \in Owners : a \notin Elems(origin[q]) PROVE FALSE
    OBVIOUS
  <2>1. a = 1 /\ origin[Document] = <<>>
    BY <1>4, NoParent
  <2> QED  BY <1>1, <1>4, <2>1
<1>7. e[q] # e[a]
  <2> SUFFICES ASSUME e[q] = e[a] PROVE FALSE
    OBVIOUS
  <2>1. Within(e, q, a) /\ q < a
    BY <1>4, <1>6, MemberWithin DEF Within
  <2>2. q # Document
    <3>1. q = Document => origin[Document] # <<>>
      BY <1>6 DEF Elems
    <3> QED  BY <1>1, <1>4, <3>1
  <2>3. q \in Nodes
    BY <2>2 DEF Owners
  <2>4. Within(e, q, o)
    BY <1>4, <2>1, WithinTransitive
  <2>5. q \in S
    BY <1>4, <2>3, <2>4
  <2>6. a <= q
    BY <1>3, <2>5
  <2> QED  BY <1>4, <2>1, <2>6, OwnersAreNumbers
<1>8. Remainder(children, origin)
  BY ListsAreTyped
<1>9. Parent(a) = q
  BY <1>4, <1>6, <1>8, ParentInRemainder DEF Parent
<1>10. HasFollowingSibling(a)
  <2>1. q # NIL
    BY NilIsNoOwner
  <2>2. origin[q] # <<>>
    BY <1>6 DEF Elems
  <2>3. e[q] = e[Last(origin[q])]
    BY <2>2 DEF Numbered, Last
  <2> QED  BY <1>7, <1>9, <2>1, <2>3 DEF HasFollowingSibling
<1>11. a \in Ancestors(x)
  <2>1. x \in Owners
    BY OwnersAreNumbers
  <2> QED  BY <1>4, <1>5, <2>1, AncestorsAndSubtrees DEF Ancestors
<1> QED  BY <1>4, <1>10, <1>11 DEF WithSibling

\* The step from a node's ancestors to what follows them
LEMMA GoesOverTo ==
    ASSUME Base, Started, NEW e, Numbered(origin, size, e), NEW x \in Nodes,
           NEW o \in Owners, x \in Elems(origin[o]), NEW y \in Nat, y <= e[o],
           Undisturbed => children = origin /\ y = e[o], GoesOver(x)
    PROVE  \/ Return /\ (Undisturbed => y = size)
           \/ \E c \in Nodes :
                /\ c <= size /\ y < c
                /\ Undisturbed => c = y + 1
                /\ Yield(c, <<FollowingState(c, Deep, "start")>>)
<1>1. e[o] \in Nat /\ \A a \in Ancestors(x) : a \in Nodes /\ a \in Owners /\ e[a] \in Nat
                                               /\ e[o] <= e[a] /\ (a = o \/ Within(e, a, o))
  <2>1. \A a \in Owners : e[a] \in Nat
    BY OwnersAreNumbers DEF Numbered
  <2> QED  BY <2>1, AboveParent
<1>2. CASE WithSibling(x) = {}
  <2>1. Undisturbed => y = size
    BY <1>2, SiblingAbove
  <2> QED  BY <1>2, <2>1 DEF GoesOver
<1>3. CASE WithSibling(x) # {}
  <2>1. PICK a : a = Greatest(WithSibling(x))
    OBVIOUS
  <2>2. a \in WithSibling(x) /\ \A b \in WithSibling(x) : b <= a
    <3>1. WithSibling(x) \in SUBSET Nat /\ \A b \in WithSibling(x) : b <= N
      BY <1>1, OwnersAreNumbers DEF WithSibling
    <3>2. \E b \in WithSibling(x) : \A c \in WithSibling(x) : c <= b
      BY <1>3, <3>1, GreatestMember, OwnersAreNumbers
    <3> QED  BY <2>1, <3>2 DEF Greatest
  <2>3. a \in Ancestors(x) /\ HasFollowingSibling(a)
    BY <2>2 DEF WithSibling
  <2>4. PICK c : c = NextSibling(a)
    OBVIOUS
  <2>5. PICK q \in Owners : c \in Elems(origin[q])
    BY <1>1, <2>3, <2>4, SiblingFound
  <2>6. c \in Nodes /\ c <= size /\ c \in Nat
    BY <2>5, MemberBounded, OwnersAreNumbers
  <2>7. e[a] < c /\ (children = origin => c = e[a] + 1)
    BY <1>1, <2>3, <2>4, SiblingFound
  <2>8. y < c
    BY <1>1, <2>3, <2>6, <2>7
  <2>9. ASSUME Undisturbed PROVE c = y + 1
    <3>1. CASE e[o] = size
      BY <1>1, <2>3, <2>6, <2>7, <3>1, MemberBounded
    <3>2. CASE e[o] # size
      <4>1. PICK b \in WithSibling(x) : e[b] = e[o]
        BY <2>9, <3>2, SiblingAbove
      <4>2. b \in Ancestors(x) /\ b <= a
        BY <2>2, <4>1 DEF WithSibling
      <4>3. b = a \/ Within(e, b, a)
        <5>1. a <= o /\ o <= e[b] /\ a \in Nat /\ b \in Nat /\ o \in Nat /\ e[b] \in Nat
          <6>1. o <= e[o] /\ a \in Nat /\ b \in Nat /\ o \in Nat
            BY <1>1, <2>3, <4>2, OwnersAreNumbers DEF Numbered
          <6>2. a <= o
            BY <1>1, <2>3, <6>1 DEF Within
          <6> QED  BY <1>1, <4>1, <4>2, <6>1, <6>2
        <5> QED  BY <4>2, <5>1 DEF Within
      <4>4. e[a] <= e[b]
        <5>1. CASE b = a
          BY <1>1, <2>3, <5>1
        <5>2. CASE Within(e, b, a)
          BY <1>1, <2>3, <4>2, <5>2 DEF Within, Numbered
        <5> QED  BY <4>3, <5>1, <5>2
      <4>5. e[a] = e[o]
        BY <1>1, <2>3, <4>1, <4>2, <4>4
      <4> QED  BY <2>7, <2>9, <4>5
    <3> QED  BY <3>1, <3>2
  <2>10. Yield(c, <<FollowingState(c, Deep, "start")>>)
    BY <1>3, <2>1, <2>4, Zenon DEF GoesOver
  <2> QED  BY <2>6, <2>8, <2>9, <2>10
<1> QED  BY <1>2, <1>3

\* The walk is at a node whose subtree it yields or leaves out,
StartsAt(e, x, wide, y) ==
    /\ frames = <<FollowingState(x, wide, "start")>>
    /\ x \in Nodes /\ x <= size /\ wide \in BOOLEAN /\ y \in Nat
    /\ Past(e, y)
    /\ IF wide THEN y = x ELSE y = e[x]

\* below such a node
BelowAt(e, x, wide, fr, y) ==
    /\ frames = <<FollowingState(x, wide, "siblings"), fr>>
    /\ x \in Nodes /\ x <= size /\ y \in Nat
    /\ Past(e, y)
    /\ DescendantsAt(e, x, y, fr)

\* or behind its subtree,
BehindAt(e, x, wide, y) ==
    /\ frames = <<FollowingState(x, wide, "siblings")>>
    /\ x \in Nodes /\ x <= size /\ y \in Nat
    /\ Past(e, y)
    /\ x <= y /\ y <= e[x] /\ (Undisturbed => y = e[x])

\* between the siblings that follow it
AsideAt(e, x, wide, o, k, l, y) ==
    /\ frames = <<FollowingState(x, wide, "ancestors"), FollowingSiblingsState(o, Deep, k, l)>>
    /\ x \in Nodes /\ o \in Owners /\ x \in Elems(origin[o]) /\ y \in Nat
    /\ Past(e, y)
    /\ y <= e[o]
    /\ SiblingsAhead(x, o, k, l, y)
    /\ Undisturbed => k - 1 \in DOMAIN origin[o] /\ y = e[origin[o][k - 1]]

\* or below one of them,
LowerAt(e, x, wide, o, k, l, c, fr, y) ==
    /\ frames = <<FollowingState(x, wide, "ancestors"), FollowingSiblingsState(o, Deep, k, l), fr>>
    /\ x \in Nodes /\ o \in Owners /\ x \in Elems(origin[o]) /\ y \in Nat
    /\ Past(e, y)
    /\ c \in Elems(origin[o])
    /\ DescendantsAt(e, c, y, fr)
    /\ \A z \in Nat : c <= z /\ z <= e[c] => SiblingsAhead(x, o, k, l, z)
    /\ Undisturbed => k - 1 \in DOMAIN origin[o] /\ c = origin[o][k - 1]

\* or through with them.
OverAt(e, x, wide, o, y) ==
    /\ frames = <<FollowingState(x, wide, "ancestors")>>
    /\ x \in Nodes /\ o \in Owners /\ x \in Elems(origin[o]) /\ y \in Nat
    /\ Past(e, y)
    /\ y <= e[o] /\ (Undisturbed => y = e[o])

FollowingWalk(e) ==
    \E x, wide, y :
        \/ StartsAt(e, x, wide, y)
        \/ \E fr : BelowAt(e, x, wide, fr, y)
        \/ BehindAt(e, x, wide, y)
        \/ \E o, k, l : \/ AsideAt(e, x, wide, o, k, l, y)
                        \/ \E c, fr : LowerAt(e, x, wide, o, k, l, c, fr, y)
        \/ \E o : OverAt(e, x, wide, o, y)

LEMMA FollowingStart ==
    ASSUME NEW e, Fresh(e), OnFollowing
    PROVE  FollowingWalk(e)
<1>1. PICK w, wide : w = walk.node /\ wide = walk.wide
  OBVIOUS
<1>2. Numbered(origin, size, e) /\ Base /\ Started
  BY DEF Fresh
<1>3. /\ w \in Nodes /\ w \in Owners /\ w \in Nat /\ w <= size
      /\ w <= e[w] /\ e[w] \in Nat /\ wide \in BOOLEAN
      /\ \A m : m \in AxisNodes(walk) <=>
                   m \in Nodes /\ w < m /\ m <= size /\ (wide \/ ~Within(e, w, m))
  BY <1>1, <1>2, FollowingAxis
<1>4. PICK y : y = IF wide THEN w ELSE e[w]
  OBVIOUS
<1>5. y \in Nat /\ w <= y /\ (wide \/ e[w] <= y)
  BY <1>3, <1>4
<1>6. ASSUME NEW m \in AxisNodes(walk) PROVE y < m
  <2>1. m \in Nat /\ w < m /\ (wide \/ ~Within(e, w, m))
    BY <1>2, <1>3, AxisIsTyped
  <2> QED  BY <1>3, <1>4, <2>1 DEF Within
<1>7. UpTo(y)
  BY <1>2, <1>5, <1>6, NothingYet DEF Fresh
<1>8. Past(e, y)
  BY <1>1, <1>5, <1>7 DEF Past
<1>9. frames = <<FollowingState(w, wide, "start")>>
  <2>1. FirstFrame(walk) = FollowingFrame(w, wide)
    BY <1>1, Zenon DEF FirstFrame, OnFollowing
  <2> QED  BY <2>1 DEF Fresh, FollowingFrame, FollowingState
<1>10. StartsAt(e, w, wide, y)
  BY <1>3, <1>4, <1>5, <1>8, <1>9 DEF StartsAt
<1> QED  BY <1>10 DEF FollowingWalk

LEMMA FollowingRest ==
    ASSUME Base, Base', Started, Started', NEW e, Numbered(origin, size, e),
           FollowingWalk(e), Rests
    PROVE  FollowingWalk(e)'
<1>1. /\ Keeps /\ frames' = frames /\ walk' = walk /\ origin' = origin /\ size' = size
      /\ (Undisturbed' => Undisturbed) /\ yielded' = yielded /\ Advanced(children, children')
  BY DEF Rests, Keeps
<1>2. PICK x, wide, y :
        \/ StartsAt(e, x, wide, y)
        \/ \E fr : BelowAt(e, x, wide, fr, y)
        \/ BehindAt(e, x, wide, y)
        \/ \E o, k, l : \/ AsideAt(e, x, wide, o, k, l, y)
                        \/ \E c, fr : LowerAt(e, x, wide, o, k, l, c, fr, y)
        \/ \E o : OverAt(e, x, wide, o, y)
  BY DEF FollowingWalk
<1>3. Past(e, y) => Past(e, y)'
  BY <1>1, PastStays
<1>4. CASE StartsAt(e, x, wide, y)
  <2>1. StartsAt(e, x, wide, y)'
    BY <1>1, <1>3, <1>4 DEF StartsAt, FollowingState
  <2> QED  BY <2>1 DEF FollowingWalk
<1>5. ASSUME NEW fr, BelowAt(e, x, wide, fr, y) PROVE FollowingWalk(e)'
  <2>1. DescendantsAt(e, x, y, fr)'
    <3>1. x \in Owners /\ y \in Nat /\ DescendantsAt(e, x, y, fr)
      BY <1>5, OwnersAreNumbers DEF BelowAt
    <3> QED  BY <1>1, <3>1, DescendantsStay
  <2>2. BelowAt(e, x, wide, fr, y)'
    BY <1>1, <1>3, <1>5, <2>1 DEF BelowAt, FollowingState
  <2> QED  BY <2>2 DEF FollowingWalk
<1>6. CASE BehindAt(e, x, wide, y)
  <2>1. BehindAt(e, x, wide, y)'
    BY <1>1, <1>3, <1>6 DEF BehindAt, FollowingState
  <2> QED  BY <2>1 DEF FollowingWalk
<1>7. ASSUME NEW o, NEW k, NEW l, AsideAt(e, x, wide, o, k, l, y) PROVE FollowingWalk(e)'
  <2>1. SiblingsAhead(x, o, k, l, y)'
    BY <1>1, <1>7, SiblingsStay DEF AsideAt
  <2>2. AsideAt(e, x, wide, o, k, l, y)'
    BY <1>1, <1>3, <1>7, <2>1 DEF AsideAt, FollowingState, FollowingSiblingsState, Deep
  <2> QED  BY <2>2 DEF FollowingWalk
<1>8. ASSUME NEW o, NEW k, NEW l, NEW c, NEW fr, LowerAt(e, x, wide, o, k, l, c, fr, y)
      PROVE  FollowingWalk(e)'
  <2>1. \A z \in Nat : SiblingsAhead(x, o, k, l, z) => SiblingsAhead(x, o, k, l, z)'
    BY <1>1, SiblingsStay
  <2>2. \A z \in Nat : c <= z /\ z <= e[c] => SiblingsAhead(x, o, k, l, z)'
    BY <1>8, <2>1 DEF LowerAt
  <2>3. DescendantsAt(e, c, y, fr)'
    <3>1. c \in Owners /\ y \in Nat /\ DescendantsAt(e, c, y, fr)
      BY <1>8, MemberBounded DEF LowerAt
    <3> QED  BY <1>1, <3>1, DescendantsStay
  <2>4. LowerAt(e, x, wide, o, k, l, c, fr, y)'
    BY <1>1, <1>3, <1>8, <2>2, <2>3 DEF LowerAt, FollowingState, FollowingSiblingsState, Deep
  <2> QED  BY <2>4 DEF FollowingWalk
<1>9. ASSUME NEW o, OverAt(e, x, wide, o, y) PROVE FollowingWalk(e)'
  <2>1. OverAt(e, x, wide, o, y)'
    BY <1>1, <1>3, <1>9 DEF OverAt, FollowingState
  <2> QED  BY <2>1 DEF FollowingWalk
<1> QED  BY <1>2, <1>4, <1>5, <1>6, <1>7, <1>8, <1>9

LEMMA StartsStep ==
    ASSUME Base, Started, NEW e, Numbered(origin, size, e), Keeps, Run, OnFollowing,
           NEW x, NEW wide, NEW y, StartsAt(e, x, wide, y)
    PROVE  Active' /\ FollowingWalk(e)'
<1>1. /\ frames = <<FollowingState(x, wide, "start")>>
      /\ x \in Nodes /\ x <= size /\ wide \in BOOLEAN /\ y \in Nat
      /\ Past(e, y)
      /\ IF wide THEN y = x ELSE y = e[x]
  BY DEF StartsAt
<1>2. frames = Append(<<>>, FollowingState(x, wide, "start")) /\ IsSeq(<<>>)
  BY <1>1, OneFrame
<1>3. GoesDown(x, wide)
  BY <1>2, FollowingTurns
<1>4. x \in Owners /\ x \in Nat /\ x <= e[x] /\ e[x] \in Nat /\ size' = size /\ origin' = origin
  BY <1>1, OwnersAreNumbers DEF Keeps, Numbered
<1>5. PICK a : a = FollowingState(x, wide, "siblings")
  OBVIOUS
<1>6. CASE wide
  <2>1. PICK fr : fr = DescendantsFrame(x)
    OBVIOUS
  <2>2. Deeper(wide, x) = <<fr>>
    BY <1>6, <2>1 DEF Deeper
  <2>3. <<a>> \o <<fr>> = <<a, fr>>
    <3>1. IsSeq(<<a>>)
      BY OneFrame
    <3>2. <<a>> \o <<fr>> = Append(<<a>>, fr)
      BY <3>1, Pushed
    <3>3. <<a, fr>> = Append(<<a>>, fr)
      BY OneFrame
    <3> QED  BY <3>2, <3>3
  <2>4. Continue(<<a, fr>>)
    BY <1>3, <1>5, <2>2, <2>3, Zenon DEF GoesDown
  <2>5. frames' = <<a, fr>> /\ status' = "running" /\ yielded' = yielded
    <3>1. Inner(<<a, fr>>) = <<a, fr>> /\ <<a, fr>> # <<>>
      BY <1>2, TopFrame, OneFrame
    <3> QED  BY <2>4, <3>1 DEF Continue
  <2>6. DescendantsAt(e, x, y, fr)
    BY <1>1, <1>6, <2>1, DescendantsFrameStarts
  <2>7. children' = children /\ (Undisturbed' => Undisturbed)
    BY RunsTop DEF Keeps
  <2>8. DescendantsAt(e, x, y, fr)'
    BY <1>4, <2>6, <2>7, Zenon DEF DescendantsAt
  <2>9. BelowAt(e, x, wide, fr, y)'
    BY <1>1, <1>4, <1>5, <2>5, <2>8, PastStays DEF BelowAt, FollowingState
  <2> QED  BY <2>5, <2>9 DEF FollowingWalk, Active
<1>7. CASE ~wide
  <2>1. Deeper(wide, x) = <<>> /\ y = e[x]
    BY <1>1, <1>7 DEF Deeper
  <2>2. <<a>> \o <<>> = <<a>>
    OBVIOUS
  <2>3. Continue(<<a>>)
    BY <1>3, <1>5, <2>1, <2>2, Zenon DEF GoesDown
  <2>4. frames' = <<a>> /\ status' = "running" /\ yielded' = yielded
    <3>1. Inner(<<a>>) = <<a>> /\ <<a>> # <<>>
      BY <1>2, TopFrame, OneFrame
    <3> QED  BY <2>3, <3>1 DEF Continue
  <2>5. x <= y /\ y <= e[x]
    BY <1>4, <2>1
  <2>6. BehindAt(e, x, wide, y)'
    BY <1>1, <1>4, <1>5, <2>1, <2>4, <2>5, PastStays DEF BehindAt, FollowingState
  <2> QED  BY <2>4, <2>6 DEF FollowingWalk, Active
<1> QED  BY <1>1, <1>6, <1>7

LEMMA BelowStep ==
    ASSUME Base, Base', Started, Started', NEW e, Numbered(origin, size, e), Keeps, Run,
           OnFollowing,
           NEW x, NEW wide, NEW fr, NEW y, BelowAt(e, x, wide, fr, y)
    PROVE  Active' /\ FollowingWalk(e)'
<1>1. /\ frames = <<FollowingState(x, wide, "siblings"), fr>>
      /\ x \in Nodes /\ x <= size /\ y \in Nat
      /\ Past(e, y)
      /\ DescendantsAt(e, x, y, fr)
  BY DEF BelowAt
<1>2. PICK a : a = FollowingState(x, wide, "siblings")
  OBVIOUS
<1>3. frames = Append(<<a>>, fr) /\ IsSeq(<<a>>)
  BY <1>1, <1>2, OneFrame
<1>4. x \in Owners /\ x \in Nat /\ e[x] \in Nat /\ e[x] <= size /\ size \in Nat
      /\ size' = size /\ origin' = origin
  BY <1>1, OwnersAreNumbers DEF Keeps, Numbered
<1>5. DescendantsOutcome(e, x, y)
  BY <1>1, <1>3, <1>4, FollowingAxis, DescendantsSteps
<1>6. \A g : Inner(<<g>>) = <<a, g>> /\ <<a, g>> # <<>>
  <2>1. \A g : Inner(<<g>>) = Append(<<a>>, g) /\ Append(<<a>>, g) # <<>>
    BY <1>3, TopFrame
  <2>2. \A g : <<a, g>> = Append(<<a>>, g)
    BY OneFrame
  <2> QED  BY <2>1, <2>2
<1>7. Undisturbed' => Undisturbed
  BY DEF Keeps
<1>8. CASE Return /\ x <= y /\ y <= e[x] /\ (Undisturbed => y = e[x])
  <2>1. frames' = <<a>> /\ status' = "running" /\ yielded' = yielded
    <3>1. Inner(<<>>) = <<a>> /\ <<a>> # <<>>
      BY <1>3, TopFrame
    <3> QED  BY <1>8, <3>1 DEF Return, Continue
  <2>2. BehindAt(e, x, wide, y)'
    BY <1>1, <1>2, <1>4, <1>7, <1>8, <2>1, PastStays DEF BehindAt, FollowingState
  <2> QED  BY <2>1, <2>2 DEF FollowingWalk, Active
<1>9. ASSUME NEW g, Continue(<<g>>), DescendantsAt(e, x, y, g)
      PROVE  Active' /\ FollowingWalk(e)'
  <2>1. frames' = <<a, g>> /\ status' = "running" /\ yielded' = yielded
    BY <1>6, <1>9 DEF Continue
  <2>2. DescendantsAt(e, x, y, g)'
    BY <1>1, <1>4, <1>9, RunAdvances, DescendantsStay
  <2>3. BelowAt(e, x, wide, g, y)'
    BY <1>1, <1>2, <1>4, <2>1, <2>2, PastStays DEF BelowAt, FollowingState
  <2> QED  BY <2>1, <2>3 DEF FollowingWalk, Active
<1>10. ASSUME NEW g, NEW z \in Nodes, Yield(z, <<g>>), DescendantsAt(e, x, z, g),
              y < z, Within(e, x, z), Undisturbed => z = y + 1
       PROVE  Active' /\ FollowingWalk(e)'
  <2>1. frames' = <<a, g>> /\ status' = "suspended" /\ yielded' = Append(yielded, z)
    BY <1>6, <1>10 DEF Yield
  <2>2. z \in Nat /\ z <= size
    <3>1. z \in Nat
      BY OwnersAreNumbers
    <3> QED  BY <1>4, <1>10, <3>1 DEF Within
  <2>3. DescendantsAt(e, x, z, g)'
    BY <1>4, <1>10, <2>2, RunAdvances, DescendantsStay
  <2>4. Past(e, z)'
    BY <1>1, <1>10, <2>1, <2>2, PastYields
  <2>5. BelowAt(e, x, wide, g, z)'
    BY <1>1, <1>2, <1>4, <2>1, <2>2, <2>3, <2>4 DEF BelowAt, FollowingState
  <2> QED  BY <2>1, <2>5 DEF FollowingWalk, Active
<1> QED  BY <1>5, <1>8, <1>9, <1>10 DEF DescendantsOutcome

LEMMA BehindStep ==
    ASSUME Base, Base', Started, Started', NEW e, Numbered(origin, size, e), Keeps, Run,
           OnFollowing,
           NEW x, NEW wide, NEW y, BehindAt(e, x, wide, y)
    PROVE  (Active' /\ FollowingWalk(e)') \/ Ended'
<1>1. /\ frames = <<FollowingState(x, wide, "siblings")>>
      /\ x \in Nodes /\ x <= size /\ y \in Nat
      /\ Past(e, y)
      /\ x <= y /\ y <= e[x] /\ (Undisturbed => y = e[x])
  BY DEF BehindAt
<1>2. frames = Append(<<>>, FollowingState(x, wide, "siblings")) /\ IsSeq(<<>>)
  BY <1>1, OneFrame
<1>3. GoesAside(x, wide)
  BY <1>2, FollowingTurns
<1>4. x \in Owners /\ x \in Nat /\ e[x] \in Nat /\ size' = size /\ origin' = origin
      /\ (Undisturbed' => Undisturbed) /\ (Undisturbed => children = origin)
  BY <1>1, FollowingAxis, OwnersAreNumbers DEF Keeps, Numbered
<1>5. PICK o, k, l :
        /\ FollowingSiblingsFrame(x, Deep) = FollowingSiblingsState(o, Deep, k, l)
        /\ \A v \in Nat : x <= v /\ v <= e[x] => SiblingsAhead(x, o, k, l, v)
        /\ o = Parent(x)
        /\ o # NIL /\ Undisturbed => k - 1 \in DOMAIN origin[o] /\ origin[o][k - 1] = x
  BY <1>1, <1>4, SiblingsFrameStarts
<1>6. SiblingsAhead(x, o, k, l, y)
  BY <1>1, <1>5
<1>7. CASE o = NIL
  <2>1. Return
    BY <1>3, <1>5, <1>7 DEF GoesAside
  <2>2. ASSUME Undisturbed PROVE y = size
    <3>1. \A p \in Owners : x \notin Elems(origin[p])
      BY <1>6, <1>7, <2>2 DEF SiblingsAhead
    <3>2. x = 1 /\ origin[Document] = <<>>
      BY <1>1, <3>1, NoParent
    <3>3. e[1] = size
      BY <3>2 DEF Numbered
    <3> QED  BY <1>1, <2>2, <3>2, <3>3
  <2> QED  BY <1>1, <2>1, <2>2, PastEnds
<1>8. CASE o # NIL
  <2>1. PICK a, b : /\ a = FollowingState(x, wide, "ancestors")
                    /\ b = FollowingSiblingsState(o, Deep, k, l)
    OBVIOUS
  <2>2. Continue(<<a, b>>)
    BY <1>3, <1>5, <1>8, <2>1 DEF GoesAside
  <2>3. frames' = <<a, b>> /\ status' = "running" /\ yielded' = yielded
    <3>1. Inner(<<a, b>>) = <<a, b>> /\ <<a, b>> # <<>>
      BY <1>2, TopFrame, OneFrame
    <3> QED  BY <2>2, <3>1 DEF Continue
  <2>4. o \in Owners /\ x \in Elems(origin[o])
    BY <1>6, <1>8 DEF SiblingsAhead
  <2>5. y <= e[o]
    <3>1. e[x] <= e[o] /\ e[o] \in Nat
      BY <2>4, MemberWithin, MemberBounded
    <3> QED  BY <1>1, <1>4, <3>1
  <2>6. SiblingsAhead(x, o, k, l, y)'
    BY <1>1, <1>6, RunAdvances, SiblingsStay
  <2>7. Undisturbed' => k - 1 \in DOMAIN origin[o] /\ y = e[origin[o][k - 1]]
    BY <1>1, <1>4, <1>5, <1>8
  <2>8. AsideAt(e, x, wide, o, k, l, y)'
    BY <1>1, <1>4, <2>1, <2>3, <2>4, <2>5, <2>6, <2>7, PastStays
       DEF AsideAt, FollowingState, FollowingSiblingsState, Deep
  <2> QED  BY <2>3, <2>8 DEF FollowingWalk, Active
<1> QED  BY <1>7, <1>8

LEMMA AsideStep ==
    ASSUME Base, Base', Started, Started', NEW e, Numbered(origin, size, e), Keeps, Run,
           OnFollowing,
           NEW x, NEW wide, NEW o, NEW k, NEW l, NEW y, AsideAt(e, x, wide, o, k, l, y)
    PROVE  (Active' /\ FollowingWalk(e)') \/ Ended'
<1>1. /\ frames = <<FollowingState(x, wide, "ancestors"), FollowingSiblingsState(o, Deep, k, l)>>
      /\ x \in Nodes /\ o \in Owners /\ x \in Elems(origin[o]) /\ y \in Nat
      /\ Past(e, y)
      /\ y <= e[o]
      /\ SiblingsAhead(x, o, k, l, y)
      /\ Undisturbed => k - 1 \in DOMAIN origin[o] /\ y = e[origin[o][k - 1]]
  BY DEF AsideAt
<1>2. PICK a : a = FollowingState(x, wide, "ancestors")
  OBVIOUS
<1>3. frames = Append(<<a>>, FollowingSiblingsState(o, Deep, k, l)) /\ IsSeq(<<a>>)
  BY <1>1, <1>2, OneFrame
<1>4. size' = size /\ origin' = origin /\ walk' = walk
      /\ (Undisturbed' => Undisturbed) /\ (Undisturbed => children = origin)
  BY FollowingAxis DEF Keeps
<1>5. SiblingsOutcome(e, x, o, Deep, k, l, y)
  BY <1>1, <1>3, <1>4, SiblingsFrameSteps
<1>6. k \in Nat /\ l \in Nat /\ 1 <= k /\ (Undisturbed => l = Len(origin[o]))
  BY <1>1, NilIsNoOwner DEF SiblingsAhead
<1>7. CASE k > l /\ Return
  <2>1. frames' = <<a>> /\ status' = "running" /\ yielded' = yielded
    <3>1. Inner(<<>>) = <<a>> /\ <<a>> # <<>>
      BY <1>3, TopFrame
    <3> QED  BY <1>7, <3>1 DEF Return, Continue
  <2>2. ASSUME Undisturbed PROVE y = e[o]
    <3>1. k - 1 \in DOMAIN origin[o] /\ DOMAIN origin[o] = 1 .. l /\ l = Len(origin[o])
      BY <1>1, <1>6, <2>2, ListsAreTyped
    <3>2. k - 1 = l /\ origin[o] # <<>>
      BY <1>6, <1>7, <3>1
    <3>3. e[o] = e[origin[o][Len(origin[o])]]
      BY <1>1, <3>2 DEF Numbered
    <3> QED  BY <1>1, <2>2, <3>1, <3>2, <3>3
  <2>3. OverAt(e, x, wide, o, y)'
    BY <1>1, <1>2, <1>4, <2>1, <2>2, PastStays DEF OverAt, FollowingState
  <2> QED  BY <2>1, <2>3 DEF FollowingWalk, Active
<1>8. CASE RaiseIndexError /\ ~Undisturbed
  <2>1. Claimed => InOrder
    BY <1>1 DEF Past, UpTo
  <2> QED  BY <1>8, <2>1, WalkFails
<1>9. ASSUME NEW c \in Elems(origin[o]), y < c,
             Yield(c, <<FollowingSiblingsState(o, Deep, k + 1, l)>> \o Deeper(Deep, c)),
             \A z \in Nat : c <= z /\ z <= e[c] => SiblingsAhead(x, o, k + 1, l, z),
             Undisturbed => k \in DOMAIN origin[o] /\ origin[o][k] = c
      PROVE  Active' /\ FollowingWalk(e)'
  <2>1. PICK b, fr : b = FollowingSiblingsState(o, Deep, k + 1, l) /\ fr = DescendantsFrame(c)
    OBVIOUS
  <2>2. Deeper(Deep, c) = <<fr>>
    BY <2>1, Zenon DEF Deeper, Deep
  <2>3. <<b>> \o <<fr>> = <<b, fr>>
    <3>1. IsSeq(<<b>>)
      BY OneFrame
    <3>2. <<b>> \o <<fr>> = Append(<<b>>, fr)
      BY <3>1, Pushed
    <3>3. <<b, fr>> = Append(<<b>>, fr)
      BY OneFrame
    <3> QED  BY <3>2, <3>3
  <2>4. Yield(c, <<b, fr>>)
    BY <1>9, <2>1, <2>2, <2>3, Zenon
  <2>5. frames' = <<a, b, fr>> /\ status' = "suspended" /\ yielded' = Append(yielded, c)
    <3>1. Inner(<<b, fr>>) = Append(Append(<<a>>, b), fr)
      BY <1>3, TopFrame
    <3>2. <<a, b>> = Append(<<a>>, b)
      BY OneFrame
    <3>3. <<a, b, fr>> = Append(<<a, b>>, fr)
      BY OneFrame
    <3> QED  BY <2>4, <3>1, <3>2, <3>3 DEF Yield
  <2>6. c \in Nodes /\ c \in Owners /\ c \in Nat /\ c <= size /\ c <= e[c]
    <3>1. c \in Nodes /\ c \in Owners /\ c <= size /\ c <= e[c]
      BY <1>1, <1>9, MemberBounded
    <3> QED  BY <3>1, OwnersAreNumbers
  <2>7. ASSUME Undisturbed PROVE c = y + 1
    <3>1. k \in 1 .. Len(origin[o]) /\ k - 1 \in 1 .. Len(origin[o])
      BY <1>1, <1>6, <1>9, <2>7, ListsAreTyped
    <3>2. PICK j : j = k - 1
      OBVIOUS
    <3>3. j \in 1 .. Len(origin[o]) - 1 /\ j + 1 = k
      BY <1>6, <3>1, <3>2
    <3>4. origin[o][j + 1] = e[origin[o][j]] + 1
      BY <1>1, <3>3 DEF Numbered
    <3> QED  BY <1>1, <1>9, <2>7, <3>2, <3>3, <3>4
  <2>8. Past(e, c)'
    BY <1>1, <1>9, <2>5, <2>6, <2>7, PastYields
  <2>9. DescendantsAt(e, c, c, fr)'
    <3>1. DescendantsAt(e, c, c, fr)
      BY <2>1, <2>6, DescendantsFrameStarts
    <3> QED  BY <1>4, <2>6, <3>1, RunAdvances, DescendantsStay
  <2>10. \A z \in Nat : c <= z /\ z <= e[c] => SiblingsAhead(x, o, k + 1, l, z)'
    <3>1. \A z \in Nat : SiblingsAhead(x, o, k + 1, l, z) => SiblingsAhead(x, o, k + 1, l, z)'
      BY RunAdvances, SiblingsStay
    <3> QED  BY <1>9, <3>1
  <2>11. Undisturbed' => (k + 1) - 1 \in DOMAIN origin[o] /\ c = origin[o][(k + 1) - 1]
    <3>1. (k + 1) - 1 = k
      BY <1>6
    <3> QED  BY <1>4, <1>9, <3>1
  <2>12. LowerAt(e, x, wide, o, k + 1, l, c, fr, c)'
    BY <1>1, <1>2, <1>4, <1>9, <2>1, <2>5, <2>6, <2>8, <2>9, <2>10, <2>11
       DEF LowerAt, FollowingState, FollowingSiblingsState, Deep
  <2> QED  BY <2>5, <2>12 DEF FollowingWalk, Active
<1> QED  BY <1>5, <1>7, <1>8, <1>9 DEF SiblingsOutcome

LEMMA LowerStep ==
    ASSUME Base, Base', Started, Started', NEW e, Numbered(origin, size, e), Keeps, Run,
           OnFollowing,
           NEW x, NEW wide, NEW o, NEW k, NEW l, NEW c, NEW fr, NEW y,
           LowerAt(e, x, wide, o, k, l, c, fr, y)
    PROVE  Active' /\ FollowingWalk(e)'
<1>1. /\ frames = <<FollowingState(x, wide, "ancestors"),
                    FollowingSiblingsState(o, Deep, k, l), fr>>
      /\ x \in Nodes /\ o \in Owners /\ x \in Elems(origin[o]) /\ y \in Nat
      /\ Past(e, y)
      /\ c \in Elems(origin[o])
      /\ DescendantsAt(e, c, y, fr)
      /\ \A z \in Nat : c <= z /\ z <= e[c] => SiblingsAhead(x, o, k, l, z)
      /\ Undisturbed => k - 1 \in DOMAIN origin[o] /\ c = origin[o][k - 1]
  BY DEF LowerAt
<1>2. PICK a, b : /\ a = FollowingState(x, wide, "ancestors")
                  /\ b = FollowingSiblingsState(o, Deep, k, l)
  OBVIOUS
<1>3. frames = Append(<<a, b>>, fr) /\ IsSeq(<<a, b>>)
  <2>1. frames = <<a, b, fr>>
    BY <1>1, <1>2
  <2>2. <<a, b, fr>> = Append(<<a, b>>, fr)
    BY OneFrame
  <2>3. IsSeq(<<a, b>>)
    BY OneFrame
  <2> QED  BY <2>1, <2>2, <2>3
<1>4. size' = size /\ origin' = origin /\ walk' = walk /\ (Undisturbed' => Undisturbed)
  BY DEF Keeps
<1>5. /\ c \in Nodes /\ c \in Owners /\ c \in Nat /\ c <= size /\ c <= e[c]
      /\ e[c] \in Nat /\ e[c] <= size /\ size \in Nat /\ e[o] \in Nat /\ e[c] <= e[o]
  <2>1. e[c] <= e[o]
    BY <1>1, MemberWithin
  <2> QED  BY <1>1, <2>1, MemberBounded, OwnersAreNumbers
<1>6. DescendantsOutcome(e, c, y)
  BY <1>1, <1>3, <1>5, FollowingAxis, DescendantsSteps
<1>7. \A g : Inner(<<g>>) = <<a, b, g>> /\ <<a, b, g>> # <<>>
  <2>1. \A g : Inner(<<g>>) = Append(<<a, b>>, g) /\ Append(<<a, b>>, g) # <<>>
    BY <1>3, TopFrame
  <2>2. \A g : <<a, b, g>> = Append(<<a, b>>, g)
    BY OneFrame
  <2> QED  BY <2>1, <2>2
<1>8. \A z \in Nat : SiblingsAhead(x, o, k, l, z) => SiblingsAhead(x, o, k, l, z)'
  BY RunAdvances, SiblingsStay
<1>9. \A z \in Nat : c <= z /\ z <= e[c] => SiblingsAhead(x, o, k, l, z)'
  BY <1>1, <1>8
<1>10. CASE Return /\ c <= y /\ y <= e[c] /\ (Undisturbed => y = e[c])
  <2>1. frames' = <<a, b>> /\ status' = "running" /\ yielded' = yielded
    <3>1. Inner(<<>>) = <<a, b>> /\ <<a, b>> # <<>>
      BY <1>3, TopFrame
    <3> QED  BY <1>10, <3>1 DEF Return, Continue
  <2>2. y <= e[o] /\ SiblingsAhead(x, o, k, l, y)'
    BY <1>1, <1>5, <1>9, <1>10
  <2>3. AsideAt(e, x, wide, o, k, l, y)'
    BY <1>1, <1>2, <1>4, <1>10, <2>1, <2>2, PastStays
       DEF AsideAt, FollowingState, FollowingSiblingsState, Deep
  <2> QED  BY <2>1, <2>3 DEF FollowingWalk, Active
<1>11. ASSUME NEW g, Continue(<<g>>), DescendantsAt(e, c, y, g)
       PROVE  Active' /\ FollowingWalk(e)'
  <2>1. frames' = <<a, b, g>> /\ status' = "running" /\ yielded' = yielded
    BY <1>7, <1>11 DEF Continue
  <2>2. DescendantsAt(e, c, y, g)'
    BY <1>1, <1>4, <1>5, <1>11, RunAdvances, DescendantsStay
  <2>3. LowerAt(e, x, wide, o, k, l, c, g, y)'
    BY <1>1, <1>2, <1>4, <1>9, <2>1, <2>2, PastStays
       DEF LowerAt, FollowingState, FollowingSiblingsState, Deep
  <2> QED  BY <2>1, <2>3 DEF FollowingWalk, Active
<1>12. ASSUME NEW g, NEW z \in Nodes, Yield(z, <<g>>), DescendantsAt(e, c, z, g),
              y < z, Within(e, c, z), Undisturbed => z = y + 1
       PROVE  Active' /\ FollowingWalk(e)'
  <2>1. frames' = <<a, b, g>> /\ status' = "suspended" /\ yielded' = Append(yielded, z)
    BY <1>7, <1>12 DEF Yield
  <2>2. z \in Nat /\ z <= size
    <3>1. z \in Nat
      BY OwnersAreNumbers
    <3> QED  BY <1>5, <1>12, <3>1 DEF Within
  <2>3. DescendantsAt(e, c, z, g)'
    BY <1>4, <1>5, <1>12, <2>2, RunAdvances, DescendantsStay
  <2>4. Past(e, z)'
    BY <1>1, <1>12, <2>1, <2>2, PastYields
  <2>5. LowerAt(e, x, wide, o, k, l, c, g, z)'
    BY <1>1, <1>2, <1>4, <1>9, <2>1, <2>2, <2>3, <2>4
       DEF LowerAt, FollowingState, FollowingSiblingsState, Deep
  <2> QED  BY <2>1, <2>5 DEF FollowingWalk, Active
<1> QED  BY <1>6, <1>10, <1>11, <1>12 DEF DescendantsOutcome

LEMMA OverStep ==
    ASSUME Base, Started, NEW e, Numbered(origin, size, e), Keeps, Run, OnFollowing,
           NEW x, NEW wide, NEW o, NEW y, OverAt(e, x, wide, o, y)
    PROVE  (Active' /\ FollowingWalk(e)') \/ Ended'
<1>1. /\ frames = <<FollowingState(x, wide, "ancestors")>>
      /\ x \in Nodes /\ o \in Owners /\ x \in Elems(origin[o]) /\ y \in Nat
      /\ Past(e, y)
      /\ y <= e[o] /\ (Undisturbed => y = e[o])
  BY DEF OverAt
<1>2. frames = Append(<<>>, FollowingState(x, wide, "ancestors")) /\ IsSeq(<<>>)
  BY <1>1, OneFrame
<1>3. GoesOver(x)
  BY <1>2, FollowingTurns
<1>4. \/ Return /\ (Undisturbed => y = size)
      \/ \E c \in Nodes :
           /\ c <= size /\ y < c
           /\ Undisturbed => c = y + 1
           /\ Yield(c, <<FollowingState(c, Deep, "start")>>)
  BY <1>1, <1>3, FollowingAxis, GoesOverTo
<1>5. CASE Return /\ (Undisturbed => y = size)
  BY <1>1, <1>5, PastEnds
<1>6. ASSUME NEW c \in Nodes, c <= size, y < c, Undisturbed => c = y + 1,
             Yield(c, <<FollowingState(c, Deep, "start")>>)
      PROVE  Active' /\ FollowingWalk(e)'
  <2>1. PICK a : a = FollowingState(c, Deep, "start")
    OBVIOUS
  <2>2. frames' = <<a>> /\ status' = "suspended" /\ yielded' = Append(yielded, c)
    <3>1. Inner(<<a>>) = <<a>>
      BY <1>2, TopFrame, OneFrame
    <3> QED  BY <1>6, <2>1, <3>1 DEF Yield
  <2>3. Past(e, c)' /\ c \in Nat /\ size' = size
    BY <1>1, <1>6, <2>2, PastYields, OwnersAreNumbers DEF Keeps
  <2>4. StartsAt(e, c, Deep, c)'
    BY <1>6, <2>1, <2>2, <2>3 DEF StartsAt, FollowingState, Deep
  <2> QED  BY <2>2, <2>4 DEF FollowingWalk, Active
<1> QED  BY <1>4, <1>5, <1>6

LEMMA FollowingStep ==
    ASSUME Base, Base', Started, Started', NEW e, Numbered(origin, size, e), Keeps, Run,
           OnFollowing, FollowingWalk(e)
    PROVE  (Active' /\ FollowingWalk(e)') \/ Ended'
<1>1. PICK x, wide, y :
        \/ StartsAt(e, x, wide, y)
        \/ \E fr : BelowAt(e, x, wide, fr, y)
        \/ BehindAt(e, x, wide, y)
        \/ \E o, k, l : \/ AsideAt(e, x, wide, o, k, l, y)
                        \/ \E c, fr : LowerAt(e, x, wide, o, k, l, c, fr, y)
        \/ \E o : OverAt(e, x, wide, o, y)
  BY DEF FollowingWalk
<1> QED  BY <1>1, StartsStep, BelowStep, BehindStep, AsideStep, LowerStep, OverStep

-----------------------------------------------------------------------------
(* Bottom up *)

\* m and what is below it comes before n, n after what is below it.
Comes(e, m, n) == Within(e, n, m) \/ e[m] < n

\* The walk's latest node is below a level's node, before its rest.
Around(e, x, y) ==
    /\ x.node <= y /\ y <= e[x.node]
    /\ \A k \in DOMAIN x.rest : y < x.rest[k]

\* m is below a level's node, its subtree before the level's rest.
Ahead(e, x, m) ==
    /\ Within(e, x.node, m)
    /\ \A k \in DOMAIN x.rest : e[m] < x.rest[k]

\* s is the stack of a walk that yielded Y and is at y.
UpOrder(L, e, c, Y, y, s) ==
    /\ IsSeq(s)
    /\ \A m \in Y : m \in Nodes /\ e[m] <= y
    /\ \A i \in DOMAIN s : /\ IsListLevel(L, e, c, s[i])
                           /\ Around(e, s[i], y)
                           /\ \A m \in Y : Comes(e, m, s[i].node)
    /\ \A i, j \in DOMAIN s : i < j => Ahead(e, s[i], s[j].node)

LEMMA UpPush ==
    ASSUME NEW L, NEW e, NEW c, NEW Y, NEW y, NEW s, IsSeq(s), NEW x
    PROVE  UpOrder(L, e, c, Y, y, Append(s, x)) <=>
              /\ UpOrder(L, e, c, Y, y, s)
              /\ IsListLevel(L, e, c, x) /\ Around(e, x, y)
              /\ \A m \in Y : Comes(e, m, x.node)
              /\ \A i \in DOMAIN s : Ahead(e, s[i], x.node)
<1> DEFINE t == Append(s, x)
           l == Len(s)
<1>1. /\ l \in Nat /\ DOMAIN s = 1 .. l /\ DOMAIN t = 1 .. l + 1 /\ IsSeq(t)
      /\ t[l + 1] = x /\ \A k \in DOMAIN s : t[k] = s[k]
  BY Pushed
<1> HIDE DEF t, l
<1>2. ASSUME UpOrder(L, e, c, Y, y, t)
      PROVE  /\ UpOrder(L, e, c, Y, y, s)
             /\ IsListLevel(L, e, c, x) /\ Around(e, x, y)
             /\ \A m \in Y : Comes(e, m, x.node)
             /\ \A i \in DOMAIN s : Ahead(e, s[i], x.node)
  <2>1. l + 1 \in DOMAIN t /\ \A i \in DOMAIN s : i \in DOMAIN t /\ i < l + 1
    BY <1>1
  <2>2. UpOrder(L, e, c, Y, y, s)
    BY <1>1, <1>2, <2>1 DEF UpOrder
  <2> QED  BY <1>1, <1>2, <2>1, <2>2 DEF UpOrder
<1>3. ASSUME UpOrder(L, e, c, Y, y, s), IsListLevel(L, e, c, x), Around(e, x, y),
             \A m \in Y : Comes(e, m, x.node),
             \A i \in DOMAIN s : Ahead(e, s[i], x.node)
      PROVE  UpOrder(L, e, c, Y, y, t)
  <2>1. ASSUME NEW i \in DOMAIN t PROVE i \in DOMAIN s \/ i = l + 1
    BY <1>1, <2>1
  <2>2. \A i \in DOMAIN t : /\ IsListLevel(L, e, c, t[i]) /\ Around(e, t[i], y)
                            /\ \A m \in Y : Comes(e, m, t[i].node)
    BY <1>1, <1>3, <2>1 DEF UpOrder
  <2>3. ASSUME NEW i \in DOMAIN t, NEW j \in DOMAIN t, i < j
        PROVE  Ahead(e, t[i], t[j].node)
    <3>1. i \in DOMAIN s
      BY <1>1, <2>3
    <3>2. CASE j \in DOMAIN s
      BY <1>1, <1>3, <2>3, <3>1, <3>2 DEF UpOrder
    <3>3. CASE j = l + 1
      BY <1>1, <1>3, <3>1, <3>3
    <3> QED  BY <2>1, <3>2, <3>3
  <2>4. \A m \in Y : m \in Nodes /\ e[m] <= y
    BY <1>3 DEF UpOrder
  <2> QED  BY <1>1, <2>2, <2>3, <2>4 DEF UpOrder
<1> QED  BY <1>2, <1>3 DEF t

\* The walk goes on to m or to the end of its subtree, and may yield m.
LEMMA UpMove ==
    ASSUME NEW L, NEW z, NEW e, Numbered(L, z, e), NEW c, NEW Y, NEW y \in Nat, NEW s,
           UpOrder(L, e, c, Y, y, s), NEW m \in Nodes, \A i \in DOMAIN s : Ahead(e, s[i], m),
           NEW u \in Nat, y <= u, m <= u, u <= e[m],
           NEW Z, \A v \in Z : v \in Y \/ (v = m /\ e[m] <= u)
    PROVE  UpOrder(L, e, c, Z, u, s)
<1>1. \A v \in Owners : e[v] \in Nat /\ v \in Nat
  BY OwnersAreNumbers DEF Numbered
<1>2. Nodes \subseteq Owners
  BY OwnersAreNumbers
<1>3. \A v \in Z : v \in Nodes /\ e[v] <= u
  <2> SUFFICES ASSUME NEW v \in Z PROVE v \in Nodes /\ e[v] <= u
    OBVIOUS
  <2>1. CASE v \in Y
    <3>1. v \in Nodes /\ e[v] <= y
      BY <2>1 DEF UpOrder
    <3> QED  BY <1>1, <1>2, <3>1
  <2> QED  BY <2>1
<1>4. ASSUME NEW i \in DOMAIN s
      PROVE  /\ IsListLevel(L, e, c, s[i]) /\ Around(e, s[i], u)
             /\ \A v \in Z : Comes(e, v, s[i].node)
  <2>1. /\ IsListLevel(L, e, c, s[i]) /\ Around(e, s[i], y) /\ Ahead(e, s[i], m)
        /\ \A v \in Y : Comes(e, v, s[i].node)
    BY <1>4 DEF UpOrder
  <2>2. PICK n, r : n = s[i].node /\ r = s[i].rest
    OBVIOUS
  <2>3. n \in Nodes /\ n \in Owners /\ \A k \in DOMAIN r : r[k] \in Nat
    BY <1>1, <1>2, <2>1, <2>2 DEF IsListLevel
  <2>4. n < m /\ m <= e[n] /\ \A k \in DOMAIN r : e[m] < r[k]
    BY <2>1, <2>2 DEF Ahead, Within
  <2>5. e[m] <= e[n]
    BY <1>2, <2>3, <2>4 DEF Numbered
  <2>6. n <= u /\ u <= e[n] /\ \A k \in DOMAIN r : u < r[k]
    BY <1>1, <1>2, <2>3, <2>4, <2>5
  <2>7. Comes(e, m, n)
    BY <2>4 DEF Comes, Within
  <2> QED  BY <2>1, <2>2, <2>6, <2>7 DEF Around
<1> QED  BY <1>3, <1>4 DEF UpOrder

\* The first of a level's children is taken.
LEMMA UpTake ==
    ASSUME NEW L, NEW z, NEW e, Numbered(L, z, e), NEW c \in Nodes, NEW Y, NEW y \in Nat,
           NEW s, IsSeq(s), NEW n, NEW r, r # <<>>,
           UpOrder(L, e, c, Y, y, Append(s, ListAt(n, r)))
    PROVE  /\ UpOrder(L, e, c, Y, y, Append(s, ListAt(n, Tail(r))))
           /\ Head(r) \in Nodes /\ n \in Nodes /\ Head(r) \in Elems(L[n])
           /\ y < Head(r) /\ Within(e, c, Head(r))
           /\ \A i \in DOMAIN Append(s, ListAt(n, Tail(r))) :
                 Ahead(e, Append(s, ListAt(n, Tail(r)))[i], Head(r))
<1> DEFINE m == Head(r)
           q == Tail(r)
           x == ListAt(n, r)
           w == ListAt(n, q)
<1>1. x.node = n /\ x.rest = r /\ w.node = n /\ w.rest = q
  BY ListFields
<1>2. /\ UpOrder(L, e, c, Y, y, s) /\ IsListLevel(L, e, c, x) /\ Around(e, x, y)
      /\ \A v \in Y : Comes(e, v, n)
      /\ \A i \in DOMAIN s : Ahead(e, s[i], n)
  <2>1. UpOrder(L, e, c, Y, y, Append(s, x))
    OBVIOUS
  <2> HIDE DEF x, w, m, q
  <2>2. /\ UpOrder(L, e, c, Y, y, s) /\ IsListLevel(L, e, c, x) /\ Around(e, x, y)
        /\ \A v \in Y : Comes(e, v, x.node)
        /\ \A i \in DOMAIN s : Ahead(e, s[i], x.node)
    BY <2>1, UpPush
  <2> QED  BY <1>1, <2>2
<1>3. w = ListAt(w.node, w.rest)
  BY <1>1
<1> HIDE DEF x, w
<1>4. /\ n \in Nodes /\ r \in Seq(Nodes) /\ (n = c \/ Within(e, c, n))
      /\ \A k \in DOMAIN r : r[k] \in Elems(L[n])
      /\ \A j, k \in DOMAIN r : j < k => r[j] < r[k]
  BY <1>1, <1>2 DEF IsListLevel
<1>5. /\ q \in Seq(Nodes) /\ m = r[1] /\ 1 \in DOMAIN r
      /\ \A k \in DOMAIN q : k + 1 \in DOMAIN r /\ q[k] = r[k + 1] /\ 1 < k + 1 /\ k \in Nat
  BY <1>4
<1> HIDE DEF m, q
<1>6. m \in Elems(L[n]) /\ n \in Owners /\ n \in Nat /\ m \in Nodes /\ m \in Owners /\ m \in Nat
      /\ Within(e, n, m)
  <2>1. m \in Elems(L[n]) /\ n \in Owners
    BY <1>4, <1>5, OwnersAreNumbers
  <2> QED  BY <2>1, MemberWithin, OwnersAreNumbers
<1>7. \A v \in Owners : e[v] \in Nat /\ v \in Nat
  BY OwnersAreNumbers DEF Numbered
<1>8. ASSUME NEW k \in DOMAIN q
      PROVE  q[k] \in Elems(L[n]) /\ q[k] \in Nodes /\ e[m] < q[k] /\ m < q[k] /\ y < q[k]
  <2>1. q[k] = r[k + 1] /\ k + 1 \in DOMAIN r /\ 1 < k + 1
    BY <1>5
  <2>2. q[k] \in Elems(L[n]) /\ m < q[k] /\ q[k] \in Nodes
    BY <1>4, <1>5, <2>1
  <2>3. e[m] < q[k]
    BY <1>6, <2>2, SiblingsApart
  <2>4. y < q[k]
    BY <1>1, <1>2, <2>1 DEF Around
  <2> QED  BY <2>2, <2>3, <2>4
<1>9. y < m
  BY <1>1, <1>2, <1>5 DEF Around
<1>10. \A j, k \in DOMAIN q : j < k => q[j] < q[k]
  <2> SUFFICES ASSUME NEW j \in DOMAIN q, NEW k \in DOMAIN q, j < k PROVE q[j] < q[k]
    OBVIOUS
  <2>1. j + 1 < k + 1 /\ j + 1 \in DOMAIN r /\ k + 1 \in DOMAIN r
    BY <1>5
  <2> QED  BY <1>4, <1>5, <2>1
<1>11. IsListLevel(L, e, c, w)
  BY <1>1, <1>3, <1>4, <1>5, <1>8, <1>10 DEF IsListLevel
<1>12. Around(e, w, y) /\ Ahead(e, w, m)
  BY <1>1, <1>2, <1>6, <1>8 DEF Around, Ahead
<1>13. UpOrder(L, e, c, Y, y, Append(s, w))
  BY <1>1, <1>2, <1>11, <1>12, UpPush
<1>14. ASSUME NEW i \in DOMAIN s PROVE Ahead(e, s[i], m)
  <2>1. Ahead(e, s[i], n) /\ IsListLevel(L, e, c, s[i])
    BY <1>2 DEF UpOrder
  <2>2. PICK a, b : a = s[i].node /\ b = s[i].rest
    OBVIOUS
  <2>3. a \in Nodes /\ a \in Owners /\ \A k \in DOMAIN b : b[k] \in Nodes
    BY <2>1, <2>2, OwnersAreNumbers DEF IsListLevel
  <2>4. Within(e, a, n) /\ \A k \in DOMAIN b : e[n] < b[k]
    BY <2>1, <2>2 DEF Ahead
  <2>5. Within(e, a, m)
    BY <1>6, <2>3, <2>4, WithinTransitive
  <2>6. e[m] <= e[n]
    BY <1>6 DEF Within, Numbered
  <2>7. ASSUME NEW k \in DOMAIN b PROVE e[m] < b[k]
    <3>1. e[m] \in Nat /\ e[n] \in Nat /\ e[n] < b[k] /\ b[k] \in Nat
      BY <1>6, <1>7, <2>3, <2>4, OwnersAreNumbers
    <3> QED  BY <2>6, <3>1
  <2> QED  BY <2>2, <2>5, <2>7 DEF Ahead
<1>15. \A i \in DOMAIN Append(s, w) : Ahead(e, Append(s, w)[i], m)
  <2> DEFINE t == Append(s, w)
             l == Len(s)
  <2>1. /\ l \in Nat /\ DOMAIN s = 1 .. l /\ DOMAIN t = 1 .. l + 1
        /\ t[l + 1] = w /\ \A k \in DOMAIN s : t[k] = s[k]
    BY Pushed
  <2> HIDE DEF t, l
  <2>2. \A i \in DOMAIN t : Ahead(e, t[i], m)
    <3> SUFFICES ASSUME NEW i \in DOMAIN t PROVE Ahead(e, t[i], m)
      OBVIOUS
    <3>1. i \in DOMAIN s \/ i = l + 1
      BY <2>1
    <3> QED  BY <1>12, <1>14, <2>1, <3>1
  <2> QED  BY <2>2 DEF t
<1>16. Within(e, c, m)
  <2>1. c \in Owners
    BY OwnersAreNumbers
  <2> QED  BY <1>4, <1>6, <2>1, WithinTransitive
<1> QED  BY <1>4, <1>6, <1>9, <1>13, <1>15, <1>16 DEF w, m, q

OnStack(s, m) == \E i \in DOMAIN s : s[i].node = m

LEMMA OnStackPushed ==
    ASSUME NEW s, IsSeq(s), NEW x, NEW m
    PROVE  OnStack(Append(s, x), m) <=> OnStack(s, m) \/ m = x.node
<1> DEFINE t == Append(s, x)
           l == Len(s)
<1>1. /\ l \in Nat /\ DOMAIN s = 1 .. l /\ DOMAIN t = 1 .. l + 1
      /\ t[l + 1] = x /\ \A k \in DOMAIN s : t[k] = s[k]
  BY Pushed
<1> HIDE DEF t, l
<1>2. ASSUME NEW i \in DOMAIN t PROVE i \in DOMAIN s \/ i = l + 1
  BY <1>1, <1>2
<1>3. l + 1 \in DOMAIN t /\ \A i \in DOMAIN s : i \in DOMAIN t
  BY <1>1
<1>4. OnStack(t, m) <=> OnStack(s, m) \/ m = x.node
  BY <1>1, <1>2, <1>3 DEF OnStack
<1> QED  BY <1>4 DEF t

\* What the walk is through with was yielded or waits on the stack.
Through(e, c, Y, y, s) ==
    \A m \in Nodes : (m = c \/ Within(e, c, m)) /\ m <= y => m \in Y \/ OnStack(s, m)

UpExact(L, e, c, Y, y, s) ==
    /\ Turned(L, Deep, c, s)
    /\ y = IF s = <<>> THEN e[c] ELSE Done(L, e, Last(s).node, Turn(L, Deep, Last(s)))
    /\ Through(e, c, Y, y, s)

LEMMA UpTakeExact ==
    ASSUME NEW L, NEW z, NEW e, Numbered(L, z, e), NEW c, NEW Y, NEW y,
           NEW s, IsSeq(s), NEW n \in Nodes, NEW r \in Seq(Nodes), r # <<>>,
           UpExact(L, e, c, Y, y, Append(s, ListAt(n, r)))
    PROVE  /\ Turned(L, Deep, c, Append(s, ListAt(n, Tail(r))))
           /\ TurnsAt(L, Deep, c, Append(s, ListAt(n, Tail(r))), Head(r))
           /\ Head(r) = y + 1
           /\ Through(e, c, Y, y, Append(s, ListAt(n, Tail(r))))
<1> DEFINE m == Head(r)
           q == Tail(r)
           x == ListAt(n, r)
           w == ListAt(n, q)
           t == Append(s, x)
           u == Append(s, w)
<1>1. x.node = n /\ x.rest = r /\ w.node = n /\ w.rest = q
  BY ListFields
<1>2. t # <<>> /\ Last(t) = x /\ u # <<>> /\ Last(u) = w
  BY Pushed
<1>3. /\ q \in Seq(Nodes) /\ m = r[1] /\ 1 \in DOMAIN r /\ Len(q) + 1 = Len(r)
      /\ Len(q) \in Nat /\ Len(r) \in Nat /\ DOMAIN r = 1 .. Len(r) /\ DOMAIN q = 1 .. Len(q)
      /\ \A k \in DOMAIN q : k + 1 \in DOMAIN r /\ q[k] = r[k + 1] /\ k \in Nat
  OBVIOUS
<1>4. UpExact(L, e, c, Y, y, Append(s, x))
  OBVIOUS
<1> HIDE DEF x, w, m, q
<1>5. Turned(L, Deep, c, s) /\ Fits(L, Deep, x) /\ TurnsAt(L, Deep, c, s, n)
  BY <1>1, <1>4, TurnedPush DEF UpExact
<1>6. y = Done(L, e, n, Turn(L, Deep, x)) /\ Through(e, c, Y, y, t)
  BY <1>1, <1>2, <1>4 DEF UpExact
<1>7. n \in Owners /\ DOMAIN L[n] = 1 .. Len(L[n]) /\ Len(L[n]) \in Nat
  <2>1. n \in Owners
    BY OwnersAreNumbers
  <2>2. L[n] \in Seq(Nodes)
    BY <2>1 DEF Numbered
  <2> QED  BY <2>1, <2>2
<1>8. PICK p : p = Len(L[n]) - Len(r)
  OBVIOUS
<1>9. /\ Len(r) <= Len(L[n]) /\ \A k \in DOMAIN r : r[k] = L[n][p + k]
      /\ Turn(L, Deep, x) = p /\ Turn(L, Deep, w) = Len(L[n]) - Len(q)
  BY <1>1, <1>5, <1>8 DEF Fits, Turn, Deep
<1>10. p \in Nat /\ p + 1 \in DOMAIN L[n] /\ p + 1 = Len(L[n]) - Len(q)
  <2>1. PICK a, b, d : a = Len(L[n]) /\ b = Len(r) /\ d = Len(q)
    OBVIOUS
  <2>2. a \in Nat /\ b \in Nat /\ d \in Nat /\ d + 1 = b /\ b <= a /\ p = a - b
    BY <1>3, <1>7, <1>8, <1>9, <2>1
  <2>3. p \in Nat /\ p + 1 \in 1 .. a /\ p + 1 = a - d
    BY <2>2
  <2> QED  BY <1>7, <2>1, <2>3
<1>11. m = L[n][p + 1]
  BY <1>3, <1>9
<1>12. m = y + 1
  BY <1>6, <1>7, <1>9, <1>10, <1>11, DoneNext
<1>13. Fits(L, Deep, w)
  <2>1. ASSUME NEW k \in DOMAIN q PROVE q[k] = L[n][Len(L[n]) - Len(q) + k]
    <3>1. q[k] = L[n][p + (k + 1)]
      BY <1>3, <1>9
    <3>2. p + (k + 1) = Len(L[n]) - Len(q) + k
      BY <1>3, <1>10
    <3> QED  BY <3>1, <3>2
  <2>2. Len(q) <= Len(L[n])
    BY <1>3, <1>7, <1>9
  <2> QED  BY <1>1, <2>1, <2>2 DEF Fits, Deep
<1>14. Turned(L, Deep, c, u)
  BY <1>1, <1>5, <1>13, TurnedPush
<1>15. \A v : OnStack(t, v) <=> OnStack(u, v)
  BY <1>1, OnStackPushed
<1>16. Through(e, c, Y, y, u)
  BY <1>6, <1>15 DEF Through
<1>17. TurnsAt(L, Deep, c, u, m)
  <2> HIDE DEF u
  <2> QED  BY <1>1, <1>2, <1>9, <1>10, <1>11 DEF TurnsAt
<1> QED  BY <1>12, <1>14, <1>16, <1>17 DEF w, m, q

\* A walk that is through with a node's subtree is where the level above it is.
LEMMA UpBack ==
    ASSUME NEW L, NEW z, NEW e, Numbered(L, z, e), NEW c \in Nodes, NEW Y, NEW y,
           NEW s, UpOrder(L, e, c, Y, y, s), NEW m, TurnsAt(L, Deep, c, s, m)
    PROVE  e[m] = IF s = <<>> THEN e[c] ELSE Done(L, e, Last(s).node, Turn(L, Deep, Last(s)))
<1>1. CASE s = <<>>
  BY <1>1 DEF TurnsAt
<1>2. CASE s # <<>>
  <2>1. PICK x : x = Last(s)
    OBVIOUS
  <2>2. IsListLevel(L, e, c, x)
    <3>1. PICK S : s \in Seq(S)
      BY DEF UpOrder, IsSeq
    <3>2. Len(s) \in DOMAIN s
      BY <1>2, <3>1
    <3> QED  BY <2>1, <3>2 DEF UpOrder, Last
  <2>3. PICK n, p : n = x.node /\ p = Turn(L, Deep, x)
    OBVIOUS
  <2>4. n \in Owners
    BY <2>2, <2>3, OwnersAreNumbers DEF IsListLevel
  <2>5. p \in DOMAIN L[n] /\ L[n][p] = m
    BY <1>2, <2>1, <2>3 DEF TurnsAt
  <2>6. p # 0
    <3>1. L[n] \in Seq(Nodes)
      BY <2>4 DEF Numbered
    <3> QED  BY <2>5, <3>1
  <2> QED  BY <1>2, <2>1, <2>3, <2>5, <2>6 DEF Done
<1> QED  BY <1>1, <1>2

LEMMA UpLeafExact ==
    ASSUME NEW L, NEW z, NEW e, Numbered(L, z, e), NEW c \in Nodes, NEW Y, NEW y \in Nat,
           NEW s, UpOrder(L, e, c, Y, y, s), NEW m \in Nodes,
           Turned(L, Deep, c, s), TurnsAt(L, Deep, c, s, m), m = y + 1, L[m] = <<>>,
           Through(e, c, Y, y, s)
    PROVE  UpExact(L, e, c, Y \cup {m}, e[m], s)
<1>1. e[m] = m
  <2>1. m \in Owners
    BY OwnersAreNumbers
  <2> QED  BY <2>1 DEF Numbered
<1>2. Through(e, c, Y \cup {m}, e[m], s)
  <2> SUFFICES ASSUME NEW v \in Nodes, v = c \/ Within(e, c, v), v <= m
               PROVE  v \in Y \cup {m} \/ OnStack(s, v)
    BY <1>1 DEF Through
  <2>1. v <= y \/ v = m
    <3>1. v \in Nat
      BY OwnersAreNumbers
    <3> QED  BY <3>1
  <2> QED  BY <2>1 DEF Through
<1> QED  BY <1>2, UpBack DEF UpExact

LEMMA UpIntoExact ==
    ASSUME NEW L, NEW z, NEW e, Numbered(L, z, e), NEW c \in Nodes, NEW Y, NEW y \in Nat,
           NEW s, IsSeq(s), NEW m \in Nodes,
           Turned(L, Deep, c, s), TurnsAt(L, Deep, c, s, m),
           \A v \in Nodes : (v = c \/ Within(e, c, v)) /\ v < m => v \in Y \/ OnStack(s, v)
    PROVE  UpExact(L, e, c, Y, m, Append(s, ListAt(m, L[m])))
<1> DEFINE x == ListAt(m, L[m])
           t == Append(s, x)
<1>1. x.node = m /\ x.rest = L[m]
  BY ListFields
<1> HIDE DEF x
<1>2. t # <<>> /\ Last(t) = x
  BY Pushed
<1>3. m \in Owners /\ Len(L[m]) \in Nat
  <2>1. m \in Owners
    BY OwnersAreNumbers
  <2>2. L[m] \in Seq(Nodes)
    BY <2>1 DEF Numbered
  <2> QED  BY <2>1, <2>2
<1>4. Len(L[m]) - Len(L[m]) = 0 /\ \A k \in DOMAIN L[m] : Len(L[m]) - Len(L[m]) + k = k
  <2>1. L[m] \in Seq(Nodes)
    BY <1>3 DEF Numbered
  <2> QED  BY <2>1
<1>5. Fits(L, Deep, x) /\ Turn(L, Deep, x) = 0
  BY <1>1, <1>3, <1>4 DEF Fits, Turn, Deep
<1>6. Turned(L, Deep, c, t)
  BY <1>1, <1>5, TurnedPush
<1>7. \A v : OnStack(t, v) <=> OnStack(s, v) \/ v = m
  BY <1>1, OnStackPushed
<1>8. Through(e, c, Y, m, t)
  <2> SUFFICES ASSUME NEW v \in Nodes, v = c \/ Within(e, c, v), v <= m
               PROVE  v \in Y \/ OnStack(t, v)
    BY DEF Through
  <2>1. v < m \/ v = m
    BY OwnersAreNumbers
  <2> QED  BY <1>7, <2>1
<1> HIDE DEF t
<1>9. UpExact(L, e, c, Y, m, t)
  BY <1>1, <1>2, <1>5, <1>6, <1>8 DEF UpExact, Done
<1> QED  BY <1>9 DEF t, x

LEMMA UpLeaveExact ==
    ASSUME NEW L, NEW z, NEW e, Numbered(L, z, e), NEW c \in Nodes, NEW Y, NEW y,
           NEW s, UpOrder(L, e, c, Y, y, s), NEW n \in Nodes,
           UpExact(L, e, c, Y, y, Append(s, ListAt(n, <<>>)))
    PROVE  y = e[n] /\ UpExact(L, e, c, Y \cup {n}, e[n], s)
<1> DEFINE x == ListAt(n, <<>>)
           t == Append(s, x)
<1>1. x.node = n /\ x.rest = <<>> /\ Len(<<>>) = 0
  BY ListFields
<1> HIDE DEF x
<1>2. IsSeq(s)
  BY DEF UpOrder
<1>3. t # <<>> /\ Last(t) = x
  BY <1>2, Pushed
<1>4. UpExact(L, e, c, Y, y, t)
  BY DEF x
<1>5. Turned(L, Deep, c, s) /\ TurnsAt(L, Deep, c, s, n)
  BY <1>1, <1>2, <1>4, TurnedPush DEF UpExact
<1>6. n \in Owners /\ Len(L[n]) - 0 = Len(L[n])
  <2>1. n \in Owners
    BY OwnersAreNumbers
  <2>2. L[n] \in Seq(Nodes)
    BY <2>1 DEF Numbered
  <2> QED  BY <2>1, <2>2
<1>7. y = e[n]
  <2>1. Turn(L, Deep, x) = Len(L[n])
    BY <1>1, <1>6 DEF Turn, Deep
  <2> HIDE DEF t
  <2> QED  BY <1>1, <1>3, <1>4, <1>6, <2>1, DoneAll DEF UpExact
<1>8. \A v : OnStack(t, v) <=> OnStack(s, v) \/ v = n
  BY <1>1, <1>2, OnStackPushed
<1>9. Through(e, c, Y \cup {n}, e[n], s)
  <2> HIDE DEF t
  <2> QED  BY <1>4, <1>7, <1>8 DEF UpExact, Through
<1> QED  BY <1>5, <1>7, <1>9, UpBack DEF UpExact

OnBottomUpAxis == walk.axis = "bottom up"

BottomUpAt(e, y, s) ==
    /\ frames = <<BottomUpState(Deep, s)>>
    /\ InOrder
    /\ UpOrder(origin, e, walk.node, Elems(yielded), y, s)
    /\ Undisturbed => UpExact(origin, e, walk.node, Elems(yielded), y, s)

BottomUpWalk(e) == \E s : \E y \in Nat : BottomUpAt(e, y, s)

LEMMA BottomUpAxis ==
    ASSUME Base, Started, NEW e, Numbered(origin, size, e), OnBottomUpAxis, NEW w, w = walk.node
    PROVE  /\ w \in Nodes /\ w \in Owners /\ w \in Nat
           /\ \A m : m \in AxisNodes(walk) <=> m \in Nodes /\ (m = w \/ Within(e, w, m))
           /\ \A m, n \in Nodes : Precedes(walk.axis, m, n) <=> Comes(e, m, n)
           /\ Claimed
<1>1. walk \in Walks /\ walk.node <= size
  BY DEF Base
<1>2. w \in Nodes /\ w \in Owners /\ w \in Nat
  BY <1>1, OwnersAreNumbers DEF Walks
<1>3. \A m : m \in AxisNodes(walk) <=> m \in Nodes /\ (m = w \/ Within(e, w, m))
  <2>1. walk.axis \in {"reversed descendants", "bottom up", "breadth first"}
    BY Zenon DEF OnBottomUpAxis
  <2> QED  BY <1>1, <2>1, AxisFacts, Zenon
<1>4. Claimed
  BY Zenon DEF Claimed, Forward, OnBottomUpAxis
<1>5. \A m, n : Precedes(walk.axis, m, n) <=> AfterDescendants(n, m)
  BY Zenon DEF Precedes, OnBottomUpAxis
<1>6. ASSUME NEW m \in Nodes, NEW n \in Nodes
      PROVE  AfterDescendants(n, m) <=> Comes(e, m, n)
  <2>1. m \in Owners /\ n \in Owners /\ m \in Nat /\ n \in Nat
    BY OwnersAreNumbers
  <2>2. \A a \in Nodes, b \in Owners : a \in AncestorsIn(origin, b) <=> Within(e, a, b)
    BY AncestorsAndSubtrees
  <2>3. AfterDescendants(n, m) <=> Within(e, n, m) \/ (n > m /\ ~Within(e, m, n))
    BY <2>1, <2>2 DEF AfterDescendants
  <2>4. m <= e[m] /\ e[m] \in Nat
    BY <2>1, OwnersAreNumbers DEF Numbered
  <2> QED  BY <2>1, <2>3, <2>4 DEF Comes, Within
<1> QED  BY <1>2, <1>3, <1>4, <1>5, <1>6

\* Nothing below a node that the walk did not reach was removed.
LEMMA WholeBelow ==
    ASSUME Base, Started, Undisturbed, NEW e, Numbered(origin, size, e), NEW n \in Owners,
           NEW y \in Nat, y < n, \A m \in Elems(yielded) : e[m] <= y
    PROVE  children[n] = origin[n]
<1>1. Detached \subseteq Elems(yielded)
  BY UndisturbedDetached
<1>2. ASSUME NEW c \in Elems(origin[n]), c \in Detached PROVE FALSE
  <2>1. c \in Owners /\ n < c /\ c \in Elems(yielded)
    BY <1>1, <1>2, MemberWithin DEF Within
  <2>2. e[c] <= y /\ c <= e[c] /\ e[c] \in Nat /\ c \in Nat /\ n \in Nat
    BY <2>1, OwnersAreNumbers DEF Numbered
  <2> QED  BY <2>1, <2>2
<1>3. Pruned(children, origin, Detached)
  BY DEF Base
<1> QED  BY <1>2, <1>3 DEF Pruned

LEMMA BottomUpStart ==
    ASSUME NEW e, Fresh(e), OnBottomUpAxis
    PROVE  BottomUpWalk(e)
<1>1. PICK n : n = walk.node
  OBVIOUS
<1>2. Numbered(origin, size, e) /\ Base /\ Started /\ children = origin /\ yielded = <<>>
      /\ frames = <<FirstFrame(walk)>>
  BY DEF Fresh
<1>3. n \in Nodes /\ n \in Owners /\ n \in Nat /\ n <= e[n] /\ e[n] \in Nat
  <2>1. n \in Nodes /\ n \in Owners /\ n \in Nat
    BY <1>1, <1>2, BottomUpAxis
  <2> QED  BY <1>2, <2>1, OwnersAreNumbers DEF Numbered
<1>4. PICK x : x = ListAt(n, children[n])
  OBVIOUS
<1>5. frames = <<BottomUpState(Deep, <<x>>)>>
  <2>1. FirstFrame(walk) = BottomUpFrame(n, TRUE)
    BY <1>1, Zenon DEF FirstFrame, OnBottomUpAxis
  <2>2. BottomUpFrame(n, TRUE) = BottomUpState(Deep, <<x>>)
    BY <1>4, Zenon DEF BottomUpFrame, BottomUpState, Deep, ListAt
  <2> QED  BY <1>2, <2>1, <2>2
<1>6. InOrder /\ Elems(yielded) = {}
  BY <1>2, NothingYet DEF Elems
<1>7. x.node = n /\ x.rest = children[n] /\ x = ListAt(x.node, x.rest)
  BY <1>4, ListFields
<1>8. /\ children[n] \in Seq(Nodes)
      /\ \A k \in DOMAIN children[n] : children[n][k] \in Elems(origin[n])
      /\ \A j, k \in DOMAIN children[n] : j < k => children[n][j] < children[n][k]
  BY <1>2, <1>3, ListsAreTyped
<1>9. IsListLevel(origin, e, n, x)
  BY <1>3, <1>7, <1>8 DEF IsListLevel
<1>10. Around(e, x, n)
  <2>1. \A k \in DOMAIN children[n] : n < children[n][k]
    BY <1>2, <1>3, <1>8, MemberWithin DEF Within
  <2> QED  BY <1>3, <1>7, <2>1 DEF Around
<1>11. PICK t : t = <<>> /\ IsSeq(t) /\ DOMAIN t = {} /\ <<x>> = Append(t, x)
  BY OneFrame
<1>12. UpOrder(origin, e, n, {}, n, t)
  BY <1>11 DEF UpOrder
<1>13. UpOrder(origin, e, n, {}, n, <<x>>)
  <2>1. UpOrder(origin, e, n, {}, n, Append(t, x))
    BY <1>9, <1>10, <1>11, <1>12, UpPush
  <2> QED  BY <1>11, <2>1
<1>14. UpExact(origin, e, n, {}, n, <<x>>)
  <2>1. Turned(origin, Deep, n, t) /\ TurnsAt(origin, Deep, n, t, n)
    BY <1>11 DEF Turned, TurnsAt
  <2>2. \A v \in Nodes : (v = n \/ Within(e, n, v)) /\ v < n => v \in {} \/ OnStack(t, v)
    <3> SUFFICES ASSUME NEW v \in Nodes, v = n \/ Within(e, n, v), v < n PROVE FALSE
      OBVIOUS
    <3>1. v \in Nat
      BY OwnersAreNumbers
    <3> QED  BY <1>3, <3>1 DEF Within
  <2>3. UpExact(origin, e, n, {}, n, Append(t, ListAt(n, origin[n])))
    BY <1>2, <1>3, <1>11, <2>1, <2>2, UpIntoExact
  <2> QED  BY <1>2, <1>4, <1>11, <2>3
<1>15. BottomUpAt(e, n, <<x>>)
  BY <1>1, <1>5, <1>6, <1>13, <1>14 DEF BottomUpAt
<1> QED  BY <1>3, <1>15 DEF BottomUpWalk

LEMMA BottomUpRest ==
    ASSUME NEW e, BottomUpWalk(e), Rests
    PROVE  BottomUpWalk(e)'
<1>1. PICK s : \E y \in Nat : BottomUpAt(e, y, s)
  BY DEF BottomUpWalk
<1>2. PICK y \in Nat : BottomUpAt(e, y, s)
  BY <1>1
<1>3. InOrder'
  BY <1>2, OrderStays DEF Rests, BottomUpAt
<1>4. BottomUpAt(e, y, s)'
  BY <1>2, <1>3 DEF Rests, Keeps, BottomUpAt, BottomUpState, Deep
<1> QED  BY <1>4 DEF BottomUpWalk

\* what a step makes of such a walk
BottomUpGoesOn(e, u, s) ==
    /\ InOrder'
    /\ UpOrder(origin, e, walk.node, Elems(yielded'), u, s)
    /\ Undisturbed => UpExact(origin, e, walk.node, Elems(yielded'), u, s)

LEMMA BottomUpReaches ==
    ASSUME Keeps, NEW e, NEW u \in Nat, NEW s, frames' = <<BottomUpState(Deep, s)>>,
           BottomUpGoesOn(e, u, s)
    PROVE  BottomUpWalk(e)'
<1>1. walk' = walk /\ origin' = origin /\ (Undisturbed' => Undisturbed)
  BY DEF Keeps
<1>2. BottomUpAt(e, u, s)'
  BY <1>1 DEF BottomUpGoesOn, BottomUpAt, BottomUpState, Deep
<1> QED  BY <1>2 DEF BottomUpWalk

\* A node that comes behind all that was yielded is yielded.
LEMMA BottomUpYields ==
    ASSUME Base, Started, NEW e, Numbered(origin, size, e), Keeps, OnBottomUpAxis,
           NEW y, NEW s, BottomUpAt(e, y, s),
           NEW m \in Nodes, m = walk.node \/ Within(e, walk.node, m),
           \A v \in Elems(yielded) : Comes(e, v, m), yielded' = Append(yielded, m)
    PROVE  InOrder' /\ Elems(yielded') = Elems(yielded) \cup {m}
<1>1. InOrder /\ \A v \in Elems(yielded) : v \in Nodes
  BY DEF BottomUpAt, UpOrder
<1>2. m \in AxisNodes(walk)
  BY BottomUpAxis
<1>3. \A v \in Elems(yielded) : Precedes(walk.axis, v, m)
  BY <1>1, BottomUpAxis
<1> QED  BY <1>1, <1>2, <1>3, ResultAdded

LEMMA BottomUpLeaves ==
    ASSUME Base, Started, NEW e, Numbered(origin, size, e), Keeps, OnBottomUpAxis,
           NEW y \in Nat, NEW s, IsSeq(s), NEW n \in Nodes,
           BottomUpAt(e, y, Append(s, ListAt(n, <<>>))),
           yielded' = Append(yielded, n)
    PROVE  e[n] \in Nat /\ BottomUpGoesOn(e, e[n], s)
<1>1. PICK c, Y : c = walk.node /\ Y = Elems(yielded)
  OBVIOUS
<1>2. PICK x : x = ListAt(n, <<>>)
  OBVIOUS
<1>3. x.node = n
  BY <1>2, ListFields
<1>4. c \in Nodes /\ c \in Owners
  BY <1>1, BottomUpAxis
<1>5. UpOrder(origin, e, c, Y, y, Append(s, x))
  BY <1>1, <1>2 DEF BottomUpAt
<1>6. /\ UpOrder(origin, e, c, Y, y, s) /\ IsListLevel(origin, e, c, x) /\ Around(e, x, y)
      /\ \A v \in Y : Comes(e, v, n)
      /\ \A i \in DOMAIN s : Ahead(e, s[i], n)
  BY <1>3, <1>5, UpPush
<1>7. (n = c \/ Within(e, c, n)) /\ n <= y /\ y <= e[n]
  BY <1>3, <1>6 DEF IsListLevel, Around
<1>8. n \in Owners /\ n \in Nat /\ e[n] \in Nat
  <2>1. n \in Owners /\ n \in Nat
    BY OwnersAreNumbers
  <2> QED  BY <2>1, OwnersAreNumbers DEF Numbered
<1>9. InOrder' /\ Elems(yielded') = Y \cup {n}
  BY <1>1, <1>6, <1>7, BottomUpYields
<1>10. UpOrder(origin, e, c, Y \cup {n}, e[n], s)
  <2>1. n <= e[n] /\ e[n] <= e[n] /\ \A v \in Y \cup {n} : v \in Y \/ (v = n /\ e[n] <= e[n])
    BY <1>7, <1>8
  <2> QED  BY <1>6, <1>7, <1>8, <2>1, UpMove
<1>11. Undisturbed => UpExact(origin, e, c, Y \cup {n}, e[n], s)
  <2> SUFFICES ASSUME Undisturbed PROVE UpExact(origin, e, c, Y \cup {n}, e[n], s)
    OBVIOUS
  <2>1. UpExact(origin, e, c, Y, y, Append(s, ListAt(n, <<>>)))
    BY <1>1 DEF BottomUpAt
  <2> QED  BY <1>4, <1>6, <2>1, UpLeaveExact
<1> QED  BY <1>1, <1>8, <1>9, <1>10, <1>11 DEF BottomUpGoesOn

\* what holds when the first of a level's children was taken
BottomUpTaken(e, y, kept, m) ==
    /\ UpOrder(origin, e, walk.node, Elems(yielded), y, kept)
    /\ IsSeq(kept) /\ m \in Nodes /\ m \in Nat /\ m \in Owners /\ y < m
    /\ e[m] \in Nat /\ m <= e[m]
    /\ Within(e, walk.node, m)
    /\ \A i \in DOMAIN kept : Ahead(e, kept[i], m)
    /\ \A v \in Elems(yielded) : Comes(e, v, m)
    /\ Undisturbed => /\ Turned(origin, Deep, walk.node, kept)
                      /\ TurnsAt(origin, Deep, walk.node, kept, m)
                      /\ m = y + 1
                      /\ Through(e, walk.node, Elems(yielded), y, kept)
                      /\ children[m] = origin[m]

LEMMA BottomUpTakes ==
    ASSUME Base, Started, NEW e, Numbered(origin, size, e), OnBottomUpAxis,
           NEW y \in Nat, NEW s, IsSeq(s), NEW n \in Nodes, NEW r \in Seq(Nodes), r # <<>>,
           BottomUpAt(e, y, Append(s, ListAt(n, r)))
    PROVE  BottomUpTaken(e, y, Append(s, ListAt(n, Tail(r))), Head(r))
<1>1. PICK c, Y : c = walk.node /\ Y = Elems(yielded)
  OBVIOUS
<1>2. PICK kept, m : kept = Append(s, ListAt(n, Tail(r))) /\ m = Head(r)
  OBVIOUS
<1>3. c \in Nodes /\ c \in Owners
  BY <1>1, BottomUpAxis
<1>4. UpOrder(origin, e, c, Y, y, Append(s, ListAt(n, r)))
  BY <1>1 DEF BottomUpAt
<1>5. /\ UpOrder(origin, e, c, Y, y, kept)
      /\ m \in Nodes /\ y < m /\ Within(e, c, m)
      /\ \A i \in DOMAIN kept : Ahead(e, kept[i], m)
  BY <1>2, <1>3, <1>4, UpTake
<1>6. IsSeq(kept)
  BY <1>2, Pushed
<1>7. \A v \in Owners : e[v] \in Nat /\ v \in Nat
  BY OwnersAreNumbers DEF Numbered
<1>8. m \in Owners /\ m \in Nat /\ e[m] \in Nat /\ m <= e[m]
  <2>1. m \in Owners
    BY <1>5, OwnersAreNumbers
  <2> QED  BY <1>7, <2>1 DEF Numbered
<1>9. \A v \in Y : e[v] <= y /\ e[v] \in Nat
  <2>1. \A v \in Y : e[v] <= y /\ v \in Owners
    BY <1>5, OwnersAreNumbers DEF UpOrder
  <2> QED  BY <1>7, <2>1
<1>10. \A v \in Y : Comes(e, v, m)
  <2>1. \A v \in Y : e[v] < m
    BY <1>5, <1>8, <1>9
  <2> QED  BY <2>1 DEF Comes
<1>11. ASSUME Undisturbed
       PROVE  /\ Turned(origin, Deep, c, kept) /\ TurnsAt(origin, Deep, c, kept, m) /\ m = y + 1
              /\ Through(e, c, Y, y, kept) /\ children[m] = origin[m]
  <2>1. UpExact(origin, e, c, Y, y, Append(s, ListAt(n, r)))
    BY <1>1, <1>11 DEF BottomUpAt
  <2>2. children[m] = origin[m]
    BY <1>1, <1>5, <1>8, <1>9, <1>11, WholeBelow
  <2> QED  BY <1>2, <2>1, <2>2, UpTakeExact
<1>12. BottomUpTaken(e, y, kept, m)
  BY <1>1, <1>5, <1>6, <1>8, <1>10, <1>11 DEF BottomUpTaken
<1> QED  BY <1>2, <1>12

\* It has no children,
LEMMA BottomUpPasses ==
    ASSUME Base, Started, NEW e, Numbered(origin, size, e), Keeps, OnBottomUpAxis,
           NEW y \in Nat, NEW s, BottomUpAt(e, y, s), NEW kept, NEW m, BottomUpTaken(e, y, kept, m),
           children[m] = <<>>, yielded' = Append(yielded, m)
    PROVE  BottomUpGoesOn(e, e[m], kept)
<1>1. PICK c, Y : c = walk.node /\ Y = Elems(yielded)
  OBVIOUS
<1>2. c \in Nodes
  BY <1>1, BottomUpAxis
<1>3. /\ UpOrder(origin, e, c, Y, y, kept)
      /\ IsSeq(kept) /\ m \in Nodes /\ m \in Nat /\ m \in Owners /\ y < m
      /\ e[m] \in Nat /\ m <= e[m]
      /\ Within(e, c, m)
      /\ \A i \in DOMAIN kept : Ahead(e, kept[i], m)
      /\ \A v \in Y : Comes(e, v, m)
      /\ Undisturbed => /\ Turned(origin, Deep, c, kept)
                        /\ TurnsAt(origin, Deep, c, kept, m)
                        /\ m = y + 1
                        /\ Through(e, c, Y, y, kept)
                        /\ children[m] = origin[m]
  BY <1>1 DEF BottomUpTaken
<1>4. InOrder' /\ Elems(yielded') = Y \cup {m}
  BY <1>1, <1>3, BottomUpYields
<1>5. UpOrder(origin, e, c, Y \cup {m}, e[m], kept)
  <2>1. /\ y <= e[m] /\ e[m] <= e[m]
        /\ \A v \in Y \cup {m} : v \in Y \/ (v = m /\ e[m] <= e[m])
    BY <1>3
  <2> QED  BY <1>3, <2>1, UpMove
<1>6. Undisturbed => UpExact(origin, e, c, Y \cup {m}, e[m], kept)
  BY <1>2, <1>3, UpLeafExact
<1> QED  BY <1>1, <1>4, <1>5, <1>6 DEF BottomUpGoesOn

\* or they are next.
LEMMA BottomUpSinks ==
    ASSUME Base, Started, NEW e, Numbered(origin, size, e), Keeps, OnBottomUpAxis,
           NEW y \in Nat, NEW s, BottomUpAt(e, y, s), NEW kept, NEW m, BottomUpTaken(e, y, kept, m),
           yielded' = yielded
    PROVE  BottomUpGoesOn(e, m, Append(kept, ListAt(m, children[m])))
<1>1. PICK c, Y : c = walk.node /\ Y = Elems(yielded)
  OBVIOUS
<1>2. c \in Nodes
  BY <1>1, BottomUpAxis
<1>3. /\ UpOrder(origin, e, c, Y, y, kept)
      /\ IsSeq(kept) /\ m \in Nodes /\ m \in Nat /\ m \in Owners /\ y < m
      /\ e[m] \in Nat /\ m <= e[m]
      /\ Within(e, c, m)
      /\ \A i \in DOMAIN kept : Ahead(e, kept[i], m)
      /\ \A v \in Y : Comes(e, v, m)
      /\ Undisturbed => /\ Turned(origin, Deep, c, kept)
                        /\ TurnsAt(origin, Deep, c, kept, m)
                        /\ m = y + 1
                        /\ Through(e, c, Y, y, kept)
                        /\ children[m] = origin[m]
  BY <1>1 DEF BottomUpTaken
<1>4. InOrder'
  BY OrderStays DEF BottomUpAt
<1>5. PICK x : x = ListAt(m, children[m])
  OBVIOUS
<1>6. x.node = m /\ x.rest = children[m] /\ x = ListAt(x.node, x.rest)
  BY <1>5, ListFields
<1>7. /\ children[m] \in Seq(Nodes)
      /\ \A k \in DOMAIN children[m] : children[m][k] \in Elems(origin[m])
      /\ \A j, k \in DOMAIN children[m] : j < k => children[m][j] < children[m][k]
  BY <1>3, ListsAreTyped
<1>8. IsListLevel(origin, e, c, x)
  BY <1>3, <1>6, <1>7 DEF IsListLevel
<1>9. Around(e, x, m)
  <2>1. \A k \in DOMAIN children[m] : m < children[m][k]
    BY <1>3, <1>7, MemberWithin DEF Within
  <2> QED  BY <1>3, <1>6, <2>1 DEF Around
<1>10. UpOrder(origin, e, c, Y, m, kept)
  <2>1. y <= m /\ m <= m /\ \A v \in Y : v \in Y \/ (v = m /\ e[m] <= m)
    BY <1>3
  <2> QED  BY <1>3, <2>1, UpMove
<1>11. UpOrder(origin, e, c, Y, m, Append(kept, x))
  BY <1>3, <1>6, <1>8, <1>9, <1>10, UpPush
<1>12. ASSUME Undisturbed PROVE UpExact(origin, e, c, Y, m, Append(kept, x))
  <2>1. \A v \in Nodes : (v = c \/ Within(e, c, v)) /\ v < m => v \in Y \/ OnStack(kept, v)
    <3> SUFFICES ASSUME NEW v \in Nodes, v = c \/ Within(e, c, v), v < m
                 PROVE  v \in Y \/ OnStack(kept, v)
      OBVIOUS
    <3>1. v <= y
      <4>1. v \in Nat
        BY OwnersAreNumbers
      <4> QED  BY <1>3, <1>12, <4>1
    <3> QED  BY <1>3, <1>12, <3>1 DEF Through
  <2>2. UpExact(origin, e, c, Y, m, Append(kept, ListAt(m, origin[m])))
    BY <1>2, <1>3, <1>12, <2>1, UpIntoExact
  <2> QED  BY <1>3, <1>5, <1>12, <2>2
<1> QED  BY <1>1, <1>4, <1>5, <1>11, <1>12 DEF BottomUpGoesOn

LEMMA BottomUpStep ==
    ASSUME Base, Started, NEW e, Numbered(origin, size, e), Keeps, Run,
           OnBottomUpAxis, BottomUpWalk(e)
    PROVE  (Active' /\ BottomUpWalk(e)') \/ Ended'
<1>1. PICK c : c = walk.node
  OBVIOUS
<1>2. PICK s : \E y \in Nat : BottomUpAt(e, y, s)
  BY DEF BottomUpWalk
<1>3. PICK y \in Nat : BottomUpAt(e, y, s)
  BY <1>2
<1>4. /\ frames = <<BottomUpState(Deep, s)>>
      /\ InOrder
      /\ UpOrder(origin, e, c, Elems(yielded), y, s)
      /\ Undisturbed => UpExact(origin, e, c, Elems(yielded), y, s)
  BY <1>1, <1>3 DEF BottomUpAt
<1>5. IsSeq(s) /\ \A i \in DOMAIN s : IsListLevel(origin, e, c, s[i])
  BY <1>4 DEF UpOrder
<1>6. c \in Nodes /\ c \in Owners
      /\ \A m : m \in AxisNodes(walk) <=> m \in Nodes /\ (m = c \/ Within(e, c, m))
  BY <1>1, BottomUpAxis
<1>7. s # <<>> => IsListLevel(origin, e, c, Last(s))
  <2> SUFFICES ASSUME s # <<>> PROVE IsListLevel(origin, e, c, Last(s))
    OBVIOUS
  <2>1. PICK S : s \in Seq(S)
    BY <1>5 DEF IsSeq
  <2>2. Len(s) \in DOMAIN s
    BY <2>1
  <2> QED  BY <1>5, <2>2 DEF Last
<1>8. s # <<>> => Last(s) = ListAt(Last(s).node, Last(s).rest)
  BY <1>7 DEF IsListLevel
<1>9. frames = Append(<<>>, BottomUpState(Deep, s)) /\ IsSeq(<<>>)
  BY <1>4, OneFrame
<1>10. BottomUpTurn(Deep, s)
  BY <1>8, <1>9, BottomUpTurns
<1>11. \A g : Inner(<<g>>) = <<g>> /\ <<g>> # <<>>
  <2>1. \A g : Inner(<<g>>) = Append(<<>>, g)
    BY <1>9, TopFrame, Zenon
  <2>2. \A g : <<g>> = Append(<<>>, g) /\ <<g>> # <<>>
    OBVIOUS
  <2> QED  BY <2>1, <2>2
<1>12. CASE s = <<>>
  <2>1. Return
    BY <1>10, <1>12, Zenon DEF BottomUpTurn
  <2>2. ASSUME Undisturbed PROVE Exhausted
    <3> SUFFICES ASSUME NEW m \in AxisNodes(walk) PROVE m \in Elems(yielded)
      BY DEF Exhausted
    <3>1. m \in Nodes /\ (m = c \/ Within(e, c, m))
      BY <1>6
    <3>2. y = e[c] /\ Through(e, c, Elems(yielded), y, s)
      BY <1>4, <1>12, <2>2 DEF UpExact
    <3>3. m <= y
      <4>1. c <= e[c]
        BY <1>6 DEF Numbered
      <4> QED  BY <3>1, <3>2, <4>1 DEF Within
    <3>4. ~OnStack(s, m)
      BY <1>12 DEF OnStack
    <3> QED  BY <3>1, <3>2, <3>3, <3>4 DEF Through
  <2> QED  BY <1>4, <1>9, <2>1, <2>2, WalkEnds
<1>13. CASE s # <<>>
  <2>1. PICK t, x : t = Front(s) /\ x = Last(s)
    OBVIOUS
  <2>2. PICK n, r : n = x.node /\ r = x.rest
    OBVIOUS
  <2>3. x = ListAt(n, r) /\ IsListLevel(origin, e, c, x) /\ IsSeq(t) /\ s = Append(t, x)
    BY <1>5, <1>7, <1>8, <1>13, <2>1, <2>2, Popping
  <2>4. n \in Nodes /\ r \in Seq(Nodes)
    BY <2>2, <2>3 DEF IsListLevel
  <2>5. s = Append(t, ListAt(n, r)) /\ BottomUpAt(e, y, Append(t, ListAt(n, r)))
    BY <1>3, <2>3, Zenon
  <2>6. CASE r = <<>>
    <3>1. Yield(n, <<BottomUpState(Deep, t)>>)
      BY <1>10, <1>13, <2>1, <2>2, <2>6, Zenon DEF BottomUpTurn
    <3>2. /\ yielded' = Append(yielded, n) /\ status' = "suspended"
          /\ frames' = <<BottomUpState(Deep, t)>>
      BY <1>11, <3>1 DEF Yield
    <3>3. e[n] \in Nat /\ BottomUpGoesOn(e, e[n], t)
      BY <2>3, <2>4, <2>5, <2>6, <3>2, BottomUpLeaves
    <3> QED  BY <3>2, <3>3, BottomUpReaches DEF Active
  <2>7. CASE r # <<>>
    <3>1. PICK m, kept : m = Head(r) /\ kept = Append(t, ListAt(n, Tail(r)))
      OBVIOUS
    <3>2. IF children[m] = <<>> THEN Yield(m, <<BottomUpState(Deep, kept)>>)
          ELSE Continue(<<BottomUpState(Deep, Append(kept, ListAt(m, children[m])))>>)
      <4>1. Deep
        BY DEF Deep
      <4> QED  BY <1>10, <1>13, <2>1, <2>2, <2>7, <3>1, <4>1, Zenon DEF BottomUpTurn
    <3>3. BottomUpTaken(e, y, kept, m)
      BY <2>3, <2>4, <2>5, <2>7, <3>1, BottomUpTakes
    <3>4. e[m] \in Nat /\ m \in Nat
      BY <3>3 DEF BottomUpTaken
    <3>5. CASE children[m] = <<>>
      <4>1. Yield(m, <<BottomUpState(Deep, kept)>>)
        BY <3>2, <3>5
      <4>2. /\ yielded' = Append(yielded, m) /\ status' = "suspended"
            /\ frames' = <<BottomUpState(Deep, kept)>>
        BY <1>11, <4>1 DEF Yield
      <4>3. BottomUpGoesOn(e, e[m], kept)
        BY <1>3, <3>3, <3>5, <4>2, BottomUpPasses
      <4> QED  BY <3>4, <4>2, <4>3, BottomUpReaches DEF Active
    <3>6. CASE children[m] # <<>>
      <4>1. PICK u : u = Append(kept, ListAt(m, children[m]))
        OBVIOUS
      <4>2. Continue(<<BottomUpState(Deep, u)>>)
        BY <3>2, <3>6, <4>1
      <4>3. yielded' = yielded /\ status' = "running" /\ frames' = <<BottomUpState(Deep, u)>>
        BY <1>11, <4>2 DEF Continue
      <4>4. BottomUpGoesOn(e, m, u)
        BY <1>3, <3>3, <4>1, <4>3, BottomUpSinks
      <4> QED  BY <3>4, <4>3, <4>4, BottomUpReaches DEF Active
    <3> QED  BY <3>5, <3>6
  <2> QED  BY <2>6, <2>7
<1> QED  BY <1>12, <1>13

-----------------------------------------------------------------------------
(* Breadth first *)

LEMMA DepthGrows ==
    ASSUME NEW z, NEW e, Numbered(origin, z, e), NEW n \in Nodes
    PROVE  /\ Depth(n) \in Nat
           /\ \A m \in Nodes : Within(e, n, m) => Depth(n) < Depth(m)
           /\ \A c \in Elems(origin[n]) : c \in Nodes /\ n < c /\ Depth(c) = Depth(n) + 1
<1> DEFINE A(m) == AncestorsIn(origin, m)
<1>1. n \in Owners /\ \A m \in Nodes : m \in Owners
  BY OwnersAreNumbers
<1>2. ASSUME NEW m \in Nodes PROVE IsFiniteSet(A(m)) /\ Depth(m) \in Nat
  <2>1. \A a \in A(m) : a \in Nodes
    BY <1>1, AncestorsAndSubtrees
  <2>2. A(m) \in SUBSET (1 .. N)
    BY <2>1 DEF Nodes
  <2>3. IsFiniteSet(1 .. N)
    BY BoundsAreNaturals, FS_Interval
  <2> HIDE DEF A
  <2>4. IsFiniteSet(A(m))
    BY <2>2, <2>3, FS_Subset
  <2>5. Cardinality(A(m)) \in Nat
    BY <2>4, FS_CardinalityType
  <2> QED  BY <2>4, <2>5 DEF Depth, A
<1>3. ~Within(e, n, n) /\ n \notin A(n)
  <2>1. ~Within(e, n, n)
    BY OwnersAreNumbers DEF Within
  <2> QED  BY <1>1, <2>1, AncestorsAndSubtrees
<1>4. Cardinality(A(n) \cup {n}) = Depth(n) + 1
  <2>1. Depth(n) = Cardinality(A(n))
    BY DEF Depth
  <2> HIDE DEF A
  <2> QED  BY <1>2, <1>3, <2>1, FS_AddElement
<1>5. ASSUME NEW m \in Nodes, Within(e, n, m) PROVE Depth(n) < Depth(m)
  <2>1. \A a \in A(n) : a \in A(m)
    <3> SUFFICES ASSUME NEW a \in A(n) PROVE a \in A(m)
      OBVIOUS
    <3>1. a \in Nodes /\ a \in Owners /\ Within(e, a, n)
      BY <1>1, AncestorsAndSubtrees
    <3>2. Within(e, a, m)
      BY <1>1, <1>5, <3>1, WithinTransitive
    <3> QED  BY <1>1, <3>1, <3>2, AncestorsAndSubtrees
  <2>2. n \in A(m)
    BY <1>1, <1>5, AncestorsAndSubtrees
  <2> HIDE DEF A
  <2>3. A(n) \cup {n} \in SUBSET A(m)
    BY <2>1, <2>2
  <2>4. Cardinality(A(n) \cup {n}) <= Cardinality(A(m))
    BY <1>2, <2>3, FS_Subset
  <2>5. Cardinality(A(m)) = Depth(m)
    BY DEF A, Depth
  <2> QED  BY <1>2, <1>4, <2>4, <2>5
<1>6. ASSUME NEW c \in Elems(origin[n]) PROVE c \in Nodes /\ n < c /\ Depth(c) = Depth(n) + 1
  <2>1. c \in Nodes /\ c \in Owners /\ n < c
    BY <1>1, MemberWithin DEF Within
  <2>2. ParentIn(origin, c) = n
    BY <1>1, <2>1, WholeRemains, ParentInRemainder
  <2>3. n \notin {Document, NIL}
    BY <1>1, OwnersAreNumbers, NilIsNoOwner
  <2>4. A(c) = {n} \cup A(n)
    BY <2>1, <2>2, <2>3, WholeRemains, AncestorsUnfold
  <2>5. Depth(c) = Cardinality(A(c))
    BY DEF Depth
  <2>6. A(c) = A(n) \cup {n}
    BY <2>4
  <2> HIDE DEF A
  <2> QED  BY <1>4, <2>1, <2>5, <2>6
<1> QED  BY <1>2, <1>5, <1>6

LEMMA HigherOrders ==
    ASSUME NEW z, NEW e, Numbered(origin, z, e)
    PROVE  /\ \A a, b, c \in Nodes : Higher(a, b) /\ Higher(b, c) => Higher(a, c)
           /\ \A a \in Nodes : ~Higher(a, a)
           /\ \A a, b \in Nodes : Within(e, a, b) => Higher(a, b)
           /\ \A a \in Nodes : \A b \in Elems(origin[a]) : Higher(a, b)
<1>1. \A a \in Nodes : Depth(a) \in Nat /\ a \in Nat
  BY DepthGrows, OwnersAreNumbers
<1>2. \A a, b \in Nodes : Within(e, a, b) => Higher(a, b)
  BY DepthGrows DEF Higher
<1>3. ASSUME NEW a \in Nodes, NEW b \in Elems(origin[a]) PROVE Higher(a, b)
  <2>1. Depth(b) = Depth(a) + 1
    BY DepthGrows
  <2> QED  BY <1>1, <2>1 DEF Higher
<1> QED  BY <1>1, <1>2, <1>3 DEF Higher

\* In the queue are nodes of one depth and behind them children of nodes before them.
InQueue(e, c, q) ==
    /\ q \in Seq(Nodes)
    /\ \A i \in DOMAIN q : q[i] = c \/ Within(e, c, q[i])
    /\ \A i, j \in DOMAIN q :
          /\ i < j => Higher(q[i], q[j])
          /\ Depth(q[j]) <= Depth(q[i]) + 1
          /\ Depth(q[j]) = Depth(q[i]) + 1 => q[j] < q[i]

BreadthOrder(e, c, Y, q) ==
    /\ InQueue(e, c, q)
    /\ Y \subseteq Nodes
    /\ \A m \in Y, i \in DOMAIN q : Higher(m, q[i])

\* What was not yielded is in the queue or below a node in it.
BreadthExact(e, c, Y, q) ==
    \A m \in Nodes : m = c \/ Within(e, c, m) =>
        m \in Y \/ \E i \in DOMAIN q : q[i] = m \/ Within(e, q[i], m)

\* children or what remains of them
LEMMA Enqueued ==
    ASSUME NEW z, NEW e, Numbered(origin, z, e), NEW c \in Nodes, NEW q, InQueue(e, c, q),
           q # <<>>, NEW r \in Seq(Nodes), Elems(r) \subseteq Elems(origin[Head(q)]),
           \A i, j \in DOMAIN r : i < j => r[i] < r[j]
    PROVE  /\ InQueue(e, c, Tail(q) \o r)
           /\ \A i \in DOMAIN (Tail(q) \o r) : Higher(Head(q), (Tail(q) \o r)[i])
           /\ \A m : m \in Elems(Tail(q) \o r) <=>
                 m \in Elems(r) \/ \E i \in DOMAIN q : i # 1 /\ q[i] = m
<1> DEFINE h == Head(q)
           a == Tail(q)
           s == a \o r
<1>1. /\ q \in Seq(Nodes) /\ Len(q) \in Nat /\ Len(q) >= 1 /\ DOMAIN q = 1 .. Len(q)
      /\ h = q[1] /\ 1 \in DOMAIN q /\ h \in Nodes
  BY DEF InQueue
<1>2. /\ a \in Seq(Nodes) /\ Len(a) = Len(q) - 1 /\ \A i \in 1 .. Len(a) : a[i] = q[i + 1]
  BY <1>1, HeadTailProperties
<1> HIDE DEF a, h
<1>3. /\ s \in Seq(Nodes) /\ Len(s) = Len(a) + Len(r)
      /\ \A i \in 1 .. Len(a) + Len(r) : s[i] = IF i <= Len(a) THEN a[i] ELSE r[i - Len(a)]
  BY <1>2, ConcatProperties
<1>4. PICK l \in Nat, k \in Nat : l = Len(a) /\ k = Len(r)
  BY <1>2
<1>5. DOMAIN s = 1 .. l + k /\ DOMAIN r = 1 .. k /\ DOMAIN q = 1 .. l + 1
  BY <1>1, <1>2, <1>3, <1>4
<1> HIDE DEF s
<1>6. \A i \in DOMAIN s : i <= l => i + 1 \in DOMAIN q /\ i + 1 # 1 /\ s[i] = q[i + 1]
  <2> SUFFICES ASSUME NEW i \in 1 .. l + k, i <= l
               PROVE  i + 1 \in DOMAIN q /\ i + 1 # 1 /\ s[i] = q[i + 1]
    BY <1>5
  <2>1. i \in 1 .. l /\ i + 1 \in 1 .. l + 1 /\ i + 1 # 1
    BY <1>4
  <2>2. s[i] = a[i]
    BY <1>3, <1>4
  <2>3. a[i] = q[i + 1]
    BY <1>2, <1>4, <2>1
  <2> QED  BY <1>5, <2>1, <2>2, <2>3
<1>7. \A i \in DOMAIN s : ~(i <= l) => i - l \in DOMAIN r /\ s[i] = r[i - l]
  <2> SUFFICES ASSUME NEW i \in 1 .. l + k, ~(i <= l)
               PROVE  i - l \in DOMAIN r /\ s[i] = r[i - l]
    BY <1>5
  <2>1. i - l \in 1 .. k
    BY <1>4
  <2>2. s[i] = r[i - l]
    BY <1>3, <1>4
  <2> QED  BY <1>5, <2>1, <2>2
<1>8. ASSUME NEW i \in DOMAIN r
      PROVE  /\ r[i] \in Nodes /\ r[i] \in Elems(r)
             /\ h < r[i] /\ Depth(r[i]) = Depth(h) + 1 /\ r[i] <= e[h] /\ Higher(h, r[i])
             /\ Within(e, h, r[i])
  <2>1. r[i] \in Elems(r) /\ r[i] \in Elems(origin[h])
    BY DEF Elems, h
  <2>2. h \in Owners
    BY <1>1, OwnersAreNumbers
  <2>3. Within(e, h, r[i])
    BY <2>1, <2>2, MemberWithin
  <2> QED  BY <1>1, <2>1, <2>3, DepthGrows, HigherOrders DEF Within
<1>9. \A n \in Nodes : n \in Nat /\ Depth(n) \in Nat /\ n \in Owners
  BY DepthGrows, OwnersAreNumbers
<1>10. \A i \in DOMAIN q : q[i] \in Nodes
  BY <1>1
<1>11. ASSUME NEW i \in DOMAIN q, i # 1
       PROVE  /\ Higher(h, q[i])
              /\ Depth(h) <= Depth(q[i]) /\ Depth(q[i]) <= Depth(h) + 1
              /\ Depth(q[i]) = Depth(h) => e[h] < q[i]
              /\ Depth(q[i]) = Depth(h) + 1 => q[i] < h
  <2>1. 1 < i
    BY <1>1, <1>5, <1>11
  <2>2. Higher(h, q[i]) /\ Depth(q[i]) <= Depth(h) + 1 /\ (Depth(q[i]) = Depth(h) + 1 => q[i] < h)
    BY <1>1, <2>1 DEF InQueue
  <2>3. q[i] \in Nodes
    BY <1>10
  <2>4. Depth(q[i]) = Depth(h) => e[h] < q[i]
    <3> SUFFICES ASSUME Depth(q[i]) = Depth(h) PROVE e[h] < q[i]
      OBVIOUS
    <3>1. h < q[i]
      BY <1>1, <1>9, <2>2, <2>3 DEF Higher
    <3>2. ~Within(e, h, q[i])
      BY <1>1, <1>9, <2>3, DepthGrows
    <3>3. e[h] \in Nat
      BY <1>1, <1>9, OwnersAreNumbers DEF Numbered
    <3> QED  BY <1>9, <2>3, <3>1, <3>2, <3>3 DEF Within
  <2> QED  BY <1>1, <1>9, <2>2, <2>3, <2>4 DEF Higher
<1>12. ASSUME NEW i \in DOMAIN s PROVE s[i] = c \/ Within(e, c, s[i])
  <2>1. CASE i <= l
    BY <1>6, <2>1 DEF InQueue
  <2>2. CASE ~(i <= l)
    <3>1. s[i] \in Nodes /\ Within(e, h, s[i]) /\ (h = c \/ Within(e, c, h))
      BY <1>1, <1>7, <1>8, <2>2 DEF InQueue
    <3> QED  BY <1>1, <1>9, <3>1, WithinTransitive
  <2> QED  BY <2>1, <2>2
<1>13. ASSUME NEW i \in DOMAIN s, NEW j \in DOMAIN s
       PROVE  /\ i < j => Higher(s[i], s[j])
              /\ Depth(s[j]) <= Depth(s[i]) + 1
              /\ Depth(s[j]) = Depth(s[i]) + 1 => s[j] < s[i]
  <2>1. i \in Nat /\ j \in Nat
    BY <1>5
  <2>2. CASE i <= l /\ j <= l
    <3>1. i + 1 \in DOMAIN q /\ j + 1 \in DOMAIN q /\ s[i] = q[i + 1] /\ s[j] = q[j + 1]
      BY <1>6, <2>2
    <3>2. i < j => i + 1 < j + 1
      BY <2>1
    <3> QED  BY <3>1, <3>2 DEF InQueue
  <2>3. CASE i <= l /\ ~(j <= l)
    <3>1. PICK u \in DOMAIN q : u # 1 /\ s[i] = q[u]
      BY <1>6, <2>3
    <3>2. PICK v \in DOMAIN r : s[j] = r[v]
      BY <1>7, <2>3
    <3>3. /\ q[u] \in Nodes /\ q[u] \in Nat /\ Depth(q[u]) \in Nat
          /\ r[v] \in Nodes /\ r[v] \in Nat /\ Depth(r[v]) \in Nat
          /\ h \in Nat /\ Depth(h) \in Nat /\ e[h] \in Nat
      BY <1>1, <1>8, <1>9, <1>10, OwnersAreNumbers DEF Numbered
    <3>4. /\ Depth(h) <= Depth(q[u]) /\ Depth(q[u]) <= Depth(h) + 1
          /\ Depth(q[u]) = Depth(h) => e[h] < q[u]
          /\ Depth(q[u]) = Depth(h) + 1 => q[u] < h
      BY <1>11, <3>1
    <3>5. h < r[v] /\ Depth(r[v]) = Depth(h) + 1 /\ r[v] <= e[h]
      BY <1>8
    <3>6. Higher(q[u], r[v])
      BY <3>3, <3>4, <3>5 DEF Higher
    <3> QED  BY <3>1, <3>2, <3>3, <3>4, <3>5, <3>6
  <2>4. CASE ~(i <= l) /\ j <= l
    <3>1. PICK u \in DOMAIN q : u # 1 /\ s[j] = q[u]
      BY <1>6, <2>4
    <3>2. PICK v \in DOMAIN r : s[i] = r[v]
      BY <1>7, <2>4
    <3>3. ~(i < j)
      BY <1>4, <2>1, <2>4
    <3>4. Depth(q[u]) \in Nat /\ Depth(r[v]) \in Nat /\ Depth(h) \in Nat
      BY <1>1, <1>8, <1>9, <1>10
    <3>5. Depth(q[u]) <= Depth(h) + 1 /\ Depth(r[v]) = Depth(h) + 1
      BY <1>8, <1>11, <3>1
    <3> QED  BY <3>1, <3>2, <3>3, <3>4, <3>5
  <2>5. CASE ~(i <= l) /\ ~(j <= l)
    <3>1. i - l \in DOMAIN r /\ j - l \in DOMAIN r /\ s[i] = r[i - l] /\ s[j] = r[j - l]
      BY <1>7, <2>5
    <3>2. i < j => s[i] < s[j]
      <4>1. i < j => i - l < j - l
        BY <1>4, <2>1
      <4> QED  BY <3>1, <4>1
    <3>3. Depth(s[i]) = Depth(h) + 1 /\ Depth(s[j]) = Depth(h) + 1 /\ Depth(h) \in Nat
      BY <1>1, <1>8, <1>9, <3>1
    <3> QED  BY <3>2, <3>3 DEF Higher
  <2> QED  BY <2>2, <2>3, <2>4, <2>5
<1>14. InQueue(e, c, s)
  BY <1>3, <1>12, <1>13 DEF InQueue
<1>15. ASSUME NEW i \in DOMAIN s PROVE Higher(h, s[i])
  <2>1. CASE i <= l
    BY <1>6, <1>11, <2>1
  <2>2. CASE ~(i <= l)
    BY <1>7, <1>8, <2>2
  <2> QED  BY <2>1, <2>2
<1>16. ASSUME NEW m
       PROVE  m \in Elems(s) <=> m \in Elems(r) \/ \E i \in DOMAIN q : i # 1 /\ q[i] = m
  <2>1. ASSUME m \in Elems(s) PROVE m \in Elems(r) \/ \E i \in DOMAIN q : i # 1 /\ q[i] = m
    <3>1. PICK i \in DOMAIN s : s[i] = m
      BY <2>1 DEF Elems
    <3>2. CASE i <= l
      BY <1>6, <3>1, <3>2
    <3>3. CASE ~(i <= l)
      BY <1>7, <1>8, <3>1, <3>3
    <3> QED  BY <3>2, <3>3
  <2>2. ASSUME m \in Elems(r) PROVE m \in Elems(s)
    <3>1. PICK i \in DOMAIN r : r[i] = m
      BY <2>2 DEF Elems
    <3>2. i + l \in DOMAIN s /\ ~(i + l <= l) /\ i + l - l = i
      BY <1>4, <1>5
    <3>3. s[i + l] = m
      BY <1>7, <3>1, <3>2
    <3> QED  BY <3>2, <3>3 DEF Elems
  <2>3. ASSUME NEW i \in DOMAIN q, i # 1, q[i] = m PROVE m \in Elems(s)
    <3>1. i - 1 \in DOMAIN s /\ i - 1 <= l /\ i - 1 + 1 = i
      BY <1>4, <1>5, <2>3
    <3>2. s[i - 1] = m
      BY <1>6, <2>3, <3>1
    <3> QED  BY <3>1, <3>2 DEF Elems
  <2> QED  BY <2>1, <2>2, <2>3
<1> QED  BY <1>14, <1>15, <1>16 DEF s, h, a

BreadthFirstState(q) == [gen |-> "breadth first", queue |-> q]

OnBreadthFirst == walk.axis = "breadth first"

BreadthFirstAt(e, q) ==
    /\ frames = <<BreadthFirstState(q)>>
    /\ InOrder
    /\ BreadthOrder(e, walk.node, Elems(yielded), q)
    /\ Undisturbed => BreadthExact(e, walk.node, Elems(yielded), q)

BreadthFirstWalk(e) == \E q : BreadthFirstAt(e, q)

LEMMA BreadthFirstAxis ==
    ASSUME Base, Started, NEW e, Numbered(origin, size, e), OnBreadthFirst, NEW w, w = walk.node
    PROVE  /\ w \in Nodes /\ w \in Owners
           /\ \A m : m \in AxisNodes(walk) <=> m \in Nodes /\ (m = w \/ Within(e, w, m))
           /\ \A m, n : Precedes(walk.axis, m, n) <=> Higher(m, n)
           /\ Claimed
<1>1. walk \in Walks /\ walk.node <= size
  BY DEF Base
<1>2. w \in Nodes /\ w \in Owners
  BY <1>1, OwnersAreNumbers DEF Walks
<1>3. \A m : m \in AxisNodes(walk) <=> m \in Nodes /\ (m = w \/ Within(e, w, m))
  <2>1. walk.axis \in {"reversed descendants", "bottom up", "breadth first"}
    BY Zenon DEF OnBreadthFirst
  <2> QED  BY <1>1, <2>1, AxisFacts, Zenon
<1>4. Claimed
  BY Zenon DEF Claimed, Forward, OnBreadthFirst
<1>5. \A m, n : Precedes(walk.axis, m, n) <=> Higher(m, n)
  BY Zenon DEF Precedes, OnBreadthFirst
<1> QED  BY <1>2, <1>3, <1>4, <1>5

BreadthFirstTurn(q) ==
    IF q = <<>> THEN Return
    ELSE Yield(Head(q), <<BreadthFirstState(Tail(q) \o children[Head(q)])>>)

OnBreadth(fr) == fr.gen = "breadth first"

Requeued(fr, q) == [fr EXCEPT !.queue = q]

LEMMA BreadthFirstTurns ==
    ASSUME Run, NEW G, IsSeq(G), NEW q, frames = Append(G, BreadthFirstState(q))
    PROVE  BreadthFirstTurn(q)
<1>1. PICK fr : fr = BreadthFirstState(q)
  OBVIOUS
<1>2. f = fr
  BY <1>1, TopFrame
<1>3. OnBreadth(fr)
  BY <1>1, Zenon DEF BreadthFirstState, OnBreadth
<1>4. PICK g : g = "breadth first"
  OBVIOUS
<1> DEFINE r(t) == [gen |-> g, queue |-> t]
<1>5. \A t : r(t) = BreadthFirstState(t)
  BY <1>4, Zenon DEF BreadthFirstState
<1>6. r(q).queue = q /\ \A t : [r(q) EXCEPT !.queue = t] = r(t)
  OBVIOUS
<1>7. fr = r(q)
  BY <1>1, <1>5
<1>8. fr.queue = q /\ \A t : Requeued(fr, t) = BreadthFirstState(t)
  <2>1. fr.queue = q /\ \A t : Requeued(fr, t) = r(t)
    BY <1>6, <1>7 DEF Requeued
  <2> QED  BY <1>5, <2>1
<1>9. StepBreadthFirst
  BY <1>2, <1>3, RunsTop, Zenon DEF OnBreadth
<1>10. IF fr.queue = <<>> THEN Return
       ELSE Yield(Head(fr.queue), <<Requeued(fr, Tail(fr.queue) \o children[Head(fr.queue)])>>)
  BY <1>2, <1>9, Zenon DEF StepBreadthFirst, Requeued
<1> QED  BY <1>8, <1>10, Zenon DEF BreadthFirstTurn

LEMMA BreadthFirstStart ==
    ASSUME NEW e, Fresh(e), OnBreadthFirst
    PROVE  BreadthFirstWalk(e)
<1>1. PICK n : n = walk.node
  OBVIOUS
<1>2. /\ Numbered(origin, size, e) /\ Base /\ Started
      /\ yielded = <<>> /\ frames = <<FirstFrame(walk)>>
  BY DEF Fresh
<1>3. n \in Nodes /\ n \in Owners
  BY <1>1, <1>2, BreadthFirstAxis
<1>4. frames = <<BreadthFirstState(<<n>>)>>
  BY <1>1, <1>2, Zenon DEF FirstFrame, OnBreadthFirst, BreadthFirstFrame, BreadthFirstState
<1>5. InOrder /\ Elems(yielded) = {}
  BY <1>2, NothingYet DEF Elems
<1>6. PICK q : q = <<n>>
  OBVIOUS
<1>7. q \in Seq(Nodes) /\ DOMAIN q = {1} /\ q[1] = n
  BY <1>3, <1>6
<1>8. InQueue(e, n, q)
  <2>1. Depth(n) \in Nat
    BY <1>2, <1>3, DepthGrows
  <2> QED  BY <1>7, <2>1 DEF InQueue
<1>9. BreadthOrder(e, n, {}, q) /\ BreadthExact(e, n, {}, q)
  BY <1>7, <1>8 DEF BreadthOrder, BreadthExact
<1> QED  BY <1>1, <1>4, <1>5, <1>6, <1>9 DEF BreadthFirstWalk, BreadthFirstAt

LEMMA QueueStays ==
    ASSUME origin' = origin
    PROVE  /\ \A e, c, Y, q : BreadthOrder(e, c, Y, q)' <=> BreadthOrder(e, c, Y, q)
           /\ \A m, n : Higher(m, n)' <=> Higher(m, n)
<1>1. \A n : Depth(n)' = Depth(n)
  BY DEF Depth
<1>2. \A m, n : Higher(m, n)' <=> Higher(m, n)
  BY <1>1 DEF Higher
<1>3. ASSUME NEW e, NEW c, NEW q PROVE InQueue(e, c, q)' <=> InQueue(e, c, q)
  BY <1>1, <1>2 DEF InQueue
<1> QED  BY <1>2, <1>3 DEF BreadthOrder

LEMMA BreadthFirstReaches ==
    ASSUME Keeps, NEW e, NEW q, frames' = <<BreadthFirstState(q)>>, InOrder',
           BreadthOrder(e, walk.node, Elems(yielded'), q),
           Undisturbed => BreadthExact(e, walk.node, Elems(yielded'), q)
    PROVE  BreadthFirstWalk(e)'
<1>1. PICK c, Y : c = walk.node /\ Y = Elems(yielded')
  OBVIOUS
<1>2. c = walk'.node /\ origin' = origin
  BY <1>1 DEF Keeps
<1>3. BreadthOrder(e, c, Y, q)'
  BY <1>1, <1>2, QueueStays
<1>4. Undisturbed' => BreadthExact(e, c, Y, q)
  BY <1>1 DEF Keeps
<1>5. (BreadthFirstState(q))' = BreadthFirstState(q)
  BY DEF BreadthFirstState
<1>6. BreadthFirstAt(e, q)'
  BY <1>1, <1>2, <1>3, <1>4, <1>5 DEF BreadthFirstAt, BreadthExact, BreadthOrder, InQueue
<1> QED  BY <1>6 DEF BreadthFirstWalk

LEMMA BreadthFirstRest ==
    ASSUME NEW e, BreadthFirstWalk(e), Rests
    PROVE  BreadthFirstWalk(e)'
<1>1. PICK q : BreadthFirstAt(e, q)
  BY DEF BreadthFirstWalk
<1>2. InOrder'
  BY <1>1, OrderStays DEF Rests, BreadthFirstAt
<1> QED  BY <1>1, <1>2, BreadthFirstReaches DEF Rests, BreadthFirstAt

\* The children of a node in the queue are all there as long as only results were removed.
LEMMA WholeInQueue ==
    ASSUME Base, Started, Undisturbed, NEW e, Numbered(origin, size, e), NEW n \in Nodes,
           \A m \in Elems(yielded) : m \in Nodes /\ Higher(m, n)
    PROVE  children[n] = origin[n]
<1>1. Detached \subseteq Elems(yielded)
  BY UndisturbedDetached
<1>2. n \in Owners
  BY OwnersAreNumbers
<1>3. ASSUME NEW c \in Elems(origin[n]), c \in Detached PROVE FALSE
  <2>1. c \in Elems(yielded) /\ c \in Nodes /\ Higher(c, n)
    BY <1>1, <1>3
  <2>2. Higher(n, c)
    BY HigherOrders
  <2> QED  BY <2>1, <2>2, HigherOrders
<1>4. Pruned(children, origin, Detached)
  BY DEF Base
<1> QED  BY <1>2, <1>3, <1>4 DEF Pruned

LEMMA BreadthExactNext ==
    ASSUME NEW z, NEW e, Numbered(origin, z, e), NEW c \in Nodes, NEW Y, NEW q,
           InQueue(e, c, q), q # <<>>, BreadthExact(e, c, Y, q)
    PROVE  BreadthExact(e, c, Y \cup {Head(q)}, Tail(q) \o origin[Head(q)])
<1> DEFINE h == Head(q)
           s == Tail(q) \o origin[h]
<1>1. /\ h \in Nodes /\ h \in Owners /\ q[1] = h /\ 1 \in DOMAIN q
      /\ \A i \in DOMAIN q : q[i] \in Nodes
  BY OwnersAreNumbers DEF InQueue
<1>2. /\ origin[h] \in Seq(Nodes)
      /\ \A i, j \in DOMAIN origin[h] : i < j => origin[h][i] < origin[h][j]
  <2>1. origin[h] \in Seq(Nodes)
    BY <1>1 DEF Numbered
  <2>2. ASSUME NEW i \in DOMAIN origin[h], NEW j \in DOMAIN origin[h], i < j
        PROVE  origin[h][i] < origin[h][j]
    <3> DEFINE a == origin[h][i]
               b == origin[h][j]
    <3>1. e[a] < b
      BY <1>1, <2>2, ChildrenAscend
    <3>2. a \in Owners /\ a <= e[a] /\ b \in Owners
      BY <1>1, ChildWithin
    <3>3. e[a] \in Owners
      BY <3>2 DEF Numbered
    <3> HIDE DEF a, b
    <3>4. a < b
      BY <3>1, <3>2, <3>3, OwnersAreNumbers
    <3> QED  BY <3>4 DEF a, b
  <2> QED  BY <2>1, <2>2
<1>3. \A m : m \in Elems(s) <=> m \in Elems(origin[h]) \/ \E i \in DOMAIN q : i # 1 /\ q[i] = m
  BY <1>2, Enqueued
<1> HIDE DEF s
<1> SUFFICES ASSUME NEW m \in Nodes, m = c \/ Within(e, c, m), m # h, m \notin Y
             PROVE  \E v \in Elems(s) : v = m \/ Within(e, v, m)
  BY DEF BreadthExact, Elems, s, h
<1>4. PICK i \in DOMAIN q : q[i] = m \/ Within(e, q[i], m)
  BY DEF BreadthExact
<1>5. CASE i # 1
  BY <1>3, <1>4, <1>5
<1>6. CASE i = 1
  <2>1. Within(e, h, m) /\ m \in Owners
    BY <1>1, <1>4, <1>6, OwnersAreNumbers
  <2>2. PICK k \in DOMAIN origin[h] : origin[h][k] <= m /\ m <= e[origin[h][k]]
    BY <1>1, <2>1, ChildAbove
  <2>3. origin[h][k] \in Elems(origin[h]) /\ origin[h][k] \in Owners
    BY <1>1, <2>2, ChildWithin DEF Elems
  <2>4. origin[h][k] = m \/ Within(e, origin[h][k], m)
    BY <2>1, <2>2, <2>3, OwnersAreNumbers DEF Within
  <2> QED  BY <1>3, <2>3, <2>4
<1> QED  BY <1>5, <1>6

LEMMA BreadthFirstStep ==
    ASSUME Base, Started, NEW e, Numbered(origin, size, e), Keeps, Run,
           OnBreadthFirst, BreadthFirstWalk(e)
    PROVE  (Active' /\ BreadthFirstWalk(e)') \/ Ended'
<1>1. PICK q : BreadthFirstAt(e, q)
  BY DEF BreadthFirstWalk
<1>2. PICK c, Y : c = walk.node /\ Y = Elems(yielded)
  OBVIOUS
<1>3. /\ frames = <<BreadthFirstState(q)>> /\ InOrder
      /\ InQueue(e, c, q) /\ Y \subseteq Nodes /\ \A m \in Y, i \in DOMAIN q : Higher(m, q[i])
      /\ Undisturbed => BreadthExact(e, c, Y, q)
  BY <1>1, <1>2 DEF BreadthFirstAt, BreadthOrder
<1>4. /\ c \in Nodes /\ c \in Owners
      /\ \A m : m \in AxisNodes(walk) <=> m \in Nodes /\ (m = c \/ Within(e, c, m))
      /\ \A m, n : Precedes(walk.axis, m, n) <=> Higher(m, n)
  BY <1>2, BreadthFirstAxis
<1>5. frames = Append(<<>>, BreadthFirstState(q)) /\ IsSeq(<<>>)
  BY <1>3, OneFrame
<1>6. BreadthFirstTurn(q)
  BY <1>5, BreadthFirstTurns
<1>7. CASE q = <<>>
  <2>1. Return
    BY <1>6, <1>7, Zenon DEF BreadthFirstTurn
  <2>2. ASSUME Undisturbed PROVE Exhausted
    <3>1. DOMAIN q = {}
      BY <1>7
    <3> QED  BY <1>2, <1>3, <1>4, <2>2, <3>1 DEF Exhausted, BreadthExact
  <2> QED  BY <1>3, <1>5, <2>1, <2>2, WalkEnds
<1>8. CASE q # <<>>
  <2>1. PICK h, s : h = Head(q) /\ s = Tail(q) \o children[h]
    OBVIOUS
  <2>2. Yield(h, <<BreadthFirstState(s)>>)
    BY <1>6, <1>8, <2>1, Zenon DEF BreadthFirstTurn
  <2>3. h \in Nodes /\ h \in Owners /\ 1 \in DOMAIN q /\ q[1] = h /\ (h = c \/ Within(e, c, h))
    <3>1. h \in Nodes /\ 1 \in DOMAIN q /\ q[1] = h
      BY <1>3, <1>8, <2>1 DEF InQueue
    <3> QED  BY <1>3, <3>1, OwnersAreNumbers DEF InQueue
  <2>4. Inner(<<BreadthFirstState(s)>>) = <<BreadthFirstState(s)>>
    <3>1. Inner(<<BreadthFirstState(s)>>) = Append(<<>>, BreadthFirstState(s))
      BY <1>5, TopFrame, Zenon
    <3> QED  BY <3>1, OneFrame, Zenon
  <2>5. /\ yielded' = Append(yielded, h) /\ status' = "suspended"
        /\ frames' = <<BreadthFirstState(s)>>
    BY <2>2, <2>4 DEF Yield
  <2>6. \A m \in Y : Higher(m, h)
    BY <1>3, <2>3
  <2>7. InOrder' /\ Elems(yielded') = Y \cup {h}
    <3>1. h \in AxisNodes(walk)
      BY <1>4, <2>3
    <3> QED  BY <1>2, <1>3, <1>4, <2>5, <2>6, <3>1, ResultAdded
  <2>8. /\ children[h] \in Seq(Nodes) /\ Elems(children[h]) \subseteq Elems(origin[h])
        /\ \A i, j \in DOMAIN children[h] : i < j => children[h][i] < children[h][j]
    BY <2>3, ListsAreTyped DEF Remainder
  <2>9. InQueue(e, c, s) /\ \A i \in DOMAIN s : Higher(h, s[i])
    BY <1>3, <1>4, <1>8, <2>1, <2>8, Enqueued
  <2>10. BreadthOrder(e, c, Y \cup {h}, s)
    <3>1. \A i \in DOMAIN s : s[i] \in Nodes
      BY <2>9 DEF InQueue
    <3>2. ASSUME NEW m \in Y \cup {h}, NEW i \in DOMAIN s PROVE Higher(m, s[i])
      <4>1. CASE m = h
        BY <2>9, <4>1
      <4>2. CASE m \in Y
        <5>1. Higher(m, h) /\ Higher(h, s[i]) /\ m \in Nodes /\ s[i] \in Nodes
          BY <1>3, <2>6, <2>9, <3>1, <4>2
        <5> QED  BY <2>3, <5>1, HigherOrders
      <4> QED  BY <4>1, <4>2
    <3> QED  BY <1>3, <2>3, <2>9, <3>2 DEF BreadthOrder
  <2>11. Undisturbed => BreadthExact(e, c, Y \cup {h}, s)
    <3> SUFFICES ASSUME Undisturbed PROVE BreadthExact(e, c, Y \cup {h}, s)
      OBVIOUS
    <3>1. children[h] = origin[h]
      BY <1>2, <1>3, <2>3, <2>6, WholeInQueue
    <3> QED  BY <1>3, <1>4, <1>8, <2>1, <3>1, BreadthExactNext
  <2>12. BreadthFirstWalk(e)'
    BY <1>2, <2>5, <2>7, <2>10, <2>11, BreadthFirstReaches
  <2> QED  BY <2>5, <2>12 DEF Active
<1> QED  BY <1>7, <1>8

-----------------------------------------------------------------------------
(* All walks *)

\* What is true of a walk between two of its steps
Progressing ==
    /\ Claimed => InOrder /\ frames # <<>>
    /\ Undisturbed => NothingSkipped

LEMMA UpToProgresses ==
    ASSUME Base, Started, walk.axis \in Rising, NEW y, UpTo(y), frames # <<>>
    PROVE  Progressing
<1>1. Undisturbed => Claimed
  BY DEF Claimed
<1>2. ASSUME Undisturbed PROVE NothingSkipped
  <2> SUFFICES ASSUME NEW m \in AxisNodes(walk), NEW i \in DOMAIN yielded,
                      Precedes(walk.axis, m, yielded[i])
               PROVE  m \in Elems(yielded)
    BY DEF NothingSkipped
  <2>1. InOrder /\ yielded[i] \in Elems(yielded)
    BY <1>1, <1>2 DEF UpTo, Elems
  <2>2. y \in Nat /\ yielded[i] <= y /\ yielded[i] \in AxisNodes(walk)
    BY <1>1, <1>2, <2>1 DEF UpTo, InOrder
  <2>3. m \in Nat /\ yielded[i] \in Nat
    BY <2>2, AxisIsTyped
  <2>4. m < yielded[i]
    BY DEF Precedes, Rising
  <2>5. m <= y
    BY <2>2, <2>3, <2>4
  <2> QED  BY <1>2, <2>5 DEF UpTo
<1> QED  BY <1>2 DEF UpTo, Progressing

LEMMA DownToProgresses ==
    ASSUME Base, Started, walk.axis \in Falling, NEW y, DownTo(y), frames # <<>>
    PROVE  Progressing
<1>1. Undisturbed => Claimed
  BY DEF Claimed
<1>2. ASSUME Undisturbed PROVE NothingSkipped
  <2> SUFFICES ASSUME NEW m \in AxisNodes(walk), NEW i \in DOMAIN yielded,
                      Precedes(walk.axis, m, yielded[i])
               PROVE  m \in Elems(yielded)
    BY DEF NothingSkipped
  <2>1. InOrder /\ yielded[i] \in Elems(yielded)
    BY <1>1, <1>2 DEF DownTo, Elems
  <2>2. y \in Nat /\ y <= yielded[i] /\ yielded[i] \in AxisNodes(walk)
    BY <1>1, <1>2, <2>1 DEF DownTo, InOrder
  <2>3. m \in Nat /\ yielded[i] \in Nat
    BY <2>2, AxisIsTyped
  <2>4. m > yielded[i]
    BY DEF Precedes, Falling
  <2>5. y <= m
    BY <2>2, <2>3, <2>4
  <2> QED  BY <1>2, <2>5 DEF DownTo
<1> QED  BY <1>2 DEF DownTo, Progressing


LEMMA PlainWalksProgress ==
    ASSUME Base, Started, NEW e,
           \/ walk.axis = "ancestors" /\ AncestorsWalk(e)
           \/ walk.axis = "children" /\ ChildrenWalk(e)
           \/ walk.axis = "descendants" /\ DescendantsWalk(e)
    PROVE  Progressing
<1>1. CASE walk.axis = "ancestors" /\ AncestorsWalk(e)
  <2>1. PICK x \in Nodes : frames = <<AncestorsFrame(x)>> /\ DownTo(x)
    BY <1>1 DEF AncestorsWalk
  <2>2. walk.axis \in Falling
    BY <1>1, Zenon DEF Falling
  <2>3. frames # <<>>
    BY <2>1
  <2> QED  BY <2>1, <2>2, <2>3, DownToProgresses
<1>2. CASE walk.axis = "children" /\ ChildrenWalk(e)
  <2>1. PICK k \in Nat, y \in Nat :
            frames = <<[gen |-> "children", owner |-> walk.node, next |-> k]>> /\ UpTo(y)
    BY <1>2 DEF ChildrenWalk
  <2>2. walk.axis \in Rising
    BY <1>2, Zenon DEF Rising
  <2>3. frames # <<>>
    BY <2>1
  <2> QED  BY <2>1, <2>2, <2>3, UpToProgresses
<1>3. CASE walk.axis = "descendants" /\ DescendantsWalk(e)
  <2>1. PICK fr : \E y \in Nat : frames = <<fr>> /\ UpTo(y)
    BY <1>3 DEF DescendantsWalk
  <2>2. walk.axis \in Rising
    BY <1>3, Zenon DEF Rising
  <2>3. frames # <<>>
    BY <2>1
  <2> QED  BY <2>1, <2>2, <2>3, UpToProgresses
<1> QED  BY <1>1, <1>2, <1>3

LEMMA SiblingsWalksProgress ==
    ASSUME Base, Started, NEW e,
           \/ OnFollowingSiblings /\ FollowingSiblingsWalk(e)
           \/ OnPrecedingSiblings /\ PrecedingSiblingsWalk(e)
    PROVE  Progressing
<1>1. CASE OnFollowingSiblings /\ FollowingSiblingsWalk(e)
  <2>1. PICK fr, y : frames = <<fr>> /\ UpTo(y)
    BY <1>1 DEF FollowingSiblingsWalk
  <2>2. walk.axis \in Rising
    BY <1>1, Zenon DEF Rising, OnFollowingSiblings
  <2>3. frames # <<>>
    BY <2>1
  <2> QED  BY <2>1, <2>2, <2>3, UpToProgresses
<1>2. CASE OnPrecedingSiblings /\ PrecedingSiblingsWalk(e)
  <2>1. Claimed => Undisturbed
    BY <1>2, Zenon DEF Claimed, Forward, OnPrecedingSiblings
  <2>2. CASE ~Undisturbed
    BY <2>1, <2>2 DEF Progressing
  <2>3. CASE Undisturbed
    <3>1. PICK fr, y : frames = <<fr>> /\ DownTo(y)
      BY <1>2, <2>3 DEF PrecedingSiblingsWalk
    <3>2. walk.axis \in Falling
      BY <1>2, Zenon DEF Falling, OnPrecedingSiblings
    <3>3. frames # <<>>
      BY <3>1
    <3> QED  BY <3>1, <3>2, <3>3, DownToProgresses
  <2> QED  BY <2>2, <2>3
<1> QED  BY <1>1, <1>2

LEMMA ReversedDescendantsProgress ==
    ASSUME Base, Started, NEW e, OnReversedDescendants, ReversedDescendantsWalk(e)
    PROVE  Progressing
<1>1. PICK fr, y : frames = <<fr>> /\ DownTo(y)
  BY DEF ReversedDescendantsWalk
<1>2. walk.axis \in Falling
  BY Zenon DEF Falling, OnReversedDescendants
<1>3. frames # <<>>
  BY <1>1
<1> QED  BY <1>1, <1>2, <1>3, DownToProgresses

LEMMA PrecedingProgresses ==
    ASSUME Base, Started, NEW e, OnPreceding, PrecedingWalk(e)
    PROVE  Progressing
<1>1. Claimed => Undisturbed
  BY Zenon DEF Claimed, Forward, OnPreceding
<1>2. CASE ~Undisturbed
  BY <1>1, <1>2 DEF Progressing
<1>3. CASE Undisturbed
  <2>1. PrecedingAt(e) \/ PrecedingAside(e) \/ PrecedingBelow(e) \/ PrecedingUp(e)
    BY <1>3 DEF PrecedingWalk
  <2>2. PrecedingAt(e) => frames # <<>> /\ \E y : DownTo(y)
    BY DEF PrecedingAt
  <2>3. PrecedingAside(e) => frames # <<>> /\ \E y : DownTo(y)
    BY DEF PrecedingAside
  <2>4. PrecedingBelow(e) => frames # <<>> /\ \E y : DownTo(y)
    BY DEF PrecedingBelow
  <2>5. PrecedingUp(e) => frames # <<>> /\ \E y : DownTo(y)
    BY DEF PrecedingUp
  <2>6. PICK y : DownTo(y) /\ frames # <<>>
    BY <2>1, <2>2, <2>3, <2>4, <2>5
  <2>7. walk.axis \in Falling
    BY Zenon DEF Falling, OnPreceding
  <2> QED  BY <2>6, <2>7, DownToProgresses
<1> QED  BY <1>2, <1>3

LEMMA FollowingProgresses ==
    ASSUME Base, Started, NEW e, OnFollowing, FollowingWalk(e)
    PROVE  Progressing
<1>1. PICK x, wide, y :
        \/ StartsAt(e, x, wide, y)
        \/ \E fr : BelowAt(e, x, wide, fr, y)
        \/ BehindAt(e, x, wide, y)
        \/ \E o, k, l : \/ AsideAt(e, x, wide, o, k, l, y)
                        \/ \E c, fr : LowerAt(e, x, wide, o, k, l, c, fr, y)
        \/ \E o : OverAt(e, x, wide, o, y)
  BY DEF FollowingWalk
<1>2. StartsAt(e, x, wide, y) => frames # <<>> /\ Past(e, y)
  BY DEF StartsAt
<1>3. \A fr : BelowAt(e, x, wide, fr, y) => frames # <<>> /\ Past(e, y)
  BY DEF BelowAt
<1>4. BehindAt(e, x, wide, y) => frames # <<>> /\ Past(e, y)
  BY DEF BehindAt
<1>5. \A o, k, l : AsideAt(e, x, wide, o, k, l, y) => frames # <<>> /\ Past(e, y)
  BY DEF AsideAt
<1>6. \A o, k, l, c, fr : LowerAt(e, x, wide, o, k, l, c, fr, y) => frames # <<>> /\ Past(e, y)
  BY DEF LowerAt
<1>7. \A o : OverAt(e, x, wide, o, y) => frames # <<>> /\ Past(e, y)
  BY DEF OverAt
<1>8. frames # <<>> /\ UpTo(y)
  BY <1>1, <1>2, <1>3, <1>4, <1>5, <1>6, <1>7 DEF Past
<1>9. walk.axis \in Rising
  BY Zenon DEF Rising, OnFollowing
<1> QED  BY <1>8, <1>9, UpToProgresses

LEMMA BottomUpProgresses ==
    ASSUME Base, Started, NEW e, Numbered(origin, size, e), OnBottomUpAxis, BottomUpWalk(e)
    PROVE  Progressing
<1>1. PICK c : c = walk.node
  OBVIOUS
<1>2. PICK s : \E y \in Nat : BottomUpAt(e, y, s)
  BY DEF BottomUpWalk
<1>3. PICK y \in Nat : BottomUpAt(e, y, s)
  BY <1>2
<1>4. /\ frames = <<BottomUpState(Deep, s)>> /\ InOrder
      /\ \A m \in Elems(yielded) : m \in Nodes /\ e[m] <= y
      /\ \A i \in DOMAIN s : /\ IsListLevel(origin, e, c, s[i])
                             /\ \A m \in Elems(yielded) : Comes(e, m, s[i].node)
      /\ Undisturbed => Through(e, c, Elems(yielded), y, s)
  BY <1>1, <1>3 DEF BottomUpAt, UpOrder, UpExact
<1>5. /\ \A m : m \in AxisNodes(walk) <=> m \in Nodes /\ (m = c \/ Within(e, c, m))
      /\ \A m, n \in Nodes : Precedes(walk.axis, m, n) <=> Comes(e, m, n)
  BY <1>1, BottomUpAxis
<1>6. ASSUME Undisturbed, NEW m \in AxisNodes(walk), NEW i \in DOMAIN yielded,
             Precedes(walk.axis, m, yielded[i])
      PROVE  m \in Elems(yielded)
  <2>1. PICK x : x = yielded[i]
    OBVIOUS
  <2>2. x \in Elems(yielded) /\ x \in Nodes /\ m \in Nodes /\ Comes(e, m, x)
    BY <1>4, <1>5, <1>6, <2>1 DEF Elems
  <2>3. /\ x \in Nat /\ m \in Nat /\ e[x] \in Nat /\ e[m] \in Nat
        /\ x <= e[x] /\ m <= e[m] /\ e[x] <= y
    BY <1>4, <2>2, OwnersAreNumbers DEF Numbered
  <2>4. Within(e, x, m) => e[m] <= e[x]
    BY <2>2, OwnersAreNumbers DEF Within, Numbered
  <2>5. m <= e[x]
    BY <2>2, <2>3 DEF Comes, Within
  <2>6. SUFFICES ASSUME OnStack(s, m) PROVE FALSE
    <3>1. m <= y
      BY <1>3, <2>3, <2>5
    <3> QED  BY <1>4, <1>5, <1>6, <3>1 DEF Through
  <2>7. Comes(e, x, m)
    BY <1>4, <2>2, <2>6 DEF OnStack
  <2> QED  BY <2>2, <2>3, <2>4, <2>7 DEF Comes, Within
<1>7. frames # <<>>
  BY <1>4
<1> QED  BY <1>4, <1>6, <1>7 DEF Progressing, NothingSkipped

LEMMA BreadthFirstProgresses ==
    ASSUME Base, Started, NEW e, Numbered(origin, size, e), OnBreadthFirst, BreadthFirstWalk(e)
    PROVE  Progressing
<1>1. PICK c, Y : c = walk.node /\ Y = Elems(yielded)
  OBVIOUS
<1>2. PICK q : BreadthFirstAt(e, q)
  BY DEF BreadthFirstWalk
<1>3. /\ frames = <<BreadthFirstState(q)>> /\ InOrder
      /\ Y \subseteq Nodes /\ \A m \in Y, i \in DOMAIN q : Higher(m, q[i])
      /\ q \in Seq(Nodes)
      /\ Undisturbed => BreadthExact(e, c, Y, q)
  BY <1>1, <1>2 DEF BreadthFirstAt, BreadthOrder, InQueue
<1>4. /\ \A m : m \in AxisNodes(walk) <=> m \in Nodes /\ (m = c \/ Within(e, c, m))
      /\ \A m, n : Precedes(walk.axis, m, n) <=> Higher(m, n)
  BY <1>1, BreadthFirstAxis
<1>5. ASSUME Undisturbed, NEW m \in AxisNodes(walk), NEW i \in DOMAIN yielded,
             Precedes(walk.axis, m, yielded[i])
      PROVE  m \in Elems(yielded)
  <2>1. PICK x : x = yielded[i]
    OBVIOUS
  <2>2. x \in Y /\ x \in Nodes /\ m \in Nodes /\ Higher(m, x)
    BY <1>1, <1>3, <1>4, <1>5, <2>1 DEF Elems
  <2>3. SUFFICES ASSUME NEW j \in DOMAIN q, q[j] = m \/ Within(e, q[j], m) PROVE FALSE
    BY <1>1, <1>3, <1>4, <1>5 DEF BreadthExact
  <2>4. Higher(x, q[j]) /\ q[j] \in Nodes
    BY <1>3, <2>2
  <2>5. q[j] = m \/ Higher(q[j], m)
    BY <2>2, <2>3, <2>4, HigherOrders
  <2>6. Higher(x, m)
    BY <2>2, <2>4, <2>5, HigherOrders
  <2> QED  BY <2>2, <2>6, HigherOrders
<1>6. frames # <<>>
  BY <1>3
<1> QED  BY <1>3, <1>5, <1>6 DEF Progressing, NothingSkipped

\* What each walk's frames are, by its axis
Underway(e) ==
    /\ walk.axis = "ancestors" => AncestorsWalk(e)
    /\ walk.axis = "children" => ChildrenWalk(e)
    /\ OnFollowingSiblings => FollowingSiblingsWalk(e)
    /\ OnPrecedingSiblings => PrecedingSiblingsWalk(e)
    /\ walk.axis = "descendants" => DescendantsWalk(e)
    /\ OnReversedDescendants => ReversedDescendantsWalk(e)
    /\ OnPreceding => PrecedingWalk(e)
    /\ OnFollowing => FollowingWalk(e)
    /\ OnBottomUpAxis => BottomUpWalk(e)
    /\ OnBreadthFirst => BreadthFirstWalk(e)

Axes ==
    \/ walk.axis = "ancestors" \/ walk.axis = "children" \/ walk.axis = "descendants"
    \/ OnFollowingSiblings \/ OnPrecedingSiblings \/ OnReversedDescendants
    \/ OnPreceding \/ OnFollowing \/ OnBottomUpAxis \/ OnBreadthFirst

LEMMA AnyAxis ==
    ASSUME Base, Started
    PROVE  Axes
<1>1. walk \in Walks
  BY DEF Base
<1>2. walk.axis \in {"ancestors", "children", "following siblings", "preceding siblings",
                     "descendants", "reversed descendants", "bottom up", "breadth first",
                     "following", "preceding"}
  BY <1>1 DEF Walks
<1> QED  BY <1>2, Zenon DEF Axes, OnFollowingSiblings, OnPrecedingSiblings,
                            OnReversedDescendants, OnPreceding, OnFollowing, OnBottomUpAxis,
                            OnBreadthFirst

LEMMA UnderwayProgresses ==
    ASSUME Base, Started, NEW e, Numbered(origin, size, e), Underway(e)
    PROVE  Progressing
<1>1. Axes
  BY AnyAxis
<1> QED  BY <1>1, PlainWalksProgress, SiblingsWalksProgress, ReversedDescendantsProgress,
            PrecedingProgresses, FollowingProgresses, BottomUpProgresses,
            BreadthFirstProgresses DEF Axes, Underway

LEMMA UnderwayStarts ==
    ASSUME NEW e, Fresh(e)
    PROVE  Underway(e)
<1>1. Axes
  BY AnyAxis DEF Fresh
<1> QED  BY AncestorsStart, ChildrenStart, FollowingSiblingsStart, PrecedingSiblingsStart,
            DescendantsStart, ReversedDescendantsStart, PrecedingStart, FollowingStart,
            BottomUpStart, BreadthFirstStart DEF Underway

LEMMA AxisIsKept ==
    ASSUME walk' = walk
    PROVE  /\ walk.axis' = walk.axis
           /\ OnFollowingSiblings' = OnFollowingSiblings
           /\ OnPrecedingSiblings' = OnPrecedingSiblings
           /\ OnReversedDescendants' = OnReversedDescendants
           /\ OnPreceding' = OnPreceding
           /\ OnFollowing' = OnFollowing
           /\ OnBottomUpAxis' = OnBottomUpAxis
           /\ OnBreadthFirst' = OnBreadthFirst
BY Zenon DEF OnFollowingSiblings, OnPrecedingSiblings, OnReversedDescendants, OnPreceding,
             OnFollowing, OnBottomUpAxis, OnBreadthFirst

LEMMA UnderwayRests ==
    ASSUME Base, Base', Started, Started', NEW e, Numbered(origin, size, e), Underway(e), Rests
    PROVE  Underway(e)'
<1>1. walk' = walk
  BY DEF Rests, Keeps
<1> QED  BY <1>1, AxisIsKept, AncestorsRest, ChildrenRest, FollowingSiblingsRest,
            PrecedingSiblingsRest, DescendantsRest, ReversedDescendantsRest, PrecedingRest,
            FollowingRest, BottomUpRest, BreadthFirstRest DEF Underway

LEMMA UnderwaySteps ==
    ASSUME Base, Base', Started, Started', NEW e, Numbered(origin, size, e), Keeps, Run,
           Underway(e)
    PROVE  (Active' /\ Underway(e)') \/ Ended'
<1>1. Axes
  BY AnyAxis
<1>2. walk' = walk
  BY DEF Keeps
<1>3. /\ walk.axis = "ancestors" => (AncestorsWalk(e)' => Underway(e)')
      /\ walk.axis = "children" => (ChildrenWalk(e)' => Underway(e)')
      /\ walk.axis = "descendants" => (DescendantsWalk(e)' => Underway(e)')
      /\ OnFollowingSiblings => (FollowingSiblingsWalk(e)' => Underway(e)')
      /\ OnPrecedingSiblings => (PrecedingSiblingsWalk(e)' => Underway(e)')
      /\ OnReversedDescendants => (ReversedDescendantsWalk(e)' => Underway(e)')
      /\ OnPreceding => (PrecedingWalk(e)' => Underway(e)')
      /\ OnFollowing => (FollowingWalk(e)' => Underway(e)')
      /\ OnBottomUpAxis => (BottomUpWalk(e)' => Underway(e)')
      /\ OnBreadthFirst => (BreadthFirstWalk(e)' => Underway(e)')
  BY <1>2, Zenon DEF Underway, OnFollowingSiblings, OnPrecedingSiblings,
       OnReversedDescendants, OnPreceding, OnFollowing, OnBottomUpAxis, OnBreadthFirst
<1>4. ASSUME walk.axis = "ancestors" PROVE (Active' /\ Underway(e)') \/ Ended'
  BY <1>3, <1>4, AncestorsStep DEF Underway
<1>5. ASSUME walk.axis = "children" PROVE (Active' /\ Underway(e)') \/ Ended'
  BY <1>3, <1>5, ChildrenStep DEF Underway
<1>6. ASSUME walk.axis = "descendants" PROVE (Active' /\ Underway(e)') \/ Ended'
  BY <1>3, <1>6, DescendantsStep DEF Underway
<1>7. ASSUME OnFollowingSiblings PROVE (Active' /\ Underway(e)') \/ Ended'
  BY <1>3, <1>7, FollowingSiblingsStep DEF Underway
<1>8. ASSUME OnPrecedingSiblings PROVE (Active' /\ Underway(e)') \/ Ended'
  BY <1>3, <1>8, PrecedingSiblingsStep DEF Underway
<1>9. ASSUME OnReversedDescendants PROVE (Active' /\ Underway(e)') \/ Ended'
  BY <1>3, <1>9, ReversedDescendantsStep DEF Underway
<1>10. ASSUME OnPreceding PROVE (Active' /\ Underway(e)') \/ Ended'
  BY <1>3, <1>10, PrecedingStep DEF Underway
<1>11. ASSUME OnFollowing PROVE (Active' /\ Underway(e)') \/ Ended'
  BY <1>3, <1>11, FollowingStep DEF Underway
<1>12. ASSUME OnBottomUpAxis PROVE (Active' /\ Underway(e)') \/ Ended'
  BY <1>3, <1>12, BottomUpStep DEF Underway
<1>13. ASSUME OnBreadthFirst PROVE (Active' /\ Underway(e)') \/ Ended'
  BY <1>3, <1>13, BreadthFirstStep DEF Underway
<1> QED  BY <1>1, <1>4, <1>5, <1>6, <1>7, <1>8, <1>9, <1>10, <1>11, <1>12, <1>13 DEF Axes

\* The inductive invariant: a walk is under way on the tree that it found, or over.
Inv ==
    /\ Base
    /\ Started => \E e : /\ Numbered(origin, size, e)
                         /\ Ended \/ (Active /\ Underway(e))

LEMMA FreshIsUnderway == \A d : Fresh(d) => Underway(d)
BY UnderwayStarts

LEMMA InvStarts ==
    ASSUME Base, NEW w \in Walks, Start(w)
    PROVE  Inv'
<1>1. Base' /\ ~Started /\ Started' /\ yielded' = <<>> /\ removed' = {}
  BY StartBase
<1>2. /\ walk' = w /\ children' = children /\ origin' = children /\ size' = size
      /\ status' = "running" /\ frames' = <<FirstFrame(w)>>
  BY DEF Start, tree
<1>3. PICK e : Numbered(children, size, e)
  BY <1>1 DEF Base
<1>4. (FirstFrame(walk))' = FirstFrame(w)
  <2>1. /\ \A n : (Parent(n))' = Parent(n)
        /\ \A n : (Position(n))' = Position(n)
    BY <1>2 DEF Parent, Position
  <2> QED  BY <1>2, <2>1 DEF FirstFrame, AncestorsFrame, ChildrenFrame, DescendantsFrame,
               FollowingSiblingsFrame, PrecedingSiblingsFrame, FollowingFrame, PrecedingFrame,
               BottomUpFrame, BreadthFirstFrame
<1>5. Fresh(e)'
  BY <1>1, <1>2, <1>3, <1>4 DEF Fresh
<1>6. (\A d : Fresh(d) => Underway(d))'
  BY FreshIsUnderway, PTL
<1>7. Underway(e)' /\ Active' /\ (Numbered(origin, size, e))'
  BY <1>2, <1>3, <1>5, <1>6 DEF Active
<1> QED  BY <1>1, <1>7 DEF Inv

LEMMA InvGoesOn ==
    ASSUME Inv, Started, Run \/ Resume \/ (\E n \in Nodes : Detach(n)) \/ UNCHANGED vars
    PROVE  Inv'
<1>1. PICK e : Numbered(origin, size, e) /\ (Ended \/ (Active /\ Underway(e)))
  BY DEF Inv
<1>2. /\ Base /\ Base' /\ Started' /\ Keeps
      /\ (Numbered(origin, size, e))'
  <2>1. Base
    BY DEF Inv
  <2>2. /\ Base' /\ Started' /\ (Undisturbed' => Undisturbed)
        /\ walk' = walk /\ origin' = origin /\ size' = size
    BY <2>1, WalkingBase DEF Walking
  <2> QED  BY <1>1, <2>1, <2>2 DEF Keeps
<1>3. Claimed' => Claimed
  BY <1>2 DEF Claimed, Keeps
<1>4. CASE Run
  <2>1. ~Ended
    BY <1>4 DEF Run, Ended
  <2>2. (Active' /\ Underway(e)') \/ Ended'
    BY <1>1, <1>2, <1>4, <2>1, UnderwaySteps
  <2> QED  BY <1>2, <2>2 DEF Inv
<1>5. ASSUME ~Run PROVE yielded' = yielded /\ frames' = frames /\ Advanced(children, children')
  <2>1. ASSUME children' = children PROVE Advanced(children, children')
    <3>1. \A p \in Owners : \A k \in DOMAIN children[p] : children[p][k] \in Nat
      BY <1>2, ListsAreTyped
    <3>2. \A p \in Owners : \A k \in DOMAIN children[p] : children[p][k] <= children[p][k]
      BY <3>1
    <3> QED  BY <2>1, <3>2 DEF Advanced
  <2>2. CASE Resume
    BY <2>1, <2>2 DEF Resume, tree
  <2>3. ASSUME NEW n \in Nodes, Detach(n)
        PROVE  yielded' = yielded /\ frames' = frames /\ Advanced(children, children')
    BY <1>2, <2>3, DetachPrunes DEF Detach
  <2>4. CASE UNCHANGED vars
    BY <2>1, <2>4 DEF vars
  <2> QED  BY <1>5, <2>2, <2>3, <2>4
<1>6. CASE ~Run /\ Ended
  <2>1. status' = status
    <3>1. status # "suspended"
      BY <1>6 DEF Ended
    <3> QED  BY <1>6, <3>1 DEF Resume, Detach, vars
  <2>2. (InOrder => InOrder') /\ (Exhausted => Exhausted')
    BY <1>2, <1>5, <1>6, OrderStays
  <2>3. Ended'
    BY <1>2, <1>3, <1>6, <2>1, <2>2 DEF Ended, Keeps
  <2> QED  BY <1>2, <2>3 DEF Inv
<1>7. CASE ~Run /\ ~Ended
  <2>1. Rests
    BY <1>2, <1>5, <1>7 DEF Rests
  <2>2. Active /\ Underway(e)
    BY <1>1, <1>7
  <2>3. Underway(e)'
    BY <1>1, <1>2, <2>1, <2>2, UnderwayRests
  <2>4. Progressing
    BY <1>1, <1>2, <2>2, UnderwayProgresses
  <2>5. \/ status' \in {"running", "suspended"}
        \/ status' = "done" /\ frames = <<>>
    BY <1>7, <2>2 DEF Active, Resume, Detach, vars
  <2>6. CASE status' \in {"running", "suspended"}
    BY <1>2, <2>3, <2>6 DEF Inv, Active
  <2>7. CASE status' = "done" /\ frames = <<>>
    <3>1. ~Claimed /\ ~Claimed' /\ ~Undisturbed'
      BY <1>3, <2>4, <2>7 DEF Progressing, Claimed
    <3>2. Ended'
      BY <2>7, <3>1 DEF Ended
    <3> QED  BY <1>2, <3>2 DEF Inv
  <2> QED  BY <2>5, <2>6, <2>7
<1> QED  BY <1>4, <1>6, <1>7

LEMMA InvStays ==
    ASSUME Inv, [Next]_vars
    PROVE  Inv'
<1>1. CASE Started
  <2>1. ASSUME NEW p \in Owners, Build(p) PROVE FALSE
    BY <1>1, <2>1 DEF Build, Started
  <2>2. ASSUME NEW w \in Walks, Start(w) PROVE FALSE
    BY <1>1, <2>2 DEF Start, Started
  <2> QED  BY <1>1, <2>1, <2>2, InvGoesOn DEF Next
<1>2. CASE ~Started
  <2>1. Base
    BY DEF Inv
  <2>2. status = "building"
    BY <1>2 DEF Started
  <2>3. ~Run /\ ~Resume /\ \A n \in Nodes : ~Detach(n)
    BY <2>2 DEF Run, Resume, Detach
  <2>4. ASSUME NEW p \in Owners, Build(p) PROVE Inv'
    <3>1. Base'
      BY <2>1, <2>4, BuildBase
    <3>2. ~Started'
      BY <2>4 DEF Build, Started
    <3> QED  BY <3>1, <3>2 DEF Inv
  <2>5. ASSUME NEW w \in Walks, Start(w) PROVE Inv'
    BY <2>1, <2>5, InvStarts
  <2>6. CASE UNCHANGED vars
    <3>1. /\ children' = children /\ size' = size /\ root' = root /\ walk' = walk
          /\ frames' = frames /\ status' = status /\ yielded' = yielded /\ removed' = removed
          /\ origin' = origin
      BY <2>6 DEF vars
    <3> QED  BY <1>2, <2>1, <3>1 DEF Inv, Base, Started, Detached
  <2> QED  BY <2>3, <2>4, <2>5, <2>6 DEF Next
<1> QED  BY <1>1, <1>2

LEMMA InvHolds == Spec => []Inv
<1>1. Init => Inv
  <2> SUFFICES ASSUME Init PROVE Inv
    OBVIOUS
  <2>1. ~Started
    BY DEF Init, Started
  <2> QED  BY <2>1, InitBase DEF Inv
<1>2. Inv /\ [Next]_vars => Inv'
  BY InvStays
<1> QED  BY <1>1, <1>2, PTL DEF Spec

-----------------------------------------------------------------------------
(* What a client may rely on *)

LEMMA AlwaysProgressing ==
    ASSUME Inv, Started
    PROVE  /\ Claimed => InOrder
           /\ Undisturbed => NothingSkipped /\ status # "IndexError"
           /\ Undisturbed /\ status = "done" => Exhausted
           /\ Undisturbed /\ status \in {"done", "IndexError"} => status = "done" /\ Exhausted
<1>1. PICK e : Numbered(origin, size, e) /\ (Ended \/ (Active /\ Underway(e)))
  BY DEF Inv
<1>2. CASE Ended
  BY <1>2 DEF Ended, Exhausted, NothingSkipped
<1>3. CASE Active /\ Underway(e)
  <2>1. Progressing
    BY <1>1, <1>3, UnderwayProgresses DEF Inv
  <2> QED  BY <1>3, <2>1 DEF Progressing, Active
<1> QED  BY <1>1, <1>2, <1>3

\* Whatever the tree's size and the axis: a walk over a tree that is left alone yields the
\* nodes of its axis, each once and in order, skips none, doesn't fail and isn't done before
\* it yielded them all.
THEOREM WalksYieldTheirAxes == Spec => []YieldsTheAxis
<1>1. Inv => YieldsTheAxis
  BY AlwaysProgressing DEF YieldsTheAxis, Undisturbed, Claimed
<1> QED  BY <1>1, InvHolds, PTL

\* Whatever a client removes meanwhile, however often: a walk in one of the forward axes
\* yields only nodes of its axis, none twice and in order.
THEOREM RemovalsKeepTheOrder == Spec => []OrderSurvivesRemovals
<1>1. Inv => OrderSurvivesRemovals
  BY AlwaysProgressing DEF OrderSurvivesRemovals, Claimed
<1> QED  BY <1>1, InvHolds, PTL

\* A client that removes only what it was given gets all nodes from a walk that goes
\* backwards, bottom-up or breadth first.
THEOREM LoopsMayRemoveResults == Spec => []ResultsMayBeRemoved
<1>1. Inv => ResultsMayBeRemoved
  <2> SUFFICES ASSUME Inv, status \in {"done", "IndexError"}, OnlyResultsRemoved, IsRobust(walk)
               PROVE  status = "done" /\ InOrder /\ Exhausted
    BY Zenon DEF ResultsMayBeRemoved
  <2>1. Undisturbed /\ Claimed /\ Started
    BY DEF Undisturbed, Claimed, Started
  <2> QED  BY <2>1, AlwaysProgressing
<1> QED  BY <1>1, InvHolds, PTL
====
