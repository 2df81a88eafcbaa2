----------------------------- MODULE TreeProofs -----------------------------
(***************************************************************************)
(* Proofs that every call keeps the pointers of the tree consistent, its   *)
(* nodes grounded and its documents rooted, for any number of nodes.       *)
(***************************************************************************)
EXTENDS Tree, FiniteSetTheorems, SequenceTheorems, TLAPS

-----------------------------------------------------------------------------
(* What slices, slice assignment and reversal do to the members of a list *)

\* The length and the members of s[i:j] = block, position by position.
LEMMA SliceAssignMembers ==
    ASSUME NEW S, NEW s \in Seq(S), NEW block \in Seq(S),
           NEW i \in 0..Len(s), NEW j \in i..Len(s)
    PROVE  /\ SliceAssign(s, i, j, block) \in Seq(S)
           /\ Len(SliceAssign(s, i, j, block)) = i + Len(block) + Len(s) - j
           /\ \A k \in 1..(i + Len(block) + Len(s) - j) :
                 SliceAssign(s, i, j, block)[k] =
                     IF k <= i THEN s[k]
                     ELSE IF k <= i + Len(block) THEN block[k - i]
                     ELSE s[k - i - Len(block) + j]
<1> DEFINE l == Len(block)
           head == SubSeq(s, 1, i)
           tail == SubSeq(s, j + 1, Len(s))
<1>1. l \in Nat /\ Len(s) \in Nat /\ i \in Nat /\ j \in Nat /\ i <= j /\ j <= Len(s)
  OBVIOUS
<1>2. /\ head \in Seq(S) /\ Len(head) = i
      /\ \A k \in 1..i : head[k] = s[k]
  OBVIOUS
<1>3. /\ tail \in Seq(S) /\ Len(tail) = Len(s) - j
      /\ \A k \in 1..(Len(s) - j) : tail[k] = s[j + k]
  OBVIOUS
<1>4. SliceAssign(s, i, j, block) = (head \o block) \o tail
  BY DEF SliceAssign
<1> HIDE DEF head, tail
<1>5. /\ (head \o block) \in Seq(S) /\ Len(head \o block) = i + l
      /\ \A k \in 1..(i + l) : (head \o block)[k] = IF k <= i THEN head[k] ELSE block[k - i]
  BY <1>2, ConcatProperties
<1> DEFINE front == head \o block
<1>6. front \in Seq(S) /\ Len(front) = i + l
  BY <1>5
<1>7. \A k \in 1..(i + l) : front[k] = IF k <= i THEN s[k] ELSE block[k - i]
  BY <1>1, <1>2, <1>5
<1>8. SliceAssign(s, i, j, block) = front \o tail
  BY <1>4
<1> HIDE DEF front
<1> DEFINE size == i + l + Len(s) - j
<1>9. /\ (front \o tail) \in Seq(S) /\ Len(front \o tail) = size
      /\ \A k \in 1..size :
            (front \o tail)[k] = IF k <= i + l THEN front[k] ELSE tail[k - (i + l)]
  <2>1. Len(front) + Len(tail) = size
    BY <1>1, <1>3, <1>6
  <2>2. /\ (front \o tail) \in Seq(S) /\ Len(front \o tail) = Len(front) + Len(tail)
        /\ \A k \in 1..(Len(front) + Len(tail)) :
              (front \o tail)[k] = IF k <= Len(front) THEN front[k] ELSE tail[k - Len(front)]
    <3>1. front \in Seq(S) /\ tail \in Seq(S)
      BY <1>3, <1>6
    <3> QED  BY <3>1, ConcatProperties
  <2> QED  BY <1>6, <2>1, <2>2
<1>10. ASSUME NEW k \in 1..size
       PROVE  (front \o tail)[k] = IF k <= i THEN s[k]
                                   ELSE IF k <= i + l THEN block[k - i]
                                   ELSE s[k - i - l + j]
  <2>1. CASE k <= i + l
    BY SMTT(30), <1>1, <1>7, <1>9, <2>1
  <2>2. CASE k > i + l
    <3>1. k - (i + l) \in 1..(Len(s) - j) /\ j + (k - (i + l)) = k - i - l + j
      BY <1>1, <2>2
    <3>2. tail[k - (i + l)] = s[k - i - l + j]
      BY <1>3, <3>1
    <3>3. (front \o tail)[k] = tail[k - (i + l)]
      BY <1>1, <1>9, <2>2
    <3> QED  BY <1>1, <2>2, <3>2, <3>3
  <2>3. k <= i + l \/ k > i + l
    BY <1>1
  <2> QED  BY <2>1, <2>2, <2>3
<1> QED  BY <1>8, <1>9, <1>10

\* The members afterwards: those in front of i, those behind j, and the block.
LEMMA SliceAssignElems ==
    ASSUME NEW S, NEW s \in Seq(S), NEW block \in Seq(S),
           NEW i \in 0..Len(s), NEW j \in i..Len(s)
    PROVE  Elems(SliceAssign(s, i, j, block)) =
               {s[k] : k \in 1..i} \cup Elems(block) \cup {s[k] : k \in (j + 1)..Len(s)}
<1> DEFINE r == SliceAssign(s, i, j, block)
           l == Len(block)
           size == i + l + Len(s) - j
           kept == {s[k] : k \in 1..i} \cup Elems(block) \cup {s[k] : k \in (j + 1)..Len(s)}
<1>1. l \in Nat /\ Len(s) \in Nat /\ i \in Nat /\ j \in Nat /\ i <= j /\ j <= Len(s)
  OBVIOUS
<1>2. /\ r \in Seq(S) /\ Len(r) = size
      /\ \A k \in 1..size : r[k] = IF k <= i THEN s[k]
                                   ELSE IF k <= i + l THEN block[k - i]
                                   ELSE s[k - i - l + j]
  BY SliceAssignMembers, Z3
<1> HIDE DEF r
<1>3. DOMAIN r = 1..size /\ DOMAIN block = 1..l
  BY <1>2
<1>4. ASSUME NEW m \in 1..size
      PROVE  r[m] \in kept
  <2>1. CASE m <= i
    BY <1>1, <1>2, <2>1
  <2>2. CASE m > i /\ m <= i + l
    <3>1. m - i \in DOMAIN block
      BY <1>1, <1>3, <2>2
    <3>2. r[m] = block[m - i]
      BY <1>1, <1>2, <2>2
    <3> QED  BY <3>1, <3>2 DEF Elems
  <2>3. CASE m > i + l
    <3>1. m - i - l + j \in (j + 1)..Len(s)
      BY <1>1, <2>3
    <3>2. r[m] = s[m - i - l + j]
      BY <1>1, <1>2, <2>3
    <3> QED  BY <3>1, <3>2
  <2> QED  BY <1>1, <2>1, <2>2, <2>3
<1>5. ASSUME NEW k \in 1..i
      PROVE  s[k] \in Elems(r)
  <2>1. k \in 1..size /\ r[k] = s[k]
    BY <1>1, <1>2
  <2> QED  BY <1>3, <2>1 DEF Elems
<1>6. ASSUME NEW k \in 1..l
      PROVE  block[k] \in Elems(r)
  <2>1. i + k \in 1..size /\ (i + k) - i = k
    BY <1>1
  <2>2. r[i + k] = block[k]
    BY <1>1, <1>2, <2>1
  <2> QED  BY <1>3, <2>1, <2>2 DEF Elems
<1>7. ASSUME NEW k \in (j + 1)..Len(s)
      PROVE  s[k] \in Elems(r)
  <2> DEFINE m == k - j + i + l
  <2>1. m \in 1..size /\ m > i + l /\ m - i - l + j = k
    BY <1>1
  <2>2. r[m] = s[k]
    BY <1>1, <1>2, <2>1
  <2> QED  BY <1>3, <2>1, <2>2 DEF Elems
<1>8. Elems(r) \subseteq kept
  BY <1>3, <1>4 DEF Elems
<1>9. Elems(block) \subseteq Elems(r)
  BY <1>3, <1>6 DEF Elems
<1> QED  BY <1>5, <1>7, <1>8, <1>9 DEF r

\* A list without duplicates stays so when the block has none and is new to it.
LEMMA SliceAssignDuplicateFree ==
    ASSUME NEW S, NEW s \in Seq(S), NEW block \in Seq(S),
           NEW i \in 0..Len(s), NEW j \in i..Len(s),
           IsDuplicateFree(s), IsDuplicateFree(block),
           \A k \in 1..i : s[k] \notin Elems(block),
           \A k \in (j + 1)..Len(s) : s[k] \notin Elems(block)
    PROVE  IsDuplicateFree(SliceAssign(s, i, j, block))
<1> DEFINE r == SliceAssign(s, i, j, block)
           l == Len(block)
           size == i + l + Len(s) - j
           old(m) == IF m <= i THEN m ELSE m - i - l + j
<1>1. l \in Nat /\ Len(s) \in Nat /\ i \in Nat /\ j \in Nat /\ i <= j /\ j <= Len(s)
  OBVIOUS
<1>2. /\ r \in Seq(S) /\ Len(r) = size
      /\ \A k \in 1..size : r[k] = IF k <= i THEN s[k]
                                   ELSE IF k <= i + l THEN block[k - i]
                                   ELSE s[k - i - l + j]
  BY SliceAssignMembers, Z3
<1> HIDE DEF r
<1>3. DOMAIN r = 1..size /\ DOMAIN block = 1..l /\ DOMAIN s = 1..Len(s)
  BY <1>2
\* a member comes from the block, or from the list's parts that are kept
<1>4. ASSUME NEW m \in 1..size, m > i, m <= i + l
      PROVE  m - i \in DOMAIN block /\ r[m] = block[m - i] /\ r[m] \in Elems(block)
  <2>1. m - i \in DOMAIN block
    BY <1>1, <1>3, <1>4
  <2>2. r[m] = block[m - i]
    BY <1>1, <1>2, <1>4
  <2> QED  BY <2>1, <2>2 DEF Elems
<1>5. ASSUME NEW m \in 1..size, m <= i \/ m > i + l
      PROVE  old(m) \in DOMAIN s /\ r[m] = s[old(m)] /\ r[m] \notin Elems(block)
  <2>1. CASE m <= i
    <3>1. m \in 1..i /\ r[m] = s[m] /\ m \in DOMAIN s
      BY <1>1, <1>2, <1>3, <2>1
    <3> QED  BY <2>1, <3>1
  <2>2. CASE m > i + l
    <3>1. m - i - l + j \in (j + 1)..Len(s) /\ m - i - l + j \in DOMAIN s
      BY <1>1, <1>3, <2>2
    <3>2. r[m] = s[m - i - l + j] /\ ~(m <= i)
      BY <1>1, <1>2, <2>2
    <3> QED  BY <3>1, <3>2
  <2> QED  BY <1>5, <2>1, <2>2
<1>6. ASSUME NEW m \in 1..size, m <= i \/ m > i + l,
             NEW n \in 1..size, n <= i \/ n > i + l, old(m) = old(n)
      PROVE  m = n
  BY <1>1, <1>6
<1>7. ASSUME NEW m \in 1..size, NEW n \in 1..size, r[m] = r[n]
      PROVE  m = n
  <2>1. CASE m > i /\ m <= i + l
    <3>1. n > i /\ n <= i + l
      BY <1>1, <1>4, <1>5, <1>7, <2>1
    <3>2. m - i \in DOMAIN block /\ n - i \in DOMAIN block /\ block[m - i] = block[n - i]
      BY <1>4, <1>7, <2>1, <3>1
    <3>3. m - i = n - i
      BY <3>2 DEF IsDuplicateFree
    <3> QED  BY <1>1, <3>3
  <2>2. CASE m <= i \/ m > i + l
    <3>1. n <= i \/ n > i + l
      BY <1>1, <1>4, <1>5, <1>7, <2>2
    <3>2. /\ old(m) \in DOMAIN s /\ r[m] = s[old(m)]
          /\ old(n) \in DOMAIN s /\ r[n] = s[old(n)]
      BY <1>5, <2>2, <3>1
    <3> HIDE DEF old
    <3>3. old(m) = old(n)
      BY <1>7, <3>2 DEF IsDuplicateFree
    <3> QED  BY <1>6, <2>2, <3>1, <3>3
  <2> QED  BY <1>1, <2>1, <2>2
<1> QED  BY <1>3, <1>7 DEF IsDuplicateFree, r

\* The list without members.
LEMMA EmptyList ==
    ASSUME NEW S
    PROVE  /\ <<>> \in Seq(S)
           /\ Elems(<<>>) = {}
           /\ IsDuplicateFree(<<>>)
  BY DEF Elems, IsDuplicateFree

\* The list with one member.
LEMMA Singleton ==
    ASSUME NEW S, NEW n \in S
    PROVE  /\ <<n>> \in Seq(S)
           /\ Elems(<<n>>) = {n}
           /\ IsDuplicateFree(<<n>>)
  BY DEF Elems, IsDuplicateFree

\* Turned round, a list keeps its members.
LEMMA BackwardsProperties ==
    ASSUME NEW S, NEW s \in Seq(S)
    PROVE  /\ Backwards(s) \in Seq(S)
           /\ Elems(Backwards(s)) = Elems(s)
           /\ IsDuplicateFree(s) => IsDuplicateFree(Backwards(s))
<1> DEFINE r == Backwards(s)
<1>1. Len(s) \in Nat /\ DOMAIN s = 1..Len(s) /\ \A i \in 1..Len(s) : s[i] \in S
  OBVIOUS
<1>2. \A i \in 1..Len(s) : Len(s) + 1 - i \in 1..Len(s)
  BY <1>1
<1>3. r \in [1..Len(s) -> S]
  BY <1>1, <1>2 DEF Backwards
<1>4. r \in Seq(S) /\ DOMAIN r = 1..Len(s)
  BY <1>1, <1>3
<1>5. \A i \in 1..Len(s) : r[i] = s[Len(s) + 1 - i]
  BY DEF Backwards
<1> HIDE DEF r
<1>6. \A i \in 1..Len(s) : s[i] = r[Len(s) + 1 - i]
  <2> TAKE i \in 1..Len(s)
  <2>1. Len(s) + 1 - i \in 1..Len(s) /\ Len(s) + 1 - (Len(s) + 1 - i) = i
    BY <1>1
  <2> QED  BY <1>5, <2>1
<1>7. Elems(r) = Elems(s)
  BY <1>1, <1>2, <1>4, <1>5, <1>6 DEF Elems
<1>8. ASSUME IsDuplicateFree(s), NEW i \in 1..Len(s), NEW j \in 1..Len(s), r[i] = r[j]
      PROVE  i = j
  <2>1. Len(s) + 1 - i = Len(s) + 1 - j
    BY <1>1, <1>2, <1>5, <1>8 DEF IsDuplicateFree
  <2> QED  BY <1>1, <2>1
<1> QED  BY <1>4, <1>7, <1>8 DEF IsDuplicateFree, r

\* The first k members of a list.
LEMMA Prefix ==
    ASSUME NEW S, NEW q \in Seq(S), NEW k \in 0..Len(q)
    PROVE  /\ SubSeq(q, 1, k) \in Seq(S)
           /\ Len(SubSeq(q, 1, k)) = k
           /\ \A i \in 1..k : SubSeq(q, 1, k)[i] = q[i]
           /\ Elems(SubSeq(q, 1, k)) = {q[i] : i \in 1..k}
           /\ Elems(SubSeq(q, 1, k)) \subseteq Elems(q)
<1> DEFINE r == SubSeq(q, 1, k)
<1>1. r \in Seq(S) /\ Len(r) = k /\ \A i \in 1..k : r[i] = q[i]
  OBVIOUS
<1>2. DOMAIN r = 1..k /\ 1..k \subseteq DOMAIN q
  BY <1>1
<1> HIDE DEF r
<1>3. Elems(r) = {q[i] : i \in 1..k} /\ Elems(r) \subseteq Elems(q)
  BY <1>1, <1>2 DEF Elems
<1> QED  BY <1>1, <1>3 DEF r

\* The members of s[i:j].
LEMMA SliceElems ==
    ASSUME NEW S, NEW s \in Seq(S), NEW i \in 0..Len(s), NEW j \in i..Len(s)
    PROVE  Elems(Slice(s, i, j)) = {s[k] : k \in (i + 1)..j}
<1> DEFINE r == Slice(s, i, j)
<1>1. i \in Nat /\ j \in Nat /\ i <= j /\ j <= Len(s) /\ Len(s) \in Nat
  OBVIOUS
<1>2. r \in Seq(S) /\ Len(r) = j - i /\ \A k \in 1..(j - i) : r[k] = s[i + k]
  BY DEF Slice
<1> HIDE DEF r
<1>3. DOMAIN r = 1..(j - i)
  BY <1>2
<1>4. \A k \in 1..(j - i) : i + k \in (i + 1)..j
  BY <1>1
<1>5. \A k \in (i + 1)..j : k - i \in 1..(j - i) /\ i + (k - i) = k
  BY <1>1
<1>6. ASSUME NEW k \in 1..(j - i)
      PROVE  r[k] \in {s[m] : m \in (i + 1)..j}
  BY <1>2, <1>4
<1>7. ASSUME NEW k \in (i + 1)..j
      PROVE  s[k] \in Elems(r)
  <2>1. s[k] = r[k - i] /\ k - i \in DOMAIN r
    BY <1>2, <1>3, <1>5
  <2> QED  BY <2>1 DEF Elems
<1>8. Elems(r) \subseteq {s[m] : m \in (i + 1)..j}
  BY <1>3, <1>6 DEF Elems
<1> QED  BY <1>7, <1>8 DEF r
\* What was put into a list is the part of the result between the kept ones.
LEMMA SliceAssignBlock ==
    ASSUME NEW S, NEW s \in Seq(S), NEW block \in Seq(S),
           NEW i \in 0..Len(s), NEW j \in i..Len(s)
    PROVE  /\ i + Len(block) \in i..Len(SliceAssign(s, i, j, block))
           /\ SubSeq(SliceAssign(s, i, j, block), i + 1, i + Len(block)) = block
<1> DEFINE r == SliceAssign(s, i, j, block)
           l == Len(block)
           size == i + l + Len(s) - j
           part == SubSeq(r, i + 1, i + l)
<1>1. l \in Nat /\ Len(s) \in Nat /\ i \in Nat /\ j \in Nat /\ i <= j /\ j <= Len(s)
  OBVIOUS
<1>2. /\ r \in Seq(S) /\ Len(r) = size
      /\ \A k \in 1..size :
            r[k] = IF k <= i THEN s[k]
                   ELSE IF k <= i + l THEN block[k - i]
                   ELSE s[k - i - l + j]
  BY SliceAssignMembers, Z3
<1> HIDE DEF r
<1>3. i + l \in i..Len(r)
  BY <1>1, <1>2
<1>4. part \in Seq(S) /\ Len(part) = l /\ \A k \in 1..l : part[k] = r[i + k]
  BY <1>1, <1>2, <1>3
<1>5. ASSUME NEW k \in 1..l
      PROVE  r[i + k] = block[k]
  <2>1. i + k \in 1..size /\ (i + k) - i = k /\ i + k > i /\ i + k <= i + l
    BY <1>1
  <2> QED  BY <1>2, <2>1
<1> HIDE DEF part
<1>6. part = block
  BY <1>1, <1>4, <1>5
<1> QED  BY <1>3, <1>6 DEF part, r

\* Two members in their order.
InOrder(s, x, y) == \E i, j \in DOMAIN s : i < j /\ s[i] = x /\ s[j] = y

\* The order of the members afterwards: as in the list, as in the block, or the
\* block's after those in front of it and before those behind it.
LEMMA SliceAssignInOrder ==
    ASSUME NEW S, NEW s \in Seq(S), NEW block \in Seq(S),
           NEW i \in 0..Len(s), NEW j \in i..Len(s),
           NEW x, NEW y, InOrder(SliceAssign(s, i, j, block), x, y)
    PROVE  \/ InOrder(s, x, y)
           \/ InOrder(block, x, y)
           \/ x \in Elems(block) /\ \E k \in (j + 1)..Len(s) : s[k] = y
           \/ y \in Elems(block) /\ \E k \in 1..i : s[k] = x
<1> DEFINE r == SliceAssign(s, i, j, block)
           l == Len(block)
           size == i + l + Len(s) - j
<1>1. l \in Nat /\ Len(s) \in Nat /\ i \in Nat /\ j \in Nat /\ i <= j /\ j <= Len(s)
  OBVIOUS
<1>2. /\ r \in Seq(S) /\ Len(r) = size
      /\ \A k \in 1..size :
            r[k] = IF k <= i THEN s[k]
                   ELSE IF k <= i + l THEN block[k - i]
                   ELSE s[k - i - l + j]
  BY SliceAssignMembers, Z3
<1>3. InOrder(r, x, y)
  OBVIOUS
<1> HIDE DEF r
<1>4. DOMAIN r = 1..size
  BY <1>2
<1>5. PICK g \in 1..size, h \in 1..size : g < h /\ r[g] = x /\ r[h] = y
  BY <1>3, <1>4, Zenon DEF InOrder
<1>6. DOMAIN s = 1..Len(s) /\ DOMAIN block = 1..l
  OBVIOUS
<1>7. CASE h <= i
  <2>1. g \in 1..Len(s) /\ h \in 1..Len(s) /\ g <= i
    BY <1>1, <1>5, <1>7
  <2> QED  BY <1>2, <1>5, <1>6, <1>7, <2>1 DEF InOrder
<1>8. CASE h > i /\ h <= i + l
  <2>1. h - i \in 1..l /\ y = block[h - i]
    BY <1>1, <1>2, <1>5, <1>8
  <2>2. CASE g <= i
    <3>1. g \in 1..i /\ s[g] = x
      BY <1>1, <1>2, <1>5, <2>2
    <3> QED  BY <1>6, <2>1, <3>1 DEF Elems
  <2>3. CASE g > i
    <3>1. g - i \in 1..l /\ g - i < h - i /\ x = block[g - i]
      BY <1>1, <1>2, <1>5, <1>8, <2>3
    <3> QED  BY <1>6, <2>1, <3>1 DEF InOrder
  <2> QED  BY <1>1, <2>2, <2>3
<1>9. CASE h > i + l
  <2>1. ~(h <= i) /\ ~(h <= i + l)
    BY <1>1, <1>9
  <2>2. y = s[h - i - l + j]
    BY <1>2, <1>5, <2>1
  <2>3. h - i - l + j \in (j + 1)..Len(s) /\ y = s[h - i - l + j]
    BY <1>1, <1>9, <2>2
  <2>4. CASE g <= i
    <3>1. g \in 1..Len(s) /\ g < h - i - l + j /\ s[g] = x /\ h - i - l + j \in 1..Len(s)
      BY SMTT(30), <1>1, <1>2, <1>5, <2>3, <2>4
    <3> QED  BY <1>6, <2>3, <3>1 DEF InOrder
  <2>5. CASE g > i /\ g <= i + l
    <3>1. g - i \in 1..l /\ x = block[g - i]
      BY <1>1, <1>2, <1>5, <2>5
    <3> QED  BY <1>6, <2>3, <3>1 DEF Elems
  <2>6. CASE g > i + l
    <3>0. g \in 1..size /\ ~(g <= i) /\ ~(g <= i + l)
      BY <1>1, <2>6
    <3>1. x = s[g - i - l + j]
      BY <1>2, <1>5, <3>0
    <3>2. /\ g - i - l + j \in 1..Len(s) /\ h - i - l + j \in 1..Len(s)
          /\ g - i - l + j < h - i - l + j
      <4>1. g \in Nat /\ h \in Nat /\ g < h /\ h <= size
        BY <1>1, <1>5
      <4>2. /\ g - i - l + j \in Int /\ h - i - l + j \in Int
            /\ g - i - l + j < h - i - l + j
        BY <1>1, <4>1
      <4>3. g - i - l + j >= 1 /\ h - i - l + j <= Len(s)
        BY <1>1, <2>6, <4>1
      <4> QED  BY <1>1, <4>2, <4>3
    <3> QED  BY <1>6, <2>3, <3>1, <3>2 DEF InOrder
  <2> QED  BY <1>1, <2>4, <2>5, <2>6
<1> QED  BY <1>1, <1>7, <1>8, <1>9

\* Members that are kept keep their order.
LEMMA SliceAssignKeepsOrder ==
    ASSUME NEW S, NEW s \in Seq(S), NEW block \in Seq(S),
           NEW i \in 0..Len(s), NEW j \in i..Len(s)
    PROVE  \A g, h \in DOMAIN s :
               g < h /\ g \notin (i + 1)..j /\ h \notin (i + 1)..j
                   => InOrder(SliceAssign(s, i, j, block), s[g], s[h])
<1> DEFINE r == SliceAssign(s, i, j, block)
           l == Len(block)
           size == i + l + Len(s) - j
           new(k) == IF k <= i THEN k ELSE k + i + l - j
<1>1. l \in Nat /\ Len(s) \in Nat /\ i \in Nat /\ j \in Nat /\ i <= j /\ j <= Len(s)
  OBVIOUS
<1>2. /\ r \in Seq(S) /\ Len(r) = size
      /\ \A k \in 1..size :
            r[k] = IF k <= i THEN s[k]
                   ELSE IF k <= i + l THEN block[k - i]
                   ELSE s[k - i - l + j]
  BY SliceAssignMembers, Z3
<1> HIDE DEF r
<1>3. \A k \in 1..Len(s) : k \notin (i + 1)..j => new(k) \in 1..size /\ r[new(k)] = s[k]
  <2> SUFFICES ASSUME NEW k \in 1..Len(s), k \notin (i + 1)..j
               PROVE  new(k) \in 1..size /\ r[new(k)] = s[k]
    OBVIOUS
  <2>1. CASE k <= i
    BY <1>1, <1>2, <2>1
  <2>2. CASE k > j
    <3>1. k + i + l - j \in 1..size /\ k + i + l - j > i + l /\ (k + i + l - j) - i - l + j = k
      BY <1>1, <2>2
    <3>2. r[k + i + l - j] = s[k]
      BY <1>1, <1>2, <3>1
    <3>3. new(k) = k + i + l - j
      BY <1>1, <2>2
    <3> QED  BY <3>1, <3>2, <3>3
  <2> QED  BY <1>1, <2>1, <2>2
<1> SUFFICES ASSUME NEW g \in DOMAIN s, NEW h \in DOMAIN s, g < h,
                    g \notin (i + 1)..j, h \notin (i + 1)..j
             PROVE  InOrder(r, s[g], s[h])
  BY DEF r
<1>4. g \in 1..Len(s) /\ h \in 1..Len(s) /\ DOMAIN r = 1..size
  BY <1>2
<1>5. new(g) < new(h)
  BY <1>1, <1>4
<1>6. new(g) \in DOMAIN r /\ new(h) \in DOMAIN r /\ r[new(g)] = s[g] /\ r[new(h)] = s[h]
  BY <1>3, <1>4
<1> HIDE DEF new
<1> QED  BY <1>5, <1>6 DEF InOrder

-----------------------------------------------------------------------------
(* What removal by places does to the members of a list *)

\* Ranks number the members of a finite set from zero in ascending order.
LEMMA RanksCount ==
    ASSUME NEW S \in SUBSET Int, IsFiniteSet(S)
    PROVE  /\ Cardinality(S) \in Nat
           /\ \A i \in S : Rank(S, i) \in 0..(Cardinality(S) - 1)
           /\ \A i, j \in S : i < j => Rank(S, i) < Rank(S, j)
           /\ \A k \in 0..(Cardinality(S) - 1) : \E i \in S : Rank(S, i) = k
<1> DEFINE size == Cardinality(S)
           Before(i) == {j \in S : j < i}
<1>1. size \in Nat
  BY FS_CardinalityType
<1>2. \A i \in S : Before(i) \in SUBSET S /\ i \notin Before(i)
  OBVIOUS
<1>3. ASSUME NEW i \in S
      PROVE  IsFiniteSet(Before(i)) /\ Cardinality(Before(i)) \in Nat
             /\ Cardinality(Before(i)) < size
  <2>1. IsFiniteSet(Before(i)) /\ Cardinality(Before(i)) <= size
        /\ (size = Cardinality(Before(i)) => S = Before(i))
    BY <1>2, FS_Subset
  <2>2. Cardinality(Before(i)) \in Nat
    BY <2>1, FS_CardinalityType
  <2>3. S # Before(i)
    BY <1>2
  <2> HIDE DEF Before
  <2> QED  BY <1>1, <2>1, <2>2, <2>3
<1>4. \A i \in S : Rank(S, i) \in 0..(size - 1)
  <2> TAKE i \in S
  <2>1. Rank(S, i) = Cardinality(Before(i))
    BY DEF Rank
  <2> HIDE DEF Before
  <2> QED  BY <1>1, <1>3, <2>1
<1>5. ASSUME NEW i \in S, NEW j \in S, i < j
      PROVE  Rank(S, i) < Rank(S, j)
  <2>1. Before(i) \in SUBSET Before(j) /\ i \in Before(j)
    <3>1. \A k \in S : k < i => k < j
      <4> TAKE k \in S
      <4>1. i \in Int /\ j \in Int /\ k \in Int
        OBVIOUS
      <4> QED  BY <1>5, <4>1
    <3> QED  BY <1>5, <3>1
  <2>2. IsFiniteSet(Before(j)) /\ Cardinality(Before(j)) \in Nat
    BY <1>3
  <2>3. /\ Cardinality(Before(i)) <= Cardinality(Before(j))
        /\ Cardinality(Before(j)) = Cardinality(Before(i)) => Before(j) = Before(i)
    <3> HIDE DEF Before
    <3> QED  BY <2>1, <2>2, FS_Subset
  <2>4. Cardinality(Before(i)) \in Nat
    BY <1>3
  <2>5. Before(j) # Before(i)
    BY <1>2, <2>1
  <2>6. Rank(S, i) = Cardinality(Before(i)) /\ Rank(S, j) = Cardinality(Before(j))
    BY DEF Rank
  <2> HIDE DEF Before
  <2> QED  BY <2>2, <2>3, <2>4, <2>5, <2>6
\* distinct ranks, as many as there are members
<1>6. \A k \in 0..(size - 1) : \E i \in S : Rank(S, i) = k
  <2> DEFINE f == [i \in S |-> Rank(S, i)]
             T == 0..(size - 1)
  <2>1. f \in Injection(S, T)
    <3>1. f \in [S -> T]
      BY <1>4
    <3>2. \A i, j \in S : f[i] = f[j] => i = j
      <4> SUFFICES ASSUME NEW i \in S, NEW j \in S, f[i] = f[j]
                   PROVE  i = j
        OBVIOUS
      <4>1. i \in Int /\ j \in Int /\ Rank(S, i) \in Int /\ Rank(S, j) \in Int
        BY <1>1, <1>4
      <4>2. Rank(S, i) = Rank(S, j)
        OBVIOUS
      <4> QED  BY <1>5, <4>1, <4>2
    <3> HIDE DEF f
    <3> QED  BY <3>1, <3>2 DEF Injection, IsInjective
  <2>2. IsFiniteSet(T) /\ Cardinality(T) = size
    <3>1. 0 \in Int /\ size - 1 \in Int
      BY <1>1
    <3>2. IsFiniteSet(T) /\ Cardinality(T) = IF 0 > size - 1 THEN 0 ELSE (size - 1) - 0 + 1
      BY <3>1, FS_Interval
    <3> HIDE DEF T
    <3> QED  BY <1>1, <3>2
  <2>3. f \in Surjection(S, T)
    <3> HIDE DEF f, T
    <3> QED  BY <2>1, <2>2, FS_Injection
  <2>4. \A k \in T : \E i \in S : f[i] = k
    <3> HIDE DEF f
    <3> QED  BY <2>3 DEF Surjection
  <2> QED  BY <2>4
<1> QED  BY <1>1, <1>4, <1>5, <1>6

\* The k-th of the places that are kept
KeptPlace(s, I, k) == CHOOSE i \in DOMAIN s \ I : Rank(DOMAIN s \ I, i) = k - 1

\* The places of the result stand for those that are kept, in the same order.
LEMMA WithoutPlaces ==
    ASSUME NEW S, NEW s \in Seq(S), NEW I
    PROVE  /\ Without(s, I) \in Seq(S)
           /\ \A k \in DOMAIN Without(s, I) :
                 /\ KeptPlace(s, I, k) \in DOMAIN s \ I
                 /\ Without(s, I)[k] = s[KeptPlace(s, I, k)]
           /\ \A k, m \in DOMAIN Without(s, I) :
                 k < m => KeptPlace(s, I, k) < KeptPlace(s, I, m)
           /\ \A i \in DOMAIN s \ I :
                 \E k \in DOMAIN Without(s, I) : KeptPlace(s, I, k) = i
<1> DEFINE kept == DOMAIN s \ I
           size == Cardinality(kept)
           place(k) == CHOOSE i \in kept : Rank(kept, i) = k - 1
           r == Without(s, I)
<1>1. kept \in SUBSET Int /\ IsFiniteSet(kept)
  <2>1. Len(s) \in Nat /\ DOMAIN s = 1..Len(s)
    OBVIOUS
  <2>2. IsFiniteSet(1..Len(s))
    BY <2>1, FS_Interval
  <2>3. kept \in SUBSET (1..Len(s))
    BY <2>1
  <2>4. 1..Len(s) \in SUBSET Int
    BY <2>1
  <2> HIDE DEF kept
  <2>5. IsFiniteSet(kept)
    BY <2>2, <2>3, FS_Subset
  <2> QED  BY <2>3, <2>4, <2>5
<1>2. /\ size \in Nat
      /\ \A i \in kept : Rank(kept, i) \in 0..(size - 1)
      /\ \A i, j \in kept : i < j => Rank(kept, i) < Rank(kept, j)
      /\ \A k \in 0..(size - 1) : \E i \in kept : Rank(kept, i) = k
  <2> HIDE DEF kept
  <2> QED  BY <1>1, RanksCount
<1>3. r = [k \in 1..size |-> s[place(k)]]
  BY DEF Without
<1>4. \A i \in kept : s[i] \in S
  OBVIOUS
<1>5. \A k : KeptPlace(s, I, k) = place(k)
  BY DEF KeptPlace
<1> HIDE DEF kept, r, size
<1>6. \A k \in 1..size : place(k) \in kept /\ Rank(kept, place(k)) = k - 1
  <2> TAKE k \in 1..size
  <2>1. k - 1 \in 0..(size - 1)
    BY <1>2
  <2>2. \E i \in kept : Rank(kept, i) = k - 1
    BY <1>2, <2>1
  <2> QED  BY <2>2, Zenon
<1> HIDE DEF place
<1>7. r \in Seq(S) /\ DOMAIN r = 1..size
  BY <1>2, <1>3, <1>4, <1>6
<1>8. ASSUME NEW k \in 1..size, NEW m \in 1..size, k < m
      PROVE  place(k) < place(m)
  <2>1. place(k) \in Int /\ place(m) \in Int /\ k \in Int /\ m \in Int
    <3>1. place(k) \in kept /\ place(m) \in kept
      BY <1>6
    <3>2. k \in Int /\ m \in Int
      OBVIOUS
    <3> QED  BY <1>1, <3>1, <3>2
  <2>2. Rank(kept, place(k)) = k - 1 /\ Rank(kept, place(m)) = m - 1
    BY <1>6
  <2>3. ~(place(m) < place(k)) /\ place(m) # place(k)
    BY <1>2, <1>6, <1>8, <2>1, <2>2
  <2> QED  BY <2>1, <2>3
<1>9. ASSUME NEW i \in kept
      PROVE  \E k \in 1..size : place(k) = i
  <2> DEFINE k == Rank(kept, i) + 1
  <2>1. k \in 1..size /\ Rank(kept, i) = k - 1 /\ Rank(kept, i) \in Int
    BY <1>2
  <2> HIDE DEF k
  <2>2. Rank(kept, place(k)) = Rank(kept, i) /\ place(k) \in kept
    BY <1>6, <2>1
  <2>3. i \in Int /\ place(k) \in Int
    BY <1>1, <2>2
  <2>4. ~(i < place(k)) /\ ~(place(k) < i)
    BY <1>2, <2>1, <2>2
  <2> QED  BY <2>1, <2>3, <2>4
<1>10. \A k \in 1..size : r[k] = s[place(k)]
  BY <1>3
<1> QED  BY <1>5, <1>6, <1>7, <1>8, <1>9, <1>10 DEF kept, r

\* The members that are kept, once each if they were.
LEMMA WithoutElems ==
    ASSUME NEW S, NEW s \in Seq(S), NEW I
    PROVE  /\ Without(s, I) \in Seq(S)
           /\ Elems(Without(s, I)) = {s[i] : i \in DOMAIN s \ I}
           /\ IsDuplicateFree(s) => IsDuplicateFree(Without(s, I))
<1> DEFINE r == Without(s, I)
           place(k) == KeptPlace(s, I, k)
<1>1. /\ r \in Seq(S)
      /\ \A k \in DOMAIN r : place(k) \in DOMAIN s \ I /\ r[k] = s[place(k)]
      /\ \A k, m \in DOMAIN r : k < m => place(k) < place(m)
      /\ \A i \in DOMAIN s \ I : \E k \in DOMAIN r : place(k) = i
  BY WithoutPlaces
<1> HIDE DEF r, place
<1>2. Elems(r) = {s[i] : i \in DOMAIN s \ I}
  BY <1>1 DEF Elems
<1>3. ASSUME IsDuplicateFree(s), NEW k \in DOMAIN r, NEW m \in DOMAIN r, r[k] = r[m]
      PROVE  k = m
  <2>1. place(k) = place(m)
    BY <1>1, <1>3 DEF IsDuplicateFree
  <2>2. k \in Int /\ m \in Int /\ place(k) \in Int
    BY <1>1
  <2>3. ~(k < m) /\ ~(m < k)
    BY <1>1, <2>1, <2>2
  <2> QED  BY <2>2, <2>3
<1> QED  BY <1>1, <1>2, <1>3 DEF IsDuplicateFree, r

\* Members that are kept stay in their order.
LEMMA WithoutInOrder ==
    ASSUME NEW S, NEW s \in Seq(S), NEW I, NEW x, NEW y, InOrder(Without(s, I), x, y)
    PROVE  InOrder(s, x, y)
  BY WithoutPlaces DEF InOrder

-----------------------------------------------------------------------------
(* Invariants *)

\* an identity that stands for an object yet to be made is in no tree
FreshUnlinked ==
    /\ \A n \in Nodes \ made : parent[n] = NIL
    /\ \A t \in Tags \ made : children[t] = <<>>

\* a constructor that raised has not assigned the list of children
BrokenListNothing == \A t \in broken : children[t] = <<>>

\* Grounded, said with the pointers: every set of nodes has one that leads out of it
PointersGrounded ==
    \A S \in SUBSET Nodes : S # {} => \E n \in S : parent[n] \notin S

\* What the calls rely on about the state they find: with the pointers, a node's
\* place among its siblings; with groundedness, that a node that is to be lifted is
\* not its own parent; with the root, what the prologue and the epilogue are.
IInv ==
    /\ TypeOK
    /\ PointersAgree
    /\ FreshUnlinked
    /\ BrokenListNothing
    /\ PointersGrounded
    /\ OneRoot

HasOneRoot(s) ==
    \E i \in DOMAIN s : \A j \in DOMAIN s : s[j] \in Tags <=> j = i

-----------------------------------------------------------------------------
(* The root in the list of a document's nodes *)

\* A change around the root keeps it.
LEMMA RootStays ==
    ASSUME NEW s \in Seq(Nodes), NEW block \in Seq(Nodes),
           NEW i \in 0..Len(s), NEW j \in i..Len(s),
           HasOneRoot(s), Elems(block) \cap Tags = {},
           \A k \in (i + 1)..j : s[k] \notin Tags
    PROVE  HasOneRoot(SliceAssign(s, i, j, block))
<1> DEFINE r == SliceAssign(s, i, j, block)
           l == Len(block)
           size == i + l + Len(s) - j
<1>1. l \in Nat /\ Len(s) \in Nat /\ i \in Nat /\ j \in Nat /\ i <= j /\ j <= Len(s)
  OBVIOUS
<1>2. /\ r \in Seq(Nodes) /\ Len(r) = size
      /\ \A k \in 1..size : r[k] = IF k <= i THEN s[k]
                                   ELSE IF k <= i + l THEN block[k - i]
                                   ELSE s[k - i - l + j]
  BY SliceAssignMembers, Z3
<1> HIDE DEF r
<1>3. DOMAIN r = 1..size /\ DOMAIN block = 1..l /\ DOMAIN s = 1..Len(s)
  BY <1>2
<1> DEFINE IsRoot(t) == \A k \in DOMAIN s : s[k] \in Tags <=> k = t
<1>4. PICK t \in DOMAIN s : IsRoot(t)
  BY Zenon DEF HasOneRoot
<1>5. t <= i \/ t > j
  BY <1>1, <1>3, <1>4
<1> DEFINE u == IF t <= i THEN t ELSE t - j + i + l
<1>6. u \in 1..size
  BY <1>1, <1>3, <1>5
<1>7. ASSUME NEW k \in 1..size
      PROVE  r[k] \in Tags <=> k = u
  <2>1. CASE k <= i
    <3>1. r[k] = s[k] /\ k \in 1..Len(s)
      BY <1>1, <1>2, <2>1
    <3>2. k = u <=> k = t
      BY <1>1, <1>3, <1>5, <2>1
    <3> QED  BY <1>3, <1>4, <3>1, <3>2
  <2>2. CASE k > i /\ k <= i + l
    <3>1. k - i \in DOMAIN block
      BY <1>1, <1>3, <2>2
    <3>2. r[k] = block[k - i]
      BY <1>1, <1>2, <2>2
    <3>3. r[k] \notin Tags
      BY <3>1, <3>2 DEF Elems
    <3>4. k # u
      BY <1>1, <1>3, <1>5, <2>2
    <3> QED  BY <3>3, <3>4
  <2>3. CASE k > i + l
    <3>1. k - i - l + j \in 1..Len(s)
      BY <1>1, <2>3
    <3>2. r[k] = s[k - i - l + j]
      BY SMTT(30), <1>1, <1>2, <2>3
    <3>3. k = u <=> k - i - l + j = t
      BY SMTT(30), <1>1, <1>3, <1>5, <2>3
    <3> QED  BY <1>3, <1>4, <3>1, <3>2, <3>3
  <2> QED  BY <1>1, <2>1, <2>2, <2>3
<1>8. u \in DOMAIN r /\ \A k \in DOMAIN r : r[k] \in Tags <=> k = u
  BY <1>3, <1>6, <1>7
<1> HIDE DEF u
<1> QED  BY <1>8, Zenon DEF HasOneRoot, r

\* Removal of other nodes keeps it as well.
LEMMA RootIsKept ==
    ASSUME NEW s \in Seq(Nodes), NEW I, HasOneRoot(s),
           \A i \in I : s[i] \notin Tags
    PROVE  HasOneRoot(Without(s, I))
<1> DEFINE r == Without(s, I)
           place(k) == KeptPlace(s, I, k)
<1>1. /\ r \in Seq(Nodes)
      /\ \A k \in DOMAIN r : place(k) \in DOMAIN s \ I /\ r[k] = s[place(k)]
      /\ \A k, m \in DOMAIN r : k < m => place(k) < place(m)
      /\ \A i \in DOMAIN s \ I : \E k \in DOMAIN r : place(k) = i
  BY WithoutPlaces
<1>2. PICK t \in DOMAIN s : \A j \in DOMAIN s : s[j] \in Tags <=> j = t
  BY DEF HasOneRoot
<1> HIDE DEF r, place
<1>3. t \in DOMAIN s \ I
  BY <1>2
<1>4. PICK u \in DOMAIN r : place(u) = t
  BY <1>1, <1>3
<1>5. ASSUME NEW k \in DOMAIN r
      PROVE  r[k] \in Tags <=> k = u
  <2>1. r[k] \in Tags <=> place(k) = place(u)
    BY <1>1, <1>2, <1>4
  <2>2. k \in Int /\ u \in Int /\ place(k) \in Int /\ place(u) \in Int
    BY <1>1
  <2>3. place(k) = place(u) => ~(k < u) /\ ~(u < k)
    BY <1>1, <2>2
  <2> QED  BY <2>1, <2>2, <2>3
<1> QED  BY <1>5, Zenon DEF HasOneRoot, r

\* The root, at t, can be exchanged.
LEMMA RootExchanged ==
    ASSUME NEW s \in Seq(Nodes), NEW block \in Seq(Nodes),
           NEW i \in 0..Len(s), NEW t \in i..Len(s)
    PROVE  /\ t = i + 1
           /\ \A k \in 1..Len(s) : s[k] \in Tags <=> k = t
           /\ Len(block) = 1 /\ block[1] \in Tags
           => HasOneRoot(SliceAssign(s, i, t, block))
<1> DEFINE r == SliceAssign(s, i, t, block)
           l == Len(block)
           size == i + l + Len(s) - t
<1>2. /\ r \in Seq(Nodes) /\ Len(r) = size
      /\ \A k \in 1..size : r[k] = IF k <= i THEN s[k]
                                   ELSE IF k <= i + l THEN block[k - i]
                                   ELSE s[k - i - l + t]
  BY SliceAssignMembers, Z3
<1> HIDE DEF r
<1> SUFFICES ASSUME t = i + 1, \A k \in 1..Len(s) : s[k] \in Tags <=> k = t,
                    l = 1, block[1] \in Tags
             PROVE  HasOneRoot(r)
  BY DEF r
<1>1. Len(s) \in Nat /\ i \in Nat /\ t \in 1..Len(s) /\ t = i + 1 /\ l = 1
  OBVIOUS
<1>3. size = Len(s) /\ DOMAIN r = 1..Len(s)
  BY <1>1, <1>2
<1>4. ASSUME NEW k \in 1..Len(s)
      PROVE  r[k] \in Tags <=> k = t
  <2>1. CASE k = t
    <3>1. k - i = 1 /\ ~(k <= i) /\ k <= i + l
      BY <1>1, <2>1
    <3>2. r[k] = block[1]
      BY <1>2, <1>3, <3>1
    <3> QED  BY <2>1, <3>2
  <2>2. CASE k # t
    <3>1. k <= i \/ (~(k <= i) /\ ~(k <= i + l))
      BY <1>1, <2>2
    <3>2. k - i - l + t = k
      BY <1>1
    <3>3. r[k] = s[k]
      BY <1>2, <1>3, <3>1, <3>2
    <3> QED  BY <2>2, <3>3
  <2> QED  BY <2>1, <2>2
<1>5. t \in DOMAIN r /\ \A k \in DOMAIN r : r[k] \in Tags <=> k = t
  BY <1>1, <1>3, <1>4
<1> QED  BY <1>5, Zenon DEF HasOneRoot

-----------------------------------------------------------------------------
(* What the invariant says of the nodes that a call looks at *)

LEMMA NilIsNothing == NIL \notin Parents /\ NIL \notin Nodes
  BY KindsAreDisjoint DEF Parents, Nodes

\* A node's place is where its parent lists it.
LEMMA PositionFound ==
    ASSUME IInv, NEW n \in Nodes, parent[n] \in Parents \ broken
    PROVE  /\ Position(n) \in 1..Len(children[parent[n]])
           /\ children[parent[n]][Position(n)] = n
<1> DEFINE s == children[parent[n]]
<1>1. n \in Elems(s) /\ s \in Seq(Nodes)
  BY DEF IInv, PointersAgree, TypeOK
<1> HIDE DEF s
<1>2. \E i \in DOMAIN s : s[i] = n
  BY <1>1 DEF Elems
<1>3. PositionOf(s, n) \in DOMAIN s /\ s[PositionOf(s, n)] = n
  BY <1>2, Zenon DEF PositionOf
<1>4. DOMAIN s = 1..Len(s)
  BY <1>1
<1> QED  BY <1>3, <1>4 DEF Position, s

\* A parent other than an unfinished object exists.
LEMMA ParentsExist ==
    ASSUME IInv, NEW n \in Nodes, parent[n] # NIL
    PROVE  /\ parent[n] \in Parents
           /\ parent[n] \in made \cup Docs
<1>1. parent[n] \in Parents /\ broken \subseteq made
  BY DEF IInv, TypeOK
<1>2. CASE parent[n] \in broken
  BY <1>1, <1>2
<1>3. CASE parent[n] \notin broken
  <2>1. n \in Elems(children[parent[n]])
    BY <1>1, <1>3 DEF IInv, PointersAgree
  <2>2. children[parent[n]] # <<>>
    BY <2>1, EmptyList
  <2> QED  BY <1>1, <2>2 DEF IInv, FreshUnlinked, Parents
<1> QED  BY <1>2, <1>3

\* The ancestors are closed under "parent of".
LEMMA AboveClosed ==
    ASSUME IInv, NEW p \in Parents
    PROVE  /\ p \in Above(p)
           /\ \A m \in Above(p) \cap Nodes : parent[m] \in Above(p) \cup {NIL}
<1>1. p \in Above(p)
  BY DEF Above, ClosedAbove
<1>2. ASSUME NEW m \in Above(p) \cap Nodes, parent[m] # NIL
      PROVE  parent[m] \in Above(p)
  <2>1. parent[m] \in Parents
    BY <1>2, ParentsExist
  <2>2. ASSUME NEW A \in SUBSET Parents, ClosedAbove(A, p)
        PROVE  parent[m] \in A
    BY <1>2, <2>2 DEF Above, ClosedAbove
  <2> QED  BY <2>1, <2>2 DEF Above
<1> QED  BY <1>1, <1>2

\* What is yet to be made is above nobody.
LEMMA FreshNotAbove ==
    ASSUME IInv, NEW p \in Parents, p \in made \cup Docs, NEW c \in Nodes \ made
    PROVE  c \notin Above(p)
<1> DEFINE A == Parents \cap (made \cup Docs)
<1>1. ASSUME NEW m \in A \cap Nodes
      PROVE  parent[m] \in A \cup {NIL}
  BY ParentsExist
<1>2. ClosedAbove(A, p)
  BY <1>1 DEF ClosedAbove
<1>3. c \notin A
  BY KindsAreDisjoint DEF Nodes, Parents
<1> QED  BY <1>2, <1>3 DEF Above

\* The root of a document is its one tag.
LEMMA RootFound ==
    ASSUME IInv, NEW d \in Docs
    PROVE  /\ RootPosition(d) \in 1..Len(children[d])
           /\ \A i \in 1..Len(children[d]) : children[d][i] \in Tags <=> i = RootPosition(d)
<1> DEFINE s == children[d]
           IsRoot(i) == \A j \in DOMAIN s : s[j] \in Tags <=> j = i
           IsFirst(i) == s[i] \in Tags /\ \A j \in 1..(i - 1) : s[j] \notin Tags
<1>1. s \in Seq(Nodes)
  BY DEF IInv, TypeOK, Parents
<1>2. DOMAIN s = 1..Len(s) /\ Len(s) \in Nat
  BY <1>1
<1>3. PICK i \in DOMAIN s : IsRoot(i)
  BY DEF IInv, OneRoot
<1>4. RootPosition(d) = CHOOSE k \in DOMAIN s : IsFirst(k)
  BY DEF RootPosition
<1> HIDE DEF s
<1>5. \A j \in 1..(i - 1) : j \in DOMAIN s /\ j # i
  BY <1>2
<1>6. IsFirst(i)
  BY <1>3, <1>5
<1> DEFINE k == CHOOSE x \in DOMAIN s : IsFirst(x)
<1>7. k \in DOMAIN s /\ IsFirst(k)
  <2> HIDE DEF IsFirst
  <2> QED  BY <1>6
<1>8. k = i
  BY <1>3, <1>7
<1> QED  BY <1>2, <1>3, <1>4, <1>8 DEF s

-----------------------------------------------------------------------------
(* A change of one child list keeps the invariant *)

\* No node comes to be below itself when loose nodes that are not above p become
\* children of p and others lose their parent.
LEMMA GraftGrounded ==
    ASSUME IInv, NEW p \in Parents, NEW B \in SUBSET Nodes, B \cap Above(p) = {},
           \A n \in Nodes : \/ n \in B /\ parent'[n] = p
                            \/ parent'[n] = NIL
                            \/ n \notin B /\ parent'[n] = parent[n]
    PROVE  PointersGrounded'
<1> SUFFICES ASSUME NEW S \in SUBSET Nodes, S # {}, \A n \in S : parent'[n] \in S
             PROVE  FALSE
  BY DEF PointersGrounded
<1>1. NIL \notin S
  BY NilIsNothing
<1>2. \A n \in S : \/ n \in B /\ parent'[n] = p
                   \/ n \notin B /\ parent'[n] = parent[n]
  BY <1>1
<1>3. ASSUME NEW T \in SUBSET Nodes, T # {}, \A n \in T : parent[n] \in T
      PROVE  FALSE
  BY <1>3 DEF IInv, PointersGrounded
<1>4. CASE S \cap B = {}
  <2>1. \A n \in S : parent[n] \in S
    BY <1>2, <1>4
  <2> QED  BY <1>3, <2>1
<1>5. CASE S \cap B # {}
  <2> DEFINE T == S \cap Above(p)
  <2>1. p \in T
    BY <1>2, <1>5, AboveClosed
  <2>2. ASSUME NEW n \in T
        PROVE  parent[n] \in T
    <3>1. parent'[n] = parent[n] /\ parent[n] \in S
      BY <1>2
    <3>2. parent[n] \in Above(p) \cup {NIL}
      BY AboveClosed
    <3> QED  BY <1>1, <3>1, <3>2
  <2> HIDE DEF T
  <2>3. T \in SUBSET Nodes
    BY DEF T
  <2> QED  BY <1>3, <2>1, <2>2, <2>3
<1> QED  BY <1>4, <1>5

\* p gets the list r: the nodes in `gone` left it, the loose ones in B joined it.
LEMMA NewListKeepsIInv ==
    ASSUME IInv,
           NEW p \in Parents \ broken, p \in made \cup Docs,
           NEW B \in SUBSET Nodes, NEW gone \in SUBSET Elems(children[p]),
           \A n \in B : parent[n] = NIL, B \cap Above(p) = {},
           NEW r \in Seq(Nodes), IsDuplicateFree(r),
           Elems(r) = (Elems(children[p]) \ gone) \cup B,
           p \in Docs => HasOneRoot(r),
           children' = [children EXCEPT ![p] = r],
           parent' = [n \in Nodes |-> IF n \in B THEN p
                                     ELSE IF n \in gone THEN NIL ELSE parent[n]],
           made' = made \cup B, broken' = broken, outcome' \in Outcomes
    PROVE  IInv'
<1> DEFINE s == children[p]
           kept == Elems(s) \ gone
<1>1. s \in Seq(Nodes)
  BY DEF IInv, TypeOK
<1>2. \A q \in Parents : children[q] \in Seq(Nodes) /\ IsDuplicateFree(children[q])
  BY DEF IInv, TypeOK, PointersAgree
<1>3. \A q \in Parents : \A n \in Elems(children[q]) : parent[n] = q
  BY DEF IInv, PointersAgree, Elems
<1> HIDE DEF s
<1>7. gone \subseteq Elems(s) /\ kept \subseteq Elems(s) /\ Elems(s) \subseteq gone \cup kept
      /\ gone \cap kept = {}
  BY DEF s
<1>9. Elems(r) = kept \cup B
  BY DEF s
<1>10. \A n \in Elems(s) : parent[n] = p
  BY <1>3 DEF s
<1>11. NIL \notin Parents /\ NIL \notin Nodes /\ p # NIL
  BY NilIsNothing
<1>12. B \cap Elems(s) = {}
  BY <1>10, <1>11
<1>13. Elems(s) \in SUBSET Nodes
  BY <1>1 DEF Elems
<1>14. /\ \A n \in B : parent'[n] = p
       /\ \A n \in gone : parent'[n] = NIL
       /\ \A n \in Nodes : n \notin B /\ n \notin gone => parent'[n] = parent[n]
  BY <1>7, <1>12, <1>13
<1>16. /\ children'[p] = r
       /\ \A q \in Parents \ {p} : children'[q] = children[q]
       /\ children' \in [Parents -> Seq(Nodes)]
  <2>1. children \in [Parents -> Seq(Nodes)]
    BY DEF IInv, TypeOK
  <2> QED  BY <2>1
<1> HIDE DEF kept
<1>17. TypeOK'
  <2>1. made' \in SUBSET Nodes /\ broken' \in SUBSET (Tags \cap made')
    BY DEF IInv, TypeOK
  <2>2. parent' \in [Nodes -> Parents \cup {NIL}]
    <3>1. parent \in [Nodes -> Parents \cup {NIL}]
      BY DEF IInv, TypeOK
    <3> QED  BY <3>1
  <2> QED  BY <1>16, <2>1, <2>2 DEF TypeOK
<1>18. PointersAgree'
  <2>1. ASSUME NEW q \in Parents, NEW n \in Elems(children'[q])
        PROVE  parent'[n] = q
    <3>1. CASE q = p
      <4>1. n \in kept \cup B
        BY <1>9, <1>16, <3>1
      <4>2. CASE n \in B
        BY <1>14, <3>1, <4>2
      <4>3. CASE n \in kept
        BY <1>7, <1>10, <1>12, <1>13, <1>14, <3>1, <4>3
      <4> QED  BY <4>1, <4>2, <4>3
    <3>2. CASE q # p
      <4>1. n \in Elems(children[q])
        BY <1>16, <3>2
      <4>2. parent[n] = q /\ n \in Nodes
        BY <1>2, <1>3, <4>1 DEF Elems
      <4>3. n \notin B /\ n \notin gone
        BY <1>7, <1>10, <1>11, <3>2, <4>2
      <4> QED  BY <1>14, <4>2, <4>3
    <3> QED  BY <3>1, <3>2
  <2>2. ASSUME NEW q \in Parents, NEW k \in DOMAIN children'[q]
        PROVE  parent'[children'[q][k]] = q
    BY <2>1 DEF Elems
  <2>3. ASSUME NEW q \in Parents
        PROVE  IsDuplicateFree(children'[q])
    BY <1>2, <1>16
  <2>4. ASSUME NEW n \in Nodes, parent'[n] \in Parents \ broken
        PROVE  n \in Elems(children'[parent'[n]])
    <3>1. CASE n \in B
      BY <1>9, <1>14, <1>16, <3>1
    <3>2. CASE n \notin B
      <4>1. n \notin gone
        BY <1>11, <1>14, <2>4
      <4>2. parent'[n] = parent[n]
        BY <1>14, <3>2, <4>1
      <4>3. n \in Elems(children[parent[n]])
        BY <2>4, <4>2 DEF IInv, PointersAgree
      <4>4. CASE parent[n] = p
        <5>1. n \in kept
          BY <1>7, <4>1, <4>3, <4>4 DEF s
        <5> QED  BY <1>9, <1>16, <4>2, <4>4, <5>1
      <4>5. CASE parent[n] # p
        BY <1>16, <2>4, <4>2, <4>3, <4>5
      <4> QED  BY <4>4, <4>5
    <3> QED  BY <3>1, <3>2
  <2> QED  BY <2>2, <2>3, <2>4 DEF PointersAgree
<1>19. FreshUnlinked'
  <2>1. ASSUME NEW n \in Nodes \ made'
        PROVE  parent'[n] = NIL
    BY <1>14 DEF IInv, FreshUnlinked
  <2>2. ASSUME NEW t \in Tags \ made'
        PROVE  children'[t] = <<>>
    <3>1. t # p /\ t \in Parents \ {p}
      BY KindsAreDisjoint DEF Parents
    <3> QED  BY <1>16, <3>1 DEF IInv, FreshUnlinked
  <2> QED  BY <2>1, <2>2 DEF FreshUnlinked
<1>20. BrokenListNothing'
  BY <1>16 DEF IInv, BrokenListNothing, TypeOK, Parents
<1>21. PointersGrounded'
  BY <1>14, GraftGrounded
<1>22. OneRoot'
  <2> SUFFICES ASSUME NEW d \in Docs
               PROVE  HasOneRoot(children'[d])
    BY DEF OneRoot, HasOneRoot
  <2>1. CASE d = p
    <3>1. HasOneRoot(r)
      BY <2>1
    <3> QED  BY <1>16, <2>1, <3>1
  <2>2. CASE d # p
    <3>1. HasOneRoot(children[d])
      BY DEF IInv, OneRoot, HasOneRoot
    <3>2. children'[d] = children[d]
      BY <1>16, <2>2 DEF Parents
    <3> QED  BY <3>1, <3>2
  <2> QED  BY <2>1, <2>2
<1> QED  BY <1>17, <1>18, <1>19, <1>20, <1>21, <1>22 DEF IInv

\* Loose nodes take the place of p's children from i to j.
LEMMA ChangeKeepsIInv ==
    ASSUME IInv,
           NEW p \in Parents \ broken, p \in made \cup Docs,
           NEW i \in 0..Len(children[p]), NEW j \in i..Len(children[p]),
           NEW block \in Seq(Nodes), IsDuplicateFree(block),
           \A n \in Elems(block) : parent[n] = NIL,
           Elems(block) \cap Above(p) = {},
           p \in Docs => HasOneRoot(SliceAssign(children[p], i, j, block)),
           Change(p, i, j, block),
           made' = made \cup Elems(block), broken' = broken, outcome' \in Outcomes
    PROVE  IInv'
<1> DEFINE s == children[p]
           r == SliceAssign(s, i, j, block)
           B == Elems(block)
           gone == {s[k] : k \in (i + 1)..j}
           kept == {s[k] : k \in 1..i} \cup {s[k] : k \in (j + 1)..Len(s)}
<1>1. /\ s \in Seq(Nodes) /\ i \in 0..Len(s) /\ j \in i..Len(s)
      /\ DOMAIN s = 1..Len(s)
  BY DEF IInv, TypeOK
<1>2. \A q \in Parents : children[q] \in Seq(Nodes) /\ IsDuplicateFree(children[q])
  BY DEF IInv, TypeOK, PointersAgree
<1>3. \A q \in Parents : \A n \in Elems(children[q]) : parent[n] = q
  BY DEF IInv, PointersAgree, Elems
<1>4. B \in SUBSET Nodes /\ block \in Seq(Nodes)
  BY DEF Elems
<1>5. /\ children' = [children EXCEPT ![p] = r]
      /\ parent' = [n \in Nodes |-> IF n \in B THEN p
                                    ELSE IF n \in Elems(Slice(s, i, j)) THEN NIL
                                    ELSE parent[n]]
  BY DEF Change, PointersAfter
<1> HIDE DEF s, B
<1>6. /\ r \in Seq(Nodes)
      /\ Elems(r) = {s[k] : k \in 1..i} \cup B \cup {s[k] : k \in (j + 1)..Len(s)}
      /\ Elems(Slice(s, i, j)) = gone
  <2>1. r \in Seq(Nodes)
    BY <1>1, <1>4, SliceAssignMembers
  <2>2. Elems(r) = {s[k] : k \in 1..i} \cup B \cup {s[k] : k \in (j + 1)..Len(s)}
    BY <1>1, <1>4, SliceAssignElems DEF B
  <2>3. Elems(Slice(s, i, j)) = gone
    BY <1>1, SliceElems
  <2> QED  BY <2>1, <2>2, <2>3
<1>7. gone \subseteq Elems(s) /\ kept \subseteq Elems(s) /\ Elems(s) \subseteq gone \cup kept
  BY <1>1 DEF Elems
<1>8. gone \cap kept = {}
  <2>1. IsDuplicateFree(s)
    BY <1>2 DEF s
  <2>2. ASSUME NEW k \in (i + 1)..j, NEW m \in 1..Len(s), m <= i \/ m > j
        PROVE  s[k] # s[m]
    <3>1. k \in DOMAIN s /\ m \in DOMAIN s /\ k # m
      BY <1>1, <2>2
    <3> QED  BY <2>1, <3>1 DEF IsDuplicateFree
  <2>3. \A m \in 1..i : m \in 1..Len(s) /\ m <= i
    BY <1>1
  <2>4. \A m \in (j + 1)..Len(s) : m \in 1..Len(s) /\ m > j
    BY <1>1
  <2> QED  BY <2>2, <2>3, <2>4
<1>9. Elems(r) = (Elems(s) \ gone) \cup B
  BY <1>6, <1>7, <1>8
<1>10. B \cap Elems(s) = {}
  <2>1. \A n \in Elems(s) : parent[n] = p
    BY <1>3 DEF s
  <2> QED  BY <2>1, NilIsNothing DEF B
<1>11. IsDuplicateFree(r)
  <2>1. \A k \in 1..i : s[k] \notin B
    BY <1>7, <1>10
  <2>2. \A k \in (j + 1)..Len(s) : s[k] \notin B
    BY <1>7, <1>10
  <2>3. IsDuplicateFree(s)
    BY <1>2 DEF s
  <2> QED  BY <1>1, <2>1, <2>2, <2>3, SliceAssignDuplicateFree DEF B
<1>12. /\ p \in Docs => HasOneRoot(r)
       /\ \A n \in B : parent[n] = NIL
       /\ B \cap Above(p) = {} /\ made' = made \cup B
  BY DEF B, s
<1>13. parent' = [n \in Nodes |-> IF n \in B THEN p ELSE IF n \in gone THEN NIL ELSE parent[n]]
  BY <1>5, <1>6
<1>14. gone \in SUBSET Elems(children[p]) /\ Elems(r) = (Elems(children[p]) \ gone) \cup B
  BY <1>7, <1>9 DEF s
<1>15. B \in SUBSET Nodes /\ r \in Seq(Nodes) /\ children' = [children EXCEPT ![p] = r]
  BY <1>4, <1>5, <1>6
<1> HIDE DEF r, gone, kept
<1> QED  BY <1>11, <1>12, <1>13, <1>14, <1>15, NewListKeepsIInv

-----------------------------------------------------------------------------
(* The calls that add and remove *)

LEMMA UnchangedKeepsIInv ==
    ASSUME IInv, outcome' \in Outcomes, UNCHANGED <<made, broken, parent, children>>
    PROVE  IInv'
  BY DEF IInv, TypeOK, PointersAgree, FreshUnlinked, BrokenListNothing,
         PointersGrounded, OneRoot

LEMMA RaiseKeepsIInv ==
    ASSUME IInv, NEW exception \in Outcomes, Raise(exception)
    PROVE  IInv'
  BY UnchangedKeepsIInv DEF Raise

LEMMA RemoveKeepsIInv ==
    ASSUME IInv,
           NEW p \in Parents \ broken, p \in made \cup Docs,
           NEW I \in SUBSET DOMAIN children[p],
           p \in Docs => \A i \in I : children[p][i] \notin Tags,
           Remove(p, I)
    PROVE  IInv'
<1> DEFINE s == children[p]
           r == Without(s, I)
           gone == {s[i] : i \in I}
           B == {}
<1>1. s \in Seq(Nodes) /\ IsDuplicateFree(s)
  BY DEF IInv, TypeOK, PointersAgree
<1>2. /\ r \in Seq(Nodes) /\ IsDuplicateFree(r)
      /\ Elems(r) = {s[i] : i \in DOMAIN s \ I}
  <2> HIDE DEF s
  <2> QED  BY <1>1, WithoutElems
<1>3. gone \in SUBSET Elems(s)
  BY DEF Elems
<1>4. Elems(r) = (Elems(s) \ gone) \cup B
  <2>1. \A i \in I : i \in DOMAIN s
    OBVIOUS
  <2>2. \A i, k \in DOMAIN s : s[i] = s[k] => i = k
    BY <1>1 DEF IsDuplicateFree
  <2> HIDE DEF s
  <2>3. {s[i] : i \in DOMAIN s \ I} = {s[i] : i \in DOMAIN s} \ {s[i] : i \in I}
    BY <2>1, <2>2
  <2> HIDE DEF r
  <2> QED  BY <1>2, <2>3 DEF Elems
<1>5. /\ children' = [children EXCEPT ![p] = r]
      /\ parent' = [n \in Nodes |-> IF n \in B THEN p ELSE IF n \in gone THEN NIL ELSE parent[n]]
      /\ made' = made \cup B /\ broken' = broken
      /\ outcome' \in Outcomes
  BY DEF Remove, Outcomes
<1>6. p \in Docs => HasOneRoot(r)
  <2> SUFFICES ASSUME p \in Docs
               PROVE  HasOneRoot(r)
    OBVIOUS
  <2>1. HasOneRoot(s) /\ \A i \in I : s[i] \notin Tags
    BY DEF IInv, OneRoot, HasOneRoot
  <2> HIDE DEF s
  <2> QED  BY <1>1, <2>1, RootIsKept
<1>7. B \in SUBSET Nodes /\ (\A n \in B : parent[n] = NIL) /\ B \cap Above(p) = {}
  OBVIOUS
<1> HIDE DEF r, gone, B
<1> QED  BY <1>2, <1>3, <1>4, <1>5, <1>6, <1>7, NewListKeepsIInv

LEMMA RefusalCases ==
    ASSUME NEW p, NEW S, NEW n, NEW copies
    PROVE  /\ Refusal(p, S, n, copies) \in Outcomes
           /\ Refusal(p, S, n, copies) = "ok" => ~SecondRoot(p, S, n) /\ ~Attached(S, n)
  BY DEF Refusal, Outcomes

\* The nodes that are accepted are loose and distinct, and no second root.
LEMMA Accepted ==
    ASSUME IInv, NEW p \in Parents, NEW q \in Seq(Nodes), NEW k \in 0..Len(q),
           NEW copies, StopsAfter(k, p, q, copies)
    PROVE  /\ IsDuplicateFree(SubSeq(q, 1, k))
           /\ \A n \in Elems(SubSeq(q, 1, k)) : parent[n] = NIL
           /\ p \in Docs => Elems(SubSeq(q, 1, k)) \cap Tags = {}
<1> DEFINE placed == SubSeq(q, 1, k)
           Before(m) == Elems(SubSeq(q, 1, m - 1))
<1>1. \A m \in 1..k : /\ parent[q[m]] = NIL
                      /\ q[m] \notin Before(m)
                      /\ ~SecondRoot(p, Before(m), q[m])
  BY RefusalCases DEF StopsAfter, Attached
<1>2. /\ placed \in Seq(Nodes) /\ Len(placed) = k
      /\ \A m \in 1..k : placed[m] = q[m]
      /\ Elems(placed) = {q[m] : m \in 1..k}
  BY Prefix
<1>3. \A m \in 1..k : \A o \in 1..(m - 1) : q[o] \in Before(m)
  <2> TAKE m \in 1..k
  <2>1. m - 1 \in 0..Len(q)
    OBVIOUS
  <2> HIDE DEF placed
  <2>2. Before(m) = {q[o] : o \in 1..(m - 1)}
    BY <2>1, Prefix
  <2> QED  BY <2>2
<1> HIDE DEF placed, Before
<1>4. ASSUME NEW m \in 1..k, NEW o \in 1..k, placed[m] = placed[o]
      PROVE  m = o
  <2>1. q[m] = q[o]
    BY <1>2, <1>4
  <2>2. ~(m < o) /\ ~(o < m)
    BY <1>1, <1>3, <2>1
  <2> QED  BY <2>2
<1>5. IsDuplicateFree(placed)
  BY <1>2, <1>4 DEF IsDuplicateFree
<1>6. ASSUME p \in Docs, NEW m \in 1..k
      PROVE  q[m] \notin Tags
  <2>1. Elems(children[p]) \cap Tags # {}
    BY <1>6 DEF IInv, OneRoot, Elems
  <2> QED  BY <1>1, <1>6, <2>1 DEF SecondRoot
<1> QED  BY <1>1, <1>2, <1>5, <1>6 DEF placed

LEMMA PlaceKeepsIInv ==
    ASSUME IInv,
           NEW p \in Parents \ broken, p \in made \cup Docs,
           NEW i \in 0..Len(children[p]),
           NEW q \in Seq(Nodes), Elems(q) \cap Above(p) = {},
           NEW copies, NEW turned \in BOOLEAN,
           Place(p, i, q, copies, turned)
    PROVE  IInv'
<1>1. PICK k \in 0..Len(q) :
        /\ StopsAfter(k, p, q, copies)
        /\ Change(p, i, i, IF turned THEN Backwards(SubSeq(q, 1, k)) ELSE SubSeq(q, 1, k))
        /\ made' = made \cup Elems(SubSeq(q, 1, k))
        /\ outcome' = IF k = Len(q) THEN "ok"
                      ELSE Refusal(p, Elems(SubSeq(q, 1, k)), q[k + 1], copies)
        /\ UNCHANGED broken
  BY DEF Place
<1> DEFINE placed == SubSeq(q, 1, k)
           block == IF turned THEN Backwards(placed) ELSE placed
<1>2. placed \in Seq(Nodes) /\ Elems(placed) \subseteq Elems(q)
  BY Prefix
<1>3. /\ IsDuplicateFree(placed)
      /\ \A n \in Elems(placed) : parent[n] = NIL
      /\ p \in Docs => Elems(placed) \cap Tags = {}
  BY <1>1, Accepted
<1>4. outcome' \in Outcomes
  BY <1>1, RefusalCases DEF Outcomes
<1>5. Change(p, i, i, block) /\ made' = made \cup Elems(placed) /\ broken' = broken
  BY <1>1
<1> HIDE DEF placed
<1>6. block \in Seq(Nodes) /\ Elems(block) = Elems(placed) /\ IsDuplicateFree(block)
  BY <1>2, <1>3, BackwardsProperties
<1> HIDE DEF block
<1>7. children[p] \in Seq(Nodes) /\ i \in i..Len(children[p])
  BY DEF IInv, TypeOK
<1>8. ASSUME p \in Docs
      PROVE  HasOneRoot(SliceAssign(children[p], i, i, block))
  <2>1. HasOneRoot(children[p])
    BY <1>8 DEF IInv, OneRoot, HasOneRoot
  <2>2. Elems(block) \cap Tags = {}
    BY <1>3, <1>6, <1>8
  <2> QED  BY <1>6, <1>7, <2>1, <2>2, RootStays
<1> QED  BY <1>2, <1>3, <1>4, <1>5, <1>6, <1>7, <1>8, ChangeKeepsIInv

\* One node that was accepted takes the place of p's children from i to j.
LEMMA ExchangeKeepsIInv ==
    ASSUME IInv,
           NEW p \in Parents \ broken, p \in made \cup Docs,
           NEW i \in 0..Len(children[p]), NEW j \in i..Len(children[p]),
           NEW n \in Nodes, parent[n] = NIL, n \notin Above(p),
           p \in Docs => HasOneRoot(SliceAssign(children[p], i, j, <<n>>)),
           Change(p, i, j, <<n>>),
           made' = made \cup {n}, broken' = broken, outcome' \in Outcomes
    PROVE  IInv'
<1> DEFINE block == <<n>>
<1>1. block \in Seq(Nodes) /\ Elems(block) = {n} /\ IsDuplicateFree(block)
  BY Singleton
<1>2. p \in Docs => HasOneRoot(SliceAssign(children[p], i, j, block))
  OBVIOUS
<1>3. Change(p, i, j, block)
  OBVIOUS
<1> HIDE DEF block
<1> QED  BY <1>1, <1>2, <1>3, ChangeKeepsIInv

-----------------------------------------------------------------------------
(* Retaining children, building and copying *)

LEMMA LiftKeepsIInv ==
    ASSUME IInv, NEW n \in Tags, parent[n] \in Tags \ broken, Lift(n)
    PROVE  IInv'
<1> DEFINE p == parent[n]
           s == children[p]
           c == children[n]
           i == Position(n)
           h == i - 1
           r == SliceAssign(s, h, i, c)
<1>1. n \in Nodes /\ n \in Parents /\ p \in Parents \ broken /\ p \in Nodes
  BY DEF Nodes, Parents
<1>2. i \in 1..Len(s) /\ s[i] = n
  BY <1>1, PositionFound
<1>3. /\ children \in [Parents -> Seq(Nodes)] /\ parent \in [Nodes -> Parents \cup {NIL}]
      /\ s \in Seq(Nodes) /\ c \in Seq(Nodes)
  BY <1>1 DEF IInv, TypeOK
<1>4. p # n
  <2>1. ASSUME p = n
        PROVE  FALSE
    <3>1. {n} \in SUBSET Nodes /\ {n} # {} /\ \A m \in {n} : parent[m] \in {n}
      BY <1>1, <2>1
    <3> QED  BY <3>1 DEF IInv, PointersGrounded
  <2> QED  BY <2>1
<1>5. /\ children' = [children EXCEPT ![p] = r, ![n] = <<>>]
      /\ parent' = [m \in Nodes |-> IF m = n THEN NIL
                                    ELSE IF m \in Elems(c) THEN p ELSE parent[m]]
      /\ outcome' = "ok" /\ made' = made /\ broken' = broken
  BY DEF Lift, ListsAfterLift
<1>6. \A q \in Parents : /\ \A m \in Elems(children[q]) : parent[m] = q
                         /\ IsDuplicateFree(children[q])
  BY DEF IInv, PointersAgree, Elems
<1>7. /\ \A m \in Elems(s) : parent[m] = p
      /\ \A m \in Elems(c) : parent[m] = n
      /\ IsDuplicateFree(s) /\ IsDuplicateFree(c)
  BY <1>1, <1>6
<1>8. h \in 0..Len(s) /\ i \in h..Len(s) /\ h + 1 = i
  BY <1>2, <1>3
<1> HIDE DEF s, c, h, i
<1>9. /\ r \in Seq(Nodes)
      /\ Elems(r) = {s[k] : k \in 1..h} \cup Elems(c) \cup {s[k] : k \in (i + 1)..Len(s)}
  <2>1. r \in Seq(Nodes)
    BY <1>3, <1>8, SliceAssignMembers
  <2>2. s \in Seq(Nodes) /\ c \in Seq(Nodes) /\ h \in 0..Len(s) /\ i \in h..Len(s)
    BY <1>3, <1>8
  <2>3. Elems(r) = {s[k] : k \in 1..h} \cup Elems(c) \cup {s[k] : k \in (i + 1)..Len(s)}
    BY <2>2, SliceAssignElems
  <2> QED  BY <2>1, <2>3
<1>10. Elems(s) \cap Elems(c) = {}
  BY <1>4, <1>7
<1>11. \A k \in 1..Len(s) : s[k] \in Elems(s) /\ (k # i <=> s[k] # n)
  <2>1. DOMAIN s = 1..Len(s)
    BY <1>3
  <2> QED  BY <1>2, <1>7, <2>1 DEF Elems, IsDuplicateFree
<1>12. Elems(r) = (Elems(s) \ {n}) \cup Elems(c)
  <2>1. \A k \in 1..h : k \in 1..Len(s) /\ k # i
    BY <1>3, <1>8
  <2>2. \A k \in (i + 1)..Len(s) : k \in 1..Len(s) /\ k # i
    BY <1>3, <1>8
  <2>3. \A k \in 1..Len(s) : k # i => k \in 1..h \/ k \in (i + 1)..Len(s)
    BY <1>3, <1>8
  <2>4. Elems(s) = {s[k] : k \in 1..Len(s)}
    <3>1. DOMAIN s = 1..Len(s)
      BY <1>3
    <3> QED  BY <3>1 DEF Elems
  <2>5. n \notin Elems(c)
    BY <1>2, <1>10, <1>11
  <2>6. Elems(s) \ {n} \subseteq {s[k] : k \in 1..h} \cup {s[k] : k \in (i + 1)..Len(s)}
    BY <1>11, <2>3, <2>4
  <2>7. {s[k] : k \in 1..h} \cup {s[k] : k \in (i + 1)..Len(s)} \subseteq Elems(s) \ {n}
    BY <1>11, <2>1, <2>2
  <2> QED  BY <1>9, <2>6, <2>7
<1>13. IsDuplicateFree(r)
  <2>1. \A k \in 1..h : s[k] \notin Elems(c)
    BY <1>3, <1>8, <1>10, <1>11
  <2>2. \A k \in (i + 1)..Len(s) : s[k] \notin Elems(c)
    BY <1>3, <1>8, <1>10, <1>11
  <2> QED  BY <1>3, <1>7, <1>8, <2>1, <2>2, SliceAssignDuplicateFree
<1>14. Elems(s) \subseteq Nodes /\ Elems(c) \subseteq Nodes
  BY <1>3 DEF Elems
<1> HIDE DEF r, p
<1>15. /\ children' \in [Parents -> Seq(Nodes)]
       /\ children'[p] = r /\ children'[n] = <<>>
       /\ \A q \in Parents \ {p, n} : children'[q] = children[q]
  <2>1. <<>> \in Seq(Nodes)
    BY EmptyList
  <2> QED  BY <1>1, <1>3, <1>4, <1>5, <1>9, <2>1
<1>16. /\ parent' \in [Nodes -> Parents \cup {NIL}]
       /\ parent'[n] = NIL
       /\ \A m \in Elems(c) : m # n => parent'[m] = p
       /\ \A m \in Nodes : m \notin Elems(c) /\ m # n => parent'[m] = parent[m]
  BY <1>1, <1>3, <1>5, <1>14
<1>17. n \notin Elems(c) /\ n \in Elems(s)
  BY <1>2, <1>4, <1>7, <1>10, <1>11 DEF p
<1>18. NIL \notin Parents /\ NIL \notin Nodes
  BY NilIsNothing
<1>19. TypeOK'
  BY <1>5, <1>15, <1>16 DEF IInv, TypeOK, Outcomes
<1>20. PointersAgree'
  <2>1. ASSUME NEW q \in Parents, NEW m \in Elems(children'[q])
        PROVE  parent'[m] = q
    <3>1. CASE q = p
      BY <1>7, <1>12, <1>14, <1>15, <1>16, <1>17, <1>10, <3>1
    <3>2. CASE q = n
      <4>1. Elems(children'[q]) = {}
        BY <1>15, <3>2, EmptyList
      <4> QED  BY <4>1
    <3>3. CASE q # p /\ q # n
      <4>1. m \in Elems(children[q]) /\ parent[m] = q /\ m \in Nodes
        BY <1>3, <1>6, <1>15, <3>3 DEF Elems
      <4>2. m # n /\ m \notin Elems(c)
        BY <1>7, <1>17, <3>3, <4>1
      <4> QED  BY <1>16, <4>1, <4>2
    <3> QED  BY <3>1, <3>2, <3>3
  <2>2. ASSUME NEW q \in Parents, NEW k \in DOMAIN children'[q]
        PROVE  parent'[children'[q][k]] = q
    BY <2>1 DEF Elems
  <2>3. ASSUME NEW q \in Parents
        PROVE  IsDuplicateFree(children'[q])
    BY <1>6, <1>13, <1>15, EmptyList
  <2>4. ASSUME NEW m \in Nodes, parent'[m] \in Parents \ broken
        PROVE  m \in Elems(children'[parent'[m]])
    <3>1. m # n
      BY <1>16, <1>18, <2>4
    <3>2. CASE m \in Elems(c)
      BY <1>12, <1>15, <1>16, <3>1, <3>2
    <3>3. CASE m \notin Elems(c)
      <4>1. parent'[m] = parent[m]
        BY <1>16, <3>1, <3>3
      <4>2. m \in Elems(children[parent[m]])
        BY <2>4, <4>1 DEF IInv, PointersAgree
      <4>3. parent[m] # n
        BY <3>3, <4>2 DEF c
      <4>4. CASE parent[m] = p
        BY <1>12, <1>15, <3>1, <4>1, <4>2, <4>4 DEF s
      <4>5. CASE parent[m] # p
        BY <1>15, <2>4, <4>1, <4>2, <4>3, <4>5
      <4> QED  BY <4>4, <4>5
    <3> QED  BY <3>2, <3>3
  <2> QED  BY <1>5, <2>2, <2>3, <2>4 DEF PointersAgree
<1>21. FreshUnlinked'
  <2>1. n \in made /\ p \in made
    <3>1. n \in made
      BY <1>1, <1>18 DEF IInv, FreshUnlinked, p
    <3>2. p \in made
      <4>1. s # <<>>
        BY <1>17, EmptyList
      <4>2. p \in Tags
        BY DEF p
      <4> QED  BY <4>1, <4>2 DEF IInv, FreshUnlinked, s
    <3> QED  BY <3>1, <3>2
  <2>2. ASSUME NEW m \in Nodes \ made
        PROVE  parent'[m] = NIL
    <3>1. m # n /\ parent[m] = NIL
      BY <2>1, <2>2 DEF IInv, FreshUnlinked
    <3>2. m \notin Elems(c)
      BY <1>1, <1>7, <1>18, <3>1
    <3> QED  BY <1>16, <3>1, <3>2
  <2>3. ASSUME NEW t \in Tags \ made
        PROVE  children'[t] = <<>>
    <3>1. t \in Parents \ {p, n}
      BY <2>1, <2>3 DEF Parents
    <3> QED  BY <1>15, <3>1 DEF IInv, FreshUnlinked
  <2> QED  BY <1>5, <2>2, <2>3 DEF FreshUnlinked
<1>22. BrokenListNothing'
  <2>1. ASSUME NEW t \in broken
        PROVE  children'[t] = <<>>
    <3>1. t \in Parents /\ t # p
      BY <1>1, <2>1 DEF IInv, TypeOK, Parents
    <3> QED  BY <1>15, <2>1, <3>1 DEF IInv, BrokenListNothing
  <2> QED  BY <1>5, <2>1 DEF BrokenListNothing
<1>23. PointersGrounded'
  <2> SUFFICES ASSUME NEW S \in SUBSET Nodes, S # {}, \A m \in S : parent'[m] \in S
               PROVE  FALSE
    BY DEF PointersGrounded
  <2>1. n \notin S
    BY <1>16, <1>18
  <2>2. ASSUME NEW T \in SUBSET Nodes, T # {}, \A m \in T : parent[m] \in T
        PROVE  FALSE
    BY <2>2 DEF IInv, PointersGrounded
  <2>3. CASE S \cap Elems(c) = {}
    BY <1>16, <2>1, <2>2, <2>3
  <2>4. CASE S \cap Elems(c) # {}
    <3> DEFINE T == S \cup {n}
    <3>1. p \in S
      BY <1>16, <1>17, <2>4
    <3>2. \A m \in S : parent[m] \in T
      BY <1>7, <1>16, <2>1
    <3>3. parent[n] \in T
      BY <3>1 DEF p
    <3>4. T \in SUBSET Nodes /\ T # {} /\ \A m \in T : parent[m] \in T
      BY <1>1, <3>2, <3>3
    <3> HIDE DEF T
    <3> QED  BY <2>2, <3>4
  <2> QED  BY <2>3, <2>4
<1>24. OneRoot'
  <2>1. \A d \in Docs : d \in Parents \ {p, n}
    BY KindsAreDisjoint DEF Parents, p
  <2>2. \A d \in Docs : children'[d] = children[d]
    BY <1>15, <2>1
  <2> QED  BY <2>2 DEF IInv, OneRoot
<1> QED  BY <1>19, <1>20, <1>21, <1>22, <1>23, <1>24 DEF IInv

LEMMA NewTagKeepsIInv ==
    ASSUME IInv, NEW t \in Tags \ made, NEW ns \in Seq(Nodes), t \notin Elems(ns),
           NewTag(t, ns)
    PROVE  IInv'
<1>1. PICK k \in 0..Len(ns) :
        /\ StopsAfter(k, t, ns, {})
        /\ parent' = [n \in Nodes |-> IF n \in Elems(SubSeq(ns, 1, k)) THEN t
                                      ELSE parent[n]]
        /\ made' = made \cup Constructed(t, SubSeq(ns, 1, k))
        /\ IF k = Len(ns)
           THEN /\ children' = [children EXCEPT ![t] = ns]
                /\ outcome' = "ok"
                /\ UNCHANGED broken
           ELSE /\ broken' = broken \cup {t}
                /\ outcome' = Refusal(t, Elems(SubSeq(ns, 1, k)), ns[k + 1], {})
                /\ UNCHANGED children
  BY DEF NewTag
<1> DEFINE placed == SubSeq(ns, 1, k)
           P == Elems(placed)
<1>2. t \in Parents /\ t \in Nodes
  BY DEF Parents, Nodes
<1>3. P \subseteq Elems(ns) /\ P \subseteq Nodes /\ (k = Len(ns) => placed = ns)
  <2>1. placed \in Seq(Nodes) /\ P \subseteq Elems(ns)
    BY Prefix
  <2>2. k = Len(ns) => placed = ns
    BY SubSeqFull
  <2> QED  BY <2>1, <2>2 DEF Elems
<1>4. IsDuplicateFree(placed) /\ \A n \in P : parent[n] = NIL
  BY <1>1, <1>2, Accepted
<1>5. /\ parent' = [n \in Nodes |-> IF n \in P THEN t ELSE parent[n]]
      /\ made' = made \cup {t} \cup P
      /\ k = Len(ns) => /\ children' = [children EXCEPT ![t] = placed]
                        /\ broken' = broken
      /\ k # Len(ns) => broken' = broken \cup {t} /\ children' = children
  BY <1>1, <1>3 DEF Constructed
<1>6. outcome' \in Outcomes
  BY <1>1, RefusalCases DEF Outcomes
<1>7. placed \in Seq(Nodes)
  BY Prefix
<1> HIDE DEF P, placed
<1>8. /\ parent[t] = NIL /\ children[t] = <<>> /\ t \notin broken
      /\ \A n \in Nodes : parent[n] # t
  <2>1. ASSUME NEW n \in Nodes, parent[n] = t
        PROVE  FALSE
    <3>1. t \in made \cup Docs
      BY <1>2, <2>1, ParentsExist, NilIsNothing
    <3> QED  BY <3>1, KindsAreDisjoint
  <2> QED  BY <1>2, <2>1 DEF IInv, FreshUnlinked, TypeOK
<1>9. NIL \notin Parents /\ NIL \notin Nodes
  BY NilIsNothing
<1>10. \A q \in Parents : \A n \in Elems(children[q]) : parent[n] = q /\ n \in Nodes
  BY DEF IInv, TypeOK, PointersAgree, Elems
<1>11. /\ children' \in [Parents -> Seq(Nodes)]
       /\ \A q \in Parents \ {t} : children'[q] = children[q]
       /\ children'[t] = IF k = Len(ns) THEN placed ELSE <<>>
  <2>1. children \in [Parents -> Seq(Nodes)]
    BY DEF IInv, TypeOK
  <2> QED  BY <1>2, <1>5, <1>7, <1>8, <2>1
<1>12. TypeOK'
  <2>1. parent' \in [Nodes -> Parents \cup {NIL}]
    BY <1>2, <1>5 DEF IInv, TypeOK
  <2>2. made' \in SUBSET Nodes /\ broken' \in SUBSET (Tags \cap made')
    BY <1>2, <1>3, <1>5 DEF IInv, TypeOK
  <2> QED  BY <1>6, <1>11, <2>1, <2>2 DEF TypeOK
<1>13. PointersAgree'
  <2>1. ASSUME NEW q \in Parents, NEW n \in Elems(children'[q])
        PROVE  parent'[n] = q
    <3>1. CASE q = t
      <4>1. n \in P
        BY <1>11, <3>1, EmptyList DEF P
      <4> QED  BY <1>3, <1>5, <3>1, <4>1
    <3>2. CASE q # t
      <4>1. parent[n] = q /\ n \in Nodes
        BY <1>10, <1>11, <3>2
      <4>2. n \notin P
        BY <1>4, <1>9, <4>1
      <4> QED  BY <1>5, <4>1, <4>2
    <3> QED  BY <3>1, <3>2
  <2>2. ASSUME NEW q \in Parents, NEW i \in DOMAIN children'[q]
        PROVE  parent'[children'[q][i]] = q
    BY <2>1 DEF Elems
  <2>3. ASSUME NEW q \in Parents
        PROVE  IsDuplicateFree(children'[q])
    <3>1. IsDuplicateFree(children[q])
      BY DEF IInv, PointersAgree
    <3> QED  BY <1>4, <1>11, <3>1, EmptyList
  <2>4. ASSUME NEW n \in Nodes, parent'[n] \in Parents \ broken'
        PROVE  n \in Elems(children'[parent'[n]])
    <3>1. CASE n \in P
      <4>1. parent'[n] = t
        BY <1>5, <3>1
      <4>2. k = Len(ns)
        BY <1>5, <2>4, <4>1
      <4> QED  BY <1>11, <3>1, <4>1, <4>2 DEF P
    <3>2. CASE n \notin P
      <4>1. parent'[n] = parent[n] /\ parent[n] # t
        BY <1>5, <1>8, <3>2
      <4>2. parent[n] \in Parents \ broken
        BY <1>5, <2>4, <4>1
      <4>3. n \in Elems(children[parent[n]])
        BY <4>2 DEF IInv, PointersAgree
      <4> QED  BY <1>11, <4>1, <4>2, <4>3
    <3> QED  BY <3>1, <3>2
  <2> QED  BY <2>2, <2>3, <2>4 DEF PointersAgree
<1>14. FreshUnlinked'
  <2>1. ASSUME NEW n \in Nodes \ made'
        PROVE  parent'[n] = NIL
    BY <1>5 DEF IInv, FreshUnlinked
  <2>2. ASSUME NEW u \in Tags \ made'
        PROVE  children'[u] = <<>>
    BY <1>5, <1>11 DEF IInv, FreshUnlinked, Parents
  <2> QED  BY <2>1, <2>2 DEF FreshUnlinked
<1>15. BrokenListNothing'
  <2>1. ASSUME NEW u \in broken'
        PROVE  children'[u] = <<>>
    <3>1. CASE u \in broken
      BY <1>8, <1>11, <3>1 DEF IInv, BrokenListNothing, TypeOK, Parents
    <3>2. CASE u \notin broken
      BY <1>5, <1>11, <2>1, <3>2
    <3> QED  BY <3>1, <3>2
  <2> QED  BY <2>1 DEF BrokenListNothing
<1>16. PointersGrounded'
  <2> SUFFICES ASSUME NEW S \in SUBSET Nodes, S # {}, \A n \in S : parent'[n] \in S
               PROVE  FALSE
    BY DEF PointersGrounded
  <2>1. t \notin P
    BY <1>3
  <2>2. t \notin S
    BY <1>2, <1>5, <1>8, <1>9, <2>1
  <2>3. \A n \in S : parent[n] \in S
    BY <1>5, <2>2
  <2> QED  BY <2>3 DEF IInv, PointersGrounded
<1>17. OneRoot'
  <2>1. \A d \in Docs : children'[d] = children[d]
    BY <1>11, KindsAreDisjoint DEF Parents
  <2> QED  BY <2>1 DEF IInv, OneRoot
<1> QED  BY <1>12, <1>13, <1>14, <1>15, <1>16, <1>17 DEF IInv

\* What may be copied: n alone, or n with everything below it.
LEMMA CloneKeepsIInv ==
    ASSUME IInv, NEW D \in SUBSET Usable, NEW n \in D, NEW deep \in BOOLEAN,
           NEW f \in CopyMaps(D),
           \A m \in D : m = n \/ parent[m] \in D,
           deep => \A m \in D \cap Tags : Elems(children[m]) \subseteq D,
           ~deep => D = {n},
           Clone(n, deep, f)
    PROVE  IInv'
<1> DEFINE copies == {f[m] : m \in D}
           Original(c) == CHOOSE m \in D : f[m] = c
<1>1. /\ f \in [D -> Nodes \ made] /\ DOMAIN f = D
      /\ \A m \in D : SameKind(m, f[m])
      /\ \A m, o \in D : f[m] = f[o] => m = o
  BY DEF CopyMaps
<1>2. D \subseteq Nodes /\ D \subseteq made /\ D \cap broken = {}
  BY DEF IInv, TypeOK, Usable
<1>3. \A m \in D : m \in Tags <=> f[m] \in Tags
  BY <1>1, KindsAreDisjoint DEF SameKind
<1>4. \A m \in D : f[m] \in copies /\ Original(f[m]) = m
  BY <1>1
<1>5. copies \subseteq Nodes \ made
  BY <1>1
<1>6. \A c \in copies : Original(c) \in D /\ f[Original(c)] = c
  BY <1>4
<1>7. /\ made' = made \cup copies /\ broken' = broken /\ outcome' = "ok"
      /\ parent' = [c \in Nodes |-> IF c \in copies /\ Original(c) # n
                                    THEN f[parent[Original(c)]] ELSE parent[c]]
      /\ children' = [p \in Parents |-> IF p \in copies /\ deep
                                        THEN CopiedList(children[Original(p)], f)
                                        ELSE children[p]]
  BY <1>1 DEF Clone
<1> HIDE DEF copies, Original
\* n is not below itself
<1>8. parent[n] \notin D
  <2>1. ASSUME parent[n] \in D
        PROVE  FALSE
    <3>1. \A m \in D : parent[m] \in D
      BY <2>1
    <3> QED  BY <1>2, <3>1 DEF IInv, PointersGrounded
  <2> QED  BY <2>1
<1>9. /\ parent \in [Nodes -> Parents \cup {NIL}] /\ children \in [Parents -> Seq(Nodes)]
      /\ made \subseteq Nodes /\ broken \subseteq Tags \cap made
  BY DEF IInv, TypeOK
<1>10. \A q \in Parents : /\ \A m \in Elems(children[q]) : parent[m] = q /\ m \in Nodes
                          /\ IsDuplicateFree(children[q])
  BY DEF IInv, TypeOK, PointersAgree, Elems
<1>11. NIL \notin Parents /\ NIL \notin Nodes /\ Nodes \cap Parents = Tags
  BY KindsAreDisjoint DEF Nodes, Parents
\* the copies take no part in what there was
<1>12. /\ \A c \in copies : parent[c] = NIL /\ c \notin broken
       /\ \A c \in copies \cap Tags : children[c] = <<>>
       /\ \A m \in Nodes : parent[m] \notin copies
  <2>1. ASSUME NEW m \in Nodes, parent[m] \in copies
        PROVE  FALSE
    <3>1. parent[m] \in made \cup Docs
      BY <1>5, <1>11, <2>1, ParentsExist
    <3> QED  BY <1>5, <2>1, <3>1, KindsAreDisjoint DEF Nodes
  <2> QED  BY <1>5, <1>9, <2>1 DEF IInv, FreshUnlinked
\* the pointers of the copies
<1>13. ASSUME NEW m \in D
       PROVE  parent'[f[m]] = IF m = n THEN NIL ELSE f[parent[m]]
  BY <1>4, <1>5, <1>7, <1>12
<1>14. \A m \in Nodes \ copies : parent'[m] = parent[m]
  BY <1>7
\* the lists of the copies
<1>15. ASSUME deep, NEW m \in D \cap Tags
       PROVE  /\ children'[f[m]] \in Seq(Nodes)
              /\ Elems(children'[f[m]]) = {f[x] : x \in Elems(children[m])}
              /\ IsDuplicateFree(children'[f[m]])
  <2> DEFINE s == children[m]
             r == [i \in DOMAIN s |-> f[s[i]]]
  <2>1. children'[f[m]] = r
    BY <1>3, <1>4, <1>7, <1>15 DEF CopiedList, Parents
  <2>2. s \in Seq(Nodes) /\ Elems(s) \subseteq D /\ IsDuplicateFree(s)
    BY <1>9, <1>10, <1>15 DEF Parents
  <2> HIDE DEF s
  <2>3. \A i \in DOMAIN s : s[i] \in D
    BY <2>2 DEF Elems
  <2>4. \A i \in DOMAIN s : f[s[i]] \in Nodes
    BY <1>1, <2>3
  <2>5. r \in Seq(Nodes) /\ DOMAIN r = DOMAIN s
    <3>1. DOMAIN s = 1..Len(s) /\ Len(s) \in Nat
      BY <2>2
    <3>2. r \in [1..Len(s) -> Nodes]
      BY <2>4, <3>1
    <3> QED  BY <3>1, <3>2
  <2>6. Elems(r) = {f[x] : x \in Elems(s)}
    BY <2>5 DEF Elems
  <2>7. IsDuplicateFree(r)
    BY <1>1, <2>2, <2>3, <2>5 DEF IsDuplicateFree
  <2> QED  BY <2>1, <2>5, <2>6, <2>7 DEF s
<1>16. \A q \in Parents : ~(q \in copies /\ deep) => children'[q] = children[q]
  BY <1>7
\* a copy of a parent is the copy of a tag
<1>17. \A q \in Parents \cap copies : Original(q) \in D \cap Tags
  BY <1>3, <1>5, <1>6, <1>11
<1>18. TypeOK'
  <2>1. ASSUME NEW m \in Nodes
        PROVE  parent'[m] \in Parents \cup {NIL}
    <3>1. CASE m \notin copies
      BY <1>9, <1>14, <3>1
    <3>2. CASE m \in copies
      <4> DEFINE o == Original(m)
      <4>1. o \in D /\ f[o] = m
        BY <1>6, <3>2
      <4>2. CASE o = n
        BY <1>13, <4>1, <4>2
      <4>3. CASE o # n
        <5>1. parent[o] \in D \cap Parents
          BY <1>2, <1>9, <1>11, <4>1, <4>3
        <5>2. f[parent[o]] \in Tags
          BY <1>2, <1>3, <1>11, <5>1
        <5> HIDE DEF o
        <5> QED  BY <1>13, <4>1, <4>3, <5>2 DEF Parents
      <4> QED  BY <4>2, <4>3
    <3> QED  BY <3>1, <3>2
  <2>2. ASSUME NEW q \in Parents
        PROVE  children'[q] \in Seq(Nodes)
    <3>1. CASE q \in copies /\ deep
      BY <1>6, <1>15, <1>17, <3>1
    <3>2. CASE ~(q \in copies /\ deep)
      BY <1>9, <1>16, <3>2
    <3> QED  BY <3>1, <3>2
  <2>3. parent' \in [Nodes -> Parents \cup {NIL}] /\ children' \in [Parents -> Seq(Nodes)]
    <3>1. /\ parent' = [c \in Nodes |-> parent'[c]]
          /\ children' = [q \in Parents |-> children'[q]]
      BY <1>7
    <3> QED  BY <2>1, <2>2, <3>1
  <2> QED  BY <1>5, <1>7, <1>9, <2>3 DEF TypeOK, Outcomes
<1>19. PointersAgree'
  <2>1. ASSUME NEW q \in Parents, NEW m \in Elems(children'[q])
        PROVE  parent'[m] = q
    <3>1. CASE q \in copies /\ deep
      <4> DEFINE o == Original(q)
      <4>1. o \in D \cap Tags /\ f[o] = q
        BY <1>6, <1>17, <3>1
      <4>2. PICK x \in Elems(children[o]) : m = f[x]
        BY <1>15, <3>1, <4>1
      <4>3. x \in D /\ parent[x] = o
        BY <1>10, <3>1, <4>1, <4>2 DEF Parents
      <4>4. x # n
        BY <1>8, <4>1, <4>3
      <4> QED  BY <1>13, <4>1, <4>2, <4>3, <4>4
    <3>2. CASE ~(q \in copies /\ deep)
      <4>1. parent[m] = q /\ m \in Nodes
        BY <1>10, <1>16, <3>2
      <4>2. m \notin copies
        BY <1>11, <1>12, <4>1
      <4> QED  BY <1>14, <4>1, <4>2
    <3> QED  BY <3>1, <3>2
  <2>2. ASSUME NEW q \in Parents, NEW k \in DOMAIN children'[q]
        PROVE  parent'[children'[q][k]] = q
    BY <2>1 DEF Elems
  <2>3. ASSUME NEW q \in Parents
        PROVE  IsDuplicateFree(children'[q])
    <3>1. CASE q \in copies /\ deep
      BY <1>6, <1>15, <1>17, <3>1
    <3>2. CASE ~(q \in copies /\ deep)
      BY <1>10, <1>16, <3>2
    <3> QED  BY <3>1, <3>2
  <2>4. ASSUME NEW m \in Nodes, parent'[m] \in Parents \ broken
        PROVE  m \in Elems(children'[parent'[m]])
    <3>1. CASE m \in copies
      <4> DEFINE o == Original(m)
      <4>1. o \in D /\ f[o] = m
        BY <1>6, <3>1
      <4>2. o # n
        BY <1>11, <1>13, <2>4, <4>1
      <4>3. deep /\ parent[o] \in D
        BY <4>1, <4>2
      <4>4. parent[o] \in D \cap Tags /\ parent[o] \notin broken /\ o \in Nodes
        BY <1>2, <1>9, <1>11, <4>1, <4>3
      <4>5. o \in Elems(children[parent[o]])
        BY <4>4 DEF IInv, PointersAgree, Parents
      <4>6. parent'[m] = f[parent[o]]
        BY <1>13, <4>1, <4>2
      <4> DEFINE u == parent[o]
      <4>7. Elems(children'[f[u]]) = {f[x] : x \in Elems(children[u])}
        BY <1>15, <4>3, <4>4
      <4>8. f[o] \in {f[x] : x \in Elems(children[u])}
        BY <4>5
      <4> QED  BY <4>1, <4>6, <4>7, <4>8
    <3>2. CASE m \notin copies
      <4>1. parent'[m] = parent[m] /\ parent[m] \notin copies
        BY <1>12, <1>14, <3>2
      <4>2. m \in Elems(children[parent[m]])
        BY <2>4, <4>1 DEF IInv, PointersAgree
      <4> QED  BY <1>16, <2>4, <4>1, <4>2
    <3> QED  BY <3>1, <3>2
  <2> QED  BY <1>7, <2>2, <2>3, <2>4 DEF PointersAgree
<1>20. FreshUnlinked'
  <2>1. ASSUME NEW m \in Nodes \ made'
        PROVE  parent'[m] = NIL
    BY <1>7, <1>14 DEF IInv, FreshUnlinked
  <2>2. ASSUME NEW t \in Tags \ made'
        PROVE  children'[t] = <<>>
    BY <1>7, <1>16 DEF IInv, FreshUnlinked, Parents
  <2> QED  BY <2>1, <2>2 DEF FreshUnlinked
<1>21. BrokenListNothing'
  BY <1>7, <1>9, <1>12, <1>16 DEF IInv, BrokenListNothing, Parents
<1>22. PointersGrounded'
  <2> SUFFICES ASSUME NEW S \in SUBSET Nodes, S # {}, \A m \in S : parent'[m] \in S
               PROVE  FALSE
    BY DEF PointersGrounded
  <2>1. ASSUME NEW T \in SUBSET Nodes, T # {}, \A m \in T : parent[m] \in T
        PROVE  FALSE
    BY <2>1 DEF IInv, PointersGrounded
  <2>2. CASE S \cap copies = {}
    BY <1>14, <2>1, <2>2
  <2>3. CASE S \cap copies # {}
    <3> DEFINE T == {m \in D : f[m] \in S}
    <3>1. T # {}
      BY <1>6, <2>3
    <3>2. ASSUME NEW m \in T
          PROVE  parent[m] \in T
      <4>1. m # n
        BY <1>11, <1>13, <3>2
      <4>2. parent'[f[m]] = f[parent[m]] /\ parent[m] \in D
        BY <1>13, <4>1
      <4> QED  BY <4>2
    <3>3. T \in SUBSET Nodes
      BY <1>2
    <3> HIDE DEF T
    <3> QED  BY <2>1, <3>1, <3>2, <3>3
  <2> QED  BY <2>2, <2>3
<1>23. OneRoot'
  <2>1. \A d \in Docs : d \notin copies
    BY <1>5, KindsAreDisjoint DEF Nodes
  <2>2. \A d \in Docs : children'[d] = children[d]
    BY <1>16, <2>1 DEF Parents
  <2> QED  BY <2>2 DEF IInv, OneRoot
<1> QED  BY <1>18, <1>19, <1>20, <1>21, <1>22, <1>23 DEF IInv

-----------------------------------------------------------------------------
(* The operations *)

LEMMA ListsTyped ==
    ASSUME IInv, NEW p \in Parents
    PROVE  children[p] \in Seq(Nodes) /\ Len(children[p]) \in Nat
  BY DEF IInv, TypeOK

LEMMA DocumentsAreParents ==
    ASSUME IInv, NEW d \in Docs
    PROVE  d \in Parents \ broken /\ d \in made \cup Docs
  BY KindsAreDisjoint DEF IInv, TypeOK, Parents

\* Above a document is nothing else.
LEMMA AboveDocument ==
    ASSUME NEW d \in Docs
    PROVE  \A n \in Nodes : n \notin Above(d)
<1>1. ClosedAbove({d}, d) /\ {d} \in SUBSET Parents
  BY KindsAreDisjoint DEF ClosedAbove, Nodes, Parents
<1>2. d \notin Nodes
  BY KindsAreDisjoint DEF Nodes
<1> QED  BY <1>1, <1>2 DEF Above

LEMMA InsertAtIndexKeepsIInv ==
    ASSUME IInv,
           NEW p \in Parents \ broken, p \in made \cup Docs, NEW index \in Int,
           NEW cs \in Seq(Nodes), Elems(cs) \cap Above(p) = {}, NEW copies,
           InsertAtIndex(p, index, cs, copies)
    PROVE  IInv'
<1> DEFINE size == Len(children[p])
           i == IF index >= 0 THEN index ELSE size + index
           q == Backwards(cs)
           turned == index >= 0
<1>1. size \in Nat
  BY ListsTyped
<1>2. CASE index \in -size..size
  <2>1. Place(p, i, q, copies, turned)
    BY <1>2 DEF InsertAtIndex
  <2>2. i \in 0..size /\ turned \in BOOLEAN
    BY <1>1, <1>2
  <2>3. q \in Seq(Nodes) /\ Elems(q) \cap Above(p) = {}
    BY BackwardsProperties
  <2> HIDE DEF i, q, turned
  <2> QED  BY <2>1, <2>2, <2>3, PlaceKeepsIInv
<1>3. CASE index \notin -size..size
  <2>1. Raise("IndexError")
    BY <1>3 DEF InsertAtIndex
  <2> QED  BY <2>1, RaiseKeepsIInv DEF Outcomes
<1> QED  BY <1>2, <1>3

LEMMA AppendChildrenKeepsIInv ==
    ASSUME IInv,
           NEW p \in Parents \ broken, p \in made \cup Docs,
           NEW os, NEW cs \in Seq(Nodes), Elems(cs) \cap Above(p) = {},
           AppendChildren(p, os, cs)
    PROVE  IInv'
<1>1. Len(children[p]) \in 0..Len(children[p])
  BY ListsTyped
<1>2. Place(p, Len(children[p]), cs, Copies(os, cs), FALSE)
  BY DEF AppendChildren
<1> QED  BY <1>1, <1>2, PlaceKeepsIInv

LEMMA AddChildrenKeepsIInv ==
    ASSUME IInv, NEW p \in Usable \cap Tags,
           NEW os, NEW cs \in Seq(Nodes), Elems(cs) \cap Above(p) = {},
           AddChildren(p, os, cs)
    PROVE  IInv'
<1>1. p \in Parents \ broken /\ p \in made \cup Docs
  BY DEF Usable, Parents
<1>2. \A index \in Indexes(p) : index \in Int
  BY DEF Indexes
<1>3. CASE AppendChildren(p, os, cs)
  BY <1>1, <1>3, AppendChildrenKeepsIInv
<1>4. CASE PrependChildren(p, os, cs)
  <2>1. InsertAtIndex(p, 0, cs, Copies(os, cs))
    BY <1>4 DEF PrependChildren, InsertChildren
  <2> QED  BY <1>1, <2>1, InsertAtIndexKeepsIInv
<1>5. CASE \E index \in Indexes(p) : InsertChildren(p, index, os, cs)
  BY <1>1, <1>2, <1>5, InsertAtIndexKeepsIInv DEF InsertChildren
<1> QED  BY <1>3, <1>4, <1>5 DEF AddChildren

LEMMA AddSiblingsKeepsIInv ==
    ASSUME IInv, NEW n \in Nodes, NEW os \in Seq(Nodes), NEW cs \in Seq(Nodes),
           parent[n] \in Parents =>
               (Elems(os) \cup Elems(cs)) \cap Above(parent[n]) = {},
           AddSiblings(n, os, cs)
    PROVE  IInv'
<1> DEFINE p == parent[n]
           ns == Effective(n, os, cs)
           i == Position(n)
<1>1. CASE p = NIL
  <2>1. Raise("InvalidOperation")
    BY <1>1 DEF AddSiblings, AddFollowingSiblings, AddPrecedingSiblings, WithParent
  <2> QED  BY <2>1, RaiseKeepsIInv DEF Outcomes
<1>2. CASE p # NIL /\ p \in broken
  <2>1. Raise("AttributeError")
    BY <1>2 DEF AddSiblings, AddFollowingSiblings, AddPrecedingSiblings, WithParent
  <2> QED  BY <2>1, RaiseKeepsIInv DEF Outcomes
<1>3. CASE p # NIL /\ p \notin broken
  <2>1. p \in Parents \ broken /\ p \in made \cup Docs
    BY <1>3, ParentsExist
  <2>2. ns \in Seq(Nodes) /\ Elems(ns) \cap Above(p) = {}
    BY <2>1 DEF Effective
  <2>3. Backwards(ns) \in Seq(Nodes) /\ Elems(Backwards(ns)) \cap Above(p) = {}
    BY <2>2, BackwardsProperties
  <2>4. i \in Int /\ i - 1 \in Int
    BY <2>1, PositionFound
  <2>5. \/ InsertAtIndex(p, i, ns, Copies(os, ns))
        \/ InsertAtIndex(p, i - 1, Backwards(ns), Copies(os, ns))
    BY <1>3 DEF AddSiblings, AddFollowingSiblings, AddPrecedingSiblings, WithParent
  <2> HIDE DEF p, ns, i
  <2> QED  BY <2>1, <2>2, <2>3, <2>4, <2>5, InsertAtIndexKeepsIInv
<1> QED  BY <1>1, <1>2, <1>3

LEMMA ReplaceWithKeepsIInv ==
    ASSUME IInv, NEW n \in Nodes, NEW m, NEW c \in Nodes,
           parent[n] \in Parents => c \notin Above(parent[n]),
           ReplaceWith(n, m, c)
    PROVE  IInv'
<1> DEFINE p == parent[n]
           i == Position(n)
           h == i - 1
           refusal == Refusal(p, {}, c, {c} \ {m})
           undetachable == n \in Tags /\ p \in Docs
           stop == IF undetachable THEN h ELSE i
<1>1. CASE p = NIL
  <2>1. Raise("InvalidOperation")
    BY <1>1 DEF ReplaceWith, WithParent
  <2> QED  BY <2>1, RaiseKeepsIInv DEF Outcomes
<1>2. CASE p # NIL /\ p \in broken
  <2>1. Raise("AttributeError")
    BY <1>2 DEF ReplaceWith, WithParent
  <2> QED  BY <2>1, RaiseKeepsIInv DEF Outcomes
<1>3. CASE p # NIL /\ p \notin broken /\ refusal # "ok"
  <2>1. Raise(refusal)
    BY <1>3 DEF ReplaceWith, WithParent, ReplacementRefused
  <2>2. refusal \in Outcomes
    BY RefusalCases
  <2> HIDE DEF refusal
  <2> QED  BY <2>1, <2>2, RaiseKeepsIInv
<1>4. CASE p # NIL /\ p \notin broken /\ refusal = "ok"
  <2>1. /\ Change(p, h, stop, <<c>>)
        /\ made' = made \cup {c}
        /\ outcome' = IF undetachable THEN "InvalidOperation" ELSE "ok"
        /\ broken' = broken
    BY <1>4 DEF ReplaceWith, WithParent
  <2>2. outcome' \in Outcomes
    BY <2>1 DEF Outcomes
  <2>3. p \in Parents \ broken /\ p \in made \cup Docs
    BY <1>4, ParentsExist
  <2>4. i \in 1..Len(children[p]) /\ children[p][i] = n
    BY <2>3, PositionFound
  <2>5. children[p] \in Seq(Nodes) /\ Len(children[p]) \in Nat
    BY <2>3, ListsTyped
  <2>6. parent[c] = NIL /\ ~SecondRoot(p, {}, c)
    BY <1>4, RefusalCases DEF Attached
  <2>7. h \in 0..Len(children[p]) /\ stop \in h..Len(children[p])
    BY <2>4, <2>5
  <2>8. ASSUME p \in Docs
        PROVE  HasOneRoot(SliceAssign(children[p], h, stop, <<c>>))
    <3>1. HasOneRoot(children[p]) /\ Elems(children[p]) \cap Tags # {}
      BY <2>8 DEF IInv, OneRoot, HasOneRoot, Elems
    <3>2. c \notin Tags
      BY <2>6, <2>8, <3>1 DEF SecondRoot
    <3>3. \A k \in (h + 1)..stop : children[p][k] \notin Tags
      BY <2>4, <2>5, <2>8
    <3> DEFINE block == <<c>>
    <3>4. block \in Seq(Nodes) /\ Elems(block) \cap Tags = {}
      BY <3>2, Singleton
    <3> HIDE DEF h, stop, block, p
    <3>5. HasOneRoot(SliceAssign(children[p], h, stop, block))
      BY <2>5, <2>7, <3>1, <3>3, <3>4, RootStays
    <3> QED  BY <3>5 DEF block
  <2>9. c \notin Above(p)
    BY <2>3
  <2> HIDE DEF h, stop, p
  <2> QED  BY <2>1, <2>2, <2>3, <2>6, <2>7, <2>8, <2>9, ExchangeKeepsIInv
<1> QED  BY <1>1, <1>2, <1>3, <1>4

LEMMA DetachKeepsIInv ==
    ASSUME IInv, NEW n \in Nodes, NEW retain \in BOOLEAN, Detach(n, retain)
    PROVE  IInv'
<1> DEFINE p == parent[n]
           i == Position(n)
<1>1. \/ \E exception \in Outcomes : Raise(exception)
      \/ /\ ~(n \in Tags /\ p \in Docs) /\ p # NIL /\ p \notin broken
         /\ IF n \in Tags /\ retain THEN Lift(n) ELSE Remove(p, {i})
  BY DEF Detach, Outcomes
<1>2. CASE \E exception \in Outcomes : Raise(exception)
  BY <1>2, RaiseKeepsIInv
<1>3. CASE /\ ~(n \in Tags /\ p \in Docs) /\ p # NIL /\ p \notin broken
           /\ IF n \in Tags /\ retain THEN Lift(n) ELSE Remove(p, {i})
  <2>1. p \in Parents \ broken /\ p \in made \cup Docs
    BY <1>3, ParentsExist
  <2>2. CASE n \in Tags /\ retain
    <3>1. p \in Tags \ broken /\ Lift(n)
      BY <1>3, <2>1, <2>2 DEF Parents
    <3> QED  BY <2>2, <3>1, LiftKeepsIInv
  <2>3. CASE ~(n \in Tags /\ retain)
    <3>1. i \in 1..Len(children[p]) /\ children[p][i] = n
      BY <2>1, PositionFound
    <3>2. {i} \in SUBSET DOMAIN children[p]
      BY <2>1, <3>1, ListsTyped
    <3>3. p \in Docs => \A k \in {i} : children[p][k] \notin Tags
      BY <1>3, <2>3, <3>1
    <3>4. Remove(p, {i})
      BY <1>3, <2>3
    <3> HIDE DEF i, p
    <3> QED  BY <2>1, <3>2, <3>3, <3>4, RemoveKeepsIInv
  <2> QED  BY <2>2, <2>3
<1> QED  BY <1>1, <1>2, <1>3

LEMMA ItemFound ==
    ASSUME IInv, NEW p \in Parents, NEW i \in DOMAIN children[p]
    PROVE  children[p][i] \in Nodes /\ parent[children[p][i]] = p
  BY DEF IInv, TypeOK, PointersAgree

LEMMA ItemsKeepIInv ==
    ASSUME IInv, NEW p \in Usable \cap Tags, Items(p)
    PROVE  IInv'
<1>1. p \in Parents \ broken /\ p \in made \cup Docs /\ p \notin Docs
  BY KindsAreDisjoint DEF Usable, Parents
<1>2. Joinable(p) \subseteq Nodes /\ Joinable(p) \cap Above(p) = {}
  BY <1>1 DEF IInv, TypeOK, Joinable, Given, Usable, Fresh, Nodes
<1>3. CASE \E exception \in Outcomes : Raise(exception)
  BY <1>3, RaiseKeepsIInv
<1>4. ASSUME NEW S \in SUBSET DOMAIN children[p], NEW index \in Indexes(p), DelItem(p, S, index)
      PROVE  IInv'
  <2>1. CASE \E i \in S : Detach(children[p][i], FALSE)
    <3>1. PICK i \in S : Detach(children[p][i], FALSE)
      BY <2>1
    <3> QED  BY <1>1, <3>1, ItemFound, DetachKeepsIInv
  <2> QED  BY <1>3, <1>4, <2>1 DEF DelItem, ItemPlaces, Outcomes
<1>5. ASSUME NEW S \in SUBSET DOMAIN children[p], NEW index \in Indexes(p),
             NEW m \in Joinable(p), SetItem(p, S, index, m)
      PROVE  IInv'
  <2> DEFINE cs == <<m>>
  <2>1. m \in Nodes /\ m \notin Above(p)
    BY <1>2
  <2>2. CASE AppendChildren(p, cs, cs)
    <3>1. cs \in Seq(Nodes) /\ Elems(cs) \cap Above(p) = {}
      BY <2>1, Singleton
    <3> HIDE DEF cs
    <3> QED  BY <1>1, <2>2, <3>1, AppendChildrenKeepsIInv
  <2>3. CASE \E i \in S : ReplaceWith(children[p][i], m, m)
    <3>1. PICK i \in S : ReplaceWith(children[p][i], m, m)
      BY <2>3
    <3>2. children[p][i] \in Nodes /\ parent[children[p][i]] = p
      BY <1>1, ItemFound
    <3> QED  BY <2>1, <3>1, <3>2, ReplaceWithKeepsIInv
  <2> QED  BY <1>3, <1>5, <2>2, <2>3 DEF SetItem, ItemPlaces, Outcomes
<1>6. ASSUME NEW S \in SUBSET DOMAIN children[p], NEW first, NEW stop, NEW step,
             DelSlice(p, S, first, stop, step)
      PROVE  IInv'
  <2>1. CASE Remove(p, Sliced(S, first, stop, step))
    <3>1. Sliced(S, first, stop, step) \in SUBSET DOMAIN children[p]
      BY DEF Sliced
    <3> QED  BY <1>1, <2>1, <3>1, RemoveKeepsIInv
  <2> QED  BY <1>3, <1>6, <2>1 DEF DelSlice, Outcomes
<1> QED  BY <1>4, <1>5, <1>6 DEF Items

LEMMA SetRootKeepsIInv ==
    ASSUME IInv, NEW d \in Docs, NEW n \in Usable, SetRoot(d, n)
    PROVE  IInv'
<1>1. CASE n \notin Tags \/ parent[n] # NIL
  <2>1. Raise("TypeError") \/ Raise("InvalidOperation")
    BY <1>1 DEF SetRoot
  <2> QED  BY <2>1, RaiseKeepsIInv DEF Outcomes
<1>2. CASE n \in Tags /\ parent[n] = NIL
  <2> DEFINE t == RootPosition(d)
             h == t - 1
             s == children[d]
             block == <<n>>
  <2>1. Change(d, h, t, block) /\ outcome' = "ok" /\ made' = made /\ broken' = broken
    BY <1>2 DEF SetRoot
  <2>2. n \in Nodes /\ n \in made
    BY <1>2 DEF Usable, Nodes
  <2>3. made' = made \cup {n} /\ outcome' \in Outcomes
    BY <2>1, <2>2 DEF Outcomes
  <2>4. t \in 1..Len(s) /\ \A i \in 1..Len(s) : s[i] \in Tags <=> i = t
    BY RootFound
  <2>5. s \in Seq(Nodes) /\ Len(s) \in Nat /\ d \in Parents \ broken /\ d \in made \cup Docs
    BY ListsTyped, DocumentsAreParents
  <2>6. h \in 0..Len(s) /\ t \in h..Len(s) /\ t = h + 1
    BY <2>4, <2>5
  <2>7. Len(block) = 1 /\ block[1] \in Tags /\ block \in Seq(Nodes)
    BY <1>2, <2>2
  <2> HIDE DEF h, t, s, block
  <2>8. HasOneRoot(SliceAssign(s, h, t, block))
    BY <2>4, <2>5, <2>6, <2>7, RootExchanged
  <2>9. n \notin Above(d)
    BY <2>2, AboveDocument
  <2> QED  BY <1>2, <2>1, <2>2, <2>3, <2>5, <2>6, <2>8, <2>9, ExchangeKeepsIInv DEF s, block
<1> QED  BY <1>1, <1>2

LEMMA LogueInsertKeepsIInv ==
    ASSUME IInv, NEW d \in Docs, NEW index \in Int, NEW n \in Usable,
           LogueInsert(d, index, n)
    PROVE  IInv'
<1>1. CASE LogueRefusal(n) # "ok"
  <2>1. Raise(LogueRefusal(n)) /\ LogueRefusal(n) \in Outcomes
    BY <1>1 DEF LogueInsert, LogueRefusal, Outcomes
  <2> QED  BY <2>1, RaiseKeepsIInv
<1>2. CASE LogueRefusal(n) = "ok"
  <2> DEFINE s == children[d]
             i == InsertionPoint(s, index)
             block == <<n>>
  <2>1. Change(d, i, i, block) /\ outcome' = "ok" /\ made' = made /\ broken' = broken
    BY <1>2 DEF LogueInsert
  <2>2. n \in Misc /\ parent[n] = NIL
    BY <1>2 DEF LogueRefusal
  <2>3. n \in Nodes /\ n \in made /\ n \notin Tags
    BY <2>2, KindsAreDisjoint DEF Usable, Nodes
  <2>4. made' = made \cup {n} /\ outcome' \in Outcomes
    BY <2>1, <2>3 DEF Outcomes
  <2>5. s \in Seq(Nodes) /\ Len(s) \in Nat /\ d \in Parents \ broken /\ d \in made \cup Docs
    BY ListsTyped, DocumentsAreParents
  <2>6. i \in 0..Len(s)
    BY <2>5 DEF InsertionPoint
  <2>7. i \in i..Len(s)
    BY <2>5, <2>6
  <2>8. block \in Seq(Nodes) /\ Elems(block) \cap Tags = {}
    BY <2>3, Singleton
  <2>9. HasOneRoot(s)
    BY DEF IInv, OneRoot, HasOneRoot
  <2> HIDE DEF i, s, block
  <2>10. HasOneRoot(SliceAssign(s, i, i, block))
    <3>1. \A k \in (i + 1)..i : s[k] \notin Tags
      BY <2>5, <2>6
    <3> QED  BY <2>5, <2>6, <2>7, <2>8, <2>9, <3>1, RootStays
  <2>11. n \notin Above(d)
    BY <2>3, AboveDocument
  <2> QED  BY <2>1, <2>2, <2>3, <2>4, <2>5, <2>6, <2>7, <2>10, <2>11, ExchangeKeepsIInv
             DEF s, block
<1> QED  BY <1>1, <1>2

LEMMA DocumentCallKeepsIInv ==
    ASSUME IInv, NEW d \in Docs, DocumentCall(d)
    PROVE  IInv'
<1> DEFINE t == RootPosition(d)
           size == Len(children[d])
<1>1. /\ t \in 1..size /\ \A i \in 1..size : children[d][i] \in Tags <=> i = t
      /\ size \in Nat /\ DOMAIN children[d] = 1..size /\ d \in Parents \ broken /\ d \in made \cup Docs
  BY RootFound, ListsTyped, DocumentsAreParents
<1>2. \A index \in Indexes(d) : index \in Int
  BY DEF Indexes
<1>3. CASE \E n \in Usable : SetRoot(d, n)
  BY <1>3, SetRootKeepsIInv
<1>4. CASE \E n \in Usable, index \in Int : LogueInsert(d, index, n)
  BY <1>4, LogueInsertKeepsIInv
<1>5. ASSUME NEW n \in Usable, PrologueAppend(d, n) \/ EpilogueAppend(d, n)
      PROVE  \E index \in Int : LogueInsert(d, index, n)
  BY <1>1, <1>5 DEF PrologueAppend, EpilogueAppend
<1>6. ASSUME NEW n \in Usable, NEW index \in Indexes(d),
             PrologueInsert(d, index, n) \/ EpilogueInsert(d, index, n)
      PROVE  Raise("IndexError") \/ \E j \in Int : LogueInsert(d, j, n)
  BY <1>1, <1>2, <1>6 DEF PrologueInsert, EpilogueInsert
<1>7. CASE PrologueClear(d)
  <2> DEFINE I == 1..(t - 1)
  <2>1. Remove(d, I)
    BY <1>7 DEF PrologueClear
  <2>2. I \in SUBSET DOMAIN children[d] /\ \A i \in I : children[d][i] \notin Tags
    BY <1>1
  <2> HIDE DEF I
  <2> QED  BY <1>1, <2>1, <2>2, RemoveKeepsIInv
<1>8. CASE EpilogueClear(d)
  <2> DEFINE I == (t + 1)..size
  <2>1. Remove(d, I)
    BY <1>8 DEF EpilogueClear
  <2>2. I \in SUBSET DOMAIN children[d] /\ \A i \in I : children[d][i] \notin Tags
    BY <1>1
  <2> HIDE DEF I
  <2> QED  BY <1>1, <2>1, <2>2, RemoveKeepsIInv
<1>9. CASE Raise("IndexError")
  BY <1>9, RaiseKeepsIInv DEF Outcomes
<1> QED  BY <1>3, <1>4, <1>5, <1>6, <1>7, <1>8, <1>9 DEF DocumentCall

LEMMA RemoveFromLogueKeepsIInv ==
    ASSUME IInv, NEW d \in Docs, RemoveFromLogue(d)
    PROVE  IInv'
<1>1. PICK n \in Elems(children[d]) \ Tags : LogueRemove(d, n)
  BY DEF RemoveFromLogue
<1> DEFINE s == children[d]
           i == PositionOf(s, n)
<1>2. Remove(d, {i})
  BY <1>1 DEF LogueRemove
<1>3. s \in Seq(Nodes) /\ d \in Parents \ broken /\ d \in made \cup Docs
  BY ListsTyped, DocumentsAreParents
<1> HIDE DEF s
<1>4. \E k \in DOMAIN s : s[k] = n
  BY DEF Elems, s
<1>5. i \in DOMAIN s /\ s[i] = n
  BY <1>4, Zenon DEF PositionOf
<1> HIDE DEF i
<1>6. {i} \in SUBSET DOMAIN children[d] /\ \A k \in {i} : children[d][k] \notin Tags
  BY <1>5 DEF s
<1> QED  BY <1>2, <1>3, <1>6, RemoveKeepsIInv

-----------------------------------------------------------------------------
(* What a client may pass, and the steps of the specification *)

LEMMA WhatIsGiven ==
    ASSUME IInv
    PROVE  /\ Given \subseteq Nodes
           /\ \A p : Joinable(p) \subseteq Nodes
           /\ \A p \in Parents : Joinable(p) \cap Above(p) = {}
           /\ \A S \in SUBSET Nodes : \A q \in Arguments(S) :
                 q \in Seq(Nodes) /\ Elems(q) \subseteq S
<1>1. Given \subseteq Nodes
  BY DEF IInv, TypeOK, Given, Usable, Fresh, Nodes
<1>2. ASSUME NEW S \in SUBSET Nodes, NEW q \in Arguments(S)
      PROVE  q \in Seq(Nodes) /\ Elems(q) \subseteq S
  <2>1. PICK k \in 0..MaxArgs : q \in [1..k -> S]
    BY DEF Arguments
  <2>2. k \in Nat
    BY MaxArgsIsNat
  <2>3. q \in Seq(Nodes) /\ DOMAIN q = 1..k
    BY <2>1, <2>2
  <2> QED  BY <2>1, <2>3 DEF Elems
<1> QED  BY <1>1, <1>2 DEF Joinable

\* A copy that is made during the call is above nobody.
LEMMA CopiesJoin ==
    ASSUME IInv, NEW mc \in Clonings, NEW p \in Parents, p \in made \cup Docs
    PROVE  /\ mc[1] \in Nodes /\ mc[2] \in Nodes
           /\ mc[2] \notin Above(p)
  BY FreshNotAbove DEF Clonings, Usable, IInv, TypeOK

LEMMA AddKeepsIInv ==
    ASSUME IInv, Add
    PROVE  IInv'
<1>1. ASSUME NEW p \in Usable \cap Tags, NEW ns \in Arguments(Joinable(p)),
             AddChildren(p, ns, ns)
      PROVE  IInv'
  <2>1. p \in Parents
    BY DEF Parents
  <2>2. ns \in Seq(Nodes) /\ Elems(ns) \cap Above(p) = {}
    BY <2>1, WhatIsGiven
  <2> QED  BY <1>1, <2>2, AddChildrenKeepsIInv
<1>2. ASSUME NEW p \in Usable \cap Tags, NEW mc \in Clonings,
             AddChildren(p, <<mc[1]>>, <<mc[2]>>)
      PROVE  IInv'
  <2> DEFINE os == <<mc[1]>>
             cs == <<mc[2]>>
  <2>1. p \in Parents /\ p \in made \cup Docs
    BY DEF Parents, Usable
  <2>2. mc[2] \in Nodes /\ mc[2] \notin Above(p)
    BY <2>1, CopiesJoin
  <2>3. cs \in Seq(Nodes) /\ Elems(cs) = {mc[2]}
    BY <2>2, Singleton
  <2>4. AddChildren(p, os, cs)
    BY <1>2
  <2> HIDE DEF os, cs
  <2> QED  BY <2>2, <2>3, <2>4, AddChildrenKeepsIInv
<1>3. ASSUME NEW n \in Usable, NEW ns \in Arguments(Joinable(parent[n])),
             AddSiblings(n, ns, ns)
      PROVE  IInv'
  <2>1. n \in Nodes
    BY DEF Usable, IInv, TypeOK
  <2>2. /\ ns \in Seq(Nodes)
        /\ parent[n] \in Parents => (Elems(ns) \cup Elems(ns)) \cap Above(parent[n]) = {}
    BY WhatIsGiven
  <2> QED  BY <1>3, <2>1, <2>2, AddSiblingsKeepsIInv
<1>4. ASSUME NEW n \in Usable, NEW mc \in Clonings, mc[1] \in Joinable(parent[n]),
             AddSiblings(n, <<mc[1]>>, <<mc[2]>>)
      PROVE  IInv'
  <2> DEFINE os == <<mc[1]>>
             cs == <<mc[2]>>
  <2>1. n \in Nodes
    BY DEF Usable, IInv, TypeOK
  <2>2. mc[1] \in Nodes /\ mc[2] \in Nodes
    BY DEF Clonings, Usable, IInv, TypeOK
  <2>3. /\ os \in Seq(Nodes) /\ Elems(os) = {mc[1]}
        /\ cs \in Seq(Nodes) /\ Elems(cs) = {mc[2]}
    BY <2>2, Singleton
  <2>4. ASSUME parent[n] \in Parents
        PROVE  (Elems(os) \cup Elems(cs)) \cap Above(parent[n]) = {}
    <3>1. parent[n] \in made \cup Docs
      BY <2>1, <2>4, ParentsExist, NilIsNothing
    <3>2. mc[2] \notin Above(parent[n])
      BY <2>4, <3>1, CopiesJoin
    <3>3. mc[1] \notin Above(parent[n])
      BY <1>4, <2>4, WhatIsGiven
    <3> QED  BY <2>3, <3>2, <3>3
  <2>5. AddSiblings(n, os, cs)
    BY <1>4
  <2> HIDE DEF os, cs
  <2> QED  BY <2>1, <2>3, <2>4, <2>5, AddSiblingsKeepsIInv
<1> QED  BY <1>1, <1>2, <1>3, <1>4 DEF Add

LEMMA ReplaceKeepsIInv ==
    ASSUME IInv, NEW n \in Usable, Replace(n)
    PROVE  IInv'
<1>1. n \in Nodes
  BY DEF Usable, IInv, TypeOK
<1>2. ASSUME NEW m \in Joinable(parent[n]), ReplaceWith(n, m, m)
      PROVE  IInv'
  <2>1. m \in Nodes /\ (parent[n] \in Parents => m \notin Above(parent[n]))
    BY WhatIsGiven
  <2> QED  BY <1>1, <1>2, <2>1, ReplaceWithKeepsIInv
<1>3. ASSUME NEW mc \in Clonings, ReplaceWith(n, mc[1], mc[2])
      PROVE  IInv'
  <2>1. mc[2] \in Nodes
    BY DEF Clonings
  <2>2. ASSUME parent[n] \in Parents
        PROVE  mc[2] \notin Above(parent[n])
    <3>1. parent[n] \in made \cup Docs
      BY <1>1, <2>2, ParentsExist, NilIsNothing
    <3> QED  BY <2>2, <3>1, CopiesJoin
  <2> QED  BY <1>1, <1>3, <2>1, <2>2, ReplaceWithKeepsIInv
<1> QED  BY <1>2, <1>3 DEF Replace

LEMMA CreateKeepsIInv ==
    ASSUME IInv, Create
    PROVE  IInv'
<1>1. ASSUME NEW n \in (Texts \cup Misc) \ made, NewLeaf(n)
      PROVE  IInv'
  <2>1. /\ made' = made \cup {n} /\ outcome' = "ok" /\ broken' = broken
        /\ parent' = parent /\ children' = children
    BY <1>1 DEF NewLeaf
  <2> QED  BY <2>1 DEF IInv, TypeOK, PointersAgree, FreshUnlinked, BrokenListNothing,
                       PointersGrounded, OneRoot, Outcomes, Nodes
<1>2. ASSUME NEW t \in Tags \ made, NEW ns \in Arguments(Given \ {t}), NewTag(t, ns)
      PROVE  IInv'
  <2>1. ns \in Seq(Nodes) /\ Elems(ns) \subseteq Given \ {t}
    BY WhatIsGiven
  <2> QED  BY <1>2, <2>1, NewTagKeepsIInv
<1>3. ASSUME NEW n \in Usable, NEW f \in CopyMaps({n}), Clone(n, FALSE, f)
      PROVE  IInv'
  <2> DEFINE D == {n}
  <2>1. D \in SUBSET Usable /\ n \in D /\ f \in CopyMaps(D) /\ \A m \in D : m = n
    OBVIOUS
  <2>2. \A m \in D : m = n \/ parent[m] \in D
    BY <2>1
  <2>3. D = {n}
    OBVIOUS
  <2> HIDE DEF D
  <2> QED  BY <1>3, <2>1, <2>2, <2>3, CloneKeepsIInv
<1>4. ASSUME NEW n \in Usable, NEW D \in SUBSET Usable, IsSubtree(D, n),
             NEW f \in CopyMaps(D), Clone(n, TRUE, f)
      PROVE  IInv'
  BY <1>4, CloneKeepsIInv DEF IsSubtree
<1> QED  BY <1>1, <1>2, <1>3, <1>4 DEF Create

LEMMA InitIInv == Init => IInv
<1> SUFFICES ASSUME Init
             PROVE  IInv
  OBVIOUS
<1>1. /\ made = {Root[d] : d \in Docs} /\ broken = {} /\ outcome = "ok"
      /\ parent = [n \in Nodes |-> IF \E d \in Docs : Root[d] = n
                                   THEN CHOOSE d \in Docs : Root[d] = n ELSE NIL]
      /\ children = [p \in Parents |-> IF p \in Docs THEN <<Root[p]>> ELSE <<>>]
  BY DEF Init
<1>2. \A d \in Docs : Root[d] \in Tags /\ Root[d] \in Nodes
  BY RootsAreDistinctTags DEF Nodes
<1>3. /\ Docs \subseteq Parents
      /\ \A p \in Parents : p \notin Docs => children[p] = <<>>
      /\ \A d \in Docs : children[d] = <<Root[d]>>
  BY <1>1 DEF Parents
<1>4. \A p \in Parents : children[p] \in Seq(Nodes) /\ IsDuplicateFree(children[p])
  <2> TAKE p \in Parents
  <2>1. CASE p \in Docs
    <3>1. Root[p] \in Nodes /\ children[p] = <<Root[p]>>
      BY <1>2, <1>3, <2>1
    <3> QED  BY <3>1, Singleton
  <2>2. CASE p \notin Docs
    BY <1>3, <2>2, EmptyList
  <2> QED  BY <2>1, <2>2
<1>5. \A d \in Docs : parent[Root[d]] = d
  <2> TAKE d \in Docs
  <2>1. \A e \in Docs : Root[e] = Root[d] <=> e = d
    BY RootsAreDistinctTags
  <2> QED  BY <1>1, <1>2, <2>1
<1>6. ASSUME NEW n \in Nodes
      PROVE  \/ parent[n] = NIL /\ \A d \in Docs : Root[d] # n
             \/ parent[n] \in Docs /\ Root[parent[n]] = n
  BY <1>1
<1>7. TypeOK
  <2>1. made \in SUBSET Nodes /\ broken \in SUBSET (Tags \cap made) /\ outcome \in Outcomes
    BY <1>1, <1>2 DEF Outcomes
  <2>2. parent \in [Nodes -> Parents \cup {NIL}]
    BY <1>1 DEF Parents
  <2>3. children \in [Parents -> Seq(Nodes)]
    <3>1. children = [p \in Parents |-> children[p]]
      BY <1>1
    <3> QED  BY <1>4, <3>1
  <2> QED  BY <2>1, <2>2, <2>3 DEF TypeOK
<1>8. PointersAgree
  <2>1. ASSUME NEW p \in Parents, NEW i \in DOMAIN children[p]
        PROVE  parent[children[p][i]] = p
    <3>1. children[p][i] \in Elems(children[p])
      BY DEF Elems
    <3>2. p \in Docs
      BY <1>3, <3>1, EmptyList
    <3>3. Elems(children[p]) = {Root[p]}
      BY <1>2, <1>3, <3>2, Singleton
    <3> QED  BY <1>5, <3>1, <3>2, <3>3
  <2>2. ASSUME NEW n \in Nodes, parent[n] \in Parents \ broken
        PROVE  n \in Elems(children[parent[n]])
    <3>1. parent[n] \in Docs /\ Root[parent[n]] = n
      BY <1>6, <2>2, NilIsNothing
    <3>2. Elems(children[parent[n]]) = {n}
      BY <1>3, <3>1, Singleton
    <3> QED  BY <3>2
  <2> QED  BY <1>4, <2>1, <2>2 DEF PointersAgree
<1>9. FreshUnlinked
  <2>1. ASSUME NEW n \in Nodes \ made
        PROVE  parent[n] = NIL
    BY <1>1, <1>6
  <2>2. \A t \in Tags \ made : t \in Parents /\ t \notin Docs
    BY KindsAreDisjoint DEF Parents
  <2> QED  BY <1>3, <2>1, <2>2 DEF FreshUnlinked
<1>10. BrokenListNothing
  BY <1>1 DEF BrokenListNothing
<1>11. PointersGrounded
  <2>1. \A n \in Nodes : parent[n] \notin Nodes
    BY <1>6, NilIsNothing, KindsAreDisjoint DEF Nodes
  <2> QED  BY <2>1 DEF PointersGrounded
<1>12. OneRoot
  <2> SUFFICES ASSUME NEW d \in Docs
               PROVE  HasOneRoot(children[d])
    BY DEF OneRoot, HasOneRoot
  <2> DEFINE s == <<Root[d]>>
  <2>1. DOMAIN s = {1} /\ s[1] \in Tags
    BY <1>2
  <2> HIDE DEF s
  <2>2. HasOneRoot(s)
    BY <2>1 DEF HasOneRoot
  <2> QED  BY <1>3, <2>2 DEF s
<1> QED  BY <1>7, <1>8, <1>9, <1>10, <1>11, <1>12 DEF IInv

LEMMA StepIInv == IInv /\ [Next]_vars => IInv'
<1> SUFFICES ASSUME IInv, [Next]_vars
             PROVE  IInv'
  OBVIOUS
<1>1. CASE UNCHANGED vars
  <2>1. outcome' \in Outcomes /\ UNCHANGED <<made, broken, parent, children>>
    BY <1>1 DEF vars, IInv, TypeOK
  <2> QED  BY <2>1, UnchangedKeepsIInv
<1>2. ASSUME NEW d \in Docs, DocumentCall(d)
      PROVE  IInv'
  BY <1>2, DocumentCallKeepsIInv
<1>3. ASSUME NEW d \in Docs, RemoveFromLogue(d)
      PROVE  IInv'
  BY <1>3, RemoveFromLogueKeepsIInv
<1>4. ASSUME NEW n \in Usable, Replace(n)
      PROVE  IInv'
  BY <1>4, ReplaceKeepsIInv
<1>5. ASSUME NEW n \in Usable, NEW retain \in BOOLEAN, Detach(n, retain)
      PROVE  IInv'
  <2>1. n \in Nodes
    BY DEF Usable, IInv, TypeOK
  <2> QED  BY <1>5, <2>1, DetachKeepsIInv
<1>6. ASSUME NEW p \in Usable \cap Tags, Items(p)
      PROVE  IInv'
  BY <1>6, ItemsKeepIInv
<1>7. CASE Add
  BY <1>7, AddKeepsIInv
<1>8. CASE Create
  BY <1>8, CreateKeepsIInv
<1> QED  BY <1>1, <1>2, <1>3, <1>4, <1>5, <1>6, <1>7, <1>8 DEF Next

\* Whichever calls are made, in any order and number, on any number of nodes, every
\* state satisfies the invariant.
THEOREM Invariance == Spec => []IInv
  BY InitIInv, StepIInv, PTL DEF Spec

\* The pointers and the lists keep the types that the code gives them.
THEOREM TypeCorrect == Spec => []TypeOK
<1>1. IInv => TypeOK
  BY DEF IInv
<1> QED  BY <1>1, Invariance, PTL

\* A node's parent lists it, once, and nobody else does: after every call, the ones
\* that raise half way included.
THEOREM PointersAlwaysAgree == Spec => []PointersAgree
<1>1. IInv => PointersAgree
  BY DEF IInv
<1> QED  BY <1>1, Invariance, PTL

\* A document keeps exactly one tag node among its children.
THEOREM AlwaysOneRoot == Spec => []OneRoot
<1>1. IInv => OneRoot
  BY DEF IInv
<1> QED  BY <1>1, Invariance, PTL

\* No call makes a node its own descendant, as long as the client does not ask for it.
THEOREM AlwaysGrounded == Spec => []Grounded
<1>1. IInv => Grounded
  <2> SUFFICES ASSUME IInv, NEW S \in SUBSET Nodes, S # {}
               PROVE  \E n \in S : \A m \in S \cap Tags : n \notin Elems(children[m])
    BY DEF Grounded
  <2>1. PICK n \in S : parent[n] \notin S
    BY DEF IInv, PointersGrounded
  <2>2. \A m \in S \cap Tags : n \in Elems(children[m]) => parent[n] = m
    BY DEF IInv, PointersAgree, Elems, Parents
  <2> QED  BY <2>1, <2>2
<1> QED  BY <1>1, Invariance, PTL
=============================================================================
