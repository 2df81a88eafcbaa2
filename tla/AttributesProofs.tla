--------------------------- MODULE AttributesProofs ---------------------------
(***************************************************************************)
(* An Attribute object is never in two places, only one kind of call can   *)
(* make keys and names differ, and renaming harms no other attribute, for  *)
(* any number of nodes, attributes and names.                              *)
(*                                                                         *)
(* InOnePlace is inductive together with the types: what a mapping holds   *)
(* was made before, hence a fresh object is in no mapping, and what is in  *)
(* some mapping refers to it, hence a loose object is in none.             *)
(***************************************************************************)
EXTENDS Attributes, TLAPS

IInv == TypeOK /\ InOnePlace

-----------------------------------------------------------------------------

LEMMA Resolved ==
    ASSUME TypeOK, NEW m \in Mappings, NEW accessor \in Accessors
    PROVE  Resolve(m, accessor) \in QualifiedNames
BY DEF TypeOK, Accessors, QualifiedNames, Resolve

LEMMA InitIInv == Init => IInv
<1> SUFFICES ASSUME Init PROVE IInv
  OBVIOUS
<1>1. TypeOK
  BY DEF Init, TypeOK, Outcomes
<1>2. InOnePlace
  BY DEF Init, InOnePlace
<1> QED
  BY <1>1, <1>2 DEF IInv

\* What is put into a mapping is either fresh or loose, hence nowhere else; it may be
\* under one key only.
LEMMA PutKeepsPlaces ==
    ASSUME IInv,
           NEW m \in Mappings, NEW K \in SUBSET QualifiedNames,
           NEW new \in [K -> Attributes],
           \A q, p \in K : new[q] = new[p] => q = p,
           \A q \in K : owner[new[q]] = NIL \/ new[q] \notin made,
           Put(m, new)
    PROVE  /\ InOnePlace'
           /\ data' \in [Mappings -> [QualifiedNames ->
                            made \cup {new[q] : q \in K} \cup {NIL}]]
           /\ owner' \in [Attributes -> Mappings \cup {NIL}]
           /\ namespace' \in [Mappings -> Namespaces]
           /\ outcome' \in Outcomes
<1> USE DEF IInv, TypeOK
<1>1. DOMAIN new = K
  OBVIOUS
<1>2. \A n \in Mappings, q \in QualifiedNames :
          data'[n][q] = IF n = m /\ q \in K THEN new[q] ELSE data[n][q]
  BY <1>1 DEF Put
<1>3. \A n \in Mappings, q \in QualifiedNames, p \in K : data[n][q] # new[p]
  <2> SUFFICES ASSUME NEW n \in Mappings, NEW q \in QualifiedNames, NEW p \in K,
                      data[n][q] = new[p]
               PROVE  FALSE
    OBVIOUS
  <2>1. new[p] \in Attributes /\ new[p] # NIL /\ n # NIL
    BY NilIsNoObject
  <2>2. data[n][q] \in made
    BY <2>1
  <2>3. owner[new[p]] = n
    BY <2>1 DEF InOnePlace
  <2> QED
    BY <2>1, <2>2, <2>3
<1>4. \A x \in Attributes :
          owner'[x] = IF \E q \in K : new[q] = x THEN m ELSE owner[x]
  BY <1>1 DEF Put
<1>5. InOnePlace'
  <2> SUFFICES ASSUME NEW n \in Mappings, NEW o \in Mappings,
                      NEW q \in QualifiedNames, NEW p \in QualifiedNames,
                      data'[n][q] # NIL
               PROVE  /\ owner'[data'[n][q]] = n
                      /\ data'[n][q] = data'[o][p] => n = o /\ q = p
    BY DEF InOnePlace
  <2>1. CASE n = m /\ q \in K
    BY <2>1, <1>2, <1>3, <1>4
  <2>2. CASE ~(n = m /\ q \in K)
    <3>1. data'[n][q] = data[n][q] /\ data[n][q] \in Attributes
      BY <2>2, <1>2 DEF Put
    <3>2. owner'[data[n][q]] = owner[data[n][q]]
      BY <3>1, <1>3, <1>4
    <3>3. owner[data[n][q]] = n /\ (data[n][q] = data[o][p] => n = o /\ q = p)
      BY <3>1 DEF InOnePlace
    <3> QED
      BY <3>1, <3>2, <3>3, <1>2, <1>3
  <2> QED
    BY <2>1, <2>2
<1>6. data' \in [Mappings -> [QualifiedNames -> made \cup {new[q] : q \in K} \cup {NIL}]]
  BY <1>1 DEF Put
<1>7. /\ owner' \in [Attributes -> Mappings \cup {NIL}]
      /\ namespace' \in [Mappings -> Namespaces]
      /\ outcome' \in Outcomes
  BY DEF Put, Outcomes
<1> QED
  BY <1>5, <1>6, <1>7

LEMMA PutNewKeeps ==
    ASSUME IInv, NEW m \in Mappings, NEW K \in SUBSET QualifiedNames, PutNew(m, K)
    PROVE  IInv'
<1>1. PICK new \in [K -> Unmade] :
          /\ \A q, p \in K : new[q] = new[p] => q = p
          /\ Put(m, new)
          /\ made' = made \cup {new[q] : q \in K}
          /\ name' = [x \in Attributes |-> IF \E q \in K : new[q] = x
                                           THEN CHOOSE q \in K : new[q] = x ELSE name[x]]
  BY DEF PutNew
<1>2. new \in [K -> Attributes] /\ \A q \in K : new[q] \notin made
  BY DEF Unmade
<1>3. /\ InOnePlace'
      /\ data' \in [Mappings -> [QualifiedNames ->
                       made \cup {new[q] : q \in K} \cup {NIL}]]
      /\ owner' \in [Attributes -> Mappings \cup {NIL}]
      /\ namespace' \in [Mappings -> Namespaces]
      /\ outcome' \in Outcomes
  BY <1>1, <1>2, PutKeepsPlaces
<1>4. /\ name' \in [Attributes -> QualifiedNames \cup {NIL}]
      /\ \A x \in Attributes : x \in made' <=> name'[x] # NIL
  BY <1>1, <1>2, NilIsNoObject DEF IInv, TypeOK, QualifiedNames
<1> QED
  BY <1>1, <1>2, <1>3, <1>4 DEF IInv, TypeOK

LEMMA SetAttributeKeeps ==
    ASSUME IInv, NEW m \in Mappings, NEW accessor \in Accessors, NEW x \in made,
           SetAttribute(m, accessor, x)
    PROVE  IInv'
<1> DEFINE q == Resolve(m, accessor)
<1>0. q \in QualifiedNames
  BY Resolved DEF IInv
<1>1. CASE Taken(x)
  <2> DEFINE new == [p \in {q} |-> x]
  <2>1. Put(m, new) /\ name' = name /\ made' = made
    BY <1>1 DEF SetAttribute
  <2>2. new \in [{q} -> Attributes] /\ x \in Attributes
    BY DEF IInv, TypeOK
  <2>3. \A p \in {q} : owner[new[p]] = NIL
    BY <1>1 DEF Taken
  <2>4. \A p, o \in {q} : new[p] = new[o] => p = o
    OBVIOUS
  <2>5. {q} \in SUBSET QualifiedNames
    BY <1>0
  <2>6. {new[p] : p \in {q}} \subseteq made
    OBVIOUS
  <2> HIDE DEF new, q
  <2>7. /\ InOnePlace'
        /\ data' \in [Mappings -> [QualifiedNames ->
                         made \cup {new[p] : p \in {q}} \cup {NIL}]]
        /\ owner' \in [Attributes -> Mappings \cup {NIL}]
        /\ namespace' \in [Mappings -> Namespaces]
        /\ outcome' \in Outcomes
    BY <2>1, <2>2, <2>3, <2>4, <2>5, PutKeepsPlaces
  <2>8. made \cup {new[p] : p \in {q}} \cup {NIL} = made \cup {NIL}
    BY <2>6
  <2> QED
    BY <2>1, <2>7, <2>8 DEF IInv, TypeOK
<1>2. CASE ~Taken(x)
  <2>1. PutNew(m, {q})
    BY <1>2 DEF SetAttribute
  <2> QED
    BY <1>0, <2>1, PutNewKeeps
<1> QED
  BY <1>1, <1>2

\* Taking an entry out lets go of the object that was there and of no other.
LEMMA WithoutKeeps ==
    ASSUME IInv, NEW m \in Mappings, NEW q \in QualifiedNames, data[m][q] # NIL,
           data' = Without(m, q), owner' = OwnerAfterDelete(m, q),
           UNCHANGED <<namespace, name, made>>, outcome' \in Outcomes
    PROVE  IInv'
<1> USE DEF IInv, TypeOK
<1>1. \A n \in Mappings, p \in QualifiedNames :
          data'[n][p] = IF n = m /\ p = q THEN NIL ELSE data[n][p]
  BY DEF Without
<1>2. data[m][q] \in Attributes
  OBVIOUS
<1>3. \A x \in Attributes : owner'[x] = IF x = data[m][q] THEN NIL ELSE owner[x]
  BY <1>2 DEF OwnerAfterDelete
<1>4. data' \in [Mappings -> [QualifiedNames -> made \cup {NIL}]]
  BY DEF Without
<1>5. owner' \in [Attributes -> Mappings \cup {NIL}]
  BY <1>2 DEF OwnerAfterDelete
<1>6. InOnePlace'
  <2> SUFFICES ASSUME NEW n \in Mappings, NEW o \in Mappings,
                      NEW r \in QualifiedNames, NEW p \in QualifiedNames,
                      data'[n][r] # NIL
               PROVE  /\ owner'[data'[n][r]] = n
                      /\ data'[n][r] = data'[o][p] => n = o /\ r = p
    BY DEF InOnePlace
  <2>1. data'[n][r] = data[n][r] /\ data[n][r] \in Attributes /\ ~(n = m /\ r = q)
    BY <1>1
  <2>2. owner[data[n][r]] = n /\ data[n][r] # data[m][q]
    BY <2>1, <1>2, NilIsNoObject DEF InOnePlace
  <2>3. data[n][r] = data[o][p] => n = o /\ r = p
    BY <2>1, NilIsNoObject DEF InOnePlace
  <2> QED
    BY <1>1, <1>3, <2>1, <2>2, <2>3, NilIsNoObject
<1> QED
  BY <1>4, <1>5, <1>6

LEMMA RaiseKeeps ==
    ASSUME IInv, NEW exception \in Outcomes, Raise(exception)
    PROVE  IInv'
BY DEF IInv, TypeOK, InOnePlace, Raise

LEMMA DeleteKeeps ==
    ASSUME IInv, NEW m \in Mappings, NEW accessor \in Accessors, Delete(m, accessor)
    PROVE  IInv'
<1> DEFINE q == Resolve(m, accessor)
<1>1. q \in QualifiedNames
  BY Resolved DEF IInv
<1>2. CASE data[m][q] = NIL
  BY <1>2, RaiseKeeps DEF Delete, Outcomes
<1>3. CASE data[m][q] # NIL
  <2>1. /\ data' = Without(m, q)
        /\ owner' = OwnerAfterDelete(m, q)
        /\ outcome' = "ok"
        /\ UNCHANGED <<namespace, name, made>>
    BY <1>3 DEF Delete
  <2> QED
    BY <1>1, <1>3, <2>1, WithoutKeeps DEF Outcomes
<1> QED
  BY <1>2, <1>3

LEMMA ClearKeeps ==
    ASSUME IInv, NEW m \in Mappings, Clear(m)
    PROVE  IInv'
<1> USE DEF IInv, TypeOK
<1>1. \A n \in Mappings, p \in QualifiedNames :
          data'[n][p] = IF n = m THEN NIL ELSE data[n][p]
  BY DEF Clear
<1>2. \A x \in Attributes : owner'[x] = IF \E q \in Keys(m) : data[m][q] = x
                                        THEN NIL ELSE owner[x]
  BY DEF Clear
<1>3. TypeOK'
  BY DEF Clear, Outcomes
<1>4. InOnePlace'
  <2> SUFFICES ASSUME NEW n \in Mappings, NEW o \in Mappings,
                      NEW r \in QualifiedNames, NEW p \in QualifiedNames,
                      data'[n][r] # NIL
               PROVE  /\ owner'[data'[n][r]] = n
                      /\ data'[n][r] = data'[o][p] => n = o /\ r = p
    BY DEF InOnePlace
  <2>1. n # m /\ data'[n][r] = data[n][r] /\ data[n][r] \in Attributes
    BY <1>1
  <2>2. /\ owner[data[n][r]] = n
        /\ data[n][r] = data[o][p] => n = o /\ r = p
        /\ \A q \in Keys(m) : data[m][q] # data[n][r]
    BY <2>1, NilIsNoObject DEF InOnePlace, Keys
  <2> QED
    BY <1>1, <1>2, <2>1, <2>2, NilIsNoObject
<1> QED
  BY <1>3, <1>4

LEMMA RenameKeeps ==
    ASSUME IInv, NEW x \in made, NEW q \in Renamings(x), Rename(x, q)
    PROVE  IInv'
<1> DEFINE m == owner[x]
           old == name[x]
<1>1. /\ x \in Attributes /\ old \in QualifiedNames /\ q \in QualifiedNames
      /\ m \in Mappings \cup {NIL}
  <2>1. x \in Attributes /\ old \in QualifiedNames /\ m \in Mappings \cup {NIL}
    BY DEF IInv, TypeOK
  <2> QED
    BY <2>1 DEF Renamings, QualifiedNames
<1>2. CASE q = old
  BY <1>2, RaiseKeeps DEF Rename, Outcomes
<1>3. CASE q # old /\ m = NIL
  <2>1. /\ name' = [name EXCEPT ![x] = q]
        /\ outcome' = "ok"
        /\ UNCHANGED <<namespace, data, owner, made>>
    BY <1>3 DEF Rename
  <2>2. q # NIL
    BY <1>1, NilIsNoObject DEF QualifiedNames
  <2> QED
    BY <1>1, <2>1, <2>2 DEF IInv, TypeOK, InOnePlace, Outcomes
<1>4. CASE q # old /\ m # NIL /\ data[m][old] = NIL
  BY <1>4, RaiseKeeps DEF Rename, Outcomes
<1>5. CASE q # old /\ m # NIL /\ data[m][old] # NIL /\ data[m][old] # x
  <2>1. /\ data' = Without(m, old)
        /\ owner' = OwnerAfterDelete(m, old)
        /\ outcome' = "AssertionError"
        /\ UNCHANGED <<namespace, name, made>>
    BY <1>5 DEF Rename
  <2> QED
    BY <1>1, <1>5, <2>1, WithoutKeeps DEF Outcomes
<1>6. CASE q # old /\ m # NIL /\ data[m][old] = x
  <2>0. data[m][old] # NIL
    BY <1>1, <1>6, NilIsNoObject
  <2>1. /\ data' = Moved(m, old, q, x)
        /\ name' = [name EXCEPT ![x] = q]
        /\ outcome' = "ok"
        /\ UNCHANGED <<namespace, owner, made>>
    BY <1>6, <2>0 DEF Rename
  <2>2. \A n \in Mappings, p \in QualifiedNames :
            data'[n][p] = IF n = m /\ p = q THEN x
                          ELSE IF n = m /\ p = old THEN NIL ELSE data[n][p]
    BY <1>1, <1>6, <2>1 DEF Moved, IInv, TypeOK
  <2>3. data' \in [Mappings -> [QualifiedNames -> made \cup {NIL}]]
    BY <1>1, <1>6, <2>1 DEF Moved, IInv, TypeOK
  <2>4. q # NIL
    BY <1>1, NilIsNoObject DEF QualifiedNames
  <2>5. TypeOK'
    BY <1>1, <2>1, <2>3, <2>4 DEF IInv, TypeOK, Outcomes
  <2>6. \A n \in Mappings, p \in QualifiedNames :
            data[n][p] = x => n = m /\ p = old
    BY <1>1, <1>6, <2>0 DEF IInv, InOnePlace
  <2>7. InOnePlace'
    <3> SUFFICES ASSUME NEW n \in Mappings, NEW o \in Mappings,
                        NEW r \in QualifiedNames, NEW p \in QualifiedNames,
                        data'[n][r] # NIL
                 PROVE  /\ owner[data'[n][r]] = n
                        /\ data'[n][r] = data'[o][p] => n = o /\ r = p
      BY <2>1 DEF InOnePlace
    <3>1. CASE n = m /\ r = q
      BY <3>1, <2>2, <2>6, <1>1, NilIsNoObject
    <3>2. CASE ~(n = m /\ r = q)
      <4>1. data'[n][r] = data[n][r] /\ ~(n = m /\ r = old) /\ data[n][r] # x
        BY <3>2, <2>2, <2>6
      <4>2. /\ owner[data[n][r]] = n
            /\ data[n][r] = data[o][p] => n = o /\ r = p
        BY <4>1 DEF IInv, InOnePlace
      <4> QED
        BY <4>1, <4>2, <2>2
    <3> QED
      BY <3>1, <3>2
  <2> QED
    BY <2>5, <2>7 DEF IInv
<1> QED
  BY <1>2, <1>3, <1>4, <1>5, <1>6

LEMMA SetNamespaceKeeps ==
    ASSUME IInv, NEW m \in Mappings, NEW value \in Namespaces, SetNamespace(m, value)
    PROVE  IInv'
BY DEF IInv, TypeOK, InOnePlace, SetNamespace, Outcomes

LEMMA NextKeepsIInv == IInv /\ [Next]_vars => IInv'
<1> SUFFICES ASSUME IInv, [Next]_vars PROVE IInv'
  OBVIOUS
<1>1. ASSUME NEW m \in Mappings, NEW accessor \in Accessors, SetString(m, accessor)
      PROVE  IInv'
  <2>1. {Resolve(m, accessor)} \in SUBSET QualifiedNames
    BY Resolved DEF IInv
  <2> QED
    BY <1>1, <2>1, PutNewKeeps DEF SetString
<1>2. ASSUME NEW m \in Mappings, NEW other \in Mappings, Update(m, other)
      PROVE  IInv'
  <2>1. Keys(other) \in SUBSET QualifiedNames
    BY DEF Keys
  <2> QED
    BY <1>2, <2>1, PutNewKeeps DEF Update
<1>3. CASE UNCHANGED vars
  BY <1>3 DEF IInv, TypeOK, InOnePlace, vars
<1> QED
  BY <1>1, <1>2, <1>3, DeleteKeeps, SetAttributeKeeps, ClearKeeps, SetNamespaceKeeps,
     RenameKeeps DEF Next

-----------------------------------------------------------------------------

\* Types and places hold after any sequence of calls (TagAttributes, Attribute).
THEOREM Invariance == Spec => []IInv
BY InitIInv, NextKeepsIInv, PTL DEF Spec

\* The state keeps its types.
THEOREM TypeCorrect == Spec => []TypeOK
<1>1. IInv => TypeOK
  BY DEF IInv
<1> QED
  BY <1>1, Invariance, PTL

\* An Attribute object is an attribute of at most one node, under one key, and refers
\* to that node's mapping (TagAttributes.__setitem__).
THEOREM AlwaysInOnePlace == Spec => []InOnePlace
<1>1. IInv => InOnePlace
  BY DEF IInv
<1> QED
  BY <1>1, Invariance, PTL

-----------------------------------------------------------------------------
(* What single calls do to the others' entries *)

\* The entry has its key as name, if there is one.
Named(m, q) == data[m][q] # NIL => name[data[m][q]] = q

LEMMA PutNewNames ==
    ASSUME IInv, NEW m0 \in Mappings, NEW K \in SUBSET QualifiedNames, PutNew(m0, K),
           NEW m \in Mappings, NEW q \in QualifiedNames, Named(m, q)
    PROVE  Named(m, q)'
<1>1. PICK new \in [K -> Unmade] :
          /\ \A r, p \in K : new[r] = new[p] => r = p
          /\ Put(m0, new)
          /\ name' = [x \in Attributes |-> IF \E r \in K : new[r] = x
                                           THEN CHOOSE r \in K : new[r] = x ELSE name[x]]
  BY DEF PutNew
<1>2. \A r \in K : new[r] \in Attributes /\ new[r] \notin made
  BY DEF Unmade
<1>3. data'[m][q] = IF m = m0 /\ q \in K THEN new[q] ELSE data[m][q]
  BY <1>1 DEF Put, IInv, TypeOK
<1>4. CASE m = m0 /\ q \in K
  BY <1>1, <1>2, <1>3, <1>4 DEF Named
<1>5. CASE ~(m = m0 /\ q \in K)
  <2>1. data[m][q] # NIL => data[m][q] \in made /\ data[m][q] \in Attributes
    BY DEF IInv, TypeOK
  <2>2. data[m][q] # NIL => name'[data[m][q]] = name[data[m][q]]
    BY <1>1, <1>2, <2>1
  <2> QED
    BY <1>3, <1>5, <2>2 DEF Named
<1> QED
  BY <1>4, <1>5

LEMMA RenameNames ==
    ASSUME IInv, NEW x \in made, NEW new \in Renamings(x), Rename(x, new),
           NEW m \in Mappings, NEW q \in QualifiedNames, Named(m, q)
    PROVE  Named(m, q)'
<1> DEFINE o == owner[x]
           old == name[x]
<1>1. /\ x \in Attributes /\ old \in QualifiedNames /\ new \in QualifiedNames
      /\ o \in Mappings \cup {NIL}
  <2>1. x \in Attributes /\ old \in QualifiedNames /\ o \in Mappings \cup {NIL}
    BY DEF IInv, TypeOK
  <2> QED
    BY <2>1 DEF Renamings, QualifiedNames
<1>2. /\ data[m][q] = x => o = m
      /\ data[m][q] \in Attributes \cup {NIL}
  BY <1>1, NilIsNoObject DEF IInv, TypeOK, InOnePlace
<1>3. CASE UNCHANGED <<data, name>>
  BY <1>3 DEF Named
<1>4. CASE new # old /\ o = NIL
  <2>1. name' = [name EXCEPT ![x] = new] /\ data' = data
    BY <1>4 DEF Rename
  <2>2. data[m][q] # x
    BY <1>2, <1>4, NilIsNoObject
  <2> QED
    BY <1>2, <2>1, <2>2 DEF Named, IInv, TypeOK
<1>5. CASE new # old /\ o # NIL /\ data[o][old] # NIL /\ data[o][old] # x
  <2>1. data' = Without(o, old) /\ name' = name
    BY <1>5 DEF Rename
  <2>2. data'[m][q] = IF m = o /\ q = old THEN NIL ELSE data[m][q]
    BY <1>1, <1>5, <2>1 DEF Without, IInv, TypeOK
  <2> QED
    BY <2>1, <2>2 DEF Named
<1>6. CASE new # old /\ o # NIL /\ data[o][old] = x
  <2>1. data' = Moved(o, old, new, x) /\ name' = [name EXCEPT ![x] = new]
    BY <1>1, <1>6, NilIsNoObject DEF Rename
  <2>2. data'[m][q] = IF m = o /\ q = new THEN x
                      ELSE IF m = o /\ q = old THEN NIL ELSE data[m][q]
    BY <1>1, <1>6, <2>1 DEF Moved, IInv, TypeOK
  <2>3. name'[x] = new
    BY <1>1, <2>1 DEF IInv, TypeOK
  <2>4. CASE m = o /\ q = new
    BY <2>2, <2>3, <2>4 DEF Named
  <2>5. CASE ~(m = o /\ q = new) /\ ~(m = o /\ q = old)
    <3>1. data[m][q] # x
      BY <1>1, <1>2, <1>6, <2>5, NilIsNoObject DEF IInv, InOnePlace
    <3> QED
      BY <1>2, <2>1, <2>2, <2>5, <3>1 DEF Named, IInv, TypeOK
  <2>6. CASE m = o /\ q = old /\ q # new
    BY <2>2, <2>6 DEF Named
  <2> QED
    BY <2>4, <2>5, <2>6
<1> QED
  BY <1>3, <1>4, <1>5, <1>6 DEF Rename, Raise

LEMMA RenameLeavesOthers ==
    ASSUME IInv, NEW x \in made, NEW new \in Renamings(x), Rename(x, new),
           NEW m \in Mappings, NEW p \in QualifiedNames \ {name[x], new}
    PROVE  data'[m][p] = data[m][p]
<1> DEFINE o == owner[x]
           old == name[x]
<1>1. o \in Mappings \cup {NIL} /\ data \in [Mappings -> [QualifiedNames -> made \cup {NIL}]]
  BY DEF IInv, TypeOK
<1>2. CASE UNCHANGED data
  BY <1>2
<1>3. CASE o # NIL /\ data' = Without(o, old)
  BY <1>1, <1>3 DEF Without
<1>4. CASE o # NIL /\ data' = Moved(o, old, new, x)
  BY <1>1, <1>4 DEF Moved
<1> QED
  BY <1>2, <1>3, <1>4 DEF Rename, Raise

LEMMA OthersKeepNames ==
    ASSUME IInv, Next, NEW m \in Mappings, NEW q \in QualifiedNames, Named(m, q),
           ~ \E x \in made, accessor \in Accessors : SetAttribute(m, accessor, x)
    PROVE  Named(m, q)'
<1>1. ASSUME NEW n \in Mappings, NEW accessor \in Accessors, SetString(n, accessor)
      PROVE  Named(m, q)'
  <2>1. {Resolve(n, accessor)} \in SUBSET QualifiedNames
    BY Resolved DEF IInv
  <2> QED
    BY <1>1, <2>1, PutNewNames DEF SetString
<1>2. ASSUME NEW n \in Mappings, NEW accessor \in Accessors, Delete(n, accessor)
      PROVE  Named(m, q)'
  <2>1. Resolve(n, accessor) \in QualifiedNames
    BY Resolved DEF IInv
  <2>2. name' = name /\ data'[m][q] \in {NIL, data[m][q]}
    BY <1>2, <2>1 DEF Delete, Without, Raise, IInv, TypeOK
  <2> QED
    BY <2>2 DEF Named
<1>3. ASSUME NEW n \in Mappings, NEW accessor \in Accessors, NEW x \in made,
             SetAttribute(n, accessor, x)
      PROVE  Named(m, q)'
  <2>1. n # m
    BY <1>3
  <2>2. CASE Taken(x)
    BY <1>3, <2>1, <2>2 DEF SetAttribute, Put, Named, IInv, TypeOK
  <2>3. CASE ~ Taken(x)
    <3>1. {Resolve(n, accessor)} \in SUBSET QualifiedNames
      BY Resolved DEF IInv
    <3> QED
      BY <1>3, <2>3, <3>1, PutNewNames DEF SetAttribute
  <2> QED
    BY <2>2, <2>3
<1>4. ASSUME NEW n \in Mappings, NEW other \in Mappings, Update(n, other)
      PROVE  Named(m, q)'
  <2>1. Keys(other) \in SUBSET QualifiedNames
    BY DEF Keys
  <2> QED
    BY <1>4, <2>1, PutNewNames DEF Update
<1>5. ASSUME NEW n \in Mappings, Clear(n)
      PROVE  Named(m, q)'
  BY <1>5 DEF Clear, Named, IInv, TypeOK
<1>6. ASSUME NEW n \in Mappings, NEW value \in Namespaces, SetNamespace(n, value)
      PROVE  Named(m, q)'
  BY <1>6 DEF SetNamespace, Named
<1> QED
  BY <1>1, <1>2, <1>3, <1>4, <1>5, <1>6, RenameNames DEF Next

\* No call but the assignment of a loose object makes an entry's name differ from its
\* key: neither any other nor one that fails.
THEOREM OnlyAssignmentMisnamesAlways == Spec => OnlyAssignmentMisnames
<1>1. IInv /\ [Next]_vars =>
        [\A m \in Mappings, q \in QualifiedNames :
            /\ data[m][q] # NIL => name[data[m][q]] = q
            /\ data'[m][q] # NIL /\ name'[data'[m][q]] # q
            => \E x \in made, accessor \in Accessors : SetAttribute(m, accessor, x)]_vars
  BY OthersKeepNames DEF Named
<1> QED
  BY Invariance, <1>1, PTL DEF Spec, OnlyAssignmentMisnames

\* Renaming takes nothing out of any mapping that has neither of both names, be the
\* object in use or dropped.
THEOREM RenameAlwaysKeepsTheRest == Spec => RenameKeepsTheRest
<1>1. IInv /\ [Next]_vars =>
        [\A x \in made : \A q \in Renamings(x) : Rename(x, q) =>
            \A m \in Mappings : \A p \in QualifiedNames \ {name[x], q} :
                data'[m][p] = data[m][p]]_vars
  BY RenameLeavesOthers
<1> QED
  BY Invariance, <1>1, PTL DEF Spec, RenameKeepsTheRest
=============================================================================
