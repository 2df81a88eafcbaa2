------------------------------ MODULE Attributes ------------------------------
(***************************************************************************)
(* Attribute objects and the mappings that hold them (Attribute and        *)
(* TagAttributes in _delb/nodes.py).                                       *)
(*                                                                         *)
(* A client gets hold of Attribute objects and may rename them, pass them  *)
(* to other nodes or keep them while their node's mapping is changed.  An  *)
(* object knows the mapping it belongs to and its own qualified name, the  *)
(* mapping knows the object by a key: the same facts, kept twice.  Values  *)
(* are left out, the checks of names and values as well.                   *)
(***************************************************************************)
EXTENDS FiniteSets

CONSTANTS Mappings,    \* TagAttributes instances, one per tag node
          Attributes,  \* identities of Attribute objects
          Namespaces,  \* the nodes' and attributes' namespaces
          LocalNames,
          NIL          \* Python's None

ASSUME NamesDiffer == (Namespaces \X LocalNames) \cap LocalNames = {}
ASSUME NilIsNoObject == NIL \notin Mappings \cup Attributes \cup (Namespaces \X LocalNames)

QualifiedNames == Namespaces \X LocalNames

\* a tuple or a string in Clark notation, or the plain local name
Accessors == QualifiedNames \cup LocalNames

Outcomes == {"ok", "KeyError", "AssertionError"}

VARIABLES
    namespace,  \* the namespace of the node that has the mapping
    data,       \* TagAttributes.__data
    owner,      \* Attribute._attributes
    name,       \* Attribute.__qualified_name
    made,       \* the Attribute objects that were constructed
    outcome     \* how the last call ended

vars == <<namespace, data, owner, name, made, outcome>>

-----------------------------------------------------------------------------

\* a plain name means one in the node's namespace, which the node may change
Resolve(m, accessor) ==
    IF accessor \in LocalNames THEN <<namespace[m], accessor>> ELSE accessor

Keys(m) == {q \in QualifiedNames : data[m][q] # NIL}

Unmade == Attributes \ made

Raise(exception) ==
    /\ outcome' = exception
    /\ UNCHANGED <<namespace, data, owner, name, made>>

\* The objects that `new` maps keys to go into m.  What was there under one of these
\* keys is dropped, it still refers to m.
Put(m, new) ==
    /\ data' = [data EXCEPT ![m] = [q \in QualifiedNames |->
                                        IF q \in DOMAIN new THEN new[q] ELSE @[q]]]
    /\ owner' = [x \in Attributes |->
                    IF \E q \in DOMAIN new : new[q] = x THEN m ELSE owner[x]]
    /\ outcome' = "ok"
    /\ UNCHANGED namespace

\* fresh objects for all the names in K, each named by its key
PutNew(m, K) ==
    \E new \in [K -> Unmade] :
        /\ \A q, p \in K : new[q] = new[p] => q = p
        /\ Put(m, new)
        /\ made' = made \cup {new[q] : q \in K}
        /\ name' = [x \in Attributes |-> IF \E q \in K : new[q] = x
                                         THEN CHOOSE q \in K : new[q] = x ELSE name[x]]

\* mutant: an object that is in use is taken as it is
TakenAlways(x) == TRUE

Taken(x) == owner[x] = NIL

\* m[accessor] = "..."
SetString(m, accessor) == PutNew(m, {Resolve(m, accessor)})

\* m[accessor] = x: a loose object is taken as it is, whatever its name is
SetAttribute(m, accessor, x) ==
    LET q == Resolve(m, accessor) IN
    IF Taken(x)
    THEN /\ Put(m, [p \in {q} |-> x])
         /\ UNCHANGED <<name, made>>
    ELSE PutNew(m, {q})

\* m.update(other): objects in other are in use, they are copied
Update(m, other) == PutNew(m, Keys(other))

Without(m, q) == [data EXCEPT ![m][q] = NIL]

OwnerAfterDelete(m, q) == [owner EXCEPT ![data[m][q]] = NIL]

\* del m[accessor], m.pop(accessor), m.popitem()
Delete(m, accessor) ==
    LET q == Resolve(m, accessor) IN
    IF data[m][q] = NIL THEN Raise("KeyError")
    ELSE /\ data' = Without(m, q)
         /\ owner' = OwnerAfterDelete(m, q)
         /\ outcome' = "ok"
         /\ UNCHANGED <<namespace, name, made>>

Clear(m) ==
    /\ data' = [data EXCEPT ![m] = [q \in QualifiedNames |-> NIL]]
    /\ owner' = [x \in Attributes |-> IF \E q \in Keys(m) : data[m][q] = x
                                      THEN NIL ELSE owner[x]]
    /\ outcome' = "ok"
    /\ UNCHANGED <<namespace, name, made>>

\* mutant: the new entry is made under the plain local name
MovedInNodesNamespace(m, old, new, x) ==
    [data EXCEPT ![m][old] = NIL, ![m][Resolve(m, new[2])] = x]

Moved(m, old, new, x) == [data EXCEPT ![m][old] = NIL, ![m][new] = x]

\* either the local name or the namespace is assigned
Renamings(x) == {<<name[x][1], n>> : n \in LocalNames}
                    \cup {<<ns, name[x][2]>> : ns \in Namespaces}

\* x.local_name = ..., x.namespace = ...: what the mapping holds under the name that
\* x has is popped, and found to be x or not, only then x is put under the new name.
Rename(x, q) ==
    LET m == owner[x]
        old == name[x] IN
    IF q = old THEN Raise("AssertionError")
    ELSE IF m = NIL
    THEN /\ name' = [name EXCEPT ![x] = q]
         /\ outcome' = "ok"
         /\ UNCHANGED <<namespace, data, owner, made>>
    ELSE IF data[m][old] = NIL THEN Raise("KeyError")
    ELSE IF data[m][old] # x
    THEN /\ data' = Without(m, old)
         /\ owner' = OwnerAfterDelete(m, old)
         /\ outcome' = "AssertionError"
         /\ UNCHANGED <<namespace, name, made>>
    ELSE /\ data' = Moved(m, old, q, x)
         /\ name' = [name EXCEPT ![x] = q]
         /\ outcome' = "ok"
         /\ UNCHANGED <<namespace, owner, made>>

\* node.namespace = ...: the attributes keep their names
SetNamespace(m, value) ==
    /\ namespace' = [namespace EXCEPT ![m] = value]
    /\ outcome' = "ok"
    /\ UNCHANGED <<data, owner, name, made>>

-----------------------------------------------------------------------------

Init ==
    /\ namespace \in [Mappings -> Namespaces]
    /\ data = [m \in Mappings |-> [q \in QualifiedNames |-> NIL]]
    /\ owner = [x \in Attributes |-> NIL]
    /\ name = [x \in Attributes |-> NIL]
    /\ made = {}
    /\ outcome = "ok"

Next ==
    \/ \E m \in Mappings :
          \/ \E accessor \in Accessors :
                \/ SetString(m, accessor)
                \/ Delete(m, accessor)
                \/ \E x \in made : SetAttribute(m, accessor, x)
          \/ \E other \in Mappings : Update(m, other)
          \/ Clear(m)
          \/ \E value \in Namespaces : SetNamespace(m, value)
    \/ \E x \in made : \E q \in Renamings(x) : Rename(x, q)

Spec == Init /\ [][Next]_vars

-----------------------------------------------------------------------------
(* Properties *)

TypeOK ==
    /\ namespace \in [Mappings -> Namespaces]
    /\ made \subseteq Attributes
    /\ data \in [Mappings -> [QualifiedNames -> made \cup {NIL}]]
    /\ owner \in [Attributes -> Mappings \cup {NIL}]
    /\ name \in [Attributes -> QualifiedNames \cup {NIL}]
    /\ \A x \in Attributes : x \in made <=> name[x] # NIL
    /\ outcome \in Outcomes

\* Whatever is passed around, an object is an attribute of one node, once, and knows
\* it: assigning one that is in use makes a copy (TagAttributes.__setitem__).
InOnePlace ==
    \A m, n \in Mappings, q, p \in QualifiedNames :
        data[m][q] # NIL =>
            /\ owner[data[m][q]] = m
            /\ data[m][q] = data[n][p] => m = n /\ q = p

\* Key and name of an entry differ only since a loose attribute was assigned under
\* another key: no other call, renaming and one that fails included, makes them differ.
OnlyAssignmentMisnames ==
    [][\A m \in Mappings, q \in QualifiedNames :
          /\ data[m][q] # NIL => name[data[m][q]] = q
          /\ data'[m][q] # NIL /\ name'[data'[m][q]] # q
          => \E x \in made, accessor \in Accessors : SetAttribute(m, accessor, x)]_vars

\* Renaming an attribute, one that was dropped from its mapping as well, loses no
\* attribute that bears neither the old nor the new name, on whatever node.
RenameKeepsTheRest ==
    [][\A x \in made : \A q \in Renamings(x) : Rename(x, q) =>
          \A m \in Mappings : \A p \in QualifiedNames \ {name[x], q} :
              data'[m][p] = data[m][p]]_vars
=============================================================================
