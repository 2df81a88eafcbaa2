----------------------------- MODULE Identifiers -----------------------------
(***************************************************************************)
(* The xml:id attributes of the tag nodes in some trees (TagNode.id in     *)
(* _delb/nodes.py), under default filters that change.                     *)
(*                                                                         *)
(* Setting an id looks for it in the whole tree.  The tree's root is the   *)
(* node's last ancestor, if that is true: a tag node is when it has        *)
(* children that the default filters let through.  The trees here consist  *)
(* of tag nodes only.                                                      *)
(***************************************************************************)
EXTENDS Filters, FiniteSets

CONSTANTS TagNodes, Ids, NIL

ASSUME NilIsNeither == NIL \notin TagNodes \cup Ids

VARIABLES
    above,   \* a node's parent
    id,      \* the attribute {http://www.w3.org/XML/1998/namespace}id
    outcome

trees == <<above, id, outcome>>
vars == <<filterVars, trees>>

-----------------------------------------------------------------------------

\* S holds, with a node, its parent
IsClosed(S) == \A m \in S : above[m] \in S \cup {NIL}

\* the nodes from n up to the root of its tree
Line(n) == {m \in TagNodes : \A S \in SUBSET TagNodes : n \in S /\ IsClosed(S) => m \in S}

Top(n) == CHOOSE m \in Line(n) : above[m] = NIL

Subtree(n) == {m \in TagNodes : n \in Line(m)}

\* bool(n), by way of __len__
IsTrue(n) == "tag" \in Active /\ \E m \in TagNodes : above[m] = n

\* mutant: only the subtree is searched
SearchedBelow(n) == Subtree(n)

\* last(ancestors) or self
Searched(n) == Subtree(IF Top(n) # n /\ IsTrue(Top(n)) THEN Top(n) ELSE n)

SetId(n, value) ==
    /\ IF \E m \in Searched(n) : id[m] = value
       THEN outcome' = "ValueError" /\ UNCHANGED id
       ELSE outcome' = "ok" /\ id' = [id EXCEPT ![n] = value]
    /\ UNCHANGED <<filterVars, above>>

UnsetId(n) ==
    /\ id' = [id EXCEPT ![n] = NIL]
    /\ outcome' = IF id[n] = NIL THEN "KeyError" ELSE "ok"
    /\ UNCHANGED <<filterVars, above>>

\* p.append_children(n), of a node that has no parent and is not above p
Add(p, n) ==
    /\ above[n] = NIL
    /\ n \notin Line(p)
    /\ above' = [above EXCEPT ![n] = p]
    /\ outcome' = "ok"
    /\ UNCHANGED <<filterVars, id>>

Detach(n) ==
    /\ above' = [above EXCEPT ![n] = NIL]
    /\ outcome' = "ok"
    /\ UNCHANGED <<filterVars, id>>

-----------------------------------------------------------------------------

InitIds ==
    /\ Init
    /\ above = [n \in TagNodes |-> NIL]
    /\ id = [n \in TagNodes |-> NIL]
    /\ outcome = "ok"

NextIds ==
    \/ \E n \in TagNodes :
          \/ \E value \in Ids : SetId(n, value)
          \/ UnsetId(n)
          \/ \E p \in TagNodes : Add(p, n)
          \/ Detach(n)
    \/ \E c \in Clients :
          /\ \/ \E F \in FilterSets, extend \in BOOLEAN : Enter(c, F, extend)
             \/ \E raised \in BOOLEAN : Leave(c, raised)
          /\ UNCHANGED trees

SpecIds == InitIds /\ [][NextIds]_vars

-----------------------------------------------------------------------------
(* Properties *)

UniqueIds ==
    \A m, n \in TagNodes :
        id[m] # NIL /\ id[m] = id[n] /\ Top(m) = Top(n) => m = n

\* Two nodes of one tree get the same id only when trees that have it are joined, or
\* while tag nodes are filtered out: TagNode.id finds what is anywhere in the tree.
OnlyJoiningDuplicates ==
    [][UniqueIds /\ ~UniqueIds' =>
          "tag" \notin Active \/ \E p, n \in TagNodes : Add(p, n)]_vars
=============================================================================
