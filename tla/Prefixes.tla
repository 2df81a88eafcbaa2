------------------------------- MODULE Prefixes -------------------------------
(***************************************************************************)
(* The prefixes that a serializer gives to namespaces: declarations by the *)
(* user (Namespaces, _delb/names.py) and the pass over a tree's tag nodes  *)
(* that precedes its serialization (Serializer, _delb/serializer.py).      *)
(*                                                                         *)
(* A name is its namespace here.  A tree is visited in breadth-first       *)
(* order, node by node; its shape does not matter to prefixes.             *)
(***************************************************************************)
EXTENDS Naturals, Sequences, FiniteSetsExt

CONSTANTS
    NoNamespace,    \* the empty string as a namespace
    Declarable,     \* the other namespaces
    Default,        \* the empty string as a prefix
    None,           \* the same in a user's declarations
    PrefixNames,    \* prefixes besides these
    Generated,      \* "ns0", "ns1", ..., as far as they are tried
    Global,         \* GLOBAL_NAMESPACES, from prefixes to namespaces
    Common,         \* COMMON_NAMESPACES, likewise
    Declarations,   \* what users may declare, from prefixes to namespaces
    MaxNames        \* bound on the names of tag nodes and attributes in a tree

AllPrefixes == PrefixNames \cup {Default}
AllNamespaces == Declarable \cup {NoNamespace}

ASSUME NamesAreDistinct ==
    /\ NoNamespace \notin Declarable
    /\ None # Default /\ Default \notin PrefixNames /\ None \notin PrefixNames
ASSUME GeneratedArePrefixes == Generated \in Seq(PrefixNames \ DOMAIN Global)
ASSUME DeclarationsAreMappings ==
    /\ Global \in [DOMAIN Global -> Declarable] /\ DOMAIN Global \subseteq PrefixNames
    /\ Common \in [DOMAIN Common -> Declarable] /\ DOMAIN Common \subseteq PrefixNames
    /\ \A d \in Declarations : /\ d \in [DOMAIN d -> Declarable]
                               /\ DOMAIN d \subseteq AllPrefixes \cup {None}
ASSUME BoundIsNatural == MaxNames \in Nat

VARIABLES
    namespaces,  \* _namespaces.__inverse_data, from namespaces to prefixes
    nodes,       \* the tag nodes that were visited, the root is the first
    pending,     \* the namespaces of the last one that are yet to be considered
    prefixes,    \* _prefixes, from namespaces to prefixes
    outcome

vars == <<namespaces, nodes, pending, prefixes, outcome>>

ValuesOf(f) == {f[x] : x \in DOMAIN f}
With(f, x, y) == [z \in DOMAIN f \cup {x} |-> IF z = x THEN y ELSE f[z]]

-----------------------------------------------------------------------------
(* Namespaces *)

\* __normalize_declarations and __validate_declaration: the errors
Refused(declarations) ==
    \/ {None, Default} \subseteq DOMAIN declarations
    \/ DOMAIN declarations \cap DOMAIN Global # {}
    \/ ValuesOf(declarations) \cap ValuesOf(Global) # {}
    \/ \E p, q \in DOMAIN declarations : p # q /\ declarations[p] = declarations[q]

Declared(declarations) ==
    [p \in {IF q = None THEN Default ELSE q : q \in DOMAIN declarations} |->
        IF p \in DOMAIN declarations THEN declarations[p] ELSE declarations[None]]

\* Common namespaces are available as far as the user declared neither them nor
\* their prefixes.
Normalized(declarations) ==
    LET own    == Declared(declarations)
        common == {p \in DOMAIN Common : p \notin DOMAIN own \cup DOMAIN Global
                                         /\ Common[p] \notin ValuesOf(own)}
    IN  [p \in DOMAIN own \cup DOMAIN Global \cup common |->
            IF p \in DOMAIN own THEN own[p]
            ELSE IF p \in DOMAIN Global THEN Global[p] ELSE Common[p]]

Inverted(data) == [n \in ValuesOf(data) |-> CHOOSE p \in DOMAIN data : data[p] = n]

\* Serializer.__init__
Construct(declarations) ==
    /\ outcome = "new"
    /\ IF Refused(declarations)
       THEN outcome' = "ValueError" /\ UNCHANGED namespaces
       ELSE outcome' = "collecting" /\ namespaces' = Inverted(Normalized(declarations))
    /\ UNCHANGED <<nodes, pending, prefixes>>

-----------------------------------------------------------------------------
(* Serializer._collect_prefixes *)

Free(given) == {i \in DOMAIN Generated : Generated[i] \notin ValuesOf(given)}
FirstFree(given) == CHOOSE i \in Free(given) : \A j \in Free(given) : i <= j

\* _new_namespace_declaration, on what was given so far
NewDeclaration(given, namespace) == With(given, namespace, Generated[FirstFree(given)])

Unprefixed(given) == {n \in DOMAIN given : given[n] = Default}

\* mutant: a namespace keeps the empty prefix
RedeclareNothing(given) == given

\* __redeclare_empty_prefix
RedeclareEmptyPrefix(given) ==
    IF Unprefixed(given) = {} THEN given
    ELSE NewDeclaration(given, CHOOSE n \in Unprefixed(given) : TRUE)

\* mutant: namespaces are considered over and over again
NeverKnown(namespace) == FALSE

Known(namespace) == namespace \in DOMAIN prefixes

HasDeclaration(namespace) ==
    /\ namespace \in DOMAIN namespaces
    /\ namespaces[namespace] = Default => Unprefixed(prefixes) = {}

NeedsGenerated(namespace) ==
    IF namespace = NoNamespace THEN Unprefixed(prefixes) # {} ELSE ~HasDeclaration(namespace)

Given(namespace) ==
    IF namespace = NoNamespace
    THEN With(RedeclareEmptyPrefix(prefixes), NoNamespace, Default)
    ELSE IF HasDeclaration(namespace) THEN With(prefixes, namespace, namespaces[namespace])
    ELSE NewDeclaration(prefixes, namespace)

\* the assertion on a declared prefix: it is not in use
PrefixIsTaken(namespace) ==
    /\ namespace # NoNamespace /\ HasDeclaration(namespace)
    /\ namespaces[namespace] \in ValuesOf(prefixes)

Nodes == [namespace : AllNamespaces, attributes : SUBSET AllNamespaces]

NamesIn(ns) == MapThenSumSet(LAMBDA i : 1 + Cardinality(ns[i].attributes), DOMAIN ns)

RootIsUndeclared(node) == nodes = <<>> /\ node.namespace \notin DOMAIN namespaces

NamespacesOf(node) == {node.namespace} \cup node.attributes

Visit(node) ==
    /\ outcome = "collecting" /\ pending = {}
    /\ NamesIn(Append(nodes, node)) <= MaxNames
    /\ nodes' = Append(nodes, node)
    /\ pending' = NamespacesOf(node)
    /\ prefixes' = IF RootIsUndeclared(node)
                   THEN With(prefixes, node.namespace, Default) ELSE prefixes
    /\ UNCHANGED <<namespaces, outcome>>

\* The namespaces of a node are iterated as a set, in any order.
Collect(namespace) ==
    /\ outcome = "collecting" /\ namespace \in pending
    /\ pending' = pending \ {namespace}
    /\ \/ /\ Known(namespace)
          /\ UNCHANGED <<prefixes, outcome>>
       \/ /\ ~Known(namespace)
          /\ NeedsGenerated(namespace) => Free(prefixes) # {}
          /\ ~PrefixIsTaken(namespace)
          /\ prefixes' = Given(namespace)
          /\ UNCHANGED outcome
       \/ /\ ~Known(namespace)
          /\ NeedsGenerated(namespace) /\ Free(prefixes) = {}
          /\ outcome' = "NotImplementedError"
          /\ UNCHANGED prefixes
       \/ /\ ~Known(namespace)
          /\ PrefixIsTaken(namespace)
          /\ outcome' = "AssertionError"
          /\ UNCHANGED prefixes
    /\ UNCHANGED <<namespaces, nodes>>

\* The traversal ends, names are written with their prefixes.
Write ==
    /\ outcome = "collecting" /\ pending = {} /\ nodes # <<>>
    /\ outcome' = "written"
    /\ UNCHANGED <<namespaces, nodes, pending, prefixes>>

-----------------------------------------------------------------------------
(* Serializer.serialize_root, and what a parser makes of its output *)

\* mutant: no default namespace is declared
PrefixedOnly == {n \in DOMAIN prefixes : prefixes[n] \notin DOMAIN Global \cup {Default}}

InNeedOfDeclaration == {n \in DOMAIN prefixes : n # NoNamespace /\ prefixes[n] \notin DOMAIN Global}

\* the xmlns attributes of the root
WrittenDeclarations ==
    [p \in {prefixes[n] : n \in InNeedOfDeclaration} |->
        CHOOSE n \in InNeedOfDeclaration : prefixes[n] = p]

Meaning(prefix) ==
    CASE prefix \in DOMAIN WrittenDeclarations -> WrittenDeclarations[prefix]
      [] prefix \in DOMAIN Global -> Global[prefix]
      [] OTHER -> NoNamespace

\* An attribute without prefix gets the namespace of its tag node (AttributesOf in
\* module Building).
AttributeMeaning(prefix, node) == IF prefix = Default THEN node.namespace ELSE Meaning(prefix)

-----------------------------------------------------------------------------

Init ==
    /\ namespaces = <<>> /\ nodes = <<>> /\ pending = {} /\ prefixes = <<>>
    /\ outcome = "new"

Next ==
    \/ \E declarations \in Declarations : Construct(declarations)
    \/ \E node \in Nodes : Visit(node)
    \/ \E namespace \in pending : Collect(namespace)
    \/ Write

Spec == Init /\ [][Next]_vars

-----------------------------------------------------------------------------
(* Properties *)

\* Prefixes are given to namespaces, and to nothing else.
TypeOK ==
    /\ namespaces \in [DOMAIN namespaces -> AllPrefixes] /\ DOMAIN namespaces \subseteq Declarable
    /\ nodes \in Seq(Nodes)
    /\ pending \subseteq AllNamespaces
    /\ prefixes \in [DOMAIN prefixes -> AllPrefixes] /\ DOMAIN prefixes \subseteq AllNamespaces
    /\ outcome \in {"new", "collecting", "written", "ValueError", "AssertionError",
                    "NotImplementedError"}

\* No two namespaces share a prefix, whatever the user declares, whichever namespaces
\* turn up and in which order, and while the empty prefix is taken away from one.
Distinct == \A m, n \in DOMAIN prefixes : prefixes[m] = prefixes[n] => m = n

\* When a tree was written, the name of each tag node is read back as it was. So is
\* an attribute's, unless it is written without prefix on a node of another namespace.
NamesComeBack ==
    outcome = "written" => \A i \in DOMAIN nodes :
        /\ Meaning(prefixes[nodes[i].namespace]) = nodes[i].namespace
        /\ \A n \in nodes[i].attributes :
              AttributeMeaning(prefixes[n], nodes[i]) = n <=>
                  prefixes[n] # Default \/ n = nodes[i].namespace

\* A prefix that the user declared is used for its namespace, only a default namespace
\* may have to get another one.
DeclarationsAreUsed ==
    \A n \in DOMAIN prefixes \cap DOMAIN namespaces :
        prefixes[n] # namespaces[n] => namespaces[n] = Default

\* Serialization fails only for declarations that claim a generated prefix, or when
\* none of these is left.
FailsByGeneratedPrefixesOnly ==
    /\ outcome = "AssertionError" => ValuesOf(namespaces) \cap ValuesOf(Generated) # {}
    /\ outcome = "NotImplementedError" => ValuesOf(Generated) \subseteq ValuesOf(prefixes)
=============================================================================
