---------------------------- MODULE PrefixesProofs ----------------------------
(***************************************************************************)
(* Theorems about Prefixes.tla, for any namespaces, declarations and trees *)
(***************************************************************************)
EXTENDS Prefixes, SequenceTheorems, WellFoundedInduction, TLAPS

\* No two namespaces were declared with the same prefix.
DeclarationsAreDistinct ==
    \A m, n \in DOMAIN namespaces : namespaces[m] = namespaces[n] => m = n

\* Global prefixes belong to their namespaces.
GlobalsAreKept ==
    \A n \in DOMAIN namespaces : namespaces[n] \in DOMAIN Global => Global[namespaces[n]] = n

StartsEmpty ==
    /\ outcome \in {"new", "ValueError"} => nodes = <<>>
    /\ nodes = <<>> => DOMAIN prefixes = {} /\ pending = {}
    /\ outcome = "written" => pending = {}

\* Where prefixes come from
Origin(n, prefix) ==
    \/ prefix = Default
    \/ n # NoNamespace /\ prefix \in ValuesOf(Generated)
    \/ n \in DOMAIN namespaces /\ prefix = namespaces[n]

HaveOrigins == \A n \in DOMAIN prefixes : Origin(n, prefixes[n])

\* The namespaces of visited nodes have a prefix, or their turn comes.
Covered ==
    outcome \in {"collecting", "written"} =>
        \A i \in DOMAIN nodes : NamespacesOf(nodes[i]) \subseteq DOMAIN prefixes \cup pending

IInv == /\ TypeOK /\ Distinct /\ DeclarationsAreUsed /\ FailsByGeneratedPrefixesOnly
        /\ DeclarationsAreDistinct /\ GlobalsAreKept /\ StartsEmpty /\ HaveOrigins /\ Covered

-----------------------------------------------------------------------------

LEMMA WithProperties ==
    ASSUME NEW f, NEW x, NEW y
    PROVE  /\ DOMAIN With(f, x, y) = DOMAIN f \cup {x}
           /\ With(f, x, y)[x] = y
           /\ \A z \in DOMAIN f : z # x => With(f, x, y)[z] = f[z]
           /\ \A S, T : f \in [DOMAIN f -> T] /\ DOMAIN f \subseteq S /\ x \in S /\ y \in T =>
                  /\ With(f, x, y) \in [DOMAIN With(f, x, y) -> T]
                  /\ DOMAIN With(f, x, y) \subseteq S
BY DEF With

\* A function stays injective if what is added is no value of anything else.
LEMMA WithKeepsDistinct ==
    ASSUME NEW f, \A m, n \in DOMAIN f : f[m] = f[n] => m = n,
           NEW x, NEW y, \A z \in DOMAIN f : z # x => f[z] # y
    PROVE  \A m, n \in DOMAIN With(f, x, y) : With(f, x, y)[m] = With(f, x, y)[n] => m = n
BY DEF With

LEMMA FirstFreeIsFree ==
    ASSUME NEW given, Free(given) # {}
    PROVE  FirstFree(given) \in Free(given)
<1>1. Free(given) \subseteq Nat
  BY GeneratedArePrefixes DEF Free
<1>2. PICK i \in Free(given) : \A j \in Free(given) : ~(<<j, i>> \in OpToRel(<, Nat))
  BY <1>1, WFMin, NatLessThanWellFounded
<1>3. ASSUME NEW j \in Free(given)
      PROVE  i <= j
  <2>1. i \in Nat /\ j \in Nat
    BY <1>1
  <2>2. j < i => <<j, i>> \in OpToRel(<, Nat)
    BY <2>1 DEF OpToRel
  <2>3. ~(j < i)
    BY <1>2, <2>2, Zenon
  <2> QED  BY <2>1, <2>3
<1> QED  BY <1>3 DEF FirstFree

LEMMA GeneratedIsNew ==
    ASSUME NEW given, Free(given) # {}
    PROVE  LET prefix == Generated[FirstFree(given)] IN
           /\ prefix \in PrefixNames /\ prefix # Default /\ prefix \in ValuesOf(Generated)
           /\ \A n \in DOMAIN given : given[n] # prefix
<1>1. FirstFree(given) \in DOMAIN Generated /\ Generated[FirstFree(given)] \notin ValuesOf(given)
  BY FirstFreeIsFree DEF Free
<1>2. Generated[FirstFree(given)] \in PrefixNames
  BY <1>1, GeneratedArePrefixes, ElementOfSeq
<1> QED  BY <1>1, <1>2, NamesAreDistinct DEF ValuesOf

-----------------------------------------------------------------------------
(* Construction *)

\* What normalized declarations map is what namespaces are looked up with.
LEMMA NormalizedTypes ==
    ASSUME NEW declarations \in Declarations, ~Refused(declarations)
    PROVE  LET data == Normalized(declarations) IN
           /\ DOMAIN data \subseteq AllPrefixes
           /\ \A p \in DOMAIN data : data[p] \in Declarable
           /\ \A p \in DOMAIN data \cap DOMAIN Global : data[p] = Global[p]
<1> DEFINE own == Declared(declarations)
<1>1. /\ declarations \in [DOMAIN declarations -> Declarable]
      /\ DOMAIN declarations \subseteq AllPrefixes \cup {None}
      /\ DOMAIN declarations \cap DOMAIN Global = {}
  BY DeclarationsAreMappings DEF Refused
<1>2. /\ DOMAIN own \subseteq AllPrefixes /\ DOMAIN own \cap DOMAIN Global = {}
      /\ \A p \in DOMAIN own : own[p] \in Declarable
  <2>1. DOMAIN own = {IF q = None THEN Default ELSE q : q \in DOMAIN declarations}
    BY DEF Declared
  <2>2. ASSUME NEW p \in DOMAIN own, p \notin DOMAIN declarations
        PROVE  p = Default /\ None \in DOMAIN declarations
    BY <2>1, <2>2
  <2>3. \A p \in DOMAIN own : own[p] = IF p \in DOMAIN declarations THEN declarations[p]
                                       ELSE declarations[None]
    BY <2>1 DEF Declared
  <2>4. Default \notin DOMAIN Global
    BY DeclarationsAreMappings, NamesAreDistinct
  <2>5. \A p \in DOMAIN own : p # None
    BY <2>1, NamesAreDistinct
  <2> QED  BY <1>1, <2>2, <2>3, <2>4, <2>5 DEF AllPrefixes
<1>3. /\ \A p \in DOMAIN Global : Global[p] \in Declarable
      /\ \A p \in DOMAIN Common : Common[p] \in Declarable
      /\ DOMAIN Global \subseteq AllPrefixes /\ DOMAIN Common \subseteq AllPrefixes
  BY DeclarationsAreMappings DEF AllPrefixes
<1> HIDE DEF own
<1> QED  BY <1>2, <1>3 DEF Normalized, own

LEMMA InvertedProperties ==
    ASSUME NEW data
    PROVE  /\ DOMAIN Inverted(data) = ValuesOf(data)
           /\ \A n \in ValuesOf(data) : /\ Inverted(data)[n] \in DOMAIN data
                                        /\ data[Inverted(data)[n]] = n
<1>1. ASSUME NEW n \in ValuesOf(data)
      PROVE  \E p \in DOMAIN data : data[p] = n
  BY DEF ValuesOf
<1> QED  BY <1>1 DEF Inverted

LEMMA ConstructKeepsIInv ==
    ASSUME IInv, NEW declarations \in Declarations, Construct(declarations)
    PROVE  IInv'
<1>1. /\ nodes = <<>> /\ DOMAIN prefixes = {} /\ pending = {}
      /\ nodes' = nodes /\ prefixes' = prefixes /\ pending' = pending
  BY DEF IInv, StartsEmpty, Construct
<1>2. CASE Refused(declarations)
  <2>1. outcome' = "ValueError" /\ namespaces' = namespaces
    BY <1>2 DEF Construct
  <2> QED  BY <1>1, <2>1 DEF IInv, TypeOK, Distinct, DeclarationsAreUsed,
             FailsByGeneratedPrefixesOnly, DeclarationsAreDistinct, GlobalsAreKept, StartsEmpty,
             HaveOrigins, Origin, Covered
<1>3. CASE ~Refused(declarations)
  <2> DEFINE data == Normalized(declarations)
  <2>1. outcome' = "collecting" /\ namespaces' = Inverted(data)
    BY <1>3 DEF Construct
  <2>2. /\ DOMAIN data \subseteq AllPrefixes
        /\ \A p \in DOMAIN data : data[p] \in Declarable
        /\ \A p \in DOMAIN data \cap DOMAIN Global : data[p] = Global[p]
    BY <1>3, NormalizedTypes
  <2> HIDE DEF data
  <2>3. /\ DOMAIN namespaces' = ValuesOf(data)
        /\ \A n \in DOMAIN namespaces' : /\ namespaces'[n] \in DOMAIN data
                                         /\ data[namespaces'[n]] = n
    BY <2>1, InvertedProperties
  <2>4. /\ namespaces' \in [DOMAIN namespaces' -> AllPrefixes]
        /\ DOMAIN namespaces' \subseteq Declarable
    BY <2>1, <2>2, <2>3 DEF Inverted, ValuesOf
  <2>5. DeclarationsAreDistinct' /\ GlobalsAreKept'
    BY <2>2, <2>3 DEF DeclarationsAreDistinct, GlobalsAreKept
  <2>6. TypeOK'
    BY <1>1, <2>1, <2>4 DEF IInv, TypeOK
  <2>7. /\ Distinct' /\ DeclarationsAreUsed' /\ FailsByGeneratedPrefixesOnly'
        /\ StartsEmpty' /\ HaveOrigins' /\ Covered'
    BY <1>1, <2>1 DEF Distinct, DeclarationsAreUsed, FailsByGeneratedPrefixesOnly, StartsEmpty,
       HaveOrigins, Covered
  <2> QED  BY <2>5, <2>6, <2>7 DEF IInv
<1> QED  BY <1>2, <1>3

-----------------------------------------------------------------------------
(* Collecting *)

\* One more namespace with a prefix, which no other one has
LEMMA AssignmentKeepsIInv ==
    ASSUME IInv, outcome = "collecting", outcome' = outcome, namespaces' = namespaces,
           nodes' \in Seq(Nodes), nodes' # <<>>, pending' \subseteq AllNamespaces, Covered',
           NEW given, given \in [DOMAIN given -> AllPrefixes], DOMAIN given \subseteq AllNamespaces,
           \A m, n \in DOMAIN given : given[m] = given[n] => m = n,
           \A n \in DOMAIN given : Origin(n, given[n]),
           \A n \in DOMAIN given \cap DOMAIN namespaces :
               given[n] # namespaces[n] => namespaces[n] = Default,
           prefixes' = given
    PROVE  IInv'
<1>1. TypeOK'
  BY DEF IInv, TypeOK
<1>2. Distinct' /\ DeclarationsAreUsed' /\ HaveOrigins'
  BY DEF Distinct, DeclarationsAreUsed, HaveOrigins, Origin
<1>3. FailsByGeneratedPrefixesOnly' /\ DeclarationsAreDistinct' /\ GlobalsAreKept' /\ StartsEmpty'
  BY DEF IInv, FailsByGeneratedPrefixesOnly, DeclarationsAreDistinct, GlobalsAreKept, StartsEmpty
<1> QED  BY <1>1, <1>2, <1>3 DEF IInv

LEMMA VisitKeepsIInv ==
    ASSUME IInv, NEW node \in Nodes, Visit(node)
    PROVE  IInv'
<1>1. /\ outcome = "collecting" /\ outcome' = outcome /\ namespaces' = namespaces
      /\ nodes' = Append(nodes, node) /\ nodes \in Seq(Nodes)
      /\ pending = {} /\ pending' = NamespacesOf(node)
  BY DEF Visit, IInv, TypeOK
<1>2. nodes' \in Seq(Nodes) /\ nodes' # <<>> /\ pending' \subseteq AllNamespaces
  BY <1>1 DEF NamespacesOf, Nodes
<1>3. DOMAIN prefixes \subseteq DOMAIN prefixes'
  BY DEF Visit, With
<1>4. Covered'
  <2>1. \A i \in DOMAIN nodes' : \/ nodes'[i] = node
                                 \/ i \in DOMAIN nodes /\ nodes'[i] = nodes[i]
    BY <1>1
  <2>2. \A i \in DOMAIN nodes : NamespacesOf(nodes[i]) \subseteq DOMAIN prefixes
    BY <1>1 DEF IInv, Covered
  <2>3. SUFFICES ASSUME NEW i \in DOMAIN nodes'
                 PROVE  NamespacesOf(nodes'[i]) \subseteq DOMAIN prefixes' \cup pending'
    BY DEF Covered, NamespacesOf
  <2> QED  BY <1>1, <1>3, <2>1, <2>2
<1>5. CASE RootIsUndeclared(node)
  <2>1. /\ prefixes' = With(prefixes, node.namespace, Default)
        /\ DOMAIN prefixes = {} /\ node.namespace \notin DOMAIN namespaces
    BY <1>5 DEF Visit, RootIsUndeclared, IInv, StartsEmpty
  <2>2. /\ DOMAIN prefixes' = {node.namespace} /\ prefixes'[node.namespace] = Default
        /\ prefixes' \in [DOMAIN prefixes' -> AllPrefixes]
    BY <2>1 DEF With, AllPrefixes
  <2>3. node.namespace \in AllNamespaces
    BY DEF Nodes
  <2> QED  BY <1>1, <1>2, <1>4, <2>1, <2>2, <2>3, AssignmentKeepsIInv DEF Origin
<1>6. CASE ~RootIsUndeclared(node)
  <2>1. prefixes' = prefixes
    BY <1>6 DEF Visit
  <2>2. /\ prefixes \in [DOMAIN prefixes -> AllPrefixes] /\ DOMAIN prefixes \subseteq AllNamespaces
        /\ \A m, n \in DOMAIN prefixes : prefixes[m] = prefixes[n] => m = n
        /\ \A n \in DOMAIN prefixes : Origin(n, prefixes[n])
        /\ \A n \in DOMAIN prefixes \cap DOMAIN namespaces :
               prefixes[n] # namespaces[n] => namespaces[n] = Default
    BY DEF IInv, TypeOK, Distinct, HaveOrigins, DeclarationsAreUsed
  <2> QED  BY <1>1, <1>2, <1>4, <2>1, <2>2, AssignmentKeepsIInv
<1> QED  BY <1>5, <1>6

\* What is needed of an assignment that follows
Sound(given) ==
    /\ given \in [DOMAIN given -> AllPrefixes] /\ DOMAIN given \subseteq AllNamespaces
    /\ \A m, n \in DOMAIN given : given[m] = given[n] => m = n
    /\ \A n \in DOMAIN given : Origin(n, given[n])
    /\ \A n \in DOMAIN given \cap DOMAIN namespaces :
           given[n] # namespaces[n] => namespaces[n] = Default

LEMMA WithIsSound ==
    ASSUME NEW given, Sound(given), NEW n \in AllNamespaces, NEW prefix \in AllPrefixes,
           \A z \in DOMAIN given : z # n => given[z] # prefix,
           Origin(n, prefix),
           n \in DOMAIN namespaces /\ prefix # namespaces[n] => namespaces[n] = Default
    PROVE  Sound(With(given, n, prefix))
<1> DEFINE f == With(given, n, prefix)
<1>1. /\ DOMAIN f = DOMAIN given \cup {n} /\ f[n] = prefix
      /\ \A z \in DOMAIN given : z # n => f[z] = given[z]
      /\ f \in [DOMAIN f -> AllPrefixes] /\ DOMAIN f \subseteq AllNamespaces
  BY WithProperties DEF Sound
<1>2. \A m, z \in DOMAIN f : f[m] = f[z] => m = z
  BY WithKeepsDistinct DEF Sound
<1> HIDE DEF f
<1>3. \A z \in DOMAIN f : Origin(z, f[z])
  BY <1>1 DEF Sound
<1>4. \A z \in DOMAIN f \cap DOMAIN namespaces : f[z] # namespaces[z] => namespaces[z] = Default
  BY <1>1 DEF Sound
<1>5. Sound(f)
  BY <1>1, <1>2, <1>3, <1>4 DEF Sound
<1> QED  BY <1>5 DEF f

LEMMA NewDeclarationIsSound ==
    ASSUME NEW given, Sound(given), Free(given) # {}, NEW n \in Declarable,
           n \in DOMAIN namespaces => namespaces[n] = Default
    PROVE  /\ Sound(NewDeclaration(given, n))
           /\ DOMAIN NewDeclaration(given, n) = DOMAIN given \cup {n}
           /\ NewDeclaration(given, n)[n] # Default
           /\ \A z \in DOMAIN given : z # n => NewDeclaration(given, n)[z] = given[z]
<1> DEFINE prefix == Generated[FirstFree(given)]
<1>1. /\ prefix \in AllPrefixes /\ prefix # Default /\ prefix \in ValuesOf(Generated)
      /\ \A z \in DOMAIN given : given[z] # prefix
  BY GeneratedIsNew DEF AllPrefixes
<1>2. n \in AllNamespaces /\ n # NoNamespace
  BY NamesAreDistinct DEF AllNamespaces
<1>3. NewDeclaration(given, n) = With(given, n, prefix)
  BY DEF NewDeclaration
<1> HIDE DEF prefix
<1>4. Origin(n, prefix)
  BY <1>1, <1>2 DEF Origin
<1>5. Sound(With(given, n, prefix))
  BY <1>1, <1>2, <1>4, WithIsSound
<1> QED  BY <1>1, <1>3, <1>5 DEF With

LEMMA RedeclareIsSound ==
    ASSUME NEW given, Sound(given), Unprefixed(given) # {} => Free(given) # {},
           NoNamespace \notin DOMAIN given
    PROVE  LET f == RedeclareEmptyPrefix(given) IN
           /\ Sound(f) /\ DOMAIN f = DOMAIN given
           /\ \A n \in DOMAIN f : f[n] # Default
<1>1. CASE Unprefixed(given) = {}
  BY <1>1 DEF RedeclareEmptyPrefix, Unprefixed
<1>2. CASE Unprefixed(given) # {}
  <2> DEFINE other == CHOOSE n \in Unprefixed(given) : TRUE
  <2>1. RedeclareEmptyPrefix(given) = NewDeclaration(given, other)
    BY <1>2 DEF RedeclareEmptyPrefix
  <2>2. other \in DOMAIN given /\ given[other] = Default
    BY <1>2 DEF Unprefixed
  <2> HIDE DEF other
  <2>3. other \in Declarable
    BY <2>2 DEF Sound, AllNamespaces
  <2>4. other \in DOMAIN namespaces => namespaces[other] = Default
    BY <2>2 DEF Sound
  <2>5. \A n \in DOMAIN given : given[n] = Default => n = other
    BY <2>2 DEF Sound
  <2>6. /\ Sound(NewDeclaration(given, other))
        /\ DOMAIN NewDeclaration(given, other) = DOMAIN given \cup {other}
        /\ NewDeclaration(given, other)[other] # Default
        /\ \A z \in DOMAIN given : z # other => NewDeclaration(given, other)[z] = given[z]
    BY <1>2, <2>3, <2>4, NewDeclarationIsSound
  <2> QED  BY <2>1, <2>2, <2>5, <2>6
<1> QED  BY <1>1, <1>2

LEMMA GivenIsSound ==
    ASSUME IInv, NEW namespace \in AllNamespaces, ~Known(namespace),
           NeedsGenerated(namespace) => Free(prefixes) # {}, ~PrefixIsTaken(namespace)
    PROVE  /\ Sound(Given(namespace))
           /\ DOMAIN Given(namespace) = DOMAIN prefixes \cup {namespace}
<1>1. Sound(prefixes)
  BY DEF IInv, Sound, TypeOK, Distinct, HaveOrigins, DeclarationsAreUsed
<1>2. namespace \notin DOMAIN prefixes
  BY DEF Known
<1>3. CASE namespace = NoNamespace
  <2> DEFINE f == RedeclareEmptyPrefix(prefixes)
  <2>1. Given(namespace) = With(f, NoNamespace, Default)
    BY <1>3 DEF Given
  <2>2. Sound(f) /\ DOMAIN f = DOMAIN prefixes /\ \A n \in DOMAIN f : f[n] # Default
    BY <1>1, <1>2, <1>3, RedeclareIsSound DEF NeedsGenerated
  <2> HIDE DEF f
  <2>3. NoNamespace \in AllNamespaces /\ Default \in AllPrefixes /\ NoNamespace \notin DOMAIN namespaces
    BY NamesAreDistinct DEF AllNamespaces, AllPrefixes, IInv, TypeOK
  <2>4. Origin(NoNamespace, Default)
    BY DEF Origin
  <2>5. Sound(With(f, NoNamespace, Default))
    BY <2>2, <2>3, <2>4, WithIsSound
  <2>6. DOMAIN With(f, NoNamespace, Default) = DOMAIN prefixes \cup {namespace}
    BY <1>3, <2>2 DEF With
  <2> QED  BY <2>1, <2>5, <2>6
<1>4. CASE namespace # NoNamespace /\ HasDeclaration(namespace)
  <2> DEFINE prefix == namespaces[namespace]
  <2>1. Given(namespace) = With(prefixes, namespace, prefix)
    BY <1>4 DEF Given
  <2>2. namespace \in DOMAIN namespaces /\ prefix \in AllPrefixes
    BY <1>4 DEF HasDeclaration, IInv, TypeOK
  <2>3. \A z \in DOMAIN prefixes : prefixes[z] # prefix
    BY <1>4 DEF PrefixIsTaken, ValuesOf
  <2>4. Origin(namespace, prefix)
    BY <2>2 DEF Origin
  <2> HIDE DEF prefix
  <2>5. Sound(With(prefixes, namespace, prefix))
    BY <1>1, <2>2, <2>3, <2>4, WithIsSound DEF prefix
  <2> QED  BY <2>1, <2>5 DEF With
<1>5. CASE namespace # NoNamespace /\ ~HasDeclaration(namespace)
  <2>1. Given(namespace) = NewDeclaration(prefixes, namespace)
    BY <1>5 DEF Given
  <2>2. Free(prefixes) # {} /\ namespace \in Declarable
    BY <1>5 DEF NeedsGenerated, AllNamespaces
  <2>3. namespace \in DOMAIN namespaces => namespaces[namespace] = Default
    BY <1>5 DEF HasDeclaration
  <2> QED  BY <1>1, <2>1, <2>2, <2>3, NewDeclarationIsSound
<1> QED  BY <1>3, <1>4, <1>5

\* A declared prefix that is in use was generated.
LEMMA TakenPrefixesAreGenerated ==
    ASSUME IInv, NEW namespace, ~Known(namespace), PrefixIsTaken(namespace)
    PROVE  ValuesOf(namespaces) \cap ValuesOf(Generated) # {}
<1>1. /\ namespace \in DOMAIN namespaces
      /\ namespaces[namespace] = Default => Unprefixed(prefixes) = {}
  BY DEF PrefixIsTaken, HasDeclaration
<1>2. PICK m \in DOMAIN prefixes : prefixes[m] = namespaces[namespace]
  BY DEF PrefixIsTaken, ValuesOf
<1>3. prefixes[m] # Default
  BY <1>1, <1>2 DEF Unprefixed
<1>4. m # namespace
  BY DEF Known
<1>5. ~(m \in DOMAIN namespaces /\ prefixes[m] = namespaces[m])
  BY <1>1, <1>2, <1>4 DEF IInv, DeclarationsAreDistinct
<1>6. prefixes[m] \in ValuesOf(Generated)
  BY <1>3, <1>5 DEF IInv, HaveOrigins, Origin
<1> QED  BY <1>1, <1>2, <1>6 DEF ValuesOf

LEMMA CollectKeepsIInv ==
    ASSUME IInv, NEW namespace \in pending, Collect(namespace)
    PROVE  IInv'
<1>1. /\ outcome = "collecting" /\ namespaces' = namespaces /\ nodes' = nodes
      /\ pending' = pending \ {namespace} /\ namespace \in AllNamespaces
      /\ nodes \in Seq(Nodes) /\ nodes # <<>> /\ pending' \subseteq AllNamespaces
  BY DEF Collect, IInv, TypeOK, StartsEmpty
<1>2. ASSUME DOMAIN prefixes \subseteq DOMAIN prefixes', namespace \in DOMAIN prefixes'
      PROVE  Covered'
  BY <1>1, <1>2 DEF IInv, Covered, NamespacesOf
<1>3. Sound(prefixes)
  BY DEF IInv, Sound, TypeOK, Distinct, HaveOrigins, DeclarationsAreUsed
<1>4. CASE Known(namespace) /\ UNCHANGED <<prefixes, outcome>>
  <2>1. Covered'
    BY <1>2, <1>4 DEF Known
  <2> QED  BY <1>1, <1>3, <1>4, <2>1, AssignmentKeepsIInv DEF Sound
<1>5. CASE /\ ~Known(namespace)
           /\ NeedsGenerated(namespace) => Free(prefixes) # {}
           /\ ~PrefixIsTaken(namespace)
           /\ prefixes' = Given(namespace)
           /\ UNCHANGED outcome
  <2>1. Sound(Given(namespace)) /\ DOMAIN Given(namespace) = DOMAIN prefixes \cup {namespace}
    BY <1>1, <1>5, GivenIsSound
  <2>2. Covered'
    BY <1>2, <1>5, <2>1
  <2> QED  BY <1>1, <1>5, <2>1, <2>2, AssignmentKeepsIInv DEF Sound
<1>6. CASE /\ ~Known(namespace)
           /\ UNCHANGED prefixes
           /\ \/ outcome' = "AssertionError" /\ PrefixIsTaken(namespace)
              \/ outcome' = "NotImplementedError" /\ Free(prefixes) = {}
  <2>1. TypeOK' /\ Distinct' /\ DeclarationsAreUsed' /\ HaveOrigins'
    BY <1>1, <1>6 DEF IInv, TypeOK, Distinct, DeclarationsAreUsed, HaveOrigins, Origin
  <2>2. DeclarationsAreDistinct' /\ GlobalsAreKept' /\ StartsEmpty' /\ Covered'
    BY <1>1, <1>6 DEF IInv, DeclarationsAreDistinct, GlobalsAreKept, StartsEmpty, Covered
  <2>3. outcome' = "AssertionError" => ValuesOf(namespaces') \cap ValuesOf(Generated) # {}
    BY <1>1, <1>6, TakenPrefixesAreGenerated
  <2>4. outcome' = "NotImplementedError" => ValuesOf(Generated) \subseteq ValuesOf(prefixes')
    BY <1>6 DEF Free, ValuesOf
  <2> QED  BY <2>1, <2>2, <2>3, <2>4 DEF IInv, FailsByGeneratedPrefixesOnly
<1> QED  BY <1>1, <1>4, <1>5, <1>6 DEF Collect

LEMMA WriteKeepsIInv ==
    ASSUME IInv, Write
    PROVE  IInv'
BY DEF Write, IInv, TypeOK, Distinct, DeclarationsAreUsed, FailsByGeneratedPrefixesOnly,
   DeclarationsAreDistinct, GlobalsAreKept, StartsEmpty, HaveOrigins, Origin, Covered

LEMMA StutteringKeepsIInv ==
    ASSUME IInv, UNCHANGED vars
    PROVE  IInv'
BY DEF vars, IInv, TypeOK, Distinct, DeclarationsAreUsed, FailsByGeneratedPrefixesOnly,
   DeclarationsAreDistinct, GlobalsAreKept, StartsEmpty, HaveOrigins, Origin, Covered

-----------------------------------------------------------------------------
(* Reading back *)

\* A prefix that was written means the namespace that it was given to.
LEMMA MeaningIsInverse ==
    ASSUME IInv, NEW n \in DOMAIN prefixes
    PROVE  Meaning(prefixes[n]) = n
<1> DEFINE prefix == prefixes[n]
<1>1. \A m \in DOMAIN prefixes : prefixes[m] = prefix => m = n
  BY DEF IInv, Distinct
<1>2. DOMAIN WrittenDeclarations = {prefixes[m] : m \in InNeedOfDeclaration}
  BY DEF WrittenDeclarations
<1>3. Default \notin DOMAIN Global
  BY DeclarationsAreMappings, NamesAreDistinct
<1>4. prefix \in DOMAIN Global => n # NoNamespace /\ Global[prefix] = n
  <2>1. SUFFICES ASSUME prefix \in DOMAIN Global
                 PROVE  n \in DOMAIN namespaces /\ prefix = namespaces[n]
    BY NamesAreDistinct DEF IInv, GlobalsAreKept, TypeOK
  <2>2. prefix \notin ValuesOf(Generated)
    BY <2>1, GeneratedArePrefixes, ElementOfSeq DEF ValuesOf
  <2> QED  BY <1>3, <2>1, <2>2 DEF IInv, HaveOrigins, Origin
<1>5. CASE n \in InNeedOfDeclaration
  <2>1. prefix \in DOMAIN WrittenDeclarations
    BY <1>2, <1>5
  <2>2. WrittenDeclarations[prefix] = CHOOSE m \in InNeedOfDeclaration : prefixes[m] = prefix
    BY <2>1 DEF WrittenDeclarations
  <2>3. WrittenDeclarations[prefix] = n
    BY <1>1, <1>5, <2>2 DEF InNeedOfDeclaration
  <2>4. prefix \notin DOMAIN Global
    BY <1>5 DEF InNeedOfDeclaration
  <2> QED  BY <2>1, <2>3, <2>4 DEF Meaning
<1>6. CASE n \notin InNeedOfDeclaration
  <2>1. n = NoNamespace \/ prefix \in DOMAIN Global
    BY <1>6 DEF InNeedOfDeclaration
  <2>2. prefix \notin DOMAIN WrittenDeclarations
    BY <1>1, <1>2, <1>6 DEF InNeedOfDeclaration
  <2> QED  BY <1>4, <2>1, <2>2 DEF Meaning
<1> QED  BY <1>5, <1>6

\* What was collected suffices to write names that come back.
LEMMA NamesComeBackFromIInv ==
    ASSUME IInv
    PROVE  NamesComeBack
<1>1. SUFFICES ASSUME outcome = "written", NEW i \in DOMAIN nodes
               PROVE  /\ Meaning(prefixes[nodes[i].namespace]) = nodes[i].namespace
                      /\ \A n \in nodes[i].attributes :
                            AttributeMeaning(prefixes[n], nodes[i]) = n <=>
                                prefixes[n] # Default \/ n = nodes[i].namespace
  BY DEF NamesComeBack
<1>2. NamespacesOf(nodes[i]) \subseteq DOMAIN prefixes
  BY <1>1 DEF IInv, StartsEmpty, Covered
<1>3. Meaning(prefixes[nodes[i].namespace]) = nodes[i].namespace
  BY <1>2, MeaningIsInverse DEF NamespacesOf
<1>4. ASSUME NEW n \in nodes[i].attributes
      PROVE  AttributeMeaning(prefixes[n], nodes[i]) = n <=>
                 prefixes[n] # Default \/ n = nodes[i].namespace
  <2>1. Meaning(prefixes[n]) = n
    BY <1>2, MeaningIsInverse DEF NamespacesOf
  <2> QED  BY <2>1 DEF AttributeMeaning
<1> QED  BY <1>3, <1>4

-----------------------------------------------------------------------------

LEMMA InitSatisfiesIInv == Init => IInv
BY DEF Init, IInv, TypeOK, Distinct, DeclarationsAreUsed, FailsByGeneratedPrefixesOnly,
   DeclarationsAreDistinct, GlobalsAreKept, StartsEmpty, HaveOrigins, Covered

LEMMA NextKeepsIInv == IInv /\ [Next]_vars => IInv'
BY ConstructKeepsIInv, VisitKeepsIInv, CollectKeepsIInv, WriteKeepsIInv, StutteringKeepsIInv DEF Next

\* The inductive invariant of the serializer's prefixes
THEOREM Invariance == Spec => []IInv
BY InitSatisfiesIInv, NextKeepsIInv, PTL DEF Spec

\* Prefixes are given to namespaces, and to nothing else.
THEOREM TypeCorrect == Spec => []TypeOK
<1>1. IInv => TypeOK
  BY DEF IInv
<1> QED  BY <1>1, Invariance, PTL

\* No two namespaces share a prefix.
THEOREM AlwaysDistinct == Spec => []Distinct
<1>1. IInv => Distinct
  BY DEF IInv
<1> QED  BY <1>1, Invariance, PTL

\* Declared prefixes are used for their namespaces.
THEOREM DeclarationsAlwaysUsed == Spec => []DeclarationsAreUsed
<1>1. IInv => DeclarationsAreUsed
  BY DEF IInv
<1> QED  BY <1>1, Invariance, PTL

\* Serialization fails for generated prefixes only.
THEOREM AlwaysFailsByGeneratedPrefixes == Spec => []FailsByGeneratedPrefixesOnly
<1>1. IInv => FailsByGeneratedPrefixesOnly
  BY DEF IInv
<1> QED  BY <1>1, Invariance, PTL

\* Names are read back as they were, but for attributes that are written without prefix
\* on nodes of other namespaces.
THEOREM NamesAlwaysComeBack == Spec => []NamesComeBack
BY NamesComeBackFromIInv, Invariance, PTL
=============================================================================
