# A formal model of delb

This directory holds TLA+ modules that model the core of *delb*, a library for
the manipulation of XML documents, configurations that check them with TLC and
theorems about them that TLAPS checks. `PROJECT.json` names every run, the lines
of the code that each definition models and the hazards the properties are for.

Contents: [the system](#the-system), [the modules](#the-modules), [the
runs](#the-runs), [disagreements](#where-code-and-documentation-disagree), [the
proofs](#the-proofs), [what is left out](#what-is-not-modelled), [the
plan](#the-plan).

## The system

delb is a library without processes of its own. Its calls run one at a time in
the threads of a client. What makes it hard is not parallelism but *shared
mutable structure*: a node is known to its parent's child list and knows its
parent, an attribute is known to a mapping and knows that mapping, generators are
suspended in the middle of a tree that the client goes on to change, and one
stack of filters serves the whole process. Calls that take several nodes may fail
in the middle.

| Component | State | Operations | Interacts with |
| --- | --- | --- | --- |
| Node tree, `_delb/nodes.py` | `_parent`, `_child_nodes` (a `Siblings` list) | constructors, `append_children`, `insert_children`, `prepend_children`, `add_following_siblings`, `add_preceding_siblings`, `detach`, `replace_with`, item access, `clone`; `Document.root`, `prologue`, `epilogue` | everything |
| Attributes, `_delb/nodes.py` | the mapping of a `TagAttributes`, an `Attribute`'s mapping and name | setting, deleting, updating, renaming, `TagNode.namespace` | tree builder, serializer |
| Traversal, `_delb/nodes.py`, `_delb/utils.py` | a suspended generator's variables | the `iterate_*` methods and traversers | node tree, default filters, XPath axes |
| Default filters, `_delb/filters.py` | the stack `default_filters` | `altered_default_filters` | iterators, `len`, truth value, `TagNode.id` |
| Identifiers, `TagNode.id` | the `xml:id` attributes of a tree | setting and removing | traversal, default filters |
| Text and whitespace, `_delb/nodes.py` | text nodes' contents | `merge_text_nodes`, whitespace reduction | node tree, builder, serializer |
| Names and namespaces, `_delb/names.py` | a cache of 16 normalized mappings | lookups, normalization | serializer, XPath |
| Tree builder, `_delb/builder.py` | stacks of children, started tags and whitespace modes; seen ids | one handler per event | parsers, nodes |
| Parser front end and adapters, `_delb/parser.py`, `_delb/plugins/*_parser.py` | pending text, events, the first bytes | reading, emitting events | expat and libxml2, builder |
| Serializer, `_delb/serializer.py` | prefixes, unwritten text nodes, level, line offset | one per kind of node | names, nodes |
| Document and loaders, `delb/__init__.py`, `_delb/plugins/` | the configuration, the lists of loaders and subclasses | loading, writing, registration | parsers, serializer |
| XPath, `_delb/xpath/` | syntax trees | tokenizing, parsing, evaluation, `fetch_or_create_by_xpath` | traversal, names |
| Transformations, `delb/transform.py` | the current root | calling | nodes |
| Sorting, comparing, `_delb/utils.py`, `delb/utils.py` | an index cache | `in_document_order`, `compare_trees` | nodes |

The hard behaviours, and what is correct in their presence:

- **Two-sided links.** Each call updates parent pointers and lists separately, in
  several steps of which some may raise. Correct: both tell the same story after
  every call, the structure is a forest, a document has one root, a call that
  fails takes nothing out of a tree.
- **Order.** Multi-node insertions work with reversed arguments and fixed indexes.
  Correct: no call ever changes the document order of nodes it does not place.
- **Stale objects.** Replaced `Attribute` objects, indexes computed before a list
  shrinks, filters that are read when a generator is first resumed.
- **Clients in between.** Generators are suspended while nodes are detached.
  Correct: walks yield their axis on an unchanged tree, and on a changed one they
  stay in order, repeat nothing and return.
- **Round trips.** What is built is what the stream describes, in whatever chunks it came, and
  reducing whitespace early or late is the same. Names come back with the
  same namespaces, whitespace that a serializer adds or leaves out vanishes or comes back
  when the result is read, an expression that is written down is read as what was meant.
- **Chains of attempts.** Loaders of plugins are tried in turn on one shared configuration,
  each may fail after having changed it. Correct: what a document says of its origin is
  true, a failure has a reason, and what is decided when something is loaded still holds
  when a document is made of it.
- **Definitions by sets.** A path means a set of nodes, positions count along an axis,
  evaluation is a cascade of generators. Correct: the results are that set, without
  duplicates, and a branch that was created for a path is what the path finds.

## The modules

| Module | Models |
| --- | --- |
| `PyLists` | the list operations of Python that child lists are changed with |
| `Tree` | the node tree and all calls that change it |
| `Forest` | what the tree promises: ordered forests under whole edits, document order |
| `Attributes` | `TagAttributes` and `Attribute` |
| `Traversal` | all generators over the axes, as stacks of frames |
| `Filters` | the stack of default filters and the blocks that alter it |
| `Identifiers` | `TagNode.id`, composed with `Filters` |
| `Whitespace` | merging text nodes, reducing whitespace among siblings |
| `TreeWhitespace` | reducing whitespace in trees, composed with `Whitespace` |
| `Building` | the adapters of both parsers and the tree builder, composed with `Whitespace` |
| `Reduction` | what a stream describes, and what `Building` has to make of it |
| `Prefixes` | declarations of namespaces and the serializer's choice of prefixes |
| `Pretty` | all serializers and writers, and what is read from their output; uses `TreeWhitespace` |
| `XPath` | the evaluation of location paths on a tree, with predicates and functions |
| `Queries` | queries step by step, sorting and comparing, `fetch_or_create_by_xpath`; uses `XPath` |
| `XPathParser` | how tokens become the syntax trees that `XPath` evaluates |
| `Expressions` | composing, writing, damaging and reading expressions with `XPathParser` |
| `Documents` | registration of loaders, definition of classes, loading and cloning documents |
| `PrettyClaims` | what documentation guarantees of formatted streams and the code does not do |
| `*Proofs` | lemmas and theorems |
| `MC*` | instances for TLC |

### Tree

A node is an identity, `parent` is `_parent`, `children` is `_child_nodes`.
`made` holds the objects that exist: an identity outside stands for an object that
a call may still create, out of a string, a tag definition, by a constructor or as
a copy. A clone that is not given to anything else is one step, a call with
`clone=True` makes the copies in the same step. `broken` holds tag nodes whose
constructor raised after it had taken children: the object is lost to the client
but its children refer to it, and `OnlyRetainedNodesMove` says that they are lost as well. `outcome` is the exception of the last call.

Insertions go through `Change`, removals through `Remove`, which mirrors that only `Siblings`
touches lists. `Refusal` is `Siblings._handle_new_sibling` with the order of its tests. `Place` is
the loop over several arguments: it stops in front of the first node that is
refused, with those before it in place. An action is one call: `AppendChildren`,
`InsertChildren`, `PrependChildren`, `AddSiblings`, `ReplaceWith`, `Detach`, the
item operations `SetItem`, `DelItem` and `DelSlice`, `NewLeaf`, `NewTag`, `Clone`, `SetRoot`, and
the calls of prologue and epilogue.

Item access counts the children that pass the default filters, which hide comments and
processing instructions unless a client alters them. `Items` therefore has any set of places in a
list as the visible ones. `ItemPlaces` is where an index leads, an `IndexError` if nowhere;
`SetItem` compares the index to the number of *all* children first, as the code does, and then
replaces the visible child. `DelSlice` takes off children at scattered places, what is hidden
between them stays.

Contents, names and attributes do not matter to any call and are left out. `parent` and `children` of a node that is inserted below itself would be
a cycle; the code does not test for that and hangs or recurses then, so the calls'
guard `Above` says that clients do not do it: `Grounded` then says that no *legal*
call has that effect.

### Attributes

`data[m]` is the mapping of a node, from qualified names to `Attribute` objects,
`owner[x]` and `name[x]` what an attribute object has as `_attributes` and as
qualified name. Accessors are plain or qualified names, a plain one is resolved with
the node's namespace at that moment. `Update` is what the constructor and `update`
do with several entries.

### Traversal

A generator is a stack of frames, one per nested `yield from`, each with the local
variables of its code and what they were bound to when it was suspended. `Run` runs
the topmost frame to its next yield, return, call or exception, `Resume` is the
client's `next()`, `Detach` what it may do between two of them. `origin` keeps the child lists
as the walk found them. The axes are defined on those (`AxisNodes`, `Precedes`) in terms of
document order and ancestry alone, with none of the generators' means: which nodes belong to an
axis and which of two comes first. A walk that raises `IndexError` is over.

### Filters and Identifiers

A set of filters stands for the kinds of nodes that pass all of them. A client is
anything that can be suspended in a block: a thread, a coroutine or a generator.
`Identifiers` extends `Filters`: whether an id is taken depends on the filters that
are active, as a node's truth value counts its visible children.

### Building, Whitespace and Reduction

The environment of `Building` is a well-formed stream: `Feed` is the parser reading one
more token, a tag's start or end, a comment, or a single character, as parsers may report
text in any portions. `EndChunk` and `Close` are where the adapters' `parse` methods go on to
emit events. Both adapters are in the module, `setting` says which one a behaviour uses.
`ExpatParser` collects text until markup follows (`unprocessed_text`). `LxmlParser` looks
text up in the tree that libxml2 builds at the same time and clears what it has passed:
`gone` are the places that were cleared, `TextSource` is where the adapter looks and what
it clears then. Because the tree is built ahead of the events, an adapter that takes a
text too early, too late or from a cleared place shows. libxml2's tree itself (`Behind`,
`Siblings`, `Kids`, `TailOf`) is external.

`Emit` is one step of the builder's loop: a text event, if there is one, and the event that
made the adapter yield it. `children`, `started_tags`, `preserve_space`, `xml_ids` are the
builder's fields, `results` what `__next__` returned. Attributes are resolved to qualified
names as both adapters do it (`QualifiedName`), `xml:id` and `xml:space` matter.
Content is a sequence of words and blanks, `Word` being any character that `\s` does not
match. `Reduced` has the rules of `_reduce_whitespace_content`.

`open` is the parser's: for each place in the stream, where the tags start that are open
there. An end belongs to the innermost of them, which makes the stream well-formed, and
what is on the builder's stacks is compared to it.

`ReducedTree` in `TreeWhitespace` is `TagNode._reduce_whitespace_of_descendants`, with
`Directive` for what a tag's `xml:space` asks for. `Described` in `Reduction` has the nodes
of a stream, told from the nesting of its tags alone. Both are recursive, which the prover
cannot use, so they are in modules of their own, and `Building` is free of them.

### Prefixes

A serializer is constructed with a user's declarations (`Construct`: the checks and the
normalization of `Namespaces`, inverted for lookups), visits a tree's tag nodes in
breadth-first order (`Visit`) and considers the namespaces of each one's name and
attributes one at a time (`Collect`). They are a Python set, so `Collect` takes any of those
that are left. `Write` is when all was visited; `WrittenDeclarations` is what the root gets as
`xmlns` attributes and `Meaning` what a parser makes of a prefix then. Trees are generated
while they are visited: only the order of nodes matters. Users do not declare a prefix for
the empty namespace, which XML does not allow.

### Pretty

`Init` picks a tree and `FormatOptions`. `Reduce` is `Document.reduce_whitespace`, which a client
may call before `Serialize` writes and `Load` reads the result. All serializers are here: the plain
one (`Plain`), the one that indents (`PrettyText`, `PrettyNode`) and the one that fills lines up to a
width (`WrappedText`, `WrappingNode`), with its lookahead (`RequiredSpace`) and its writer that counts
the offset in a line. `NodeTo` chooses among them. What they write is a sequence of characters and
markup, what is read from it is reduced as in `Whitespace`. A tag has one name and no attribute
but `xml:space`, comments have one content.

### XPath and Queries

A tree is a value: nodes are numbered, `Document` is a document's node and `Shim` the
stand-in that `xpath/ast.py` puts above a topmost node for absolute paths. An axis is a
sequence in document order, which `Traversal` establishes of the generators. A node test,
a predicate and a function is an operator each; what is evaluated is a sequence of nodes that
ends early if something is raised. In `Queries` one location step is one action,
`expected` carries along the node set that XPath's definition asks for, built with
sets instead of generators. A finished query's results are sorted, compared to those of the tree
or followed by `Fetch`, `fetch_or_create_by_xpath` with its check of the expression, the
search, and the creation of the missing branch. `Compared` is `compare_trees`: it counts and
descends into those children only that the default filters show (`ShownKids`), and the property
about it is checked for any set of visible kinds. With the filters that are active initially,
comments below tags are not compared, see below.

### XPathParser and Expressions

Tokens are records of type and string. The operators have the parser's functions: grouping by
brackets, partition by commas, slashes and operators, steps, predicates, functions.
`Expressions` puts expressions together from steps and predicates, writes each in
full and abbreviated, following the grammar of XPath 1.0 and not the parser, may insert, drop or
replace one token, and reads the result.

### Documents

`RegisterLoader` makes a decorator that has computed its index, `Register` is its call.
`DefineClass` copies the loaders for the new class and puts it in front of the others. A call
of `Document` is a `job` that tries one loader per step (`TryLoader`), each may give an excuse,
raise or succeed, and may set the configuration's `source_url`. Plugins' loaders may set or
delete it and fail or succeed with anything. Whether a given node is used or cloned is decided
when it is loaded (`LoadedNode`, with `taken` being the nodes that have a document). Then the class
tests run: they get hold of the loaded root and may make a document of it (`TestTakesNode`) or
raise (`TestRaises`). `Construct` chooses the class from those whose test turns out true
(`fitting`) and takes the node as root, unless it has got a document meanwhile: that is
`Refuse`, where `Siblings.__init__` raises.

### Comparison with the program

The state graphs of `Tree` and `Attributes` and the finished walks of `Traversal`
were also enumerated with the library itself, by breadth-first exploration over
the same calls and arguments as in the models, with the default filters switched off: 1280 tree states (one document, two
tags, a text, a comment), 5684 attribute states (two mappings, three objects, one
local name, two namespaces) and all 9347 finished walks on trees of up to four nodes
with two removals agree exactly. The parser was fed with 7,500 expressions of
`Expressions`, damaged ones included, the serializers with the 22,500 pairs of trees and
layouts of an earlier, larger instance of `Pretty`; results and exceptions agree. The
disagreements below were reproduced with the library.

## The runs

| Run | Instance | Shows |
| --- | --- | --- |
| `tree_calls` | two documents that exchange nodes, their roots, a third tag, a text, a comment; one node per call | `PointersAgree`, `Grounded`, `OneRoot` |
| `tree_arguments` | a document, its root, a tag, two comments; up to two nodes per call | `FailureRemovesNothing`, `OnlyRetainedNodesMove`, `DocumentOrderKept`, `ImplementsForest`: `Tree` refines `Forest` |
| `attributes` | two mappings, three objects, two namespaces, two local names | `InOnePlace`, `OnlyAssignmentMisnames` |
| `traversal` | all walks from all nodes of all trees of up to six nodes; two removals at any points in trees of up to five | `YieldsTheAxis`, `OrderSurvivesRemovals`, `ResultsMayBeRemoved`, `NextReturns` |
| `identifiers` | three tag nodes, two ids, two clients that alter the default filters | `RestoredAtLast` of `Filters`, `OnlyJoiningDuplicates` |
| `building` | all streams of up to six tokens and depth three, both adapters, chunks that end anywhere, with and without reduction | `BuiltAsDescribed`, `ReducedForGood`, `RedundantIdsRefused`, `StacksInStep`, `TextIsPassedOn` |
| `prefixes` | all trees with up to four names in five namespaces, up to two declarations, two generated prefixes | `Distinct`, `NamesComeBack`, `FailsByGeneratedPrefixesOnly` |
| `queries` | a document of six nodes of three kinds and parentless trees, one of them with a comment below a tag, steps along every axis with every kind of test and predicate, unions, branches that are fetched or created in between | `PathsYieldTheirNodeSets`, `LocationPathsAreUnambiguous`, `SortingFollowsTheDocument`, `FirstDifferenceIsReported`, `FetchedIsFound`, `OnlyTheMissingBranchIsAdded` |
| `xpath_parsing` | all expressions of up to three steps and eleven tokens, written in full and abbreviated; up to seven tokens with one slip | `WrittenIsRead`, `GroupingKeepsTokens`, `NoWordIsIgnored` |
| `documents` | two plugins, two derived classes, five sources, any order of registrations, definitions, calls and clones, class tests that make documents | `LoadersKeepTheirPlaces`, `MostSpecificClassIsChosen`, `SourceUrlIsTheOrigin`, `FailuresHaveReasons` |
| `pretty` | trees of up to three levels with mixed contents and `xml:space`, nine layouts | `LayoutIsReducedAway`, `WrappingIsReducedAway`, `LinesAreFilledAndFit` |

One further run finds a counterexample to a claim, see
[below](#where-code-and-documentation-disagree). The longest run is `documents` with two million
states and about two minutes, the others take one minute at most.

**Bounds.** `MaxArgs` bounds the nodes per call: with two, a call can fail after its
first node, and order among arguments and relative to siblings shows. Three tags allow a
tag below a tag below a root, a subtree that moves between trees, and retained children
of an inner node; a further identity of any kind adds no new relation between a call's
participants, which are the node, its parent, a neighbour and the arguments. Six nodes
(`N`) are the fewest on which `following` and `preceding` have to climb two levels and
descend again; two removals (`Removals`, by the size of the tree) are needed for one to
hit a pointer that the other one has moved. Three attribute objects are a fresh, a loose
and an attached one. Attribute objects and mappings are interchangeable (`SYMMETRY` in
`MCAttributes.cfg`), so are plugins and classes in `MCDocuments.cfg`; no run with a liveness property uses symmetry. Six tokens (`MaxTokens`, which counts an
open tag's end in advance) allow a text on either side of an inner tag or comment, a text
in two portions, three nested tags with an inherited and an overriding `xml:space`, and two
identifiers on nested, neighbouring or separated tags; an empty text node between two
siblings, the case that decides whether positions are taken before or after removal, needs
five. `Elements` has a tag without attributes, three with a valid or invalid `xml:space`
and one with an `xml:id`. Four names (`MaxNames`) are a root that takes the empty
prefix, a namespace with a generated prefix, one that was declared with that prefix, and a
name in no namespace that takes the empty prefix back. With two generated prefixes both can
be used up. In `queries`, a text and a comment among tag nodes make positions on axes differ
from those among matching nodes, and a document with its root makes absolute paths differ
from those in parentless trees; `MaxNodes` stops calls from growing trees above four
nodes, which is a missing branch of two steps. Eleven tokens (`MaxLength`) hold a step with a
predicate that nests two operators, damage is limited to `MaxDamaged`. Two plugins let a
decorator become stale while another is applied, two classes derive from each other or from
the same one; the sources are a node, a path, a nameless buffer and two addresses, one of
which cannot be requested: each is understood by another of the built-in loaders. The nine
layouts of `pretty` are none, zero and positive widths and indentations in all combinations,
with widths below, at and above a text's length.

**Deadlock.** The runs of `Traversal` do not check for it: a finished walk stops, and neither do
those of `Building`, `Prefixes` and `Pretty`: a stream and a tree end. All others do.

**Fairness.** The only one is `WF_vars(Run)` in `Traversal`: a `next()` that was called
runs on, as nothing else runs in its thread. The client is under no obligation to call
again. `NextReturns` then says that each `next()` comes to an end, on trees that
changed since the last one as well.

## Where code and documentation disagree

One run finds a property violated that the documentation states, `findings` in
`PROJECT.json` quotes the line.

| Run | What happens |
| --- | --- |
| `pretty_normalized` | a tree that was reduced before is written with a width and an indentation and comes back with a blank that it did not have. `docs/api/serialization.rst` guarantees that it does come back |

The reason is in `TextWrappingSerializer._line_offset` (`serializer.py`, lines 565-570): the offset
in a line is the number of characters written less the indentation, whatever these characters are. After
`<b xml:space="preserve">w` and a newline, a closing tag `</b>` begins the line where an
indentation would be; with an indentation of four characters it is taken for one, the offset is
zero, and the text that follows counts as the first on its line. It is indented then, which is a
blank in front of it when the result is read. `WrappingIsReducedAway` says where wrapping is right.

Where the code does something else than its documentation, its error messages or its assertions
say, the models have what it does. What is marked with a property's name is exempt there or
counts as legitimate, hence no run would notice if it changed; the property says that nothing else
goes wrong that way.

In the tree and its attributes:

- `TagNode.add_following_siblings` and `add_preceding_siblings` do not pass `clone` on
  (`Effective` in `Tree`). `insert_children` with a negative index reverses its arguments.
- `Siblings.remove` resets the parent before the lookup that may fail (line 464): after
  `document.prologue.remove(node)` with a comment from elsewhere, the call has raised, and the
  comment can be put into a second place, although "only a detached node can be added to the tree"
  (line 485). `LogueRemove` has both branches, `Next` the documented use only (`PointersAgree`,
  `OnlyRetainedNodesMove`).
- Renaming an `Attribute` that was overwritten removes the one that replaced it, then the assertion
  in line 248 fails (`Rename` in `Attributes`). `InOnePlace` holds nevertheless.
- While filters hide tag nodes, the search for an id misses them, a root counts as false, and an id
  that is taken is accepted (`Searched` in `Identifiers`, `OnlyJoiningDuplicates`).
- A detached `Attribute` keeps its old name when it is assigned under another key (`SetAttribute`).
- With children hidden, an index between their number and that of all children raises when an item
  is assigned, while the number of all children appends (`SetItem`).
- Detaching what `iterate_following_siblings` yields ends in `IndexError`, as it iterates over
  a range that was computed before (`ResultsMayBeRemoved` excludes that axis).

In parsing and writing:

- An attribute without prefix takes the place of one with a prefix for its element's
  namespace (`AttributesOf` in `Building`). An attribute in no namespace, or in that with the empty
  prefix, is written without prefix on nodes of other namespaces too, and read back as one of
  theirs (`AttributeMeaning` in `Prefixes`, `NamesComeBack`).
- A declared prefix of the form `ns0` may fail at an assertion when another namespace is met
  earlier. Whether it does may depend on the order in which Python iterates a set of strings,
  so the same call may fail in one process and not in another.
- The lookahead of the line-filling serializer takes a tag's first descendant for what follows
  the tag (`Following` in `Pretty`), and a tag that only holds comments for an empty one. That
  costs layout only.

In queries:

- The child axis of a text, comment or processing instruction raises `AttributeError`, a test
  of a processing instruction's target raises on a document node. `node()` matches tag nodes
  only, `not(@x)` is true of an empty attribute.
- `compare_trees` promises equality but looks only at the children that pass the default filters:
  unless these are altered, trees that differ in comments or processing instructions below a tag
  compare as equal (`ShownKids`, `FirstDifferenceIsReported`).
- With a node in a namespace, `fetch_or_create_by_xpath` looks for names in that namespace and
  creates in none, and does so again at the next call; the same with a default namespace in the
  given mapping (`BranchNamespace`, `NamesAgree` in `FetchedIsFound`). With an absolute path on a
  parentless root it leaves a document node without document behind as the root's parent, whose
  `document` fails at an assertion then (`Created`, `OnlyTheMissingBranchIsAdded`).
- Expressions like `]`, `/` and `a/` raise `IndexError`, `AssertionError` or `KeyError` instead
  of the parser's errors (`GroupingKeepsTokens`). Empty partitions, a prefix before `text()`,
  further arguments of functions without any and what follows a processing instruction's target
  are ignored (`HasExcess` in `NoWordIsIgnored`). Comparisons chain from the right.

In documents:

- A nameless buffer without a given `source_url` fails to load with `AttributeError`
  (`BufferLoader`, `FailuresHaveReasons`).
- A node with a parent is refused, though the loader's documentation says that it is cloned.
- A decorator that is applied after the list of loaders has changed may put its loader before the
  one that it is to follow (`p.stale` in `LoadersKeepTheirPlaces`).
- A given `source_url` wins over the path or the name of the file that was read, while the
  attribute's documentation has it as the URL where the contents were obtained (`Origin`).
- The class test of an unrelated class may win; the document is then not initialized and has no
  `source_url`. Clones have none either. Classes do not know loaders that were registered
  after their definition.

## The proofs

Model checking covers small instances, the theorems hold for any number of nodes,
documents, arguments, attributes, names and tokens.

| Module | Theorems that state properties of the runs |
| --- | --- |
| `TreeProofs` | `PointersAlwaysAgree`, `AlwaysOneRoot`, `AlwaysGrounded` |
| `TreeStepsProofs` | `FailureNeverRemoves`, `OnlyRetainedNodesEverMove`, `OrderIsAlwaysKept`, `TreeImplementsForest` |
| `AttributesProofs` | `AlwaysInOnePlace`, `OnlyAssignmentMisnamesAlways` |
| `IdentifiersProofs` | `FiltersAreRestoredAtLast`, `OnlyJoiningEverDuplicates` |
| `BuildingProofs` | `StacksAlwaysInStep`, `RedundantIdsAlwaysRefused`, `TextIsAlwaysPassedOn` |
| `TraversalProofs` | `WalksYieldTheirAxes`, `RemovalsKeepTheOrder`, `LoopsMayRemoveResults` |
| `DocumentsProofs` | all four properties of `Documents` |
| `PrefixesProofs` | all three properties of `Prefixes` |

`TreeProofs` proves `Invariance`, `Spec => []IInv`, and from it `TypeCorrect`,
`PointersAlwaysAgree`, `AlwaysOneRoot` and `AlwaysGrounded`. Assumptions are those
on the constants in `Tree`: the kinds of nodes and `NIL` are disjoint, documents have
distinct roots, `MaxArgs` is a natural number. `IInv` consists of

- `TypeOK`, and `PointersAgree` and `OneRoot`, which the runs check as well,
- `FreshUnlinked`: objects yet to be made are in no list and refer to nothing. Without
  it, a call that creates a node could not be shown to keep pointers in agreement;
- `BrokenListNothing`: what a failed constructor leaves behind lists nothing, so that a
  node that refers to it is listed nowhere;
- `PointersGrounded`: each set of nodes has one whose parent is outside. It is
  `Grounded` told by pointers, which is what calls test and change; `Grounded` follows
  with `PointersAgree`. Lifting a node's children into its place needs it: the node
  must not be its own parent.

The argument runs along the code: `NewListKeepsIInv` treats a list that is replaced by another one,
`ChangeKeepsIInv` and `RemoveKeepsIInv` one `Change` and one `Remove` under the conditions that
all callers establish, `PlaceKeepsIInv` the loop, and one lemma per call shows that the call meets
the conditions. `LiftKeepsIInv` (detaching with retained
children), `NewTagKeepsIInv` and `CloneKeepsIInv` change several lists at once and are
proved by themselves. The module begins with what slicing does to elements, lengths, order and
the absence of duplicates, and what remains of a list without the elements at any set of places
(`WithoutPlaces`, `WithoutElems`, `WithoutInOrder`), which slices of visible children take off.

`TreeStepsProofs` builds on that for what a step may do: `FailureNeverRemoves`,
`OnlyRetainedNodesEverMove` and `TreeImplementsForest`, the refinement
`Spec => ImplementsForest`. A step is `Orderly` if it keeps or empties places of nodes and is an
edit that `Forest` has. `PruneIsEdit` shows that a `Remove` is one, at any places of a list, `GraftIsEdit` and
`SwapIsEdit` that a `Change` under the conditions that the calls establish is one; what is loose and who is above has to be told
from the lists alone there, which `SeenFromOutside` says is the same under `IInv`. One lemma per call
follows as above. `LiftedSafely` treats the one call that is not `Orderly`, `CloneIsOrderly` the one that
changes several lists.

`OrderIsAlwaysKept` is a consequence of the refinement: whatever call it was, only `Forest`'s
edits have to be looked at, `EditsKeepOrder`. Who is above a node (`UpIn`) and what precedes it
(`PrecedesIn`) are operators of child lists, those before or those after a step.

- `UpIn` is a least closed set. That what is above a node is a chain (`UpIsChain`) and that at most one
  of siblings is above it (`OneOfSiblingsAbove`) follows from such sets, without
  counting steps. `OrderIsAsymmetric`, no two nodes precede each other, takes in addition that
  lists have no node in common and that the forest is grounded (`Arranged`, a part of `IInv`).
- Lists that only lost members are `Thinner`, they order less and hence turn nothing round
  (`ThinnerKeepsOrder`). That settles `Prune`, and `Graft` and `Copy`, whose lists before are
  the thinner ones.
- `DissolveKeepsOrder` shows that what was ordered by the lifted node's siblings or its own list
  is ordered by the joint one.
- `SwapKeepsOrder` tells apart what is below the node that is replaced: it is in another tree
  afterwards (`SwapSeparates`), the rest keeps its order.

`AttributesProofs` proves `AlwaysInOnePlace`: an `Attribute` object is in one mapping
under one key at most. `InOnePlace` is inductive with the types: what a mapping holds was
made before, so a fresh object is nowhere; what is held refers to its holder, so a
detached one is nowhere. It assumes that `NIL` is none of the objects. From the same invariant
follow the action properties `OnlyAssignmentMisnamesAlways` (`OthersKeepNames`, call by call) and
`RenameAlwaysKeepsTheRest`.

`IdentifiersProofs` has two parts. `FiltersAreRestoredAtLast` holds for any number of clients: which
filters are on the stack depends on the order in which blocks are left, their number does
not. It is that of the open blocks and one more, hence what is at the bottom is never taken away.
`OnlyJoiningEverDuplicates` needs that each node has one topmost ancestor, and that setting and removing
ids and detaching nodes merge no trees. `TreesInv` has the types and that the trees are grounded;
`Line` is the least set that is closed under parents, so that the top of a line is found by
groundedness. `IdentifiersUseFilters` shows that the composition does to the stack of filters what
`Filters` allows, hence what is proved of it holds here.

`BuildingProofs` proves `StacksAlwaysInStep`, `RedundantIdsAlwaysRefused` and `TextIsAlwaysPassedOn` for
any stream, either adapter and any chunks, with no assumption but that on the bounds. Its `IInv` consists of

- `StreamInv` of what was read: how `open` goes on from token to token and stays the same
  over tokens that are no tags (`Nested`), that open tags are starts further up
  (`StartsAreOpen`) and each at one depth of the stack (`Stacked`), and that only comments
  follow a root (`OneRoot`) and no text is outside of it (`TextIsInside`);
- `StacksInStep` itself: the tags on the builder's stack are those of `open` where the
  adapter has read to. An event for markup skips text only, so `Nested` carries that on;
- `IdsKnown`: while a tag is open, or none has been, `xml_ids` holds the identifiers that
  were read. It is emptied when a node is returned. `OneRoot` is why nothing follows then
  that could use one of them again.

`TextIsAlwaysPassedOn` needs `AdapterInv` in addition. For `ExpatParser` it says that
`unprocessed_text` is the text behind the last markup that was read (`TextHeldBack`); what follows up
to the next markup continues it (`TextGoesOn`). For `LxmlParser` it says that all that is cleared has
markup behind it that was read (`TextBehindIsThere`). `Sources` has the rest: the elder siblings of
a tag or comment, and the children of a tag that ends, are what was started in front with the same
tags open. The last of them ends in front (`TagEnds`), and between its end, or the
parent's start if there is none, and the next markup is text only (`NoMarkupBetween`): markup in there
would have to be the end of a tag that is open on both sides. Hence libxml2 has the text
at the place where the adapter looks, and it was not cleared, as that place has no markup behind
it that was read.

`TraversalProofs` proves the three invariants of `Traversal` for each of its axes, for trees of any
size and shape and any number of removals, from the assumptions in the module: the bounds are
natural numbers, `NIL` is no node. Its inductive invariant `Inv` says that a walk is over (`Ended`) or under
way (`Underway`), and has a formula for each axis that tells what its frames may be. They
share these ideas:

- *Numbered trees.* `Numbered(L, z, e)` says that child lists `L` make up a tree of the nodes up to
  `z` in document order, where `e[n]` is the last node below `n`. Building keeps that up
  (`NumberedGrows`). That `n` is below `m` then is `Within`, `m < n /\ n <= e[m]`, which needs no
  recursion. `AncestorsIn` climbs from parent to parent. `ClimbExists` shows that this recursion has
  a solution, as parents have smaller numbers, `AncestorsAreWithin` and `WithinAreAncestors` that the
  two agree. Each takes a least counterexample, in place of an induction.
- *What removals leave.* `Pruned` relates the lists to those that the walk found: they are in order,
  and up to the first removed node they are as before. `Later` is what keeps an index into a list
  good for something: all that is at a greater one comes later in the document. Lists only advance
  (`Advanced`), so that removals cannot invalidate it.
- *How much is known.* `Claimed` is when a walk has to be in order, `Undisturbed` when it has to
  be complete: nothing was removed, or only results were, of a walk that may lose them. Each
  formula has one part under either condition.
- *Progress.* `UpTo(y)` says that nothing behind `y` was yielded (if `Claimed`) and all nodes of the
  axis up to `y` were (if `Undisturbed`), `DownTo(y)` the same against document order. A step
  takes a walk from one such `y` to another one, and `y` is tied to what the frames hold.

The axes differ in what their frames hold. The stack of pointers of `descendants` has the nodes
from the starting node downwards, where what is ahead at each level comes later in the document
than what was yielded; undisturbed, each of them is the child that the one before points at
(`Chained`). `reversed descendants` holds copies of lists, and what is to come at one level
precedes what is to come at levels above. `following` and `preceding` are walks within walks:
the outer frame has climbed to a node above the starting node and the inner ones go over the
siblings of that one and over what is below them. For `following`, `Past` adds to `UpTo` that
the walk has left the subtree that its axis leaves out. `bottom up` yields a node behind all
that is below it: `Comes` is its order, and what was not yielded but passed is on the stack
(`Through`). For `breadth first`, the queue holds nodes in the order of their depth and numbers,
on two neighbouring depths (`InQueue`), and each node of the axis was yielded, is in the queue
or is below a node that is (`BreadthExact`); that nothing is skipped follows since a node's
depth exceeds its parent's by one (`DepthGrows`).

For each axis, a lemma shows how its walk starts, one that it stands whatever the client does in
between, and one or more that a step of its generators leads to such a place again, or to the end with
nothing left. `AlwaysProgressing` has the three properties' common part, `Spec => []Inv` is `InvHolds`. The module takes
about twelve minutes to check from nothing, the others up to a few minutes each.

`DocumentsProofs` proves all properties of `Documents`, for any number of plugins, classes and
sources; plugins' loaders and class tests do what the model lets them. Its `IInv` adds that decorators' indexes are right for the list they were made for
(`RegistryInv`), that derived classes precede their bases in `document_subclasses` and
are closed under derivation (`ClassesInv`), and, for a call that is under way, from where the
configuration's URL is (`LoadingInv`): it is the given one, or a plugin has left it, or a loader
that is past has, which excuses failures that depend on it. It also has that what was loaded is in no
document until a class test puts it into one, so that nothing else is refused. The assumptions are that names of
plugins' loaders, of built-in ones and of classes differ and that placements name loaders.

`PrefixesProofs` proves all properties of `Prefixes`, for any number of namespaces, any
declarations, trees and orders of iteration, from the assumptions in the module: the
empty names are none of the others, and generated prefixes are no global ones. Its `IInv` adds to them
`HaveOrigins` (a prefix is the empty one, a generated or the declared one), without which
a clash could not be traced to a generated prefix; `DeclarationsAreDistinct` and
`GlobalsAreKept`, which normalization establishes; `Covered` (namespaces of visited nodes
have a prefix or their turn comes), without which nothing could be said of what is written; and
`StartsEmpty`. `Sound` is what an assignment of prefixes has to be. Each way to assign one
more (`WithIsSound`, `NewDeclarationIsSound`, `RedeclareIsSound`) keeps it, so that
`AssignmentKeepsIInv` serves all of them. `MeaningIsInverse` then gives `NamesComeBack`.

`TypeOK` of `Tree`, `Attributes` and `Prefixes`, `RenameKeepsTheRest` and `DeclarationsAreUsed`
are proved without being part of a run.

Only model-checked: `BuiltAsDescribed` and `ReducedForGood`, and all of `Queries`, `Expressions`
and `Pretty`. What a stream describes, what a reduced tree is, how an expression is read and how a
tree is laid out are defined by recursion; facts about them need induction over data, which is out
of the prover's reach, and so are the modules with `RECURSIVE` operators or `Bitwise`
(`TreeWhitespace`, `Reduction`, `XPath`, `Queries`, `XPathParser`, `Expressions`, `Pretty`).
Liveness (`NextReturns`) stays with TLC as well: it says that a next result is reached, on
which the theorems about `Traversal` are silent.

## What is not modelled

Contents of text nodes, comments and processing instructions, attribute values, the
regular expressions for names, string representations and comparison of nodes change no
structure. In `Tree`, inserting a node below itself (see above) and pickling are left
out. `Traversal` leaves out insertions during a walk and filters given by the client:
filters only drop results. `Filters` leaves out the combinators of filter functions and
that generators read the stack when they are first resumed.
Identifiers that are set as plain attributes bypass `TagNode.id` and are left out.
`Building` leaves out the detection of encodings, entities and how an adapter is chosen;
processing instructions are handled like comments, and options that remove either are
streams without them. libxml2 refuses redundant ids by itself before the builder may; the
model has the builder's refusal only.
`Prefixes` leaves out the cache of normalized declarations: it returns what normalization
does unless hashes collide. Local names, values and escaping are left out.
`Pretty` leaves out the alignment of attributes, encodings and text nodes without content,
on which the formatting serializers raise `IndexError`. `XPath` leaves out functions that users
register, `XPathParser` the tokenizer, which is one regular expression, and the cache of parsed
expressions. `Documents` leaves out mixin classes and their options, the choice of a parser,
the HTTP client and saving to a path, which truncates the file before serialization may fail.

*Transformations* (`delb/transform.py`) are not modelled: one sequential object that calls code of
its users and has three statements around that. What it keeps when that code raises (the tree
becomes the object's root, line 151) and that a call from within a transformation leaves a
placeholder is plain from the source. `_delb/grammar.py`, `typing.py` and `exceptions.py` hold
no state.

## The plan

What the survey called for is modelled. In this order, these would add most:

1. Insertions during a walk, for `Traversal`: which of its promises survive them. A numbering by
   document order, which the proofs rest on, would have to be one that leaves room.
2. `Queries` on trees with attributes in namespaces and registered functions.
3. `Transformations`, if they ever become more than calls in a row.
