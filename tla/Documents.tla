------------------------------ MODULE Documents ------------------------------
(***************************************************************************)
(* How documents come about: plugins register loaders, classes derived     *)
(* from delb.Document are defined, the loaders that a class knows are      *)
(* tried in turn until one makes sense of a source, a class is chosen for  *)
(* the result (delb/__init__.py and _delb/plugins).                        *)
(*                                                                         *)
(* A class knows the loaders that are registered when it is defined.  The  *)
(* loaders communicate by the configuration, here by its source_url.       *)
(* Mixin classes and their options are left out.                           *)
(***************************************************************************)
EXTENDS Integers, Sequences, FiniteSets, SequencesExt

CONSTANTS Plugins,      \* loaders that come with plugins
          Placements,   \* how they are registered: <<"before" or "after", loader>>, or <<>>
          Classes,      \* names of derived classes
          Testing,      \* those that define __class_test__
          Sources,      \* what documents are made from
          NIL, UNSET

Kinds == {"tag", "path", "buffer", "text", "url"}
BuiltIn == <<"path", "buffer", "text", "web">>
LoaderNames == Plugins \cup {"tag node"} \cup ToSet(BuiltIn)

ASSUME SourcesAssumption ==
    \A source \in Sources :
        /\ source.kind \in Kinds
        /\ {source.found, source.named, source.wellformed} \subseteq BOOLEAN
ASSUME NamesAssumption ==
    /\ Plugins \cap ({"tag node"} \cup ToSet(BuiltIn)) = {}
    /\ "Document" \notin Classes
ASSUME PlacementsAssumption ==
    Placements \subseteq {<<>>} \cup {"before", "after"} \X LoaderNames
ASSUME NILAssumption ==
    /\ NIL \notin LoaderNames \cup Classes \cup {"Document", "own", "given", "plugin"}
    /\ UNSET \notin {NIL, "own", "given", "plugin"}

VARIABLES
    loaders,    \* plugin_manager.loaders
    pending,    \* decorators that register_loader returned, still to be applied
    placed,     \* the registered plugins: how, and whether the decorator's index was stale
    mro,        \* the defined classes, each with itself and those it derives from
    seen,       \* the attribute _loaders of the defined classes
    subclasses, \* plugin_manager.document_subclasses
    job,        \* the call of Document, as a set with at most one element
    made,       \* the last call's document, likewise
    failed,     \* how the last call failed if it did, likewise
    taken       \* the given tag nodes that are in a document

registry == <<loaders, pending, placed, mro, seen, subclasses>>
vars == <<registry, job, made, failed, taken>>

-----------------------------------------------------------------------------
(* PluginManager.register_loader *)

IndexOf(seq, x) == CHOOSE i \in DOMAIN seq : seq[i] = x

\* mutant: constraints are ignored
IndexAtTheEnd(placement) == Len(loaders) + 1

\* where the decorated loader will be put, from one
Index(placement) ==
    IF placement = <<>> THEN Len(loaders) + 1
    ELSE LET other == IndexOf(loaders, placement[2])
         IN  IF placement[1] = "before" THEN other ELSE other + 1

\* A constraint on a loader that isn't registered raises an error.
RegisterLoader(l, placement) ==
    /\ l \notin ToSet(loaders) \cup {p.loader : p \in pending}
    /\ placement # <<>> => placement[2] \in ToSet(loaders)
    /\ pending' = pending \cup {[loader |-> l, placement |-> placement,
                                 index |-> Index(placement), known |-> loaders]}
    /\ UNCHANGED <<loaders, placed, mro, seen, subclasses, job, made, failed, taken>>

\* the decorator's call
Register(p) ==
    /\ pending' = pending \ {p}
    /\ loaders' = InsertAt(loaders, p.index, p.loader)
    /\ placed' = placed \cup {[loader |-> p.loader, placement |-> p.placement,
                               stale |-> loaders # p.known]}
    /\ UNCHANGED <<mro, seen, subclasses, job, made, failed, taken>>

-----------------------------------------------------------------------------
(* DocumentMeta, Document.__init_subclass__ *)

Defined == DOMAIN mro

IsSubclass(c, b) == Contains(mro[c], b)

\* mutant: subclasses are appended
RegisteredAtLast(c) == Append(subclasses, c)

Registered(c) == <<c>> \o subclasses

Extended(c, bases) ==
    /\ mro' = [x \in Defined \cup {c} |-> IF x = c THEN <<c>> \o bases ELSE mro[x]]
    /\ seen' = [x \in Defined \cup {c} |-> IF x = c THEN <<"tag node">> \o loaders ELSE seen[x]]

DefineDocument ==
    /\ Defined = {}
    /\ Extended("Document", <<>>)
    /\ UNCHANGED <<loaders, pending, placed, subclasses, job, made, failed, taken>>

DefineClass(c, b) ==
    /\ c \notin Defined
    /\ Extended(c, mro[b])
    /\ subclasses' = Registered(c)
    /\ UNCHANGED <<loaders, pending, placed, job, made, failed, taken>>

\* A test is inherited; `fitting` has the classes whose tests turn out true.
Fits(c, fitting) ==
    LET tests == {i \in DOMAIN mro[c] : mro[c][i] \in Testing}
    IN  tests # {} /\ mro[c][Min(tests)] \in fitting

-----------------------------------------------------------------------------
(* Loaders: what an attempt ends with, and the source_url that it leaves *)

Excuse(url)  == [result |-> "excuse", url |-> url]
Raises(url)  == [result |-> "raises", url |-> url]
Success(url)  == [result |-> "nodes", url |-> url]

ParseResult(source, url) == IF source.wellformed THEN Success(url) ELSE Raises(url)

\* buffer_loader; reading the configured source_url fails if there is none
BufferLoader(source, own, url) ==
    LET known == IF url = NIL THEN own ELSE url IN
    IF known = NIL THEN Raises(NIL) ELSE ParseResult(source, known)

\* mutant: the source_url is set before the request
WebLoaderInAdvance(source, url) ==
    IF ~source.found THEN Raises("own") ELSE BufferLoader(source, NIL, "own")

WebLoader(source, url) ==
    IF ~source.found THEN Raises(url) ELSE BufferLoader(source, NIL, "own")

\* mutant: the path isn't made a source_url
PathLoaderWithoutUrl(source, url) ==
    IF ~source.found THEN Raises(url) ELSE BufferLoader(source, NIL, url)

PathLoader(source, url) ==
    LET known == IF url = NIL THEN "own" ELSE url IN
    IF ~source.found THEN Raises(known) ELSE BufferLoader(source, NIL, known)

\* Plugins may set and delete the source_url, however their attempt ends.
Attempts(loader, source, url) ==
    CASE loader \in Plugins ->
            [result : {"excuse", "raises", "nodes"}, url : {url, "plugin", NIL}]
      [] loader = "tag node" ->
            {IF source.kind = "tag" /\ source.node # NIL THEN Success(url) ELSE Excuse(url)}
      [] loader = "path"   -> {IF source.kind = "path" THEN PathLoader(source, url)
                               ELSE Excuse(url)}
      [] loader = "buffer" -> {IF source.kind = "buffer"
                               THEN BufferLoader(source, IF source.named THEN "own" ELSE NIL, url)
                               ELSE Excuse(url)}
      [] loader = "text"   -> {CASE source.kind = "text" -> ParseResult(source, url)
                                 [] source.kind = "url"  -> Raises(url)
                                 [] OTHER                -> Excuse(url)}
      [] loader = "web"    -> {IF source.kind = "url" THEN WebLoader(source, url)
                               ELSE Excuse(url)}

-----------------------------------------------------------------------------
(* Document.__new__ and __init__ *)

\* `klass` is NIL or what the caller asks for, `url` what they pass as source_url.
Load(cls, source, klass, url) ==
    /\ job = {} /\ made = {} /\ failed = {}
    /\ job' = {[cls |-> cls, source |-> source, klass |-> klass, given |-> url, url |-> url,
                left |-> seen[cls], misleading |-> {}, by |-> NIL, node |-> NIL, spent |-> FALSE]}
    /\ UNCHANGED <<registry, made, failed, taken>>

\* mutant: the node isn't cloned
LoadedAsIs(loader, source) == IF loader = "tag node" THEN source.node ELSE NIL

\* The given node is used as it is, with NIL for nodes of the loader's making: a clone
\* of one that is in a document already is one of these.
LoadedNode(loader, source) ==
    IF loader = "tag node" /\ source.node \notin taken THEN source.node ELSE NIL

\* Document.__load_source: one round of its loop
TryLoader ==
    \E j \in job :
        /\ j.by = NIL /\ j.left # <<>>
        /\ \E a \in Attempts(Head(j.left), j.source, j.url) :
              job' = {IF a.result = "nodes"
                      THEN [j EXCEPT !.by = Head(j.left), !.url = a.url,
                                     !.node = LoadedNode(Head(j.left), j.source)]
                      ELSE [j EXCEPT !.left = Tail(@), !.url = a.url,
                                     !.misleading = @ \cup IF a.url = j.url THEN {}
                                                           ELSE {Head(j.left)}]}
        /\ UNCHANGED <<registry, made, failed, taken>>

Failed(j, refused) ==
    /\ job' = {}
    /\ failed' = {[source |-> j.source, given |-> j.given, klass |-> j.klass,
                   misleading |-> j.misleading, refused |-> refused]}
    /\ UNCHANGED <<registry, made, taken>>

GiveUp == \E j \in job : j.by = NIL /\ j.left = <<>> /\ Failed(j, FALSE)

IsTested == \E c \in ToSet(subclasses) : Fits(c, Testing)

\* A test gets hold of what was loaded and may make another document of it.
TestTakesNode ==
    \E j \in job :
        /\ j.by # NIL /\ j.klass = NIL /\ IsTested /\ ~j.spent
        /\ job' = {[j EXCEPT !.spent = TRUE]}
        /\ taken' = (taken \cup {j.node}) \ {NIL}
        /\ UNCHANGED <<registry, made, failed>>

\* A test that raises an exception ends the attempt.
TestRaises ==
    \E j \in job :
        /\ j.by # NIL /\ j.klass = NIL /\ IsTested
        /\ job' = {}
        /\ UNCHANGED <<registry, made, failed, taken>>

\* the first class whose test is true, if any
Chosen(cls, fitting) ==
    LET fit == {i \in DOMAIN subclasses : Fits(subclasses[i], fitting)}
    IN  IF fit = {} THEN cls ELSE subclasses[Min(fit)]

IsTaken(j) == j.spent \/ j.node \in taken

\* A node that is in a document by now isn't accepted by another one (Siblings.__init__).
Refuse == \E j \in job : j.by # NIL /\ IsTaken(j) /\ Failed(j, TRUE)

\* __init__, which takes source_url from the configuration, is only called for an
\* instance of the class that was called.
Construct(fitting) ==
    \E j \in job :
        LET klass == IF j.klass # NIL THEN j.klass ELSE Chosen(j.cls, fitting)
            initialized == IsSubclass(klass, j.cls) IN
        /\ j.by # NIL /\ ~IsTaken(j)
        /\ made' = {[cls |-> j.cls, klass |-> klass, asked |-> j.klass, node |-> j.node,
                     source |-> j.source, by |-> j.by, given |-> j.given,
                     misleading |-> j.misleading,
                     url |-> IF initialized THEN j.url ELSE UNSET,
                     config_url |-> IF initialized THEN NIL ELSE j.url,
                     fitting |-> {c \in ToSet(subclasses) : Fits(c, fitting)}]}
        /\ taken' = (taken \cup {j.node}) \ {NIL}
        /\ job' = {}
        /\ UNCHANGED <<registry, failed>>

\* A clone's class is given, its configuration is copied after it was initialized.
Clone(doc) ==
    /\ made' = {[doc EXCEPT !.cls = "Document", !.asked = doc.klass, !.by = "tag node",
                            !.given = NIL, !.misleading = {}, !.url = NIL, !.node = NIL]}
    /\ UNCHANGED <<registry, job, failed, taken>>

\* The application goes on with the document or handles the exception.
Proceed ==
    /\ made \cup failed # {}
    /\ made' = {} /\ failed' = {}
    /\ UNCHANGED <<registry, job, taken>>

-----------------------------------------------------------------------------

Init ==
    /\ loaders = BuiltIn /\ pending = {} /\ placed = {}
    /\ mro = <<>> /\ seen = <<>> /\ subclasses = <<>>
    /\ job = {} /\ made = {} /\ failed = {} /\ taken = {}

Next ==
    \/ \E l \in Plugins, placement \in Placements : RegisterLoader(l, placement)
    \/ \E p \in pending : Register(p)
    \/ DefineDocument
    \/ \E c \in Classes, b \in Defined : DefineClass(c, b)
    \/ \E cls \in Defined, source \in Sources, klass \in Defined \cup {NIL},
          url \in {NIL, "given"} : Load(cls, source, klass, url)
    \/ TryLoader
    \/ GiveUp
    \/ TestTakesNode
    \/ TestRaises
    \/ \E fitting \in SUBSET Testing : Construct(fitting)
    \/ Refuse
    \/ \E doc \in made : Clone(doc)
    \/ Proceed

Spec == Init /\ [][Next]_vars

-----------------------------------------------------------------------------
(* Properties *)

\* A constraint on a loader's place holds for good, whatever is registered between the
\* decorator's creation and its call, except that a loader that is to come after
\* another may have ended up before it then.
LoadersKeepTheirPlaces ==
    \A p \in placed :
        p.placement # <<>> =>
            LET own   == IndexOf(loaders, p.loader)
                other == IndexOf(loaders, p.placement[2])
            IN  IF p.placement[1] = "before" THEN own < other ELSE p.stale \/ own > other

\* Among the classes whose test is true for a document, with tests being inherited,
\* one is chosen that no other of them derives from.  Without any it's the called one.
MostSpecificClassIsChosen ==
    \A doc \in made :
        doc.asked = NIL =>
            IF doc.fitting = {} THEN doc.klass = doc.cls
            ELSE /\ doc.klass \in doc.fitting
                 /\ \A c \in doc.fitting \ {doc.klass} : ~IsSubclass(c, doc.klass)

\* what the loaders that come with delb report as source of a document
Origin(doc) ==
    CASE doc.by = "web"                 -> "own"
      [] doc.by \in {"path", "buffer"} -> IF doc.given = NIL THEN "own" ELSE doc.given
      [] OTHER                          -> doc.given

\* An initialized document's source_url tells where the loader that succeeded got the
\* contents from, unless a plugin's loader failed and left another one.  The address
\* of a resource that couldn't be requested is no document's source_url.
SourceUrlIsTheOrigin ==
    \A doc \in {doc \in made : doc.url # UNSET} :
        /\ doc.by \notin Plugins /\ doc.misleading \cap Plugins = {} => doc.url = Origin(doc)
        /\ doc.source.kind = "url" /\ ~doc.source.found => doc.url # "own"

\* A call fails for a reason.  What was loaded is refused only if a class test may have put
\* it into another document meanwhile: a given node that was in one before is cloned.  A
\* source isn't loaded if it is a node below another one, isn't there, isn't well-formed,
\* or if it is a nameless buffer and no source_url was given or a plugin has removed it
\* (tag_node_loader, Document.__load_source, Siblings.__init__).
FailuresHaveReasons ==
    \A f \in failed :
        IF f.refused THEN f.klass = NIL /\ IsTested
        ELSE \/ f.source.kind = "tag" /\ f.source.node = NIL
             \/ ~f.source.found
             \/ ~f.source.wellformed
             \/ /\ f.source.kind = "buffer" /\ ~f.source.named
                /\ f.given = NIL \/ f.misleading \cap Plugins # {}
=============================================================================
