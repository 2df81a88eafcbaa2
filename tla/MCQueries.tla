----------------------------- MODULE MCQueries -----------------------------
(* Queries with two trees and steps of every kind, for TLC *)
EXTENDS Queries

Node(kind, ns_, local, content, attributes, parent, kids) ==
    [kind |-> kind, ns |-> ns_, local |-> local, content |-> content,
     attributes |-> attributes, parent |-> parent, kids |-> kids]

X(value) == {[ns |-> "", local |-> "x", value |-> value]}

\* a comment and a root with two tag nodes and a text node between them, in a document
Large == [owned |-> TRUE, top |-> <<1, 2>>, nodes |->
    <<Node("comment", "", "", <<"c">>, {}, 0, <<>>),
      Node("tag", "", "a", <<>>, {}, 0, <<3, 5, 6>>),
      Node("tag", "", "b", <<>>, X(<<"c">>), 2, <<4>>),
      Node("text", "", "", <<"c">>, {}, 3, <<>>),
      Node("text", "", "", <<"d">>, {}, 2, <<>>),
      Node("tag", "", "b", <<>>, {}, 2, <<>>)>>]

\* parentless roots
Small(n) == [owned |-> FALSE, top |-> <<1>>, nodes |->
    <<Node("tag", n, "a", <<>>, {}, 0, <<2>>), Node("tag", n, "b", <<>>, {}, 1, <<>>)>>]

\* a parentless root with two tag nodes that a comment tells apart
Commented == [owned |-> FALSE, top |-> <<1>>, nodes |->
    <<Node("tag", "", "a", <<>>, {}, 0, <<2, 4>>),
      Node("tag", "", "b", <<>>, {}, 1, <<3>>),
      Node("comment", "", "", <<"c">>, {}, 2, <<>>),
      Node("tag", "", "b", <<>>, {}, 1, <<>>)>>]

MCTrees == {Large, Small(""), Small("N"), Commented}

Name(prefix, local) == [type |-> "name", prefix |-> prefix, local |-> local]
Kind(kind) == [type |-> "node type", kind |-> kind]
Target == [type |-> "target", local |-> "a"]

Literal(v) == [type |-> "any value", value |-> v]
Has == [type |-> "has attribute", prefix |-> "", local |-> "x"]
Attribute == [type |-> "attribute value", prefix |-> "", local |-> "x"]
Op(op, l, r) == [type |-> "operator", operator |-> op, arguments |-> <<l, r>>]
Fun(name, arguments) == [type |-> "function", name |-> name, arguments |-> arguments]

AttributeIs(value) == Op("=", Attribute, Literal(Text(value)))
IsLast == Op("=", Fun("position", <<>>), Fun("last", <<>>))

MCPredicates ==
    {<<>>, <<AtPosition(2)>>, <<IsLast>>, <<Has, AtPosition(2)>>,
     <<AtPosition(1), Has>>, <<Fun("contains", <<Fun("text", <<>>), Literal(Text(<<"c">>))>>)>>}

Stp(axis, test, predicates) == [axis |-> axis, test |-> test, predicates |-> predicates]

MCSteps ==
    {Stp(axis, test, predicates) : axis \in Axes, predicates \in MCPredicates,
                                   test \in {AnyTag, Name("", "b")}}
      \cup {Stp(axis, Kind(kind), <<>>) : axis \in Axes, kind \in {"tag", "text", "comment"}}
      \cup {Stp(axis, test, <<>>) : axis \in {"self", "parent"}, test \in {Target, Name("p", "a")}}

Absolute(steps) == [absolute |-> TRUE, steps |-> steps]
Relative(steps) == [absolute |-> FALSE, steps |-> steps]
Child(prefix, local, predicates) == Stp("child", Name(prefix, local), predicates)

MCSecondPaths == {Absolute(<<Stp("descendant", Name("", "a"), <<>>)>>)}

MCFetched ==
    {<<p>> : p \in {Relative(<<Child("", "b", <<>>), Child("", "a", <<AttributeIs(<<"c">>)>>)>>),
                    Absolute(<<Child("", "a", <<>>), Child("", "b", <<>>)>>),
                    Absolute(<<Child("", "b", <<>>)>>),
                    Relative(<<Child("p", "a", <<>>)>>),
                    Relative(<<Child("", "a", <<Has>>)>>)}}

MCGiven == {{}}
MCGivenToFetch == {{}, {[p \in {"p"} |-> "N"]}}
=============================================================================
