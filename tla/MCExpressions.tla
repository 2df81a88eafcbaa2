--------------------------- MODULE MCExpressions ---------------------------
(* Expressions of up to eleven tokens, for TLC *)
EXTENDS Expressions

Stp(axis, test) == [axis |-> axis, test |-> test, predicates |-> <<>>]
NamedTest(prefix, local) == [type |-> "name", prefix |-> prefix, local |-> local]

MCSteps ==
    {Stp("child", NamedTest("", "a")),
     Stp("following", NamedTest("p", "a")),
     Stp("child", [type |-> "any name", prefix |-> "p"]),
     Stp("child", [type |-> "target", local |-> "t"])}
       \cup {AnyNode(axis) : axis \in {"self", "parent", "descendant-or-self"}}

Has2 == HasAttribute("p", "a")
Has == HasAttribute("", "a")
Value == [Has EXCEPT !.type = "attribute value"]
Two == Literal("int", 2)
Fun(name, arguments) == [type |-> "function", name |-> name, arguments |-> arguments]

\* the operand as it's read below an operator
Below(operator, e) == IF operator \in {"and", "or"} THEN e ELSE AsValue(e)
Op(operator, l, r) == Operator(operator, Below(operator, l), Below(operator, r))

AllOperators == ToSet(Operators)

MCEvaluations ==
    {Has, Has2, Literal("str", "x"), Predicate(Two), Fun("not", <<Value>>),
     Fun("contains", <<Value, Literal("str", "x")>>), Fun("concat", <<>>)}
      \cup {Op(op, Has, Two) : op \in AllOperators}
      \cup {Op(op1, Op(op2, Has, Two), Two) : op1, op2 \in AllOperators}
      \cup {Op(op1, Two, Op(op2, Two, Has)) : op1, op2 \in AllOperators}

MCSlips ==
    {Name("a"), Slash, Open, Close, Token("OPEN_BRACKET", "["), Token("CLOSE_BRACKET", "]"),
     Token("SLASH_SLASH", "//"), Token("PASEQ", "|"), Token("STRUDEL", "@"),
     Token("COLON", ":"), Token("OTHER_OPS", "="), Token("OTHER_OPS", "=="),
     Token("COMMA", ","), Token("NUMBER", "2"), Token("STRING", "'x'")}
=============================================================================
