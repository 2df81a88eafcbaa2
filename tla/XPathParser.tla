------------------------------ MODULE XPathParser ------------------------------
(***************************************************************************)
(* How an XPath expression's tokens become an abstract syntax tree, whose  *)
(* records are the ones that XPath.tla evaluates (_delb/xpath/parser.py).  *)
(*                                                                         *)
(* A token is a record of its type and its string.  Positions, messages    *)
(* and the subclasses of XPathParsingError are left out.                   *)
(***************************************************************************)
EXTENDS Integers, Sequences, SequencesExt

Token(type, string) == [type |-> type, string |-> string]

\* what stands for the tokens between a pair of brackets or parentheses
Enclosed(tokens) == [type |-> "ENCLOSED", tokens |-> tokens]

Slash  == Token("SLASH", "/")
Open   == Token("OPEN_PARENS", "(")
Close  == Token("CLOSE_PARENS", ")")
Name(string) == Token("NAME", string)

Parsed(value)     == [value |-> value, exception |-> ""]
Failure(exception) == [value |-> <<>>, exception |-> exception]

IsFailure(result) == result.exception # ""
ParsingError == Failure("XPathParsingError")

\* the values, or the failure that occurs first
InTurn(results) ==
    LET failures == SelectSeq(results, IsFailure) IN
    IF failures # <<>> THEN Head(failures)
    ELSE Parsed([i \in DOMAIN results |-> results[i].value])

Then(result, Using(_)) == IF IsFailure(result) THEN result ELSE Using(result.value)

-----------------------------------------------------------------------------
(* Token sequences *)

Types(tokens) == [i \in DOMAIN tokens |-> tokens[i].type]

\* all_tokens_match and initial_tokens_match
AllMatch(tokens, pattern)     == Types(tokens) = pattern
InitialsMatch(tokens, pattern) == IsPrefix(pattern, Types(tokens))

From(tokens, i) == SubSeq(tokens, i, Len(tokens))

Openers == {"OPEN_BRACKET", "OPEN_PARENS"}
Closers == {"CLOSE_BRACKET", "CLOSE_PARENS"}

\* mutant: parentheses close brackets too
ClosingBoth(type) == "CLOSE_PARENS"

\* COMPLEMENTING_TOKEN_TYPES
Complementing(type) ==
    CASE type = "OPEN_BRACKET" -> "CLOSE_BRACKET" [] type = "OPEN_PARENS" -> "CLOSE_PARENS"

\* group_enclosed_expressions; s.openers has the indexes of what isn't closed yet
RECURSIVE Grouped(_)
Grouped(tokens) ==
    LET opened(s, i) == [s EXCEPT !.openers = Append(@, i)]
        group(s, i) ==
            LET contents == Grouped(SubSeq(tokens, s.openers[1] + 1, i - 1)).value
            IN  <<tokens[s.openers[1]]>>
                   \o (IF contents = <<>> THEN <<>> ELSE <<Enclosed(contents)>>)
                   \o <<tokens[i]>>
        closed(s, i) ==
            IF s.openers = <<>> THEN [s EXCEPT !.exception = "IndexError"]
            ELSE IF tokens[i].type # Complementing(tokens[s.openers[Len(s.openers)]].type)
            THEN [s EXCEPT !.exception = "XPathParsingError"]
            ELSE [s EXCEPT !.openers = SubSeq(@, 1, Len(@) - 1),
                           !.value = IF Len(s.openers) = 1 THEN @ \o group(s, i) ELSE @]
        round(s, i) ==
            CASE s.exception # ""            -> s
              [] tokens[i].type \in Openers -> opened(s, i)
              [] tokens[i].type \in Closers -> closed(s, i)
              [] OTHER -> IF s.openers = <<>> THEN [s EXCEPT !.value = Append(@, tokens[i])]
                          ELSE s
        at_last == FoldLeft(round, [openers |-> <<>>, value |-> <<>>, exception |-> ""],
                            [i \in DOMAIN tokens |-> i])
    IN  CASE at_last.exception # ""    -> Failure(at_last.exception)
          [] at_last.openers # <<>> -> ParsingError
          [] OTHER                  -> Parsed(at_last.value)

\* expand_axes
NodeOn(axis) == <<Name(axis), Token("AXIS_SEPARATOR", "::"), Name("node"), Open, Close>>

Expanded(tokens) ==
    FlattenSeq([i \in DOMAIN tokens |->
        CASE tokens[i].type = "SLASH_SLASH" ->
                <<Slash>> \o NodeOn("descendant-or-self") \o <<Slash>>
          [] tokens[i].type = "DOT"     -> NodeOn("self")
          [] tokens[i].type = "DOT_DOT" -> NodeOn("parent")
          [] OTHER                      -> <<tokens[i]>>])

\* the assertion after partition_tokens' loop
EndsFilled(part) == IF part = <<>> THEN <<Failure("AssertionError")>> ELSE <<>>

\* partition_tokens; empty partitions are skipped, the last one must not be empty
Partitions(separator, tokens) ==
    LET separators == SelectSeq([i \in DOMAIN tokens |-> i],
                                LAMBDA i : tokens[i].type = separator)
        ends == Append(separators, Len(tokens) + 1)
        parts == [k \in DOMAIN ends |->
                     SubSeq(tokens, IF k = 1 THEN 1 ELSE ends[k - 1] + 1, ends[k] - 1)]
        filled == SelectSeq(parts, LAMBDA part : part # <<>>)
    IN  [k \in DOMAIN filled |-> Parsed(filled[k])] \o EndsFilled(parts[Len(parts)])

\* Each partition is parsed before the next one is made.
ForEach(partitions, Parse(_)) ==
    InTurn([k \in DOMAIN partitions |-> Then(partitions[k], Parse)])

-----------------------------------------------------------------------------
(* Predicates *)

\* str[1:-1]
Unquoted(string) == SubSeq(string, 2, Len(string) - 1)

Literal(type, value) == [type |-> "any value", value |-> <<type, value>>]

\* int(), up to a bound
Integer(string) == CHOOSE i \in 0 .. 99 : ToString(i) = string

HasAttribute(prefix, local) == [type |-> "has attribute", prefix |-> prefix, local |-> local]

\* An attribute is looked at for its value when it's an argument or compared.
AsValue(e) == IF e.type = "has attribute" THEN [e EXCEPT !.type = "attribute value"] ELSE e

Operator(operator, left, right) ==
    [type |-> "operator", operator |-> operator, arguments |-> <<left, right>>]

\* the arguments that _delb/xpath/functions.py asks for; others than these aren't counted
Arity == [boolean |-> 1, contains |-> 2, not |-> 1] @@ ("starts-with" :> 2)

FunctionNames == DOMAIN Arity \cup {"concat", "last", "position", "text"}

\* Function.__init__
Function(name, arguments) ==
    IF name \notin FunctionNames \/ (name \in DOMAIN Arity /\ Len(arguments) # Arity[name])
    THEN ParsingError
    ELSE Parsed([type |-> "function", name |-> name, arguments |-> arguments])

\* mutant: `and` is looked for before `or`
AndBeforeOr == <<"and", "or", "=", "!=", "<=", "<", ">=", ">">>

\* the order in which parse_evaluation_expression looks for operators
Operators == <<"or", "and", "=", "!=", "<=", "<", ">=", ">">>

IsOperator(token, operator) ==
    /\ token.type = IF operator \in {"or", "and"} THEN "NAME" ELSE "OTHER_OPS"
    /\ token.string = operator

\* where an expression is split: at the first occurence of the first operator
Split(tokens) ==
    LET occurring == SelectSeq(Operators, LAMBDA operator :
                                   \E i \in DOMAIN tokens : IsOperator(tokens[i], operator))
    IN  IF occurring = <<>> THEN 0
        ELSE SelectInSeq(tokens, LAMBDA token : IsOperator(token, Head(occurring)))

RECURSIVE ParseEvaluationExpression(_)
ParseEvaluationExpression(tokens) ==
    LET string(i) == tokens[i].string
        i == Split(tokens)
        arguments == ForEach(Partitions("COMMA", tokens[3].tokens), ParseEvaluationExpression)
        operands == InTurn(<<ParseEvaluationExpression(SubSeq(tokens, 1, i - 1)),
                             ParseEvaluationExpression(From(tokens, i + 1))>>)
        operand(e) == IF string(i) \in {"and", "or"} THEN e ELSE AsValue(e) IN
    CASE AllMatch(tokens, <<"NUMBER">>) -> Parsed(Literal("int", Integer(string(1))))
      [] AllMatch(tokens, <<"STRING">>) -> Parsed(Literal("str", Unquoted(string(1))))
      [] AllMatch(tokens, <<"STRUDEL", "NAME">>) -> Parsed(HasAttribute("", string(2)))
      [] AllMatch(tokens, <<"STRUDEL", "NAME", "COLON", "NAME">>) ->
            Parsed(HasAttribute(string(2), string(4)))
      [] AllMatch(tokens, <<"NAME", "OPEN_PARENS", "ENCLOSED", "CLOSE_PARENS">>) ->
            Then(arguments, LAMBDA found :
                     Function(string(1), [k \in DOMAIN found |-> AsValue(found[k])]))
      [] AllMatch(tokens, <<"NAME", "OPEN_PARENS", "CLOSE_PARENS">>) ->
            Function(string(1), <<>>)
      [] AllMatch(tokens, <<"OPEN_PARENS", "ENCLOSED", "CLOSE_PARENS">>) ->
            ParseEvaluationExpression(tokens[2].tokens)
      [] OTHER ->
            CASE \E t \in ToSet(tokens) : t = Token("OTHER_OPS", "==") -> ParsingError
              [] i = 0                    -> ParsingError
              [] i \in {1, Len(tokens)} -> Failure("AssertionError")
              [] OTHER -> Then(operands, LAMBDA found :
                              Parsed(Operator(string(i), operand(found[1]), operand(found[2]))))

Position == [type |-> "function", name |-> "position", arguments |-> <<>>]

\* A number abbreviates a comparison.
Predicate(e) ==
    IF e.type = "any value" /\ e.value[1] = "int" THEN Operator("=", Position, e) ELSE e

RECURSIVE ParsePredicates(_)
\* mutant: the loop ends where no predicate is found
LeadingPredicates(tokens) ==
    IF ~InitialsMatch(tokens, <<"OPEN_BRACKET", "ENCLOSED", "CLOSE_BRACKET">>) THEN Parsed(<<>>)
    ELSE Then(ParseEvaluationExpression(tokens[2].tokens), LAMBDA e :
         Then(ParsePredicates(From(tokens, 4)), LAMBDA others :
              Parsed(<<Predicate(e)>> \o others)))

ParsePredicates(tokens) ==
    CASE tokens = <<>> -> Parsed(<<>>)
      [] ~InitialsMatch(tokens, <<"OPEN_BRACKET", "ENCLOSED", "CLOSE_BRACKET">>) -> ParsingError
      [] OTHER -> Then(ParseEvaluationExpression(tokens[2].tokens), LAMBDA e :
                  Then(ParsePredicates(From(tokens, 4)), LAMBDA others :
                       Parsed(<<Predicate(e)>> \o others)))

-----------------------------------------------------------------------------
(* Location paths *)

\* Whatever is a member of ast.Axis can be named; "evaluate" is one of these.
AxisNames == {"ancestor", "ancestor-or-self", "child", "descendant", "descendant-or-self",
              "following", "following-sibling", "parent", "preceding",
              "preceding-sibling", "self", "evaluate"}

NodeTypes == [comment |-> "comment", node |-> "tag", text |-> "text"]
                 @@ ("processing-instruction" :> "pi")

\* a node test and the tokens behind it
Test(test, rest) == Parsed([test |-> test, rest |-> rest])

NodeTest(prefix, tokens) ==
    LET string == tokens[1].string IN
    CASE InitialsMatch(tokens, <<"NAME", "OPEN_PARENS", "ENCLOSED", "CLOSE_PARENS">>) ->
            IF string # "processing-instruction" THEN Failure("AssertionError")
            ELSE Test([type |-> "target", local |-> Unquoted(tokens[3].tokens[1].string)],
                      From(tokens, 5))
      [] InitialsMatch(tokens, <<"NAME", "OPEN_PARENS", "CLOSE_PARENS">>) ->
            IF string \notin DOMAIN NodeTypes THEN Failure("KeyError")
            ELSE Test([type |-> "node type", kind |-> NodeTypes[string]], From(tokens, 4))
      [] InitialsMatch(tokens, <<"ASTERISK">>) ->
            Test([type |-> "any name", prefix |-> prefix], From(tokens, 2))
      [] InitialsMatch(tokens, <<"NAME">>)
            /\ ~InitialsMatch(tokens, <<"NAME", "OPEN_PARENS", "CLOSE_PARENS">>)
            /\ ~InitialsMatch(tokens, <<"NAME", "OPEN_PARENS", "ENCLOSED", "CLOSE_PARENS">>) ->
            Test([type |-> "name", prefix |-> prefix, local |-> string], From(tokens, 2))
      [] OTHER -> ParsingError

PrefixPatterns == {<<"NAME", "COLON", "NAME">>, <<"NAME", "COLON", "ASTERISK">>}

ParseLocationStep(tokens) ==
    LET named == InitialsMatch(tokens, <<"NAME", "AXIS_SEPARATOR">>)
        axis == IF named THEN tokens[1].string ELSE "child"
        rest == IF named THEN From(tokens, 3) ELSE tokens
        prefixed == \E pattern \in PrefixPatterns : InitialsMatch(rest, pattern)
        tested == IF prefixed THEN NodeTest(rest[1].string, From(rest, 3))
                  ELSE NodeTest("", rest) IN
    IF axis \notin AxisNames \/ rest = <<>> THEN ParsingError
    ELSE Then(tested, LAMBDA found :
         Then(ParsePredicates(found.rest), LAMBDA predicates :
              Parsed([axis |-> axis, test |-> found.test, predicates |-> predicates])))

ParseLocationPath(tokens) ==
    IF tokens = <<>> THEN ParsingError
    ELSE LET expanded == Expanded(tokens) IN
         Then(ForEach(Partitions("SLASH", expanded), ParseLocationStep), LAMBDA steps :
              Parsed([absolute |-> expanded[1].type = "SLASH", steps |-> steps]))

\* parse; an expression is a sequence of location paths
Parse(tokens) ==
    Then(Grouped(tokens), LAMBDA grouped :
         IF grouped = <<>> THEN ParsingError
         ELSE ForEach(Partitions("PASEQ", grouped), ParseLocationPath))
=============================================================================
