------------------------------ MODULE Expressions ------------------------------
(***************************************************************************)
(* XPath expressions are composed, written down, possibly with one slip,   *)
(* and read by XPathParser.  Writing follows the grammar of XPath 1.0 and  *)
(* is what the parser is checked against.                                  *)
(***************************************************************************)
EXTENDS XPathParser, FiniteSets

CONSTANTS Steps,        \* location steps without predicates
          Evaluations,  \* the predicates
          Slips,        \* tokens that may be put where they don't belong
          MaxSteps,     \* bound on the number of steps in all paths
          MaxLength,    \* bound on the number of tokens
          MaxDamaged    \* bound: longer expressions are written without slips

VARIABLES
    expression,  \* what is meant: location paths
    tokens,      \* what is written
    phase,       \* "composing", "written", "damaged" or "read"
    outcome      \* what was read: a set with at most one result

vars == <<expression, tokens, phase, outcome>>

-----------------------------------------------------------------------------
(* Writing *)

Prefixed(prefix) == IF prefix = "" THEN <<>> ELSE <<Name(prefix), Token("COLON", ":")>>

Quoted(string) == Token("STRING", "'" \o string \o "'")

TypeName(kind) == CHOOSE name \in DOMAIN NodeTypes : NodeTypes[name] = kind

WrittenTest(test) ==
    CASE test.type = "any name"  -> Append(Prefixed(test.prefix), Token("ASTERISK", "*"))
      [] test.type = "name"      -> Append(Prefixed(test.prefix), Name(test.local))
      [] test.type = "node type" -> <<Name(TypeName(test.kind)), Open, Close>>
      [] test.type = "target"    ->
            <<Name("processing-instruction"), Open, Quoted(test.local), Close>>

\* Comparisons bind stronger than `and`, which does than `or`.
Strength(operator) ==
    CASE operator = "or" -> 1 [] operator = "and" -> 2
      [] operator \in {"=", "!="} -> 3 [] OTHER -> 4

OperatorToken(operator) ==
    Token(IF operator \in {"or", "and"} THEN "NAME" ELSE "OTHER_OPS", operator)

\* Chains of comparisons, which the standard reads from the left and the parser from the
\* right, aren't written without parentheses.
IsSafe(e, i) ==
    LET a == e.arguments[i] IN
    \/ a.type # "operator"
    \/ Strength(a.operator) > Strength(e.operator)
    \/ i = 2 /\ a.operator = e.operator /\ e.operator \in {"and", "or"}

RECURSIVE Written(_, _)
\* `brief` leaves out whatever may be left out
Written(e, brief) ==
    LET enclosed(ts) == <<Open>> \o ts \o <<Close>>
        operand(i) == IF brief /\ IsSafe(e, i) THEN Written(e.arguments[i], brief)
                      ELSE enclosed(Written(e.arguments[i], brief))
        argument(i) == (IF i = 1 THEN <<>> ELSE <<Token("COMMA", ",")>>)
                           \o Written(e.arguments[i], brief) IN
    CASE e.type = "any value" ->
            IF e.value[1] = "int" THEN <<Token("NUMBER", ToString(e.value[2]))>>
            ELSE <<Quoted(e.value[2])>>
      [] e.type \in {"has attribute", "attribute value"} ->
            <<Token("STRUDEL", "@")>> \o Prefixed(e.prefix) \o <<Name(e.local)>>
      [] e.type = "function" ->
            <<Name(e.name)>> \o enclosed(FlattenSeq([i \in DOMAIN e.arguments |-> argument(i)]))
      [] e.type = "operator" -> operand(1) \o <<OperatorToken(e.operator)>> \o operand(2)

\* A comparison with the position can be a mere number.
WrittenPredicate(e, brief) ==
    <<Token("OPEN_BRACKET", "[")>>
        \o Written(IF brief /\ e.type = "operator" /\ e.arguments[1] = Position
                         /\ Predicate(e.arguments[2]) = e
                   THEN e.arguments[2] ELSE e, brief)
        \o <<Token("CLOSE_BRACKET", "]")>>

AnyNode(axis) ==
    [axis |-> axis, test |-> [type |-> "node type", kind |-> "tag"], predicates |-> <<>>]

WrittenStep(step, brief) ==
    CASE brief /\ step = AnyNode("self")   -> <<Token("DOT", ".")>>
      [] brief /\ step = AnyNode("parent") -> <<Token("DOT_DOT", "..")>>
      [] OTHER ->
            (IF brief /\ step.axis = "child" THEN <<>>
             ELSE <<Name(step.axis), Token("AXIS_SEPARATOR", "::")>>)
               \o WrittenTest(step.test)
               \o FlattenSeq([i \in DOMAIN step.predicates |->
                                 WrittenPredicate(step.predicates[i], brief)])

\* The k-th step can be expressed with two slashes.
IsSlashed(path, k, brief) ==
    LET below(i) == i \in DOMAIN path.steps /\ path.steps[i] = AnyNode("descendant-or-self") IN
    brief /\ below(k) /\ k < Len(path.steps) /\ (k > 1 \/ path.absolute) /\ ~below(k - 1)

WrittenPath(path, brief) ==
    FlattenSeq([k \in DOMAIN path.steps |->
        IF IsSlashed(path, k, brief) THEN <<Token("SLASH_SLASH", "//")>>
        ELSE (IF (k = 1 /\ ~path.absolute) \/ IsSlashed(path, k - 1, brief) THEN <<>>
              ELSE <<Slash>>)
                \o WrittenStep(path.steps[k], brief)])

WrittenPaths(paths, brief) ==
    FlattenSeq([i \in DOMAIN paths |->
        (IF i = 1 THEN <<>> ELSE <<Token("PASEQ", "|")>>) \o WrittenPath(paths[i], brief)])

-----------------------------------------------------------------------------

Init == expression = <<>> /\ tokens = <<>> /\ phase = "composing" /\ outcome = {}

LastPath == expression[Len(expression)]

Compose(paths) ==
    /\ phase = "composing"
    /\ Len(WrittenPaths(paths, TRUE)) <= MaxLength
    /\ Len(FlattenSeq([i \in DOMAIN paths |-> paths[i].steps])) <= MaxSteps
    /\ expression' = paths
    /\ UNCHANGED <<tokens, phase, outcome>>

AddPath(absolute, step) ==
    Compose(Append(expression, [absolute |-> absolute, steps |-> <<step>>]))

AddStep(step) ==
    /\ expression # <<>>
    /\ Compose([expression EXCEPT ![Len(expression)].steps = Append(@, step)])

AddPredicate(e) ==
    /\ expression # <<>>
    /\ Compose([expression EXCEPT ![Len(expression)].steps[Len(LastPath.steps)].predicates =
                                      Append(@, e)])

Write(brief) ==
    /\ phase = "composing" /\ expression # <<>>
    /\ tokens' = WrittenPaths(expression, brief) /\ phase' = "written"
    /\ UNCHANGED <<expression, outcome>>

Damaged(ts) ==
    {RemoveAt(ts, i) : i \in DOMAIN ts}
        \cup {InsertAt(ts, i, t) : i \in 1 .. Len(ts) + 1, t \in Slips}
        \cup {[ts EXCEPT ![i] = ts[i + 1], ![i + 1] = ts[i]] : i \in 1 .. Len(ts) - 1}

Damage ==
    /\ phase = "written" /\ Len(tokens) <= MaxDamaged
    /\ tokens' \in Damaged(tokens) /\ phase' = "damaged"
    /\ UNCHANGED <<expression, outcome>>

Read ==
    /\ phase \in {"written", "damaged"}
    /\ outcome' = {Parse(tokens)} /\ phase' = "read"
    /\ expression' = IF phase = "written" THEN expression ELSE <<>>
    /\ UNCHANGED tokens

Discard ==
    /\ phase = "read"
    /\ expression' = <<>> /\ tokens' = <<>> /\ phase' = "composing" /\ outcome' = {}

Next ==
    \/ \E absolute \in BOOLEAN, step \in Steps : AddPath(absolute, step)
    \/ \E step \in Steps : AddStep(step)
    \/ \E e \in Evaluations : AddPredicate(e)
    \/ \E brief \in BOOLEAN : Write(brief)
    \/ Damage
    \/ Read
    \/ Discard

Spec == Init /\ [][Next]_vars

-----------------------------------------------------------------------------
(* Properties *)

\* What is written without a slip, in full or abbreviated, is read as it was meant.
\* That is why operators are looked for by their strength and abbreviations expanded
\* before paths are split (parse_evaluation_expression, expand_axes).
WrittenIsRead ==
    phase = "read" /\ expression # <<>> => outcome = {Parsed(expression)}

RECURSIVE Flat(_)
Flat(grouped) ==
    FlattenSeq([i \in DOMAIN grouped |->
        IF grouped[i].type = "ENCLOSED" THEN Flat(grouped[i].tokens) ELSE <<grouped[i]>>])

\* Matching neighbours vanish until none are left.
RECURSIVE IsBalanced(_)
IsBalanced(types) ==
    \/ types = <<>>
    \/ \E i \in 1 .. Len(types) - 1 :
          /\ <<types[i], types[i + 1]>> \in {<<"OPEN_BRACKET", "CLOSE_BRACKET">>,
                                             <<"OPEN_PARENS", "CLOSE_PARENS">>}
          /\ IsBalanced(RemoveAt(RemoveAt(types, i + 1), i))

\* Balanced token sequences and no others can be grouped, and no token gets lost
\* (group_enclosed_expressions).
GroupingKeepsTokens ==
    phase = "read" =>
        LET grouped == Grouped(tokens)
            brackets == SelectSeq(Types(tokens), LAMBDA type : type \in Openers \cup Closers)
        IN  /\ IsFailure(grouped) <=> ~IsBalanced(brackets)
            /\ ~IsFailure(grouped) => Flat(grouped.value) = tokens

\* the tokens that aren't mere punctuation, in full; what abbreviations may stand for
\* is left out
Words(ts) ==
    SelectSeq(Expanded(ts), LAMBDA t :
        /\ t.type \in {"NAME", "STRING", "NUMBER", "STRUDEL", "ASTERISK", "OTHER_OPS"}
        /\ t.string \notin {"child", "position", "="})

SomewhereIn(ts, pattern) == \E i \in DOMAIN ts : InitialsMatch(From(ts, i), pattern)

\* where the parser skips tokens: a prefix before a node type, whatever follows or
\* replaces the string in a test for a target
HasExcess(ts) ==
    \/ SomewhereIn(ts, <<"COLON", "NAME", "OPEN_PARENS">>)
    \/ \E i \in DOMAIN ts :
          /\ ts[i] = Name("processing-instruction")
          /\ InitialsMatch(From(ts, i), <<"NAME", "OPEN_PARENS">>)
          /\ ~InitialsMatch(From(ts, i), <<"NAME", "OPEN_PARENS", "CLOSE_PARENS">>)
          /\ ~InitialsMatch(From(ts, i), <<"NAME", "OPEN_PARENS", "STRING", "CLOSE_PARENS">>)

\* When an expression is accepted in spite of a slip, all of its words made it into the
\* result in their order: nothing is silently ignored but the excess above.
NoWordIsIgnored ==
    \A result \in outcome :
        ~IsFailure(result) /\ ~HasExcess(tokens) =>
            Words(tokens) = Words(WrittenPaths(result.value, FALSE))
=============================================================================
