----------------------------- MODULE MCBuilding -----------------------------
(* Streams of a few tokens, for TLC *)
EXTENDS Reduction

Element(attributes) == [namespace |-> "u", attributes |-> attributes]
Space(value) == <<[namespace |-> "xml", name |-> "space", value |-> value]>>

\* an element without attributes, those that direct whitespace handling, validly or
\* not, and one with an identifier
MCElements == {Element(<<>>)} \cup {Element(Space(v)) : v \in {"default", "preserve", "brian"}}
              \cup {Element(<<[namespace |-> "xml", name |-> "id", value |-> "i"]>>)}
=============================================================================
