------------------------------- MODULE PyLists -------------------------------
(***************************************************************************)
(* What Python's lists do, on sequences.  Positions count from one, an     *)
(* index counts as in Python: from zero, and from the end when negative.   *)
(***************************************************************************)
EXTENDS Integers, Sequences, FiniteSets

Elems(s) == {s[i] : i \in DOMAIN s}

IsDuplicateFree(s) == \A i, j \in DOMAIN s : s[i] = s[j] => i = j

PositionOf(s, e) == CHOOSE i \in DOMAIN s : s[i] = e

Backwards(s) == [i \in 1..Len(s) |-> s[Len(s) + 1 - i]]

\* s[i:j] = block, for 0 <= i <= j <= Len(s)
SliceAssign(s, i, j, block) == SubSeq(s, 1, i) \o block \o SubSeq(s, j + 1, Len(s))

\* s[i:j]
Slice(s, i, j) == SubSeq(s, i + 1, j)

\* how many of the places in S come before i, i's index among them
Rank(S, i) == Cardinality({j \in S : j < i})

\* s when the members at the places in I were removed
Without(s, I) ==
    LET kept == DOMAIN s \ I
    IN  [k \in 1..Cardinality(kept) |-> s[CHOOSE i \in kept : Rank(kept, i) = k - 1]]

\* after how many members list.insert puts a new one; it never raises
InsertionPoint(s, index) ==
    CASE index >= 0 /\ index <= Len(s)  -> index
      [] index > Len(s)                 -> Len(s)
      [] index < 0 /\ -index <= Len(s)  -> Len(s) + index
      [] OTHER                          -> 0
=============================================================================
