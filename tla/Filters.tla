-------------------------------- MODULE Filters --------------------------------
(***************************************************************************)
(* The stack of default filters (_delb/filters.py), which the whole        *)
(* process shares, and the blocks that set filters.                        *)
(*                                                                         *)
(* A client is whatever may be suspended inside a block: a thread, a       *)
(* coroutine or a generator.  A set of filters is taken for the kinds of   *)
(* nodes that match all of them.                                           *)
(***************************************************************************)
EXTENDS Naturals, Sequences, SequencesExt

CONSTANTS Clients,
          FilterSets  \* the sets of kinds that are passed to altered_default_filters

Kinds == {"tag", "text", "comment"}

ASSUME FiltersMatchKinds == FilterSets \subseteq SUBSET Kinds

Initial == {"tag", "text"}

VARIABLES
    default_filters,
    block     \* for each client its altered_default_filters block

filterVars == <<default_filters, block>>

Active == Last(default_filters)

-----------------------------------------------------------------------------

NoBlock == [open |-> FALSE, filters |-> {}]

\* with altered_default_filters(..., extend=...):
Enter(c, F, extend) ==
    LET filters == IF extend THEN Active \cap F ELSE F IN
    /\ ~block[c].open
    /\ default_filters' = Append(default_filters, filters)
    /\ block' = [block EXCEPT ![c] = [open |-> TRUE, filters |-> filters]]

\* mutant: an exception in the block gets past the pop
PoppedUnlessRaised(raised) == IF raised THEN default_filters ELSE Front(default_filters)

Popped(raised) == Front(default_filters)

\* The block's end takes the filters away that were set last, by whomever.
Leave(c, raised) ==
    /\ block[c].open
    /\ default_filters' = Popped(raised)
    /\ block' = [block EXCEPT ![c] = NoBlock]

-----------------------------------------------------------------------------

Init ==
    /\ default_filters = <<Initial>>
    /\ block = [c \in Clients |-> NoBlock]

Next ==
    \E c \in Clients :
        \/ \E F \in FilterSets, extend \in BOOLEAN : Enter(c, F, extend)
        \/ \E raised \in BOOLEAN : Leave(c, raised)

Spec == Init /\ [][Next]_filterVars

-----------------------------------------------------------------------------
(* Properties *)

\* In whatever order the blocks of several clients are left, normally or by exceptions,
\* the initial filters are in place when all of them were.
RestoredAtLast ==
    (\A c \in Clients : ~block[c].open) => default_filters = <<Initial>>
=============================================================================
