---------------------------- MODULE MCIdentifiers ----------------------------
(* Three tag nodes, for TLC *)
EXTENDS Identifiers

\* is_tag_node and is_comment_node
MCFilterSets == {{"tag"}, {"comment"}}
=============================================================================
