---------------------------- MODULE MCTraversal ----------------------------
(* All walks over all trees of up to six nodes, for TLC *)
EXTENDS Traversal

MCRemovals == <<2, 2, 2, 2, 2, 0>>
=============================================================================
