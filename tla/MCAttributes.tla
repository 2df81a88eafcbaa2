---------------------------- MODULE MCAttributes ----------------------------
(* Two nodes' mappings and a handful of Attribute objects, for TLC *)
EXTENDS Attributes, TLC

Interchangeable == Permutations(Mappings) \cup Permutations(Attributes)
=============================================================================
