------------------------------- MODULE MCTree -------------------------------
(* Tree with one or two documents and a handful of nodes, for TLC *)
EXTENDS Tree, TLC

CONSTANTS d, e, r, q, a, t, c

MCRoot  == d :> r
MCRoots == d :> r @@ e :> q
=============================================================================
