----------------------------- MODULE MCPrefixes -----------------------------
(* Prefixes with a few namespaces and declarations, for TLC *)
EXTENDS Prefixes, TLC

CONSTANTS u, v, c, xml_namespace

MCGenerated == <<"ns0", "ns1">>
MCGlobal == "xml" :> xml_namespace
MCCommon == "k" :> c

\* up to two entries, among them those that are refused
MCDeclarations ==
    UNION {[D -> Declarable] : D \in {E \in SUBSET (AllPrefixes \cup {None}) : Cardinality(E) <= 2}}
=============================================================================
