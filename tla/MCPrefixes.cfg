CONSTANTS
    u = u
    v = v
    c = c
    xml_namespace = xml_namespace
    NoNamespace = NoNamespace
    Declarable = {u, v, c, xml_namespace}
    Default = ""
    None = None
    PrefixNames = {"k", "xml", "ns0", "ns1"}
    Generated <- MCGenerated
    Global <- MCGlobal
    Common <- MCCommon
    Declarations <- MCDeclarations
    MaxNames = 4
SPECIFICATION Spec
INVARIANTS
    Distinct
    NamesComeBack
    FailsByGeneratedPrefixesOnly
CHECK_DEADLOCK FALSE
