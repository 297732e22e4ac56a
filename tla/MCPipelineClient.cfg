SPECIFICATION ClientSpec
CONSTANTS
    None = None
    Torn = Torn
    p1 = p1
    p2 = p2
    Program = {p1, p2}
    Dir = {"out"}
    Home = "out"
    constant_count <- MCconstant_count
    Column = {"c1", "c2"}
    External <- MCExternal
    Origin = {"asm_string", "optimized_pil"}
    Goal = {"analyzed_asm", "analyzed_pil", "witness", "backend", "proof"}
    MaxOps = 5
INVARIANTS ProofIsOfWitness HostReadsOneRun SourceIsKept
PROPERTIES ExternalValuesReachTheWitness
CHECK_DEADLOCK FALSE
