SPECIFICATION FairSessionSpec
CONSTANTS
    None = None
    Torn = Torn
    p1 = p1
    p2 = p2
    p3 = p3
    Program = {p1, p2, p3}
    Dir = {0, 1, 2}
    Home = 0
    constant_count <- MCconstant_count
    Column = {"bootloader_inputs", "jump_to_shutdown_routine", "other"}
    External <- MCExternal
    NumChunks <- MCNumChunks
    MaxProcesses = 3
    MaxCrashes = 2
INVARIANTS EveryChunkProved  PanicsExplained
PROPERTIES ProveReturns
