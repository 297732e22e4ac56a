SPECIFICATION Spec
CONSTANTS
    Programs <- MCPrograms
    Register = {1}
    Address = {1, 2, 3}
    WordSize = 3
    compute <- MCCompute
    poseidon_gl <- MCPoseidon
    Length = 12
    Page = {0, 1, 2, 3}
    WORDS_PER_PAGE = 1
    bootloader_size <- MCBootloaderSize
    InitialMemory <- MCInitialMemory
    UsizeMax = 60
INVARIANT AllAccessesLoaded
