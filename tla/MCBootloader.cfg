SPECIFICATION BootSpec
CONSTANTS
    N_LEVELS = 3
    WORDS_PER_PAGE = 8
    Word = {0, 1}
    Zero = 0
    hash_cap0 <- MCHashCap0
    hash_page <- MCHashPage
    default_hashes <- MCDefaultHashes
    Provided <- MCProvided
    zero_hash <- MCZeroHash
    quad <- MCQuad
    hash_prefix <- MCHashPrefix
    mixed <- MCMixed
INVARIANTS BootTypeOK HonestInputsAccepted  FinalRootFollows RowsAsEstimated
\* The bootloader is done when it has failed or jumped to the program.
CHECK_DEADLOCK FALSE
