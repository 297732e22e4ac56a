SPECIFICATION Spec
CONSTANTS
    N_LEVELS = 3
    WORDS_PER_PAGE = 1
    Word = {0, 1}
    Zero = 0
    hash_cap0 <- MCHashCap0
    hash_page <- MCHashPage
    default_hashes <- MCDefaultHashes
INVARIANTS TypeOK TreeConsistent RootIsReference EveryProofVerifies
PROPERTIES ProofOfUpdatedPageStable
