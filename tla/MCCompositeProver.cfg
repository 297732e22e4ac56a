SPECIFICATION FairCompositeSpec
CONSTANTS
    Machine = {1, 2, 3}
    challenge_ids <- MCChallengeIds
    supported <- MCSupported
    Witnesses <- MCWitnesses
    MayPanic = {1, 2, 3}
    MaxCalls = 2
INVARIANTS CompositeTypeOK SameChallenges OneRunsAtATime
PROPERTIES ImplementsStagedProver EveryCallReturns
