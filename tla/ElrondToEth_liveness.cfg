SPECIFICATION FairSpec
CONSTANTS
    Relayers = {r1, r2}
    Quorum = 2
    MaxQuorumRetriesOnEthereum = 1
    MaxQuorumRetriesOnElrond = 1
    MaxRetriesOnWasProposed = 1
    MaxBatch = 1
    MaxDeposits = 1
    MaxFaults = 0
    Outcomes = {3}
PROPERTIES PendingBatchSettled
