SPECIFICATION FairSpec
CONSTANTS
    Relayers = {r1, r2}
    Quorum = 2
    MaxQuorumRetriesOnElrond = 1
    SettledOnly = TRUE
    MaxBatch = 2
    MaxDeposits = 3
    MaxFaults = 1
PROPERTIES PaysOut EveryBatchExecuted
