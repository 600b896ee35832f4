SPECIFICATION Spec
CONSTANTS
    Relayers = {r1, r2}
    Quorum = 2
    MaxQuorumRetriesOnElrond = 1
    SettledOnly = FALSE
    MaxBatch = 2
    MaxDeposits = 3
    MaxFaults = 1
SYMMETRY RelayerSymmetry
INVARIANTS NoDepositSkipped ExecutorConsistent IndInv
PROPERTIES PaysOut
