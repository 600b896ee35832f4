SPECIFICATION Spec
CONSTANTS
    Relayers = {r1, r2}
    Quorum = 2
    MaxQuorumRetriesOnEthereum = 1
    MaxQuorumRetriesOnElrond = 1
    MaxRetriesOnWasProposed = 1
    MaxBatch = 2
    MaxDeposits = 1
    MaxFaults = 1
    Outcomes = {3}
SYMMETRY RelayerSymmetry
INVARIANTS TypeOK NoBatchSkipped ExecutorConsistent
