SPECIFICATION Spec
CONSTANTS
    Relayers = {r1, r2}
    Quorum = 2
    MaxQuorumRetriesOnEthereum = 1
    MaxQuorumRetriesOnElrond = 1
    MaxRetriesOnWasProposed = 1
    MaxBatch = 1
    MaxDeposits = 2
    MaxFaults = 0
    Outcomes = {3, 4}
SYMMETRY RelayerSymmetry
INVARIANTS SettledTruthfully TransfersWellSigned IndInv
PROPERTIES KeepsPromise
