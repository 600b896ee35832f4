SPECIFICATION Spec
CONSTANTS
    Relayers = {r1, r2}
    Hashes = {h1}
    Orderly = {r1, r2}
    MaxEvents = 4
    MaxFaults = 0
SYMMETRY RelayerSymmetry
INVARIANTS LateJoinerBootstraps
CHECK_DEADLOCK FALSE
