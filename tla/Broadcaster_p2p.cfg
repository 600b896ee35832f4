SPECIFICATION Spec
CONSTANTS
    Relayers = {r1, r2}
    Hashes = {h1}
    Orderly = {r1}
    MaxEvents = 4
    MaxFaults = 1
INVARIANTS NoReplay IndInv NewestMessageReachesAll LatestSignatureReachesAll
CHECK_DEADLOCK FALSE
