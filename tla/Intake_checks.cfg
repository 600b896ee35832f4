SPECIFICATION Spec
CONSTANTS
    Relayers = {r1, r2}
    Handlers = {h1, h2}
    MaxChanges = 1
    MaxNonce = 1
    Peers = {p1}
    MaxFaults = 1
INVARIANTS NoSpuriousRefusal NoncesOfRelayersOnly ClientsGetRelayersOnly
PROPERTIES RemovedAtLast
