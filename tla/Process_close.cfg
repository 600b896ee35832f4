SPECIFICATION Spec
CONSTANTS
    Senders = {"ethToElrond", "elrondToEth"}
    Configs <- OnOrOff
    MaxFaults = 1
    MaxNonce = 3
    MaxUnsigned = 1
INVARIANTS ClosablesStopped NoStepBeforeJoin NoNonceGap
