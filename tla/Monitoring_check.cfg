SPECIFICATION MonitoringSpec
CONSTANTS
    Chain = "Ethereum"
    Callers = {ethToElrond, elrondToEth}
    Sender = elrondToEth
    AllowDelta = 1
    MaxBlock = 2
    MaxRequests = 2
    MaxRestarts = 1
    HandlerOrder <- FourHandlers
    ClosedRoutes = {}
INVARIANTS StatusReflectsChain RequestsCounted IndInv AnswerIsSnapshot
PROPERTIES StalledChainReported
