--------------------------- MODULE Monitoring_proofs ---------------------------
(***************************************************************************)
(* Between two checks the metrics tell the truth about the chain, the      *)
(* number of requests survives restarts and an answer of the REST          *)
(* interface is one moment's state, for every number of callers and of     *)
(* handlers, allowed delta and bound.                                      *)
(***************************************************************************)
EXTENDS Monitoring, TLAPS

USE DEF Nobody, Empty, Texts, ClientStatus, Steps, IntMetrics, StringMetrics,
        MetricNumEthClientRequests,
        MetricLastQueriedEthereumBlockNumber, MetricLastBlockNonce, MetricElrondClientStatus,
        MetricLastElrondClientError

\* The invariant holds at first: nothing was asked, counted or stored.
LEMMA Initial == Init => IndInv
  <1> SUFFICES ASSUME Init PROVE IndInv
    OBVIOUS
  <1> USE ConstantsAssumption DEF Init, NoMetrics, Idle, NoQuery, NoAnswer
  <1>1. TypeOK
    BY DEF TypeOK
  <1>2. ChecksInv
    BY DEF ChecksInv
  <1>3. StorerInv /\ RequestsCounted
    BY DEF StorerInv, RequestsCounted
  <1>4. StatusReflectsChain
    BY DEF StatusReflectsChain
  <1> QED
    BY <1>1, <1>2, <1>3, <1>4 DEF IndInv

\* What is written to the storer has the types of what the handler holds.
LEMMA StoredType ==
    ASSUME stored \in [ints : [IntMetrics -> Nat], strings : [StringMetrics -> Texts]],
           intMetrics' \in [IntMetrics -> Nat], stringMetrics' \in [StringMetrics -> Texts],
           persistChanges
    PROVE  /\ stored' \in [ints : [IntMetrics -> Nat], strings : [StringMetrics -> Texts]]
           /\ persisted' \in BOOLEAN
  <1> HIDE DEF IntMetrics, StringMetrics, Texts
  <1>1. persisted' \in BOOLEAN
    BY DEF persistChanges
  <1>2. CASE stored' = [ints |-> intMetrics', strings |-> stringMetrics']
    BY <1>1, <1>2
  <1>3. CASE stored' = stored
    BY <1>1, <1>3
  <1> QED
    BY <1>2, <1>3 DEF persistChanges

\* A check takes the lock.
LEMMA CheckClientAvailabilityStep ==
    ASSUME IndInv, NEW c \in Callers, CheckClientAvailability(c)
    PROVE  IndInv'
  <1> USE ConstantsAssumption DEF CheckClientAvailability, Lock, Goto, handlerVars, answerVars
  <1>1. TypeOK'
    BY DEF IndInv, TypeOK
  <1>2. ChecksInv'
    BY DEF IndInv, TypeOK, ChecksInv, Stuck, TrueStatus, TrueMessage, TrueNonce
  <1>3. StorerInv' /\ RequestsCounted'
    BY DEF IndInv, TypeOK, StorerInv, RequestsCounted
  <1>4. StatusReflectsChain'
    BY DEF IndInv, TypeOK, ChecksInv, StatusReflectsChain,
           Stuck, TrueStatus, TrueMessage, TrueNonce
  <1> QED
    BY <1>1, <1>2, <1>3, <1>4 DEF IndInv

\* A request that is counted is counted in the metric and in the history.
LEMMA CountedTogether ==
    ASSUME IndInv, AddIntMetric(MetricNumEthClientRequests, 1),
           requests' = Capped(requests + 1), UNCHANGED intact
    PROVE  StorerInv' /\ RequestsCounted'
  <1> DEFINE n == intMetrics[MetricNumEthClientRequests]
             k == stored.ints[MetricNumEthClientRequests]
  <1>1. /\ n \in Nat /\ k \in Nat /\ requests \in 0..MaxRequests /\ MaxRequests \in Nat
        /\ n <= requests /\ k <= requests
        /\ intact => n = requests
        /\ intact /\ persisted => k = requests
    BY ConstantsAssumption DEF IndInv, TypeOK, StorerInv, RequestsCounted
  <1>2. n' = Capped(n + 1)
    BY DEF AddIntMetric, IndInv, TypeOK
  <1>3. n' <= requests' /\ (intact => n' = requests')
    BY <1>1, <1>2 DEF Capped
  <1>4. \/ k' = n' /\ persisted'
        \/ k' = k /\ ~ persisted'
    BY DEF AddIntMetric, persistChanges, IndInv, TypeOK
  <1>5. requests' \in Nat /\ n' \in Nat /\ requests <= requests'
    BY <1>1, <1>2 DEF Capped
  <1>6. k' <= requests'
    BY <1>1, <1>3, <1>4, <1>5
  <1>7. intact /\ persisted' => k' = requests'
    BY <1>3, <1>4
  <1> QED
    BY <1>3, <1>6, <1>7 DEF StorerInv, RequestsCounted

\* The request is counted before it is made.
LEMMA CountRequestStep ==
    ASSUME IndInv, NEW c \in Callers, CountRequest(c)
    PROVE  IndInv'
  <1> USE ConstantsAssumption DEF CountRequest, Goto, AddIntMetric, Capped, handlerVars, answerVars
  <1>1. TypeOK'
    <2>1. intMetrics' \in [IntMetrics -> Nat] /\ stringMetrics' \in [StringMetrics -> Texts]
      BY DEF IndInv, TypeOK
    <2>2. /\ stored' \in [ints : [IntMetrics -> Nat], strings : [StringMetrics -> Texts]]
          /\ persisted' \in BOOLEAN
      BY <2>1, StoredType DEF IndInv, TypeOK
    <2> QED
      BY <2>1, <2>2 DEF IndInv, TypeOK
  <1>2. ChecksInv'
    BY DEF IndInv, TypeOK, ChecksInv, Stuck, TrueStatus, TrueMessage, TrueNonce
  <1>3. StorerInv' /\ RequestsCounted'
    BY CountedTogether DEF IndInv, TypeOK
  <1>4. StatusReflectsChain'
    BY DEF IndInv, TypeOK, ChecksInv, StatusReflectsChain,
           Stuck, TrueStatus, TrueMessage, TrueNonce
  <1> QED
    BY <1>1, <1>2, <1>3, <1>4 DEF IndInv

\* The query of a check fails.
LEMMA QueryFailsStep ==
    ASSUME IndInv, NEW c \in Callers, QueryFails(c)
    PROVE  IndInv'
  <1> USE ConstantsAssumption DEF QueryFails, handlerVars, answerVars
  <1>1. TypeOK'
    BY DEF IndInv, TypeOK
  <1>2. ChecksInv'
    BY DEF IndInv, TypeOK, ChecksInv, Stuck, TrueStatus, TrueMessage, TrueNonce
  <1>3. StorerInv' /\ RequestsCounted'
    BY DEF IndInv, TypeOK, StorerInv, RequestsCounted
  <1>4. StatusReflectsChain'
    BY DEF IndInv, TypeOK, ChecksInv, StatusReflectsChain,
           Stuck, TrueStatus, TrueMessage, TrueNonce
  <1> QED
    BY <1>1, <1>2, <1>3, <1>4 DEF IndInv

\* The query of a check succeeds.
LEMMA QuerySucceedsStep ==
    ASSUME IndInv, NEW c \in Callers, QuerySucceeds(c)
    PROVE  IndInv'
  <1> USE ConstantsAssumption DEF QuerySucceeds, TooManyRetries, Count,
          incrementRetriesAvailabilityCheck, handlerVars, answerVars
  <1>1. TypeOK'
    BY DEF IndInv, TypeOK
  <1>2. ChecksInv'
    BY DEF IndInv, TypeOK, ChecksInv, Stuck, TrueStatus, TrueMessage, TrueNonce
  <1>3. StorerInv' /\ RequestsCounted'
    BY DEF IndInv, TypeOK, StorerInv, RequestsCounted
  <1>4. StatusReflectsChain'
    BY DEF IndInv, TypeOK, ChecksInv, StatusReflectsChain,
           Stuck, TrueStatus, TrueMessage, TrueNonce
  <1> QED
    BY <1>1, <1>2, <1>3, <1>4 DEF IndInv

\* The number of the block is kept.
LEMMA KeepQueriedBlockStep ==
    ASSUME IndInv, NEW c \in Callers, KeepQueriedBlock(c)
    PROVE  IndInv'
  <1> USE ConstantsAssumption DEF KeepQueriedBlock, Goto, SetIntMetric, handlerVars, answerVars
  <1>1. TypeOK'
    <2>1. intMetrics' \in [IntMetrics -> Nat] /\ stringMetrics' \in [StringMetrics -> Texts]
      BY DEF IndInv, TypeOK
    <2>2. /\ stored' \in [ints : [IntMetrics -> Nat], strings : [StringMetrics -> Texts]]
          /\ persisted' \in BOOLEAN
      BY <2>1, StoredType DEF IndInv, TypeOK
    <2> QED
      BY <2>1, <2>2 DEF IndInv, TypeOK
  <1>2. ChecksInv'
    BY DEF IndInv, TypeOK, ChecksInv, Stuck, TrueStatus, TrueMessage, TrueNonce
  <1>3. StorerInv' /\ RequestsCounted'
    BY DEF persistChanges, IndInv, TypeOK, StorerInv, RequestsCounted
  <1>4. StatusReflectsChain'
    BY DEF IndInv, TypeOK, ChecksInv, StatusReflectsChain,
           Stuck, TrueStatus, TrueMessage, TrueNonce
  <1> QED
    BY <1>1, <1>2, <1>3, <1>4 DEF IndInv

\* The status is set.
LEMMA SetStatusStep ==
    ASSUME IndInv, NEW c \in Callers, SetStatus(c)
    PROVE  IndInv'
  <1> USE ConstantsAssumption DEF SetStatus, Goto, SetStringMetric, handlerVars, answerVars
  <1>1. TypeOK'
    <2>1. intMetrics' \in [IntMetrics -> Nat] /\ stringMetrics' \in [StringMetrics -> Texts]
      BY DEF IndInv, TypeOK
    <2>2. /\ stored' \in [ints : [IntMetrics -> Nat], strings : [StringMetrics -> Texts]]
          /\ persisted' \in BOOLEAN
      BY <2>1, StoredType DEF IndInv, TypeOK
    <2> QED
      BY <2>1, <2>2 DEF IndInv, TypeOK
  <1>2. ChecksInv'
    BY DEF IndInv, TypeOK, ChecksInv, Stuck, TrueStatus, TrueMessage, TrueNonce
  <1>3. StorerInv' /\ RequestsCounted'
    BY DEF persistChanges, IndInv, TypeOK, StorerInv, RequestsCounted
  <1>4. StatusReflectsChain'
    BY DEF IndInv, TypeOK, ChecksInv, StatusReflectsChain,
           Stuck, TrueStatus, TrueMessage, TrueNonce
  <1> QED
    BY <1>1, <1>2, <1>3, <1>4 DEF IndInv

\* The message is set.
LEMMA SetMessageStep ==
    ASSUME IndInv, NEW c \in Callers, SetMessage(c)
    PROVE  IndInv'
  <1> USE ConstantsAssumption DEF SetMessage, Goto, SetStringMetric, handlerVars, answerVars
  <1>1. TypeOK'
    <2>1. intMetrics' \in [IntMetrics -> Nat] /\ stringMetrics' \in [StringMetrics -> Texts]
      BY DEF IndInv, TypeOK
    <2>2. /\ stored' \in [ints : [IntMetrics -> Nat], strings : [StringMetrics -> Texts]]
          /\ persisted' \in BOOLEAN
      BY <2>1, StoredType DEF IndInv, TypeOK
    <2> QED
      BY <2>1, <2>2 DEF IndInv, TypeOK
  <1>2. ChecksInv'
    BY DEF IndInv, TypeOK, ChecksInv, Stuck, TrueStatus, TrueMessage, TrueNonce
  <1>3. StorerInv' /\ RequestsCounted'
    BY DEF persistChanges, IndInv, TypeOK, StorerInv, RequestsCounted
  <1>4. StatusReflectsChain'
    BY DEF IndInv, TypeOK, ChecksInv, StatusReflectsChain,
           Stuck, TrueStatus, TrueMessage, TrueNonce
  <1> QED
    BY <1>1, <1>2, <1>3, <1>4 DEF IndInv

\* The nonce is set and the lock released.
LEMMA SetNonceAndUnlockStep ==
    ASSUME IndInv, NEW c \in Callers, SetNonceAndUnlock(c)
    PROVE  IndInv'
  <1> USE ConstantsAssumption DEF SetNonceAndUnlock, Idle, SetIntMetric, handlerVars, answerVars
  <1>1. TypeOK'
    <2>1. intMetrics' \in [IntMetrics -> Nat] /\ stringMetrics' \in [StringMetrics -> Texts]
      BY DEF IndInv, TypeOK
    <2>2. /\ stored' \in [ints : [IntMetrics -> Nat], strings : [StringMetrics -> Texts]]
          /\ persisted' \in BOOLEAN
      BY <2>1, StoredType DEF IndInv, TypeOK
    <2> QED
      BY <2>1, <2>2 DEF IndInv, TypeOK
  <1>2. ChecksInv'
    BY DEF IndInv, TypeOK, ChecksInv, Stuck, TrueStatus, TrueMessage, TrueNonce
  <1>3. StorerInv' /\ RequestsCounted'
    BY DEF persistChanges, IndInv, TypeOK, StorerInv, RequestsCounted
  <1>4. StatusReflectsChain'
    BY DEF IndInv, TypeOK, ChecksInv, StatusReflectsChain,
           Stuck, TrueStatus, TrueMessage, TrueNonce
  <1> QED
    BY <1>1, <1>2, <1>3, <1>4 DEF IndInv

\* The query of getNonce is counted.
LEMMA CountNonceRequestStep ==
    ASSUME IndInv, CountNonceRequest
    PROVE  IndInv'
  <1> USE ConstantsAssumption DEF CountNonceRequest, AddIntMetric, Capped, answerVars
  <1>1. TypeOK'
    <2>1. intMetrics' \in [IntMetrics -> Nat] /\ stringMetrics' \in [StringMetrics -> Texts]
      BY DEF IndInv, TypeOK
    <2>2. /\ stored' \in [ints : [IntMetrics -> Nat], strings : [StringMetrics -> Texts]]
          /\ persisted' \in BOOLEAN
      BY <2>1, StoredType DEF IndInv, TypeOK
    <2> QED
      BY <2>1, <2>2 DEF IndInv, TypeOK
  <1>2. ChecksInv'
    BY DEF IndInv, TypeOK, ChecksInv, Stuck, TrueStatus, TrueMessage, TrueNonce
  <1>3. StorerInv' /\ RequestsCounted'
    BY CountedTogether DEF IndInv, TypeOK
  <1>4. StatusReflectsChain'
    BY DEF IndInv, TypeOK, ChecksInv, StatusReflectsChain,
           Stuck, TrueStatus, TrueMessage, TrueNonce
  <1> QED
    BY <1>1, <1>2, <1>3, <1>4 DEF IndInv

\* It is answered, or fails.
LEMMA AnswerNonceRequestStep ==
    ASSUME IndInv, AnswerNonceRequest
    PROVE  IndInv'
  <1> USE ConstantsAssumption DEF AnswerNonceRequest, NoQuery, handlerVars, answerVars
  <1>1. TypeOK'
    BY DEF IndInv, TypeOK
  <1>2. ChecksInv'
    BY DEF IndInv, TypeOK, ChecksInv, Stuck, TrueStatus, TrueMessage, TrueNonce
  <1>3. StorerInv' /\ RequestsCounted'
    BY DEF IndInv, TypeOK, StorerInv, RequestsCounted
  <1>4. StatusReflectsChain'
    BY DEF IndInv, TypeOK, ChecksInv, StatusReflectsChain,
           Stuck, TrueStatus, TrueMessage, TrueNonce
  <1> QED
    BY <1>1, <1>2, <1>3, <1>4 DEF IndInv

\* Its block is kept, in the middle of a check maybe.
LEMMA KeepNonceBlockStep ==
    ASSUME IndInv, KeepNonceBlock
    PROVE  IndInv'
  <1> USE ConstantsAssumption DEF KeepNonceBlock, NoQuery, SetIntMetric, answerVars
  <1>1. TypeOK'
    <2>1. intMetrics' \in [IntMetrics -> Nat] /\ stringMetrics' \in [StringMetrics -> Texts]
      BY DEF IndInv, TypeOK
    <2>2. /\ stored' \in [ints : [IntMetrics -> Nat], strings : [StringMetrics -> Texts]]
          /\ persisted' \in BOOLEAN
      BY <2>1, StoredType DEF IndInv, TypeOK
    <2> QED
      BY <2>1, <2>2 DEF IndInv, TypeOK
  <1>2. ChecksInv'
    BY DEF IndInv, TypeOK, ChecksInv, Stuck, TrueStatus, TrueMessage, TrueNonce
  <1>3. StorerInv' /\ RequestsCounted'
    BY DEF persistChanges, IndInv, TypeOK, StorerInv, RequestsCounted
  <1>4. StatusReflectsChain'
    BY DEF IndInv, TypeOK, ChecksInv, StatusReflectsChain,
           Stuck, TrueStatus, TrueMessage, TrueNonce
  <1> QED
    BY <1>1, <1>2, <1>3, <1>4 DEF IndInv

\* Another request is counted.
LEMMA OtherRequestStep ==
    ASSUME IndInv, OtherRequest
    PROVE  IndInv'
  <1> USE ConstantsAssumption DEF OtherRequest, AddIntMetric, Capped, clientVars, answerVars
  <1>1. TypeOK'
    <2>1. intMetrics' \in [IntMetrics -> Nat] /\ stringMetrics' \in [StringMetrics -> Texts]
      BY DEF IndInv, TypeOK
    <2>2. /\ stored' \in [ints : [IntMetrics -> Nat], strings : [StringMetrics -> Texts]]
          /\ persisted' \in BOOLEAN
      BY <2>1, StoredType DEF IndInv, TypeOK
    <2> QED
      BY <2>1, <2>2 DEF IndInv, TypeOK
  <1>2. ChecksInv'
    BY DEF IndInv, TypeOK, ChecksInv, Stuck, TrueStatus, TrueMessage, TrueNonce
  <1>3. StorerInv' /\ RequestsCounted'
    BY CountedTogether DEF IndInv, TypeOK
  <1>4. StatusReflectsChain'
    BY DEF IndInv, TypeOK, ChecksInv, StatusReflectsChain,
           Stuck, TrueStatus, TrueMessage, TrueNonce
  <1> QED
    BY <1>1, <1>2, <1>3, <1>4 DEF IndInv

\* The chain goes on.
LEMMA NewBlockStep ==
    ASSUME IndInv, NewBlock
    PROVE  IndInv'
  <1> USE ConstantsAssumption DEF NewBlock, handlerVars, clientVars, answerVars
  <1>1. TypeOK'
    BY DEF IndInv, TypeOK
  <1>2. ChecksInv'
    BY DEF IndInv, TypeOK, ChecksInv, Stuck, TrueStatus, TrueMessage, TrueNonce
  <1>3. StorerInv' /\ RequestsCounted'
    BY DEF IndInv, TypeOK, StorerInv, RequestsCounted
  <1>4. StatusReflectsChain'
    BY DEF IndInv, TypeOK, ChecksInv, StatusReflectsChain,
           Stuck, TrueStatus, TrueMessage, TrueNonce
  <1> QED
    BY <1>1, <1>2, <1>3, <1>4 DEF IndInv

\* The process starts again.
LEMMA RestartStep ==
    ASSUME IndInv, Restart
    PROVE  IndInv'
  <1> USE ConstantsAssumption DEF Restart, tryLoadPersistedData, NoMetrics, Idle, NoQuery, NoAnswer,
          clientVars, answerVars
  <1>1. TypeOK'
    BY DEF IndInv, TypeOK
  <1>2. ChecksInv'
    BY DEF IndInv, TypeOK, ChecksInv, Stuck, TrueStatus, TrueMessage, TrueNonce
  <1>3. StorerInv' /\ RequestsCounted'
    <2> PICK read \in {stored, NoMetrics} :
             /\ intMetrics' = read.ints
             /\ intact' = (intact /\ persisted /\ read = stored)
      OBVIOUS
    <2>1. CASE read = stored
      BY <2>1 DEF IndInv, TypeOK, StorerInv, RequestsCounted
    <2>2. CASE read # stored
      <3>1. intMetrics' = [m \in IntMetrics |-> 0]
        BY <2>2
      <3>2. ~ intact'
        BY <2>2
      <3> QED
        BY <3>1, <3>2 DEF IndInv, TypeOK, StorerInv, RequestsCounted
    <2> QED
      BY <2>1, <2>2
  <1>4. StatusReflectsChain'
    BY DEF IndInv, TypeOK, ChecksInv, StatusReflectsChain,
           Stuck, TrueStatus, TrueMessage, TrueNonce
  <1> QED
    BY <1>1, <1>2, <1>3, <1>4 DEF IndInv

\* A step that changes nothing.
LEMMA Stutter == IndInv /\ UNCHANGED vars => IndInv'
  BY DEF IndInv, TypeOK, ChecksInv, StorerInv, RequestsCounted, StatusReflectsChain,
         Stuck, TrueStatus, TrueMessage, TrueNonce, vars

\* Checks of both state machines, requests, blocks and restarts keep the
\* invariant.
THEOREM Invariance == Spec => []IndInv
  <1>1. IndInv /\ [Next]_vars => IndInv'
    <2> SUFFICES ASSUME IndInv, [Next]_vars PROVE IndInv'
      OBVIOUS
    <2>1. ASSUME NEW c \in Callers, Check(c) PROVE IndInv'
      BY <2>1, CheckClientAvailabilityStep, CountRequestStep, QueryFailsStep,
         QuerySucceedsStep, KeepQueriedBlockStep, SetStatusStep, SetMessageStep,
         SetNonceAndUnlockStep DEF Check
    <2> QED
      BY <2>1, CountNonceRequestStep, AnswerNonceRequestStep, KeepNonceBlockStep,
         OtherRequestStep, NewBlockStep, RestartStep, Stutter DEF Next, getNonce
  <1> QED
    BY Initial, <1>1, PTL DEF Spec

--------------------------------------------------------------------------------
(***************************************************************************)
(* The composition with the REST interface.                                *)
(***************************************************************************)
\* Every step of the composed system is one of the checks and the handler, or
\* leaves them alone.
LEMMA MonitoringStep == [MonitoringNext]_allVars => [Next]_vars
  <1> SUFFICES ASSUME [MonitoringNext]_allVars PROVE [Next]_vars
    OBVIOUS
  <1>1. CASE CheckStep
    BY <1>1 DEF CheckStep, Next
  <1>2. CASE OtherStep \/ ChainStep \/ RestartProcess
    BY <1>2 DEF OtherStep, ChainStep, RestartProcess, Next
  <1>3. CASE AddStatusHandler \/ RegisterRoutes \/ statusMetrics \/ Respond
    BY <1>3 DEF AddStatusHandler, RegisterRoutes, statusMetrics, Respond
  <1>4. CASE UNCHANGED allVars
    BY <1>4 DEF allVars
  <1> QED
    BY <1>1, <1>2, <1>3, <1>4 DEF MonitoringNext

\* Reading the metrics and registering handlers do not disturb the checks: the
\* process with its REST interface implements the specification of the checks.
THEOREM ChecksUndisturbed == MonitoringSpec => Spec
  <1>1. MonitoringInit => Init
    BY DEF MonitoringInit
  <1> QED
    BY <1>1, MonitoringStep, PTL DEF MonitoringSpec, Spec

\* Whenever no check is going on, the three metrics that a check sets say what
\* the chain has answered, whichever state machine asked.
THEOREM StatusIsTruthful == MonitoringSpec => []StatusReflectsChain
  <1>1. IndInv => StatusReflectsChain
    BY DEF IndInv
  <1> QED
    BY ChecksUndisturbed, Invariance, <1>1, PTL

\* The number of requests is exact over restarts, unless the storer failed when
\* it mattered.
THEOREM RequestsAreCounted == MonitoringSpec => []RequestsCounted
  <1>1. IndInv => RequestsCounted
    BY DEF IndInv
  <1> QED
    BY ChecksUndisturbed, Invariance, <1>1, PTL

--------------------------------------------------------------------------------
(***************************************************************************)
(* Answers are snapshots.                                                  *)
(***************************************************************************)
\* The numbers that a request copied stay those of the handler, because nobody
\* gets the handler's write lock before the request is answered.
THEOREM AnswersAreSnapshots == MonitoringSpec => []AnswerIsSnapshot
  <1> USE DEF AnswerIsSnapshot, GetAllMetrics
  <1>1. MonitoringInit => AnswerIsSnapshot
    BY DEF MonitoringInit
  <1>2. AnswerIsSnapshot /\ [MonitoringNext]_allVars => AnswerIsSnapshot'
    <2> SUFFICES ASSUME AnswerIsSnapshot, [MonitoringNext]_allVars PROVE AnswerIsSnapshot'
      OBVIOUS
    <2>1. CASE CheckStep \/ OtherStep
      <3>1. CASE handlerVars' = handlerVars
        BY <2>1, <3>1 DEF CheckStep, OtherStep, monitorVars, handlerVars
      <3>2. CASE handlerVars' # handlerVars
        BY <2>1, <3>2 DEF CheckStep, OtherStep, monitorVars, WriteLock
      <3> QED
        BY <3>1, <3>2
    <2>2. CASE RestartProcess \/ Respond
      BY <2>2 DEF RestartProcess, Respond
    <2>3. CASE ChainStep
      BY <2>3 DEF ChainStep, NewBlock, monitorVars, handlerVars
    <2>4. CASE statusMetrics
      BY <2>4 DEF statusMetrics, vars
    <2>5. CASE AddStatusHandler \/ RegisterRoutes \/ UNCHANGED allVars
      BY <2>5 DEF AddStatusHandler, RegisterRoutes, allVars, monitorVars, vars
    <2> QED
      BY <2>1, <2>2, <2>3, <2>4, <2>5 DEF MonitoringNext
  <1> QED
    BY <1>1, <1>2, PTL DEF MonitoringSpec
================================================================================
