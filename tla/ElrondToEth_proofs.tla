--------------------------- MODULE ElrondToEth_proofs ---------------------------
(***************************************************************************)
(* Machine-checked proofs about ElrondToEth, for any number of relayers,   *)
(* batches, deposits and faults and for any limits of the counters.        *)
(***************************************************************************)
EXTENDS ElrondToEth, FiniteSetTheorems, TLAPS

\* The questions to the Elrond contract are what they read of its state.
USE DEF GetCurrentBatchAsDataBytes, WasProposedSetStatus, GetActionIDForSetStatusOnPendingTransfer,
        GetAndStoreActionIDForProposeSetStatusFromElrond, WasExecuted, ValidateBatch,
        ClearStoredP2PSignaturesForEthereum

--------------------------------------------------------------------------------
(***************************************************************************)
(* Facts about the operators on batches.                                   *)
(***************************************************************************)

\* A function on 1..n is a sequence of length n.
LEMMA FunctionIsSeq ==
    ASSUME NEW S, NEW n \in Nat, NEW f \in [1..n -> S]
    PROVE  f \in Seq(S) /\ Len(f) = n
  OBVIOUS

\* ResolveNewDeposits (clients/batch.go) returns as many statuses as there
\* are deposits or were statuses, the old ones up to the number of deposits
\* and Rejected for the others.
LEMMA ResolveNewDepositsProperties ==
    ASSUME NEW s \in Seq(FinalStatus), NEW n \in Nat
    PROVE  /\ ResolveNewDeposits(s, n) \in Seq(FinalStatus)
           /\ ResolveNewDeposits(s, n) \in Seq(Status)
           /\ Len(ResolveNewDeposits(s, n)) = IF n > Len(s) THEN n ELSE Len(s)
           /\ \A i \in 1..Len(ResolveNewDeposits(s, n)) :
                 ResolveNewDeposits(s, n)[i] =
                    IF i <= Len(s) /\ i <= n THEN s[i] ELSE Rejected
<1> DEFINE m == IF n > Len(s) THEN n ELSE Len(s)
           f == [i \in 1..m |-> IF i <= Len(s) /\ i <= n THEN s[i] ELSE Rejected]
<1>1. m \in Nat
  OBVIOUS
<1>2. f \in [1..m -> FinalStatus]
  BY DEF FinalStatus
<1>3. f \in Seq(FinalStatus) /\ f \in Seq(Status) /\ Len(f) = m
  BY <1>1, <1>2, FunctionIsSeq DEF Status
<1>4. ResolveNewDeposits(s, n) = f
  BY DEF ResolveNewDeposits
<1>5. QED
  BY <1>3, <1>4

\* The batch that is made of the pending one has its size and no final status.
LEMMA CreatedBatchType ==
    ASSUME NEW p \in [id : Nat, num : Nat]
    PROVE  /\ createPendingBatchFromResponse(p) \in BatchType
           /\ createPendingBatchFromResponse(p).id = p.id
           /\ createPendingBatchFromResponse(p).num = p.num
<1>1. [i \in 1..p.num |-> NoStatus] \in [1..p.num -> Status]
  BY DEF Status
<1>2. [i \in 1..p.num |-> NoStatus] \in Seq(Status)
  BY <1>1, FunctionIsSeq
<1>3. QED
  BY <1>2 DEF createPendingBatchFromResponse, BatchType

--------------------------------------------------------------------------------
(***************************************************************************)
(* Type correctness.                                                       *)
(***************************************************************************)
StepNames ==
    /\ \A s \in {GettingPendingBatchFromElrond, CheckingTransferPerformed,
                 SigningProposedTransferOnEthereum, WaitingForQuorumOnTransfer,
                 PerformingTransfer, WaitingTransferConfirmation,
                 ResolvingSetStatusOnElrond, WaitingFinalStatuses,
                 ProposingSetStatusOnElrond, SigningProposedSetStatusOnElrond,
                 WaitingForQuorumOnSetStatus, PerformingSetStatus} :
          s \in StepIdentifiers

\* The names that the steps go to are the step identifiers.
LEMMA StepNamesAreSteps == StepNames
  BY DEF StepNames, StepIdentifiers, TransferSteps, ResolveSteps, SetStatusSteps,
         QuorumOnSetStatusSteps

\* A step goes to a step; the counter of faults stays in its bound.
LEMMA GotoType ==
    ASSUME TypeOK, NEW r \in Relayers, NEW s \in StepIdentifiers, Goto(r, s)
    PROVE  step' \in [Relayers -> StepIdentifiers]
  BY DEF TypeOK, Goto

\* A fault keeps the count of the faults within its bound.
LEMMA FaultType ==
    ASSUME TypeOK, Fault
    PROVE  faults' \in 0..MaxFaults
  BY ConstantsAssumption DEF TypeOK, Fault

\* A relayer that gives up is back in the first step.
LEMMA AbortType ==
    ASSUME TypeOK, NEW r \in Relayers, Abort(r)
    PROVE  step' \in [Relayers -> StepIdentifiers] /\ faults' \in 0..MaxFaults
  BY GotoType, FaultType, StepNamesAreSteps DEF Abort, StepNames, TypeOK

\* The values that stand for nothing stored have the types of what is stored.
LEMMA NoDataType ==
    /\ NoBatch \in BatchType /\ NoHash \in Hash /\ InvalidActionID \in Action
    /\ NoRetries \in Retries
  BY ConstantsAssumption DEF NoBatch, BatchType, NoHash, Hash, InvalidActionID, Action,
     NoRetries, Retries

\* A counter below its limit can be incremented.
LEMMA IncrementType ==
    ASSUME NEW r \in Relayers, retries \in [Relayers -> Retries]
    PROVE  /\ retries[r].onEthereum < MaxQuorumRetriesOnEthereum =>
                 [retries EXCEPT ![r].onEthereum = @ + 1] \in [Relayers -> Retries]
           /\ retries[r].onElrond < MaxQuorumRetriesOnElrond =>
                 [retries EXCEPT ![r].onElrond = @ + 1] \in [Relayers -> Retries]
           /\ retries[r].onWasProposed < MaxRetriesOnWasProposed =>
                 [retries EXCEPT ![r].onWasProposed = @ + 1] \in [Relayers -> Retries]
<1>1. retries[r] \in Retries
  OBVIOUS
<1>2. ASSUME retries[r].onEthereum < MaxQuorumRetriesOnEthereum
      PROVE  [retries[r] EXCEPT !.onEthereum = @ + 1] \in Retries
  BY <1>1, <1>2, ConstantsAssumption DEF Retries
<1>3. ASSUME retries[r].onElrond < MaxQuorumRetriesOnElrond
      PROVE  [retries[r] EXCEPT !.onElrond = @ + 1] \in Retries
  BY <1>1, <1>3, ConstantsAssumption DEF Retries
<1>4. ASSUME retries[r].onWasProposed < MaxRetriesOnWasProposed
      PROVE  [retries[r] EXCEPT !.onWasProposed = @ + 1] \in Retries
  BY <1>1, <1>4, ConstantsAssumption DEF Retries
<1>5. QED
  BY <1>2, <1>3, <1>4

\* A stored batch that is given other statuses is a batch.
LEMMA NewStatusesType ==
    ASSUME TypeOK, NEW r \in Relayers, NEW s \in Seq(Status)
    PROVE  [batch EXCEPT ![r].statuses = s] \in [Relayers -> BatchType]
<1>1. batch[r] \in BatchType
  BY DEF TypeOK
<1>2. [batch[r] EXCEPT !.statuses = s] \in BatchType
  BY <1>1 DEF BatchType
<1>3. QED
  BY <1>2 DEF TypeOK

\* The hash and the set-status action of a batch have their types.
LEMMA BatchDataType ==
    ASSUME NEW b \in BatchType
    PROVE  GenerateMessageHash(b) \in Hash /\ SetStatusOf(b) \in Action
  BY DEF BatchType, GenerateMessageHash, Hash, SetStatusOf, Action

\* The types hold at the start.
LEMMA InitTypeOK == Init => TypeOK
<1> SUFFICES ASSUME Init PROVE TypeOK
  OBVIOUS
<1>1. /\ pending \in [id : Nat, num : 0..MaxDeposits]
      /\ proposed \subseteq Action /\ performed \subseteq Action
      /\ signed \subseteq Action \X Relayers
      /\ proposeTxs \subseteq Action /\ performTxs \subseteq Action
      /\ signTxs \subseteq Action \X Relayers
      /\ ethFinal \subseteq BatchIDs /\ ethPool \subseteq EthTx
      /\ broadcast \subseteq Signature
      /\ fetched \in [Relayers -> 0..MaxDeposits]
      /\ sigs \in [Relayers -> SUBSET Signature]
      /\ faults \in 0..MaxFaults
  BY ConstantsAssumption DEF Init
<1>2. ethStatuses \in [BatchIDs -> Seq(FinalStatus)]
  BY DEF Init
<1>3. step \in [Relayers -> StepIdentifiers]
  BY StepNamesAreSteps DEF Init, StepNames
<1>4. /\ batch \in [Relayers -> BatchType]
      /\ actionID \in [Relayers -> Action]
      /\ msgHash \in [Relayers -> Hash]
      /\ retries \in [Relayers -> Retries]
  BY NoDataType DEF Init
<1>5. QED
  BY <1>1, <1>2, <1>3, <1>4 DEF TypeOK

\* Steps 1 to 6 of the state machine preserve the types.
LEMMA TransferStepsTypeOK ==
    ASSUME TypeOK, NEW r \in Relayers
    PROVE  /\ GetPending(r) => TypeOK'
           /\ CheckTransferPerformed(r) => TypeOK'
           /\ SignProposedTransfer(r) => TypeOK'
           /\ WaitForQuorumOnTransfer(r) => TypeOK'
           /\ PerformTransfer(r) => TypeOK'
           /\ PerformTransferAsLeader(r) => TypeOK'
           /\ WaitTransferConfirmation(r) => TypeOK'
<1> USE StepNamesAreSteps DEF StepNames
<1>1. ASSUME GetPending(r) PROVE TypeOK'
  <2>1. pending \in [id : Nat, num : Nat]
    BY ConstantsAssumption DEF TypeOK
  <2>2. batch' \in [Relayers -> BatchType]
    BY <1>1, <2>1, CreatedBatchType DEF GetPending, TypeOK
  <2>3. step' \in [Relayers -> StepIdentifiers] /\ faults' \in 0..MaxFaults
    BY <1>1, GotoType, FaultType DEF GetPending, TypeOK
  <2>4. retries' \in [Relayers -> Retries]
    BY <1>1, NoDataType DEF GetPending, ResetRetries, TypeOK
  <2>5. QED
    BY <1>1, <2>2, <2>3, <2>4 DEF GetPending, TypeOK, elrondVars, elrondPool, ethVars
<1>2. ASSUME CheckTransferPerformed(r) PROVE TypeOK'
  <2>1. step' \in [Relayers -> StepIdentifiers] /\ faults' \in 0..MaxFaults
    BY <1>2, GotoType, AbortType DEF CheckTransferPerformed, TypeOK
  <2>2. QED
    BY <1>2, <2>1 DEF CheckTransferPerformed, TypeOK, elrondVars, elrondPool, ethVars, executorVars
<1>3. ASSUME SignProposedTransfer(r) PROVE TypeOK'
  <2>1. step' \in [Relayers -> StepIdentifiers] /\ faults' \in 0..MaxFaults
    BY <1>3, GotoType, AbortType DEF SignProposedTransfer, TypeOK
  <2>2. batch[r] \in BatchType
    BY DEF TypeOK
  <2>3. GenerateMessageHash(batch[r]) \in Hash
    BY <2>2, BatchDataType
  <2>4. msgHash' \in [Relayers -> Hash] /\ broadcast' \subseteq Signature
    <3>1. CASE UNCHANGED <<msgHash, broadcast>>
      BY <3>1 DEF TypeOK
    <3>2. CASE /\ msgHash' = [msgHash EXCEPT ![r] = GenerateMessageHash(batch[r])]
               /\ broadcast' = broadcast
                     \cup {[signer |-> r, hash |-> GenerateMessageHash(batch[r])]}
      BY <2>3, <3>2 DEF TypeOK, Signature
    <3>3. QED
      BY <1>3, <3>1, <3>2 DEF SignProposedTransfer
  <2>5. QED
    BY <1>3, <2>1, <2>4 DEF SignProposedTransfer, TypeOK, elrondVars, elrondPool, ethVars
<1>4. ASSUME WaitForQuorumOnTransfer(r) PROVE TypeOK'
  <2>0. ~ QuorumRetriesOnEthereumOver(r) => retries[r].onEthereum < MaxQuorumRetriesOnEthereum
    BY ConstantsAssumption DEF QuorumRetriesOnEthereumOver, TypeOK, Retries
  <2>1. step' \in [Relayers -> StepIdentifiers] /\ faults' \in 0..MaxFaults
    BY <1>4, GotoType, FaultType DEF WaitForQuorumOnTransfer, TypeOK
  <2>2. retries' \in [Relayers -> Retries]
    BY <1>4, <2>0, IncrementType DEF WaitForQuorumOnTransfer, TypeOK
  <2>3. QED
    BY <1>4, <2>1, <2>2
       DEF WaitForQuorumOnTransfer, TypeOK, elrondVars, elrondPool, ethVars, executorVars
<1>5. ASSUME PerformTransfer(r) PROVE TypeOK'
  <2>1. step' \in [Relayers -> StepIdentifiers] /\ faults' \in 0..MaxFaults
    BY <1>5, GotoType, AbortType DEF PerformTransfer, TypeOK
  <2>2. QED
    BY <1>5, <2>1 DEF PerformTransfer, TypeOK, elrondVars, elrondPool, ethVars, executorVars
<1>6. ASSUME PerformTransferAsLeader(r) PROVE TypeOK'
  <2>1. step' \in [Relayers -> StepIdentifiers]
    BY <1>6, GotoType DEF PerformTransferAsLeader
  <2>2. batch[r].id \in Nat /\ batch[r].num \in Nat
    BY DEF TypeOK, BatchType
  <2>3. Signatures(r, msgHash[r]) \subseteq Signature
    BY DEF TypeOK, Signatures
  <2>4. ethPool' \subseteq EthTx
    BY <1>6, <2>2, <2>3 DEF PerformTransferAsLeader, TypeOK, EthTx
  <2>5. QED
    BY <1>6, <2>1, <2>4
       DEF PerformTransferAsLeader, TypeOK, elrondVars, elrondPool, ethVars, executorVars
<1>7. ASSUME WaitTransferConfirmation(r) PROVE TypeOK'
  <2>1. step' \in [Relayers -> StepIdentifiers]
    BY <1>7, GotoType DEF WaitTransferConfirmation
  <2>2. QED
    BY <1>7, <2>1
       DEF WaitTransferConfirmation, TypeOK, elrondVars, elrondPool, ethVars, executorVars
<1>8. QED
  BY <1>1, <1>2, <1>3, <1>4, <1>5, <1>6, <1>7

\* So do steps 6 to 10 and a restart.
LEMMA SetStatusStepsTypeOK ==
    ASSUME TypeOK, NEW r \in Relayers
    PROVE  /\ ResolveSetStatus(r) => TypeOK'
           /\ WaitFinalStatuses(r) => TypeOK'
           /\ ProposeSetStatus(r) => TypeOK'
           /\ ProposeSetStatusAsLeader(r) => TypeOK'
           /\ SignProposedSetStatus(r) => TypeOK'
           /\ WaitForQuorumOnSetStatus(r) => TypeOK'
           /\ PerformSetStatus(r) => TypeOK'
           /\ PerformSetStatusAsLeader(r) => TypeOK'
           /\ Restart(r) => TypeOK'
<1> USE StepNamesAreSteps DEF StepNames
<1> DEFINE RetriesOK == retries' \in [Relayers -> Retries]
<1>0. batch[r] \in BatchType /\ SetStatusOf(batch[r]) \in Action
  BY BatchDataType DEF TypeOK
<1>1. ASSUME ResolveSetStatus(r) PROVE TypeOK'
  <2>1. step' \in [Relayers -> StepIdentifiers] /\ faults' \in 0..MaxFaults
    BY <1>1, GotoType, AbortType DEF ResolveSetStatus, TypeOK
  <2>2. fetched' \in [Relayers -> 0..MaxDeposits] /\ sigs' \in [Relayers -> SUBSET Signature]
    BY <1>1 DEF ResolveSetStatus, TypeOK
  <2>3. QED
    BY <1>1, <2>1, <2>2 DEF ResolveSetStatus, TypeOK, elrondVars, elrondPool, ethVars
<1>2. ASSUME WaitFinalStatuses(r) PROVE TypeOK'
  <2>1. step' \in [Relayers -> StepIdentifiers] /\ faults' \in 0..MaxFaults
    BY <1>2, GotoType, FaultType DEF WaitFinalStatuses, TypeOK
  <2>2. fetched[r] \in Nat /\ fetched' \in [Relayers -> 0..MaxDeposits]
    BY <1>2, ConstantsAssumption DEF WaitFinalStatuses, TypeOK
  <2>3. ASSUME FinalStatusesAvailable(batch[r])
        PROVE  ResolveNewDeposits(ethStatuses[batch[r].id], fetched[r]) \in Seq(Status)
    <3>1. ethStatuses[batch[r].id] \in Seq(FinalStatus)
      BY <2>3 DEF FinalStatusesAvailable, TypeOK
    <3>2. QED
      BY <2>2, <3>1, ResolveNewDepositsProperties
  <2>4. batch' \in [Relayers -> BatchType]
    <3>1. CASE UNCHANGED batch
      BY <3>1 DEF TypeOK
    <3>2. CASE /\ FinalStatusesAvailable(batch[r])
               /\ batch' = [batch EXCEPT ![r].statuses =
                               ResolveNewDeposits(ethStatuses[batch[r].id], fetched[r])]
      BY <2>3, <3>2, NewStatusesType
    <3>3. QED
      BY <1>2, <3>1, <3>2 DEF WaitFinalStatuses
  <2>5. QED
    BY <1>2, <2>1, <2>2, <2>4 DEF WaitFinalStatuses, TypeOK, elrondVars, elrondPool, ethVars
<1>3. ASSUME ProposeSetStatus(r) PROVE TypeOK'
  <2>1. step' \in [Relayers -> StepIdentifiers] /\ faults' \in 0..MaxFaults
    BY <1>3, GotoType, AbortType DEF ProposeSetStatus, TypeOK
  <2>2. RetriesOK
    BY <1>3, IncrementType DEF ProposeSetStatus, TypeOK
  <2>3. QED
    BY <1>3, <2>1, <2>2
       DEF ProposeSetStatus, TypeOK, elrondVars, elrondPool, ethVars, executorVars
<1>4. ASSUME ProposeSetStatusAsLeader(r) PROVE TypeOK'
  <2>1. step' \in [Relayers -> StepIdentifiers]
    BY <1>4, GotoType DEF ProposeSetStatusAsLeader
  <2>2. RetriesOK
    BY <1>4, IncrementType DEF ProposeSetStatusAsLeader, TypeOK
  <2>3. proposeTxs' \subseteq Action
    BY <1>0, <1>4 DEF ProposeSetStatusAsLeader, TypeOK
  <2>4. QED
    BY <1>4, <2>1, <2>2, <2>3 DEF ProposeSetStatusAsLeader, TypeOK, elrondVars, ethVars, executorVars
<1>5. ASSUME SignProposedSetStatus(r) PROVE TypeOK'
  <2>1. step' \in [Relayers -> StepIdentifiers] /\ faults' \in 0..MaxFaults
    BY <1>5, GotoType, AbortType, FaultType DEF SignProposedSetStatus, TypeOK
  <2>2. actionID' \in [Relayers -> Action]
    BY <1>0, <1>5, NoDataType DEF SignProposedSetStatus, TypeOK
  <2>3. signTxs' \subseteq Action \X Relayers
    BY <1>0, <1>5 DEF SignProposedSetStatus, TypeOK
  <2>4. QED
    BY <1>5, <2>1, <2>2, <2>3 DEF SignProposedSetStatus, TypeOK, elrondVars, ethVars
<1>6. ASSUME WaitForQuorumOnSetStatus(r) PROVE TypeOK'
  <2>1. step' \in [Relayers -> StepIdentifiers] /\ faults' \in 0..MaxFaults
    BY <1>6, GotoType, FaultType DEF WaitForQuorumOnSetStatus, TypeOK
  <2>2. RetriesOK
    BY <1>6, IncrementType DEF WaitForQuorumOnSetStatus, TypeOK
  <2>3. QED
    BY <1>6, <2>1, <2>2
       DEF WaitForQuorumOnSetStatus, TypeOK, elrondVars, elrondPool, ethVars, executorVars
<1>7. ASSUME PerformSetStatus(r) PROVE TypeOK'
  <2>1. step' \in [Relayers -> StepIdentifiers] /\ faults' \in 0..MaxFaults
    BY <1>7, GotoType, AbortType DEF PerformSetStatus, TypeOK
  <2>2. QED
    BY <1>7, <2>1 DEF PerformSetStatus, TypeOK, elrondVars, elrondPool, ethVars, executorVars
<1>8. ASSUME PerformSetStatusAsLeader(r) PROVE TypeOK'
  BY <1>8 DEF PerformSetStatusAsLeader, TypeOK, elrondVars, ethVars, executorVars
<1>9. ASSUME Restart(r) PROVE TypeOK'
  <2>1. step' \in [Relayers -> StepIdentifiers] /\ faults' \in 0..MaxFaults
    BY <1>9, GotoType, FaultType DEF Restart
  <2>2. /\ batch' \in [Relayers -> BatchType]
        /\ actionID' \in [Relayers -> Action]
        /\ msgHash' \in [Relayers -> Hash]
        /\ RetriesOK
    BY <1>9, NoDataType DEF Restart, TypeOK
  <2>3. fetched' \in [Relayers -> 0..MaxDeposits] /\ sigs' \in [Relayers -> SUBSET Signature]
    BY <1>9, ConstantsAssumption DEF Restart, TypeOK
  <2>4. QED
    BY <1>9, <2>1, <2>2, <2>3 DEF Restart, TypeOK, elrondVars, elrondPool, ethVars
<1>10. QED
  BY <1>1, <1>2, <1>3, <1>4, <1>5, <1>6, <1>7, <1>8, <1>9

\* The environment: network, chains, losses.
LEMMA EnvironmentTypeOK ==
    ASSUME TypeOK
    PROVE  /\ \A r \in Relayers : Deliver(r) => TypeOK'
           /\ LoseTransaction => TypeOK'
           /\ Deposit => TypeOK'
           /\ IncludePropose => TypeOK'
           /\ IncludeSign => TypeOK'
           /\ IncludePerform => TypeOK'
           /\ IncludeOnEthereum => TypeOK'
           /\ \A b \in BatchIDs : Finalize(b) => TypeOK'
<1> USE DEF elrondVars, elrondPool, ethVars, relayerVars
<1>1. ASSUME NEW r \in Relayers, Deliver(r) PROVE TypeOK'
  BY <1>1 DEF Deliver, TypeOK
<1>2. ASSUME LoseTransaction PROVE TypeOK'
  <2>1. faults' \in 0..MaxFaults
    BY <1>2, FaultType DEF LoseTransaction
  <2>2. QED
    BY <1>2, <2>1 DEF LoseTransaction, TypeOK
<1>3. ASSUME Deposit PROVE TypeOK'
  <2>1. pending' \in [id : Nat, num : 0..MaxDeposits]
    <3>1. /\ pending \in [id : Nat, num : 0..MaxDeposits] /\ pending.num < MaxDeposits
          /\ pending' = [pending EXCEPT !.num = @ + 1]
      BY <1>3 DEF Deposit, TypeOK
    <3>2. pending.num + 1 \in 0..MaxDeposits
      BY <3>1, ConstantsAssumption
    <3>3. QED
      BY <3>1, <3>2
  <2>2. QED
    BY <1>3, <2>1 DEF Deposit, TypeOK
<1>4. ASSUME IncludePropose PROVE TypeOK'
  BY <1>4 DEF IncludePropose, TypeOK
<1>5. ASSUME IncludeSign PROVE TypeOK'
  BY <1>5 DEF IncludeSign, TypeOK
<1>6. ASSUME IncludePerform PROVE TypeOK'
  BY <1>6, ConstantsAssumption DEF IncludePerform, TypeOK
<1>7. ASSUME IncludeOnEthereum PROVE TypeOK'
  <2>1. ASSUME NEW tx \in ethPool, NEW s \in [1..tx.num -> Outcomes]
        PROVE  s \in Seq(FinalStatus)
    <3>1. tx.num \in Nat
      BY <2>1 DEF TypeOK, EthTx
    <3>2. s \in [1..tx.num -> FinalStatus]
      BY <2>1, ConstantsAssumption
    <3>3. QED
      BY <3>1, <3>2, FunctionIsSeq
  <2>2. ethStatuses' \in [BatchIDs -> Seq(FinalStatus)]
    BY <1>7, <2>1 DEF IncludeOnEthereum, TypeOK
  <2>3. QED
    BY <1>7, <2>2 DEF IncludeOnEthereum, TypeOK
<1>8. ASSUME NEW b \in BatchIDs, Finalize(b) PROVE TypeOK'
  BY <1>8 DEF Finalize, TypeOK
<1>9. QED
  BY <1>1, <1>2, <1>3, <1>4, <1>5, <1>6, <1>7, <1>8

\* Every step keeps the types.
LEMMA NextTypeOK == TypeOK /\ [Next]_vars => TypeOK'
<1> SUFFICES ASSUME TypeOK, [Next]_vars PROVE TypeOK'
  OBVIOUS
<1>1. CASE UNCHANGED vars
  BY <1>1 DEF vars, TypeOK
<1>2. ASSUME NEW r \in Relayers, Execute(r) \/ ExecuteAsLeader(r) \/ Restart(r)
      PROVE  TypeOK'
  BY <1>2, TransferStepsTypeOK, SetStatusStepsTypeOK DEF Execute, ExecuteAsLeader
<1>3. QED
  BY <1>1, <1>2, EnvironmentTypeOK DEF Next

\* The types of the variables, which bound the retry counters and the sizes of
\* batches, are invariant.
THEOREM TypeCorrect == Spec => []TypeOK
  BY InitTypeOK, NextTypeOK, PTL DEF Spec

--------------------------------------------------------------------------------
(***************************************************************************)
(* The safety of the Elrond -> Ethereum half of the bridge: IndInv is      *)
(* inductive, and the safety properties follow from it.                    *)
(*                                                                         *)
(* The argument has two halves.  The chains only move forward              *)
(* (ChainsMoveOn), and what a relayer or a transaction under way claims    *)
(* about them stays sound when they do (SoundStable, RelayerStable).  So a *)
(* step of a relayer only has to be checked for that relayer, on chains    *)
(* that do not move, and a step of a chain only for the chain.             *)
(***************************************************************************)

RelayerInv(r) == ExecutorInv(r) /\ ViewInv(r)

\* The pending batch only grows or is replaced by a later one, a transfer is
\* never undone, statuses stay final and proposals stay known.
ChainsMoveOn ==
    /\ pending'.id >= pending.id
    /\ pending'.id = pending.id => pending'.num >= pending.num
    /\ \A b \in BatchIDs : ethStatuses[b] # << >> => ethStatuses'[b] = ethStatuses[b]
    /\ ethFinal \subseteq ethFinal'
    /\ proposed \subseteq proposed'

\* Nothing that relayer q remembers changes.
SameRelayer(q) ==
    /\ step'[q] = step[q] /\ batch'[q] = batch[q] /\ fetched'[q] = fetched[q]
    /\ actionID'[q] = actionID[q] /\ msgHash'[q] = msgHash[q]

\* A view of the batch stays one when the chains move on.
LEMMA InViewStable ==
    ASSUME TypeOK, TypeOK', ChainsMoveOn, NEW b \in Nat, NEW n \in Nat, InView(b, n)
    PROVE  InView(b, n)'
<1>1. /\ pending.id \in Nat /\ pending'.id \in Nat
      /\ pending.num \in Nat /\ pending'.num \in Nat
  BY ConstantsAssumption DEF TypeOK
<1>2. QED
  BY <1>1 DEF InView, ChainsMoveOn

\* A transfer that was executed keeps its statuses, so what was truthful stays.
LEMMA SoundStable ==
    ASSUME IndInv, TypeOK', ChainsMoveOn, NEW a \in Action, Sound(a)
    PROVE  Sound(a)'
<1>1. a.id \in ethFinal /\ a.id \in ethFinal' /\ a.id \in BatchIDs
  BY DEF Sound, ChainsMoveOn, IndInv, TypeOK
<1>2. ethStatuses'[a.id] = ethStatuses[a.id]
  BY <1>1 DEF ChainsMoveOn, IndInv, ViewsInv
<1>3. pending.id \in Nat /\ pending'.id \in Nat /\ a.id \in Nat
  BY DEF IndInv, TypeOK, Action
<1>4. QED
  BY <1>1, <1>2, <1>3 DEF Sound, Truthful, ChainsMoveOn

\* What a relayer holds stays in order when the chains move on.
LEMMA RelayerStable ==
    ASSUME IndInv, TypeOK', ChainsMoveOn, NEW q \in Relayers, SameRelayer(q)
    PROVE  RelayerInv(q)'
<1>0. RelayerInv(q) /\ batch[q] \in BatchType /\ SetStatusOf(batch[q]) \in Action
  BY BatchDataType DEF IndInv, RelayerInv, ExecutorConsistent, ViewsInv, TypeOK
<1>1. step[q] # GettingPendingBatchFromElrond => batch[q] # NoBatch
  BY <1>0 DEF RelayerInv, ExecutorInv
<1>2. batch[q] # NoBatch => batch[q].id \in BatchIDs
  BY <1>0 DEF RelayerInv, ViewInv
<1>3. step[q] \in ResolveSteps =>
          /\ batch[q].id \in BatchIDs
          /\ ethStatuses[batch[q].id] # << >>
          /\ ethStatuses'[batch[q].id] = ethStatuses[batch[q].id]
  <2>1. GettingPendingBatchFromElrond \notin ResolveSteps
    BY DEF ResolveSteps, GettingPendingBatchFromElrond, ResolvingSetStatusOnElrond,
           WaitingFinalStatuses
  <2>2. QED
    BY <1>0, <1>1, <1>2, <2>1
       DEF RelayerInv, ExecutorInv, WasTransferPerformedOnEthereum, ChainsMoveOn
<1>4. step[q] \in SetStatusSteps => Sound(SetStatusOf(batch[q]))'
  BY <1>0, SoundStable DEF RelayerInv, ExecutorInv, SameRelayer, SetStatusOf
<1>5. ExecutorInv(q)'
  BY <1>0, <1>3, <1>4 DEF RelayerInv, ExecutorInv, SameRelayer, ChainsMoveOn,
     WasTransferPerformedOnEthereum, SetStatusOf, GenerateMessageHash
<1>6. ViewInv(q)'
  <2>1. batch'[q] # NoBatch =>
          /\ batch'[q].id \in BatchIDs /\ batch'[q].num > 0
          /\ InView(batch[q].id, batch[q].num)'
    BY <1>0, InViewStable DEF RelayerInv, ViewInv, SameRelayer, BatchType, IndInv
  <2>2. pending.id \in Nat /\ pending'.id \in Nat /\ batch[q].id \in Nat
    BY <1>0 DEF IndInv, TypeOK, BatchType
  <2>3. step'[q] = WaitingFinalStatuses =>
          \/ batch'[q].id < pending'.id
          \/ fetched'[q] >= Len(ethStatuses'[batch'[q].id])
    BY <1>0, <1>3, <2>2 DEF RelayerInv, ViewInv, SameRelayer, ResolveSteps, ChainsMoveOn
  <2>4. QED
    BY <2>1, <2>3 DEF ViewInv, InView, SameRelayer
<1>7. QED
  BY <1>5, <1>6 DEF RelayerInv

--------------------------------------------------------------------------------
(***************************************************************************)
(* The steps of a relayer.                                                 *)
(***************************************************************************)
TransferTxInv(tx) == tx.id \in BatchIDs /\ tx.num > 0 /\ InView(tx.id, tx.num)

\* A step of r on chains that do not move: it is enough that r is in order
\* afterwards, and so is what r sends.
LEMMA RelayerStep ==
    ASSUME IndInv, TypeOK', NEW r \in Relayers,
           UNCHANGED <<pending, proposed, performed, ethStatuses, ethFinal>>,
           \A q \in Relayers \ {r} : SameRelayer(q),
           RelayerInv(r)',
           \A a \in proposeTxs' : a \in proposeTxs \/ Sound(a),
           \A tx \in ethPool' : tx \in ethPool \/ TransferTxInv(tx)
    PROVE  IndInv'
<1>1. ChainsMoveOn
  BY ConstantsAssumption DEF ChainsMoveOn, IndInv, TypeOK
<1>2. \A q \in Relayers : RelayerInv(q)'
  BY <1>1, RelayerStable
<1>3. ExecutorConsistent'
  BY <1>2 DEF ExecutorConsistent, RelayerInv
<1>4. ViewsInv'
  <2>1. \A q \in Relayers : ViewInv(q)'
    BY <1>2 DEF RelayerInv
  <2>2. \A tx \in ethPool' : tx.id \in BatchIDs /\ tx.num > 0 /\ InView(tx.id, tx.num)'
    BY DEF IndInv, ViewsInv, TransferTxInv, InView
  <2>3. QED
    BY <2>1, <2>2 DEF IndInv, ViewsInv, InView
<1>5. ActionsInv'
  <2>1. \A a \in proposeTxs' : Sound(a)'
    BY DEF IndInv, ActionsInv, Sound, Truthful
  <2>2. QED
    BY <2>1 DEF IndInv, ActionsInv, Truthful
<1>6. NoBatchSkipped' /\ PendingInv'
  BY DEF IndInv, NoBatchSkipped, PendingInv
<1>7. QED
  BY <1>3, <1>4, <1>5, <1>6 DEF IndInv

StepsAreDistinct ==
    /\ GettingPendingBatchFromElrond \notin TransferSteps \cup ResolveSteps \cup SetStatusSteps
    /\ CheckingTransferPerformed \notin TransferSteps \cup ResolveSteps \cup SetStatusSteps
    /\ SigningProposedTransferOnEthereum
          \notin TransferSteps \cup ResolveSteps \cup SetStatusSteps
    /\ TransferSteps \cap (ResolveSteps \cup SetStatusSteps) = {}
    /\ ResolveSteps \cap SetStatusSteps = {}
    /\ ProposingSetStatusOnElrond \notin QuorumOnSetStatusSteps
    /\ SigningProposedSetStatusOnElrond \notin QuorumOnSetStatusSteps
    /\ QuorumOnSetStatusSteps \subseteq SetStatusSteps
    /\ WaitingFinalStatuses \in ResolveSteps
    /\ ResolvingSetStatusOnElrond \in ResolveSteps
    /\ ResolvingSetStatusOnElrond # WaitingFinalStatuses
    /\ {WaitingForQuorumOnTransfer, PerformingTransfer, WaitingTransferConfirmation}
          \subseteq TransferSteps
    /\ {ProposingSetStatusOnElrond, SigningProposedSetStatusOnElrond} \subseteq SetStatusSteps
    /\ {WaitingForQuorumOnSetStatus, PerformingSetStatus} \subseteq QuorumOnSetStatusSteps

\* The steps are different from one another.
LEMMA StepsDistinct == StepsAreDistinct
  BY DEF StepsAreDistinct, TransferSteps, ResolveSteps, SetStatusSteps, QuorumOnSetStatusSteps,
     GettingPendingBatchFromElrond, CheckingTransferPerformed,
     SigningProposedTransferOnEthereum, WaitingForQuorumOnTransfer, PerformingTransfer,
     WaitingTransferConfirmation, ResolvingSetStatusOnElrond, WaitingFinalStatuses,
     ProposingSetStatusOnElrond, SigningProposedSetStatusOnElrond,
     WaitingForQuorumOnSetStatus, PerformingSetStatus

\* A relayer that goes back to the first step, or goes from one step to
\* another with the same obligations, keeps its invariant.
LEMMA SameDataStep ==
    ASSUME IndInv, TypeOK', NEW r \in Relayers, NEW s \in StepIdentifiers, Goto(r, s),
           UNCHANGED <<pending, proposed, performed, ethStatuses, ethFinal, batch, fetched,
                       actionID, msgHash, proposeTxs, ethPool>>,
           batch[r] # NoBatch \/ s = GettingPendingBatchFromElrond,
           s \in TransferSteps => step[r] \in TransferSteps,
           s \in ResolveSteps => s = ResolvingSetStatusOnElrond
                                 /\ WasTransferPerformedOnEthereum(batch[r]),
           s \in SetStatusSteps => step[r] \in SetStatusSteps,
           s \in QuorumOnSetStatusSteps => step[r] \in QuorumOnSetStatusSteps
    PROVE  IndInv'
<1>1. step' = [step EXCEPT ![r] = s] /\ step \in [Relayers -> StepIdentifiers]
  BY DEF Goto, IndInv, TypeOK
<1>2. \A q \in Relayers \ {r} : SameRelayer(q)
  BY <1>1 DEF SameRelayer
<1>3. step'[r] = s /\ RelayerInv(r)
  BY <1>1 DEF IndInv, RelayerInv, ExecutorConsistent, ViewsInv
<1>4. ExecutorInv(r)'
  BY <1>3 DEF RelayerInv, ExecutorInv, Sound, Truthful, WasTransferPerformedOnEthereum,
     SetStatusOf, GenerateMessageHash
<1>5. ViewInv(r)'
  BY <1>3, StepsDistinct DEF StepsAreDistinct, RelayerInv, ViewInv, InView
<1>6. QED
  BY <1>2, <1>4, <1>5, RelayerStep DEF RelayerInv

\* The steps up to the transfer on Ethereum keep the invariant.
LEMMA TransferStepsIndInv ==
    ASSUME IndInv, TypeOK', NEW r \in Relayers
    PROVE  /\ GetPending(r) => IndInv'
           /\ CheckTransferPerformed(r) => IndInv'
           /\ SignProposedTransfer(r) => IndInv'
           /\ WaitForQuorumOnTransfer(r) => IndInv'
           /\ PerformTransfer(r) => IndInv'
           /\ PerformTransferAsLeader(r) => IndInv'
           /\ WaitTransferConfirmation(r) => IndInv'
<1> USE DEF elrondVars, elrondPool, ethVars, executorVars
<1> USE StepsDistinct, StepNamesAreSteps DEF StepsAreDistinct, StepNames
<1>0. /\ TypeOK /\ RelayerInv(r) /\ step \in [Relayers -> StepIdentifiers]
      /\ batch[r] \in BatchType
  BY DEF IndInv, RelayerInv, ExecutorConsistent, ViewsInv, TypeOK
<1>1. ASSUME GetPending(r) PROVE IndInv'
  <2>1. \A q \in Relayers \ {r} : SameRelayer(q)
    BY <1>0, <1>1 DEF GetPending, Goto, SameRelayer, TypeOK
  <2>2. CASE UNCHANGED <<step, batch>>
    <3>1. RelayerInv(r)'
      BY <1>0, <1>1, <2>2 DEF GetPending, RelayerInv, ExecutorInv, ViewInv, InView, Sound,
         Truthful, WasTransferPerformedOnEthereum, SetStatusOf, GenerateMessageHash
    <3>2. QED
      BY <1>1, <2>1, <3>1, RelayerStep DEF GetPending
  <2>3. CASE pending.num > 0 /\ batch' = [batch EXCEPT ![r] = createPendingBatchFromResponse(pending)]
    <3>1. step'[r] \in {GettingPendingBatchFromElrond, CheckingTransferPerformed}
      BY <1>0, <1>1 DEF GetPending, Goto
    <3>2. /\ batch'[r].id = pending.id /\ batch'[r].num = pending.num
          /\ pending \in [id : Nat, num : Nat]
      BY <1>0, <2>3, CreatedBatchType, ConstantsAssumption DEF TypeOK
    <3>3. pending.id \in BatchIDs /\ batch'[r] # NoBatch
      BY <1>0, <2>3, <3>2 DEF NoBatch, IndInv, PendingInv
    <3>4. ExecutorInv(r)'
      BY <3>1, <3>3 DEF ExecutorInv
    <3>5. ViewInv(r)'
      BY <1>1, <2>3, <3>1, <3>2, <3>3 DEF ViewInv, InView, GetPending
    <3>6. QED
      BY <1>1, <2>1, <3>4, <3>5, RelayerStep DEF GetPending, RelayerInv
  <2>4. QED
    BY <1>1, <2>2, <2>3 DEF GetPending
<1>2. ASSUME CheckTransferPerformed(r) PROVE IndInv'
  BY <1>0, <1>2, SameDataStep DEF CheckTransferPerformed, Abort
<1>3. ASSUME SignProposedTransfer(r) PROVE IndInv'
  <2>1. CASE Abort(r) /\ UNCHANGED <<msgHash, broadcast>>
    BY <1>3, <2>1, SameDataStep DEF SignProposedTransfer, Abort
  <2>2. CASE /\ batch[r] # NoBatch
             /\ msgHash' = [msgHash EXCEPT ![r] = GenerateMessageHash(batch[r])]
             /\ Goto(r, WaitingForQuorumOnTransfer)
    <3>1. \A q \in Relayers \ {r} : SameRelayer(q)
      BY <1>0, <1>3, <2>2 DEF SignProposedTransfer, Goto, SameRelayer, TypeOK
    <3>2. /\ step'[r] = WaitingForQuorumOnTransfer /\ batch'[r] = batch[r]
          /\ msgHash'[r] = GenerateMessageHash(batch[r])
      BY <1>0, <1>3, <2>2 DEF SignProposedTransfer, Goto, TypeOK
    <3>3. RelayerInv(r)'
      BY <1>0, <1>3, <2>2, <3>2 DEF SignProposedTransfer, RelayerInv, ExecutorInv, ViewInv,
         InView, GenerateMessageHash
    <3>4. QED
      BY <1>3, <3>1, <3>3, RelayerStep DEF SignProposedTransfer
  <2>3. QED
    BY <1>3, <2>1, <2>2 DEF SignProposedTransfer
<1>4. ASSUME WaitForQuorumOnTransfer(r) PROVE IndInv'
  <2>1. batch[r] # NoBatch
    BY <1>0, <1>4 DEF WaitForQuorumOnTransfer, RelayerInv, ExecutorInv
  <2>2. QED
    BY <1>4, <2>1, SameDataStep DEF WaitForQuorumOnTransfer
<1>5. ASSUME PerformTransfer(r) PROVE IndInv'
  BY <1>0, <1>5, SameDataStep DEF PerformTransfer, Abort
<1>6. ASSUME PerformTransferAsLeader(r) PROVE IndInv'
  <2>1. \A q \in Relayers \ {r} : SameRelayer(q)
    BY <1>0, <1>6 DEF PerformTransferAsLeader, Goto, SameRelayer
  <2>2. step'[r] \in {GettingPendingBatchFromElrond, WaitingTransferConfirmation}
    BY <1>0, <1>6 DEF PerformTransferAsLeader, Goto
  <2>3. RelayerInv(r)'
    BY <1>0, <1>6, <2>2 DEF PerformTransferAsLeader, RelayerInv, ExecutorInv, ViewInv, InView,
       GenerateMessageHash
  <2>4. \A tx \in ethPool' : tx \in ethPool \/ TransferTxInv(tx)
    BY <1>0, <1>6 DEF PerformTransferAsLeader, RelayerInv, ViewInv, TransferTxInv
  <2>5. QED
    BY <1>6, <2>1, <2>3, <2>4, RelayerStep DEF PerformTransferAsLeader
<1>7. ASSUME WaitTransferConfirmation(r) PROVE IndInv'
  <2>1. batch[r] # NoBatch
    BY <1>0, <1>7 DEF WaitTransferConfirmation, RelayerInv, ExecutorInv
  <2>2. QED
    BY <1>7, <2>1, SameDataStep DEF WaitTransferConfirmation
<1>8. QED
  BY <1>1, <1>2, <1>3, <1>4, <1>5, <1>6, <1>7

\* The statuses that step 6 resolves are sound: the size it fetched covers the
\* transfer, or the batch is over.
LEMMA ResolvedIsSound ==
    ASSUME IndInv, NEW r \in Relayers, step[r] = WaitingFinalStatuses,
           FinalStatusesAvailable(batch[r])
    PROVE  Sound([id |-> batch[r].id,
                  statuses |-> ResolveNewDeposits(ethStatuses[batch[r].id], fetched[r])])
<1>1. batch[r].id \in BatchIDs /\ ethStatuses[batch[r].id] \in Seq(FinalStatus)
  BY DEF FinalStatusesAvailable, IndInv, TypeOK
<1>2. fetched[r] \in Nat
  BY ConstantsAssumption DEF IndInv, TypeOK
<1>3. batch[r].id < pending.id \/ fetched[r] >= Len(ethStatuses[batch[r].id])
  BY DEF IndInv, ViewsInv, ViewInv
<1>4. fetched[r] >= Len(ethStatuses[batch[r].id]) =>
         Truthful(batch[r].id, ResolveNewDeposits(ethStatuses[batch[r].id], fetched[r]))
  BY <1>1, <1>2, ResolveNewDepositsProperties DEF Truthful
<1>5. QED
  BY <1>3, <1>4 DEF Sound, FinalStatusesAvailable

\* The steps after the transfer keep the invariant.
LEMMA SetStatusStepsIndInv ==
    ASSUME IndInv, TypeOK', NEW r \in Relayers
    PROVE  /\ ResolveSetStatus(r) => IndInv'
           /\ WaitFinalStatuses(r) => IndInv'
           /\ ProposeSetStatus(r) => IndInv'
           /\ ProposeSetStatusAsLeader(r) => IndInv'
           /\ SignProposedSetStatus(r) => IndInv'
           /\ WaitForQuorumOnSetStatus(r) => IndInv'
           /\ PerformSetStatus(r) => IndInv'
           /\ PerformSetStatusAsLeader(r) => IndInv'
           /\ Restart(r) => IndInv'
<1> USE DEF elrondVars, elrondPool, ethVars, executorVars
<1> USE StepsDistinct, StepNamesAreSteps DEF StepsAreDistinct, StepNames
<1>0. /\ TypeOK /\ RelayerInv(r) /\ step \in [Relayers -> StepIdentifiers]
      /\ batch[r] \in BatchType /\ batch \in [Relayers -> BatchType]
  BY DEF IndInv, RelayerInv, ExecutorConsistent, ViewsInv, TypeOK
<1>1. ASSUME ResolveSetStatus(r) PROVE IndInv'
  <2>1. CASE UNCHANGED fetched /\ Goto(r, GettingPendingBatchFromElrond)
    BY <1>1, <2>1, SameDataStep DEF ResolveSetStatus
  <2>2. CASE /\ fetched' = [fetched EXCEPT ![r] = pending.num]
             /\ Goto(r, WaitingFinalStatuses) /\ batch[r] # NoBatch
    <3>1. \A q \in Relayers \ {r} : SameRelayer(q)
      BY <1>0, <1>1, <2>2 DEF ResolveSetStatus, Goto, SameRelayer, TypeOK
    <3>2. step'[r] = WaitingFinalStatuses /\ batch'[r] = batch[r] /\ fetched'[r] = pending.num
      BY <1>0, <1>1, <2>2 DEF ResolveSetStatus, Goto, TypeOK
    <3>3. ExecutorInv(r)'
      BY <1>0, <1>1, <2>2, <3>2 DEF ResolveSetStatus, RelayerInv, ExecutorInv,
         WasTransferPerformedOnEthereum
    <3>4. /\ batch[r].id \in BatchIDs /\ ethStatuses[batch[r].id] # << >>
          /\ InView(batch[r].id, Len(ethStatuses[batch[r].id]))
      BY <1>0, <1>1, <2>2 DEF ResolveSetStatus, RelayerInv, ExecutorInv, ViewInv, IndInv,
         ViewsInv, WasTransferPerformedOnEthereum
    <3>5. ethStatuses[batch[r].id] \in Seq(FinalStatus) /\ pending.num \in Nat
      BY <1>0, <3>4, ConstantsAssumption DEF TypeOK
    <3>6. ViewInv(r)'
      BY <1>0, <1>1, <3>2, <3>4, <3>5 DEF ResolveSetStatus, RelayerInv, ViewInv, InView
    <3>7. QED
      BY <1>1, <3>1, <3>3, <3>6, RelayerStep DEF ResolveSetStatus, RelayerInv
  <2>3. QED
    BY <1>1, <2>1, <2>2 DEF ResolveSetStatus, Abort
<1>2. ASSUME WaitFinalStatuses(r) PROVE IndInv'
  <2>1. \A q \in Relayers \ {r} : SameRelayer(q)
    BY <1>0, <1>2 DEF WaitFinalStatuses, Goto, SameRelayer, TypeOK
  <2>2. CASE Goto(r, GettingPendingBatchFromElrond) /\ UNCHANGED batch
    <3>1. step'[r] = GettingPendingBatchFromElrond
      BY <1>0, <2>2 DEF Goto
    <3>2. RelayerInv(r)'
      BY <1>0, <1>2, <2>2, <3>1 DEF WaitFinalStatuses, RelayerInv, ExecutorInv, ViewInv, InView
    <3>3. QED
      BY <1>2, <2>1, <3>2, RelayerStep DEF WaitFinalStatuses
  <2>3. CASE /\ FinalStatusesAvailable(batch[r])
             /\ batch' = [batch EXCEPT ![r].statuses =
                             ResolveNewDeposits(ethStatuses[batch[r].id], fetched[r])]
             /\ Goto(r, ProposingSetStatusOnElrond)
    <3>1. /\ step'[r] = ProposingSetStatusOnElrond
          /\ batch'[r].id = batch[r].id /\ batch'[r].num = batch[r].num
          /\ batch'[r].statuses = ResolveNewDeposits(ethStatuses[batch[r].id], fetched[r])
      BY <1>0, <2>3 DEF Goto, BatchType
    <3>2. batch[r] # NoBatch
      BY <1>0, <1>2 DEF WaitFinalStatuses, RelayerInv, ExecutorInv
    <3>3. batch[r].id \in BatchIDs /\ batch'[r] # NoBatch
      BY <1>0, <3>1, <3>2 DEF RelayerInv, ViewInv, NoBatch, BatchIDs
    <3>4. Sound(SetStatusOf(batch'[r]))
      BY <1>2, <2>3, <3>1, ResolvedIsSound DEF WaitFinalStatuses, SetStatusOf
    <3>5. ExecutorInv(r)'
      BY <1>2, <3>1, <3>3, <3>4 DEF WaitFinalStatuses, ExecutorInv, Sound, Truthful, SetStatusOf
    <3>6. ViewInv(r)'
      BY <1>0, <1>2, <3>1, <3>2, <3>3 DEF WaitFinalStatuses, RelayerInv, ViewInv, InView
    <3>7. QED
      BY <1>2, <2>1, <3>5, <3>6, RelayerStep DEF WaitFinalStatuses, RelayerInv
  <2>4. QED
    BY <1>2, <2>2, <2>3 DEF WaitFinalStatuses
<1>3. ASSUME ProposeSetStatus(r) PROVE IndInv'
  BY <1>0, <1>3, SameDataStep DEF ProposeSetStatus, Abort
<1>4. ASSUME ProposeSetStatusAsLeader(r) PROVE IndInv'
  <2>1. \A q \in Relayers \ {r} : SameRelayer(q)
    BY <1>0, <1>4 DEF ProposeSetStatusAsLeader, Goto, SameRelayer
  <2>2. step'[r] = SigningProposedSetStatusOnElrond
    BY <1>0, <1>4 DEF ProposeSetStatusAsLeader, Goto
  <2>3. Sound(SetStatusOf(batch[r]))
    BY <1>0, <1>4 DEF ProposeSetStatusAsLeader, RelayerInv, ExecutorInv
  <2>4. RelayerInv(r)'
    BY <1>0, <1>4, <2>2, <2>3 DEF ProposeSetStatusAsLeader, RelayerInv, ExecutorInv, ViewInv,
       InView, Sound, Truthful, SetStatusOf
  <2>5. \A a \in proposeTxs' : a \in proposeTxs \/ Sound(a)
    BY <1>4, <2>3 DEF ProposeSetStatusAsLeader
  <2>6. QED
    BY <1>4, <2>1, <2>4, <2>5, RelayerStep DEF ProposeSetStatusAsLeader
<1>5. ASSUME SignProposedSetStatus(r) PROVE IndInv'
  <2>1. \A q \in Relayers \ {r} : SameRelayer(q)
    BY <1>0, <1>5 DEF SignProposedSetStatus, Abort, Goto, SameRelayer, TypeOK
  <2>2. CASE Goto(r, GettingPendingBatchFromElrond)
    <3>1. step'[r] = GettingPendingBatchFromElrond
      BY <1>0, <2>2 DEF Goto
    <3>2. RelayerInv(r)'
      BY <1>0, <1>5, <3>1 DEF SignProposedSetStatus, RelayerInv, ExecutorInv, ViewInv, InView
    <3>3. QED
      BY <1>5, <2>1, <3>2, RelayerStep DEF SignProposedSetStatus
  <2>3. CASE /\ batch[r] # NoBatch /\ SetStatusOf(batch[r]) \in proposed
             /\ actionID' = [actionID EXCEPT ![r] = SetStatusOf(batch[r])]
             /\ Goto(r, WaitingForQuorumOnSetStatus)
    <3>1. /\ step'[r] = WaitingForQuorumOnSetStatus
          /\ actionID'[r] = SetStatusOf(batch[r])
      BY <1>0, <2>3 DEF Goto, TypeOK
    <3>2. Sound(SetStatusOf(batch[r]))
      BY <1>0, <1>5 DEF SignProposedSetStatus, RelayerInv, ExecutorInv
    <3>3. RelayerInv(r)'
      BY <1>0, <1>5, <2>3, <3>1, <3>2 DEF SignProposedSetStatus, RelayerInv, ExecutorInv,
         ViewInv, InView, Sound, Truthful, SetStatusOf
    <3>4. QED
      BY <1>5, <2>1, <3>3, RelayerStep DEF SignProposedSetStatus
  <2>4. QED
    BY <1>5, <2>2, <2>3 DEF SignProposedSetStatus, Abort
<1>6. ASSUME WaitForQuorumOnSetStatus(r) PROVE IndInv'
  <2>1. batch[r] # NoBatch
    BY <1>0, <1>6 DEF WaitForQuorumOnSetStatus, RelayerInv, ExecutorInv
  <2>2. QED
    BY <1>6, <2>1, SameDataStep DEF WaitForQuorumOnSetStatus
<1>7. ASSUME PerformSetStatus(r) PROVE IndInv'
  BY <1>0, <1>7, SameDataStep DEF PerformSetStatus, Abort
<1>8. ASSUME PerformSetStatusAsLeader(r) PROVE IndInv'
  <2>1. \A q \in Relayers : SameRelayer(q)
    BY <1>8 DEF PerformSetStatusAsLeader, SameRelayer
  <2>2. RelayerInv(r)'
    BY <1>0, <1>8 DEF PerformSetStatusAsLeader, RelayerInv, ExecutorInv, ViewInv, InView, Sound,
       Truthful, SetStatusOf
  <2>3. QED
    BY <1>8, <2>1, <2>2, RelayerStep DEF PerformSetStatusAsLeader
<1>9. ASSUME Restart(r) PROVE IndInv'
  <2>1. \A q \in Relayers \ {r} : SameRelayer(q)
    BY <1>0, <1>9 DEF Restart, Goto, SameRelayer, TypeOK
  <2>2. step'[r] = GettingPendingBatchFromElrond /\ batch'[r] = NoBatch
    BY <1>0, <1>9 DEF Restart, Goto
  <2>3. RelayerInv(r)'
    BY <2>2 DEF RelayerInv, ExecutorInv, ViewInv
  <2>4. QED
    BY <1>9, <2>1, <2>3, RelayerStep DEF Restart
<1>10. QED
  BY <1>1, <1>2, <1>3, <1>4, <1>5, <1>6, <1>7, <1>8, <1>9

--------------------------------------------------------------------------------
(***************************************************************************)
(* The steps of the environment.                                           *)
(***************************************************************************)

\* When the chains move and no relayer does, what the relayers and the sent
\* transactions claim stays sound.
LEMMA EnvironmentStep ==
    ASSUME IndInv, TypeOK', ChainsMoveOn, UNCHANGED relayerVars,
           ethPool' \subseteq ethPool, proposeTxs' \subseteq proposeTxs
    PROVE  /\ ExecutorConsistent'
           /\ \A r \in Relayers : ViewInv(r)'
           /\ \A tx \in ethPool' : tx.id \in BatchIDs /\ tx.num > 0 /\ InView(tx.id, tx.num)'
           /\ \A a \in proposeTxs' : Sound(a)'
<1>1. \A r \in Relayers : RelayerInv(r)'
  BY RelayerStable DEF SameRelayer, relayerVars
<1>2. \A tx \in ethPool' : tx.id \in BatchIDs /\ tx.num > 0 /\ InView(tx.id, tx.num)'
  BY InViewStable DEF IndInv, ViewsInv, TypeOK, EthTx
<1>3. \A a \in proposeTxs' : Sound(a)'
  BY SoundStable DEF IndInv, ActionsInv, TypeOK
<1>4. QED
  BY <1>1, <1>2, <1>3 DEF RelayerInv, ExecutorConsistent

\* Two truthful statuses of one batch that are equally long are equal: there
\* is one set-status action that can close a batch.
LEMMA TruthfulUnique ==
    ASSUME TypeOK, NEW a \in Action, NEW c \in Action, a.id = c.id,
           Truthful(a.id, a.statuses), Truthful(c.id, c.statuses),
           Len(a.statuses) = Len(c.statuses)
    PROVE  a = c
<1>1. a.statuses \in Seq(Status) /\ c.statuses \in Seq(Status)
  BY DEF Action
<1>2. \A i \in 1..Len(a.statuses) : a.statuses[i] = c.statuses[i]
  BY DEF Truthful
<1>3. a.statuses = c.statuses
  BY <1>1, <1>2
<1>4. QED
  BY <1>3 DEF Action

\* The steps of Ethereum keep the invariant.
LEMMA EthereumIndInv ==
    ASSUME IndInv, TypeOK'
    PROVE  /\ IncludeOnEthereum => IndInv'
           /\ \A b \in BatchIDs : Finalize(b) => IndInv'
<1> USE DEF elrondVars, elrondPool, ethVars
<1>0. TypeOK /\ pending.id \in Nat /\ pending.num \in Nat
  BY ConstantsAssumption DEF IndInv, TypeOK
<1>1. ASSUME IncludeOnEthereum PROVE IndInv'
  <2>1. PICK tx \in ethPool :
           /\ ethPool' = ethPool \ {tx}
           /\ \/ ethStatuses' = ethStatuses
              \/ /\ ethStatuses[tx.id] = << >>
                 /\ \E s \in [1..tx.num -> Outcomes] :
                       ethStatuses' = [ethStatuses EXCEPT ![tx.id] = s]
    BY <1>1 DEF IncludeOnEthereum, WasTransferPerformedOnEthereum
  <2>2. /\ tx.id \in BatchIDs /\ tx.num \in Nat \ {0} /\ InView(tx.id, tx.num)
    BY <1>0, <2>1 DEF IndInv, ViewsInv, TypeOK, EthTx
  <2>3. \/ ethStatuses' = ethStatuses
        \/ /\ ethStatuses[tx.id] = << >> /\ Len(ethStatuses'[tx.id]) = tx.num
           /\ \A b \in BatchIDs \ {tx.id} : ethStatuses'[b] = ethStatuses[b]
    <3>1. \A s \in [1..tx.num -> Outcomes] : Len(s) = tx.num
      BY <2>2, FunctionIsSeq
    <3>2. QED
      BY <1>0, <2>1, <2>2, <3>1 DEF TypeOK
  <2>4. ChainsMoveOn
    BY <1>0, <1>1, <2>3 DEF IncludeOnEthereum, ChainsMoveOn
  <2>5. /\ ExecutorConsistent' /\ \A r \in Relayers : ViewInv(r)'
        /\ \A t \in ethPool' : t.id \in BatchIDs /\ t.num > 0 /\ InView(t.id, t.num)'
        /\ \A a \in proposeTxs' : Sound(a)'
    BY <1>1, <2>1, <2>4, EnvironmentStep DEF IncludeOnEthereum
  <2>6. \A b \in BatchIDs : ethStatuses'[b] # << >> => InView(b, Len(ethStatuses[b]))'
    BY <1>1, <2>2, <2>3 DEF IncludeOnEthereum, InView, IndInv, ViewsInv
  <2>7. \A b \in ethFinal' : ethStatuses'[b] # << >> /\ ethStatuses'[b] = ethStatuses[b]
    BY <1>0, <1>1, <2>4 DEF IncludeOnEthereum, ChainsMoveOn, IndInv, ViewsInv, TypeOK
  <2>8. ViewsInv'
    BY <2>5, <2>6, <2>7 DEF ViewsInv, InView
  <2>9. ActionsInv'
    BY <1>1, <2>5, <2>7 DEF IncludeOnEthereum, ActionsInv, IndInv, Truthful
  <2>10. NoBatchSkipped' /\ PendingInv'
    BY <1>1 DEF IncludeOnEthereum, NoBatchSkipped, PendingInv, IndInv
  <2>11. QED
    BY <2>5, <2>8, <2>9, <2>10 DEF IndInv
<1>2. ASSUME NEW b \in BatchIDs, Finalize(b) PROVE IndInv'
  <2>1. ChainsMoveOn
    BY <1>0, <1>2 DEF Finalize, ChainsMoveOn
  <2>2. /\ ExecutorConsistent' /\ \A r \in Relayers : ViewInv(r)'
        /\ \A t \in ethPool' : t.id \in BatchIDs /\ t.num > 0 /\ InView(t.id, t.num)'
        /\ \A a \in proposeTxs' : Sound(a)'
    BY <1>2, <2>1, EnvironmentStep DEF Finalize
  <2>3. ViewsInv'
    BY <1>2, <2>2 DEF Finalize, ViewsInv, IndInv, InView
  <2>4. ActionsInv'
    BY <1>2, <2>2 DEF Finalize, ActionsInv, IndInv, Truthful
  <2>5. NoBatchSkipped' /\ PendingInv'
    BY <1>2 DEF Finalize, NoBatchSkipped, PendingInv, IndInv
  <2>6. QED
    BY <2>2, <2>3, <2>4, <2>5 DEF IndInv
<1>3. QED
  BY <1>1, <1>2

\* The executed action is the one of the current batch.
LEMMA PerformsCurrent ==
    ASSUME IndInv, NEW a \in proposed, a \notin performed
    PROVE  a.id = pending.id /\ Len(a.statuses) = pending.num
  BY DEF IndInv, ActionsInv

\* The steps of Elrond keep the invariant.
LEMMA ElrondIndInv ==
    ASSUME IndInv, TypeOK'
    PROVE  /\ Deposit => IndInv'
           /\ IncludePropose => IndInv'
           /\ IncludeSign => IndInv'
           /\ IncludePerform => IndInv'
<1> USE DEF elrondVars, elrondPool, ethVars
<1>0. TypeOK /\ pending.id \in Nat /\ pending.num \in Nat
  BY ConstantsAssumption DEF IndInv, TypeOK
<1> DEFINE Claims == /\ ExecutorConsistent' /\ \A r \in Relayers : ViewInv(r)'
                     /\ \A t \in ethPool' : /\ t.id \in BatchIDs /\ t.num > 0
                                            /\ InView(t.id, t.num)'
                     /\ \A a \in proposeTxs' : Sound(a)'
<1>1. ASSUME Deposit PROVE IndInv'
  <2>1. pending'.id = pending.id /\ pending'.num = pending.num + 1 /\ pending.id <= MaxBatch
    BY <1>0, <1>1 DEF Deposit, TypeOK
  <2>2. ChainsMoveOn
    BY <1>0, <1>1, <2>1 DEF Deposit, ChainsMoveOn
  <2>3. Claims
    BY <1>1, <2>2, EnvironmentStep DEF Deposit
  <2>4. \A b \in BatchIDs : ethStatuses'[b] # << >> => InView(b, Len(ethStatuses[b]))'
    <3>1. \A b \in BatchIDs : b \in Nat /\ Len(ethStatuses[b]) \in Nat
      BY <1>0 DEF TypeOK, BatchIDs
    <3>2. QED
      BY <1>0, <1>1, <2>1, <3>1 DEF Deposit, IndInv, ViewsInv, InView
  <2>5. ViewsInv'
    BY <1>1, <2>3, <2>4 DEF Deposit, ViewsInv, IndInv, InView
  <2>6. ActionsInv'
    BY <1>1, <2>1, <2>3 DEF Deposit, ActionsInv, IndInv, Truthful
  <2>7. NoBatchSkipped' /\ PendingInv'
    BY <1>0, <1>1, <2>1, ConstantsAssumption
       DEF Deposit, NoBatchSkipped, PendingInv, IndInv, BatchIDs
  <2>8. QED
    BY <2>3, <2>5, <2>6, <2>7 DEF IndInv
<1>2. ASSUME IncludePropose PROVE IndInv'
  <2>1. PICK a \in proposeTxs :
           /\ proposeTxs' = proposeTxs \ {a}
           /\ proposed' = IF CanPropose(a) THEN proposed \cup {a} ELSE proposed
    BY <1>2 DEF IncludePropose
  <2>2. ChainsMoveOn
    BY <1>0, <1>2, <2>1 DEF IncludePropose, ChainsMoveOn
  <2>3. Claims
    BY <1>2, <2>1, <2>2, EnvironmentStep DEF IncludePropose
  <2>4. CanPropose(a) => /\ a.id \in ethFinal /\ Truthful(a.id, a.statuses)
                         /\ a.id = pending.id /\ Len(a.statuses) = pending.num
    BY <1>0, <2>1 DEF CanPropose, IndInv, ActionsInv, Sound
  <2>5. ActionsInv'
    BY <1>2, <2>1, <2>3, <2>4 DEF IncludePropose, ActionsInv, IndInv, Truthful
  <2>6. ViewsInv' /\ NoBatchSkipped' /\ PendingInv'
    BY <1>2, <2>3 DEF IncludePropose, ViewsInv, NoBatchSkipped, PendingInv, IndInv, InView
  <2>7. QED
    BY <2>3, <2>5, <2>6 DEF IndInv
<1>3. ASSUME IncludeSign PROVE IndInv'
  <2>1. ChainsMoveOn
    BY <1>0, <1>3 DEF IncludeSign, ChainsMoveOn
  <2>2. Claims
    BY <1>3, <2>1, EnvironmentStep DEF IncludeSign
  <2>3. ActionsInv'
    BY <1>3, <2>2 DEF IncludeSign, ActionsInv, IndInv, Truthful
  <2>4. ViewsInv' /\ NoBatchSkipped' /\ PendingInv'
    BY <1>3, <2>2 DEF IncludeSign, ViewsInv, NoBatchSkipped, PendingInv, IndInv, InView
  <2>5. QED
    BY <2>2, <2>3, <2>4 DEF IndInv
<1>4. ASSUME IncludePerform PROVE IndInv'
  <2>1. CASE UNCHANGED <<performed, pending>>
    <3>1. ChainsMoveOn
      BY <1>0, <1>4, <2>1 DEF IncludePerform, ChainsMoveOn
    <3>2. Claims
      BY <1>4, <3>1, EnvironmentStep DEF IncludePerform
    <3>3. ActionsInv'
      BY <1>4, <2>1, <3>2 DEF IncludePerform, ActionsInv, IndInv, Truthful
    <3>4. ViewsInv' /\ NoBatchSkipped' /\ PendingInv'
      BY <1>4, <2>1, <3>2 DEF IncludePerform, ViewsInv, NoBatchSkipped, PendingInv, IndInv, InView
    <3>5. QED
      BY <3>2, <3>3, <3>4 DEF IndInv
  <2>2. ASSUME NEW a \in proposed, a \notin performed,
               performed' = performed \cup {a},
               pending' = [id |-> pending.id + 1, num |-> 0]
        PROVE  IndInv'
    <3>1. ChainsMoveOn
      BY <1>0, <1>4, <2>2 DEF IncludePerform, ChainsMoveOn
    <3>2. Claims
      BY <1>4, <3>1, EnvironmentStep DEF IncludePerform
    <3>3. /\ a.id = pending.id /\ a.id \in ethFinal /\ Truthful(a.id, a.statuses)
          /\ a \in Action
      BY <1>0, <2>2, PerformsCurrent DEF IndInv, ActionsInv, TypeOK
    <3>4. \A c \in proposed : c.id < pending'.id /\ c \in performed'
      <4> SUFFICES ASSUME NEW c \in proposed PROVE c.id < pending'.id /\ c \in performed'
        OBVIOUS
      <4>1. c \in Action /\ c.id \in Nat /\ Truthful(c.id, c.statuses)
        BY <1>0 DEF TypeOK, Action, IndInv, ActionsInv
      <4>2. CASE c.id < pending.id /\ c \in performed
        BY <1>0, <2>2, <4>1, <4>2
      <4>3. CASE c.id = pending.id /\ Len(c.statuses) = pending.num
        <5>1. c = a
          BY <1>0, <2>2, <3>3, <4>1, <4>3, PerformsCurrent, TruthfulUnique
        <5>2. QED
          BY <1>0, <2>2, <4>1, <4>3, <5>1
      <4>4. QED
        BY <4>2, <4>3 DEF IndInv, ActionsInv
    <3>5. ActionsInv'
      BY <1>4, <2>2, <3>2, <3>4 DEF IncludePerform, ActionsInv, IndInv, Truthful
    <3>6. NoBatchSkipped' /\ PendingInv'
      <4>1. \A b \in BatchIDs : b < pending'.id => b < pending.id \/ b = a.id
        BY <1>0, <2>2, <3>3 DEF BatchIDs
      <4>2. QED
        BY <1>0, <1>4, <2>2, <3>3, <4>1
           DEF IncludePerform, NoBatchSkipped, PendingInv, IndInv
    <3>7. \A b \in BatchIDs : ethStatuses'[b] # << >> => InView(b, Len(ethStatuses[b]))'
      BY <1>0, <1>4, <2>2 DEF IncludePerform, IndInv, ViewsInv, InView, BatchIDs
    <3>8. ViewsInv'
      BY <1>4, <3>2, <3>7 DEF IncludePerform, ViewsInv, IndInv, InView
    <3>9. QED
      BY <3>2, <3>5, <3>6, <3>8 DEF IndInv
  <2>3. QED
    BY <1>4, <2>1, <2>2 DEF IncludePerform
<1>5. QED
  BY <1>1, <1>2, <1>3, <1>4

\* The network and the losses leave the chains and the relayers' steps alone.
LEMMA NetworkIndInv ==
    ASSUME IndInv, TypeOK'
    PROVE  /\ \A r \in Relayers : Deliver(r) => IndInv'
           /\ LoseTransaction => IndInv'
           /\ UNCHANGED vars => IndInv'
<1> USE DEF elrondVars, elrondPool, ethVars, relayerVars
<1> DEFINE Quiet == /\ UNCHANGED <<elrondVars, ethVars, relayerVars>>
                    /\ ethPool' \subseteq ethPool /\ proposeTxs' \subseteq proposeTxs
<1>1. ASSUME Quiet PROVE IndInv'
  <2>1. pending.id \in Nat /\ pending.num \in Nat
    BY ConstantsAssumption DEF IndInv, TypeOK
  <2>2. ChainsMoveOn
    BY <1>1, <2>1 DEF ChainsMoveOn
  <2>3. /\ ExecutorConsistent' /\ \A r \in Relayers : ViewInv(r)'
        /\ \A t \in ethPool' : t.id \in BatchIDs /\ t.num > 0 /\ InView(t.id, t.num)'
        /\ \A a \in proposeTxs' : Sound(a)'
    BY <1>1, <2>2, EnvironmentStep
  <2>4. ViewsInv'
    BY <1>1, <2>3 DEF ViewsInv, IndInv, InView
  <2>5. ActionsInv'
    BY <1>1, <2>3 DEF ActionsInv, IndInv, Truthful
  <2>6. NoBatchSkipped' /\ PendingInv'
    BY <1>1 DEF NoBatchSkipped, PendingInv, IndInv
  <2>7. QED
    BY <2>3, <2>4, <2>5, <2>6 DEF IndInv
<1>2. ASSUME NEW r \in Relayers, Deliver(r) PROVE Quiet
  BY <1>2 DEF Deliver
<1>3. ASSUME LoseTransaction PROVE Quiet
  BY <1>3 DEF LoseTransaction
<1>4. ASSUME UNCHANGED vars PROVE Quiet
  BY <1>4 DEF vars
<1>5. QED
  BY <1>1, <1>2, <1>3, <1>4

--------------------------------------------------------------------------------
(***************************************************************************)
(* The invariant and what follows from it.                                 *)
(***************************************************************************)
LEMMA InitIndInv == Init => IndInv
<1> SUFFICES ASSUME Init PROVE IndInv
  OBVIOUS
<1>1. TypeOK
  BY InitTypeOK
<1>2. pending.id = 1 /\ pending.num = 0
  BY DEF Init
<1>3. \A r \in Relayers : /\ step[r] = GettingPendingBatchFromElrond /\ batch[r] = NoBatch
  BY DEF Init
<1>4. ExecutorConsistent
  BY <1>3, StepsDistinct DEF ExecutorConsistent, ExecutorInv, StepsAreDistinct
<1>5. ViewsInv
  BY <1>3, StepsDistinct DEF Init, ViewsInv, ViewInv, StepsAreDistinct
<1>6. ActionsInv /\ NoBatchSkipped /\ PendingInv
  BY <1>2 DEF Init, ActionsInv, NoBatchSkipped, PendingInv, BatchIDs
<1>7. QED
  BY <1>1, <1>4, <1>5, <1>6 DEF IndInv

\* Every step keeps the invariant.
LEMMA NextIndInv == IndInv /\ [Next]_vars => IndInv'
<1> SUFFICES ASSUME IndInv, [Next]_vars PROVE IndInv'
  OBVIOUS
<1>1. TypeOK'
  BY NextTypeOK DEF IndInv
<1>2. ASSUME NEW r \in Relayers, Execute(r) \/ ExecuteAsLeader(r) \/ Restart(r)
      PROVE  IndInv'
  BY <1>1, <1>2, TransferStepsIndInv, SetStatusStepsIndInv DEF Execute, ExecuteAsLeader
<1>3. QED
  BY <1>1, <1>2, NetworkIndInv, ElrondIndInv, EthereumIndInv DEF Next

\* The conjunction of the types, of what each relayer remembers, of what is
\* under way and of what the contracts hold is an inductive invariant.
THEOREM Invariance == Spec => []IndInv
  BY InitIndInv, NextIndInv, PTL DEF Spec

\* What the set-status actions executed on Elrond say about a batch is what
\* the executed transfer did on Ethereum, with every deposit that came after
\* the transfer rejected.
THEOREM StatusesAreTruthful == Spec => []SettledTruthfully
<1>1. IndInv => SettledTruthfully
  BY DEF IndInv, ActionsInv, SettledTruthfully
<1>2. QED
  BY <1>1, Invariance, PTL

\* Elrond moves past no batch whose transfer is not final on Ethereum.
THEOREM BatchesAreTransferred == Spec => []NoBatchSkipped
<1>1. IndInv => NoBatchSkipped
  BY DEF IndInv
<1>2. QED
  BY <1>1, Invariance, PTL

\* At every step the batch, the hash, the action and the statuses in a
\* relayer's bridgeExecutor belong together.
THEOREM ExecutorsAreConsistent == Spec => []ExecutorConsistent
<1>1. IndInv => ExecutorConsistent
  BY DEF IndInv
<1>2. QED
  BY <1>1, Invariance, PTL

\* The set-status action that performAction executes is the current batch's.
THEOREM OnlyCurrentBatchSettles == Spec => SettlesCurrentBatch
<1>1. ASSUME IndInv, Next
      PROVE  \A a \in performed' \ performed : a.id = pending.id
  <2>1. CASE IncludePerform
    BY <1>1, <2>1, PerformsCurrent DEF IncludePerform
  <2>2. ASSUME ~ IncludePerform PROVE UNCHANGED performed
    <3> USE DEF elrondVars
    <3>1. ASSUME NEW r \in Relayers, Execute(r) PROVE UNCHANGED performed
      BY <3>1 DEF Execute, GetPending, CheckTransferPerformed, SignProposedTransfer,
         WaitForQuorumOnTransfer, PerformTransfer, WaitTransferConfirmation, ResolveSetStatus,
         WaitFinalStatuses, ProposeSetStatus, SignProposedSetStatus, WaitForQuorumOnSetStatus,
         PerformSetStatus
    <3>2. ASSUME NEW r \in Relayers, ExecuteAsLeader(r) \/ Restart(r) \/ Deliver(r)
          PROVE  UNCHANGED performed
      BY <3>2 DEF ExecuteAsLeader, PerformTransferAsLeader, ProposeSetStatusAsLeader,
         PerformSetStatusAsLeader, Restart, Deliver
    <3>3. QED
      BY <1>1, <2>2, <3>1, <3>2 DEF Next, LoseTransaction, Deposit, IncludePropose, IncludeSign,
         IncludeOnEthereum, Finalize
  <2>3. QED
    BY <2>1, <2>2
<1>2. IndInv /\ [Next]_vars =>
        [\A a \in performed' \ performed : a.id = pending.id]_vars
  BY <1>1
<1>3. QED
  BY <1>2, Invariance, PTL DEF Spec, SettlesCurrentBatch

--------------------------------------------------------------------------------
(***************************************************************************)
(* ElrondToEth implements Settlement.  Three steps of the environment are  *)
(* steps of the abstract specification: a deposit, the inclusion of the    *)
(* first transfer of a batch on Ethereum and the execution of its          *)
(* set-status action on Elrond.  All others, every step of every relayer   *)
(* among them, are stuttering steps.                                       *)
(***************************************************************************)

PromiseVars == <<pending, ethStatuses, performed>>

\* The steps that are none of the three change nothing that Settlement sees.
LEMMA OtherStepsStutter ==
    ASSUME [Next]_vars, ~ Deposit, ~ IncludeOnEthereum, ~ IncludePerform
    PROVE  UNCHANGED PromiseVars
<1> USE DEF elrondVars, ethVars, PromiseVars
<1>1. ASSUME NEW r \in Relayers, Execute(r) PROVE UNCHANGED PromiseVars
  BY <1>1 DEF Execute, GetPending, CheckTransferPerformed, SignProposedTransfer,
     WaitForQuorumOnTransfer, PerformTransfer, WaitTransferConfirmation, ResolveSetStatus,
     WaitFinalStatuses, ProposeSetStatus, SignProposedSetStatus, WaitForQuorumOnSetStatus,
     PerformSetStatus
<1>2. ASSUME NEW r \in Relayers, ExecuteAsLeader(r) \/ Restart(r) \/ Deliver(r)
      PROVE  UNCHANGED PromiseVars
  BY <1>2 DEF ExecuteAsLeader, PerformTransferAsLeader, ProposeSetStatusAsLeader,
     PerformSetStatusAsLeader, Restart, Deliver
<1>3. QED
  BY <1>1, <1>2 DEF Next, LoseTransaction, IncludePropose, IncludeSign, Finalize, vars

\* A transfer that is included for a batch that has none is the current
\* batch's: an earlier one would have been skipped.
LEMMA TransfersCurrent ==
    ASSUME IndInv, NEW tx \in ethPool, ~ WasTransferPerformedOnEthereum(tx)
    PROVE  tx.id = pending.id /\ tx.id \in BatchIDs /\ tx.num \in 1..pending.num
<1>1. tx.id \in BatchIDs /\ tx.num > 0 /\ InView(tx.id, tx.num) /\ tx.num \in Nat
  BY DEF IndInv, ViewsInv, TypeOK, EthTx
<1>2. ~ (tx.id < pending.id)
  BY <1>1 DEF IndInv, NoBatchSkipped, ViewsInv, WasTransferPerformedOnEthereum
<1>3. QED
  BY <1>1, <1>2, ConstantsAssumption DEF InView, IndInv, TypeOK

\* An accepted set-status action carries the outcome of the whole batch.
LEMMA AcceptedIsFinalOutcome ==
    ASSUME IndInv, NEW a \in proposed, a \notin performed
    PROVE  /\ a = [id |-> pending.id, statuses |-> Promise!FinalOutcome]
           /\ pending.id \in BatchIDs
           /\ ethStatuses[pending.id] # << >>
           /\ Len(ethStatuses[pending.id]) <= pending.num
<1>1. /\ a.id = pending.id /\ Len(a.statuses) = pending.num
      /\ a.id \in ethFinal /\ Truthful(a.id, a.statuses)
  BY PerformsCurrent DEF IndInv, ActionsInv
<1>2. a \in Action /\ a.statuses \in Seq(Status) /\ pending.num \in Nat
  BY ConstantsAssumption DEF IndInv, TypeOK, Action
<1>3. a.statuses = Promise!FinalOutcome
  <2>1. a.statuses = [i \in 1..pending.num |-> a.statuses[i]]
    BY <1>1, <1>2
  <2>2. \A i \in 1..pending.num :
           a.statuses[i] = IF i <= Len(ethStatuses[pending.id]) THEN ethStatuses[pending.id][i]
                                                                ELSE Rejected
    BY <1>1 DEF Truthful
  <2>3. QED
    BY <2>1, <2>2 DEF Promise!FinalOutcome, Promise!Rejected, Rejected
<1>4. a = [id |-> pending.id, statuses |-> Promise!FinalOutcome]
  BY <1>1, <1>2, <1>3 DEF Action
<1>5. QED
  BY <1>1, <1>4 DEF IndInv, ViewsInv, TypeOK, Truthful

\* Every step of the relayers and the chains is a step of Settlement or
\* changes nothing that it sees.
LEMMA StepSimulation ==
    ASSUME IndInv, [Next]_vars
    PROVE  [Promise!Next]_(Promise!vars)
<1> USE DEF elrondVars, ethVars, elrondPool
<1>0. pending \in [id : Nat, num : 0..MaxDeposits] /\ TypeOK
  BY DEF IndInv, TypeOK
<1>1. CASE Deposit
  BY <1>0, <1>1 DEF Deposit, Promise!Next, Promise!Deposit
<1>2. CASE IncludeOnEthereum
  <2>1. PICK tx \in ethPool :
           \/ UNCHANGED PromiseVars
           \/ /\ ~ WasTransferPerformedOnEthereum(tx)
              /\ \E s \in [1..tx.num -> Outcomes] :
                    ethStatuses' = [ethStatuses EXCEPT ![tx.id] = s]
    BY <1>2 DEF IncludeOnEthereum, PromiseVars
  <2>2. CASE UNCHANGED PromiseVars
    BY <2>2 DEF PromiseVars, Promise!vars
  <2>3. CASE /\ ~ WasTransferPerformedOnEthereum(tx)
             /\ \E s \in [1..tx.num -> Outcomes] :
                   ethStatuses' = [ethStatuses EXCEPT ![tx.id] = s]
    <3>1. tx.id = pending.id /\ tx.id \in BatchIDs /\ tx.num \in 1..pending.num
      BY <2>3, TransfersCurrent
    <3>2. Promise!Transfer
      BY <1>2, <2>3, <3>1 DEF Promise!Transfer, IncludeOnEthereum,
         WasTransferPerformedOnEthereum, BatchIDs
    <3>3. QED
      BY <3>2 DEF Promise!Next
  <2>4. QED
    BY <2>1, <2>2, <2>3
<1>3. CASE IncludePerform
  <2>1. CASE UNCHANGED <<performed, pending>>
    BY <1>3, <2>1 DEF IncludePerform, Promise!vars
  <2>2. ASSUME NEW a \in proposed, a \notin performed,
               performed' = performed \cup {a},
               pending' = [id |-> pending.id + 1, num |-> 0]
        PROVE  Promise!Settle
    BY <1>3, <2>2, AcceptedIsFinalOutcome DEF Promise!Settle, IncludePerform, BatchIDs
  <2>3. QED
    BY <1>3, <2>1, <2>2 DEF IncludePerform, Promise!Next
<1>4. CASE ~ Deposit /\ ~ IncludeOnEthereum /\ ~ IncludePerform
  BY <1>4, OtherStepsStutter DEF PromiseVars, Promise!vars
<1>5. QED
  BY <1>1, <1>2, <1>3, <1>4

\* The relayers and the chains together settle the batches as Settlement says:
\* every batch is transferred at most once, and settled in order with the
\* outcome of its transfer, for any number of relayers, deposits and faults.
THEOREM SettlementImplemented == Spec => KeepsPromise
<1>1. Init => Promise!Init
  BY DEF Init, Promise!Init, BatchIDs
<1>2. IndInv /\ [Next]_vars => [Promise!Next]_(Promise!vars)
  BY StepSimulation
<1>3. QED
  BY <1>1, <1>2, Invariance, PTL DEF Spec, KeepsPromise, Promise!Spec

--------------------------------------------------------------------------------
(***************************************************************************)
(* Every transfer sent to Ethereum is well signed.  The hash, the batch    *)
(* and the signatures are stored apart; that a transfer carries signatures *)
(* on its own deposits rests on ExecutorConsistent, and that they come     *)
(* from as many relayers on a relayer having one signature per hash.       *)
(***************************************************************************)

\* Signatures on one hash are as many as their signers.
LEMMA OneSignaturePerSigner ==
    ASSUME NEW S \in SUBSET Signature, NEW h, \A s \in S : s.hash = h
    PROVE  Cardinality({s.signer : s \in S}) = Cardinality(S)
<1> DEFINE f == [s \in S |-> s.signer]
           T == {s.signer : s \in S}
<1>1. \A s, t \in S : s.signer = t.signer => s = t
  BY DEF Signature
<1>2. f \in Injection(S, Relayers)
  BY <1>1 DEF Injection, IsInjective, Signature
<1>3. IsFiniteSet(S)
  BY <1>2, FS_Injection, ConstantsAssumption
<1>4. f \in Bijection(S, T)
  BY <1>1 DEF Bijection, Injection, Surjection, IsInjective
<1>5. ExistsBijection(S, T)
  BY <1>4 DEF ExistsBijection
<1>6. QED
  BY <1>3, <1>5, FS_Bijection

\* All signatures of a transfer are on its hash, and they are a quorum.
TxSigned(tx) ==
    /\ \A t \in tx.sigs : t.hash = GenerateMessageHash(tx)
    /\ Cardinality(tx.sigs) = Quorum

\* With one signature for each signer, a quorum of signatures is one of relayers.
LEMMA SignedIsWellSigned ==
    ASSUME NEW tx \in EthTx, TxSigned(tx)
    PROVE  WellSigned(tx) /\ Cardinality(tx.sigs) = Quorum
<1>1. tx.sigs \in SUBSET Signature
  BY DEF EthTx
<1>2. {t \in tx.sigs : t.hash = GenerateMessageHash(tx)} = tx.sigs
  BY DEF TxSigned
<1>3. Cardinality({s.signer : s \in tx.sigs}) = Quorum
  BY <1>1, OneSignaturePerSigner DEF TxSigned
<1>4. QED
  BY <1>2, <1>3, ConstantsAssumption DEF WellSigned, TxSigned

AllTxsSigned == \A tx \in ethPool : TxSigned(tx)

\* Every step leaves the transfers under way well signed.
LEMMA NextTxsSigned ==
    ASSUME IndInv, [Next]_vars, AllTxsSigned
    PROVE  AllTxsSigned'
<1>1. ASSUME NEW r \in Relayers, PerformTransferAsLeader(r) PROVE AllTxsSigned'
  <2>1. msgHash[r] = GenerateMessageHash(batch[r])
    BY <1>1, StepsDistinct
       DEF PerformTransferAsLeader, IndInv, ExecutorConsistent, ExecutorInv, StepsAreDistinct
  <2>2. CASE UNCHANGED ethPool
    BY <2>2 DEF AllTxsSigned, TxSigned
  <2>3. ASSUME NEW S \in SUBSET Signatures(r, msgHash[r]), Cardinality(S) = Quorum,
               ethPool' = ethPool \cup {[id |-> batch[r].id, num |-> batch[r].num, sigs |-> S]}
        PROVE  AllTxsSigned'
    <3>1. TxSigned([id |-> batch[r].id, num |-> batch[r].num, sigs |-> S])
      BY <2>1, <2>3 DEF TxSigned, Signatures, GenerateMessageHash
    <3>2. QED
      BY <2>3, <3>1 DEF AllTxsSigned
  <2>4. QED
    BY <1>1, <2>2, <2>3 DEF PerformTransferAsLeader
<1>2. ASSUME NEW r \in Relayers, Execute(r) PROVE UNCHANGED ethPool
  BY <1>2 DEF Execute, GetPending, CheckTransferPerformed, SignProposedTransfer,
     WaitForQuorumOnTransfer, PerformTransfer, WaitTransferConfirmation, ResolveSetStatus,
     WaitFinalStatuses, ProposeSetStatus, SignProposedSetStatus, WaitForQuorumOnSetStatus,
     PerformSetStatus
<1>3. ASSUME NEW r \in Relayers,
             ProposeSetStatusAsLeader(r) \/ PerformSetStatusAsLeader(r) \/ Restart(r) \/ Deliver(r)
      PROVE  UNCHANGED ethPool
  BY <1>3 DEF ProposeSetStatusAsLeader, PerformSetStatusAsLeader, Restart, Deliver
<1>4. CASE ethPool' \subseteq ethPool
  BY <1>4 DEF AllTxsSigned
<1>5. QED
  BY <1>1, <1>2, <1>3, <1>4 DEF Next, ExecuteAsLeader, LoseTransaction, Deposit, IncludePropose,
     IncludeSign, IncludePerform, IncludeOnEthereum, Finalize, vars

\* ExecuteTransfer always sends exactly a quorum of signatures, of distinct
\* relayers, on the very deposits that the transaction transfers.
THEOREM TransfersAreWellSigned == Spec => []TransfersWellSigned
<1>1. Init => AllTxsSigned
  BY DEF Init, AllTxsSigned
<1>2. IndInv /\ [Next]_vars /\ AllTxsSigned => AllTxsSigned'
  BY NextTxsSigned
<1>3. IndInv /\ AllTxsSigned => TransfersWellSigned
  BY SignedIsWellSigned DEF IndInv, TypeOK, AllTxsSigned, TransfersWellSigned
<1>4. QED
  BY <1>1, <1>2, <1>3, Invariance, PTL DEF Spec
================================================================================
