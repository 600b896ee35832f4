--------------------------- MODULE EthToElrond_proofs ---------------------------
(***************************************************************************)
(* The safety of the Ethereum -> Elrond half: deposits are paid out once,  *)
(* in order and without a gap.  The relayer verifies a batch against the   *)
(* last executed deposit long before the batch is executed; the argument   *)
(* is that a transfer that is still acceptable (its id is lastBatch + 1)   *)
(* was verified against the lastTx of now, because lastTx only moves       *)
(* together with lastBatch.                                                *)
(***************************************************************************)
EXTENDS EthToElrond, TLAPS

\* The questions to the Elrond contract are what they read of its state.
USE DEF GetLastExecutedEthBatchID, GetLastExecutedEthTxID, WasProposedTransfer,
        GetActionIDForProposeTransfer, GetAndStoreActionIDForProposeTransferOnElrond, WasExecuted,
        ValidateBatch, WasTransferProposedOnElrond, ProposeTransferOnElrond

--------------------------------------------------------------------------------
(***************************************************************************)
(* Types.                                                                  *)
(***************************************************************************)
StepNames ==
    {GettingPendingBatchFromEthereum, FetchingBatch, VerifyingNonces, ProposingTransferOnElrond,
     SigningProposedTransferOnElrond, WaitingForQuorum, PerformingActionID}

\* The names that the steps go to are the step identifiers.
LEMMA StepNamesAreSteps == StepNames \subseteq StepIdentifiers
  BY DEF StepNames, StepIdentifiers, TransferSteps

\* Goto moves one relayer, to a step.
LEMMA GotoType ==
    ASSUME TypeOK, NEW r \in Relayers, NEW s \in StepNames, Goto(r, s)
    PROVE  step' \in [Relayers -> StepIdentifiers] /\ step'[r] = s
           /\ \A q \in Relayers \ {r} : step'[q] = step[q]
  BY StepNamesAreSteps DEF Goto, TypeOK

\* A fault keeps the count of the faults within its bound.
LEMMA FaultType ==
    ASSUME TypeOK, Fault
    PROVE  faults' \in 0..MaxFaults
  BY ConstantsAssumption DEF Fault, TypeOK

\* A failed call is a fault and leads to the first step.
LEMMA FailType ==
    ASSUME TypeOK, NEW r \in Relayers, Fail(r)
    PROVE  step' \in [Relayers -> StepIdentifiers] /\ faults' \in 0..MaxFaults
  BY GotoType, FaultType DEF Fail, StepNames

\* The values that stand for nothing stored have the types of what is stored.
LEMMA NoBatchType == NoBatch \in TransferBatch /\ InvalidActionID \in TransferBatch
  BY DEF NoBatch, InvalidActionID, TransferBatch

\* The types hold at the start.
LEMMA InitTypeOK == Init => TypeOK
  BY NoBatchType, StepNamesAreSteps, ConstantsAssumption DEF Init, TypeOK, StepNames

\* An answer that the executor does not refuse is the batch on Ethereum.
LEMMA FetchedBatch ==
    ASSUME NEW b, HasBatch(b)
    PROVE  Visible(b) /\ GetBatch(b).id = b /\ GetBatch(b).deposits = ethBatches[b]
  BY DEF HasBatch, GetBatch, NoBatch

\* The steps of a relayer keep the types.
LEMMA RelayerTypeOK ==
    ASSUME TypeOK, NEW r \in Relayers
    PROVE  Execute(r) \/ ExecuteAsLeader(r) \/ Restart(r) => TypeOK'
<1> USE DEF ethVars, elrondVars, elrondPool, relayerVars
<1> USE GotoType, FailType, NoBatchType, ConstantsAssumption DEF StepNames
<1>1. ASSUME GetPending(r) PROVE TypeOK'
  <2>1. step' \in [Relayers -> StepIdentifiers] /\ faults' \in 0..MaxFaults
    BY <1>1 DEF GetPending, TypeOK
  <2>2. retries' \in [Relayers -> 0..MaxQuorumRetriesOnElrond] /\ asked' \in [Relayers -> Nat]
    BY <1>1 DEF GetPending, ResetRetriesCountOnElrond, NextBatchID, TypeOK
  <2>3. QED
    BY <1>1, <2>1, <2>2 DEF GetPending, TypeOK
<1>2. ASSUME FetchBatch(r) PROVE TypeOK'
  <2>1. GetBatch(asked[r]) \in TransferBatch
    BY DEF GetBatch, Visible, TypeOK, TransferBatch
  <2>2. batch' \in [Relayers -> TransferBatch]
    BY <1>2, <2>1 DEF FetchBatch, TypeOK
  <2>3. QED
    BY <1>2, <2>2 DEF FetchBatch, TypeOK
<1>3. ASSUME VerifyNonces(r) PROVE TypeOK'
  BY <1>3 DEF VerifyNonces, TypeOK
<1>4. ASSUME ProposeTransfer(r) PROVE TypeOK'
  BY <1>4 DEF ProposeTransfer, TypeOK
<1>5. ASSUME ProposeTransferAsLeader(r) PROVE TypeOK'
  BY <1>5 DEF ProposeTransferAsLeader, TypeOK
<1>6. ASSUME SignProposedTransfer(r) PROVE TypeOK'
  <2>1. step' \in [Relayers -> StepIdentifiers] /\ faults' \in 0..MaxFaults
    BY <1>6 DEF SignProposedTransfer, TypeOK
  <2>2. actionID' \in [Relayers -> TransferBatch]
    BY <1>6 DEF SignProposedTransfer, TypeOK
  <2>3. signTxs' = signTxs \/ signTxs' = signTxs \cup {<<batch[r], r>>}
    BY <1>6 DEF SignProposedTransfer
  <2>4. signTxs' \subseteq TransferBatch \X Relayers
    BY <2>3 DEF TypeOK
  <2>5. QED
    BY <1>6, <2>1, <2>2, <2>4 DEF SignProposedTransfer, TypeOK
<1>7. ASSUME WaitForQuorum(r) PROVE TypeOK'
  <2>1. retries' \in [Relayers -> 0..MaxQuorumRetriesOnElrond]
    BY <1>7 DEF WaitForQuorum, QuorumRetriesOnElrondOver, TypeOK
  <2>2. QED
    BY <1>7, <2>1 DEF WaitForQuorum, TypeOK
<1>8. ASSUME PerformActionID(r) PROVE TypeOK'
  BY <1>8 DEF PerformActionID, TypeOK
<1>9. ASSUME PerformActionIDAsLeader(r) PROVE TypeOK'
  BY <1>9 DEF PerformActionIDAsLeader, TypeOK
<1>10. ASSUME Restart(r) PROVE TypeOK'
  <2>1. /\ batch' \in [Relayers -> TransferBatch] /\ actionID' \in [Relayers -> TransferBatch]
        /\ retries' \in [Relayers -> 0..MaxQuorumRetriesOnElrond] /\ asked' \in [Relayers -> Nat]
    BY <1>10 DEF Restart, TypeOK
  <2>2. QED
    BY <1>10, <2>1 DEF Restart, TypeOK
<1>11. QED
  BY <1>1, <1>2, <1>3, <1>4, <1>5, <1>6, <1>7, <1>8, <1>9, <1>10 DEF Execute, ExecuteAsLeader

\* The chains.  An executed batch is not empty, which IndInv knows.
LEMMA ChainsTypeOK ==
    ASSUME IndInv
    PROVE  /\ Deposit => TypeOK'
           /\ SettleBatch => TypeOK'
           /\ IncludePropose => TypeOK'
           /\ IncludeSign => TypeOK'
           /\ IncludePerform => TypeOK'
           /\ LoseTransaction => TypeOK'
<1> USE DEF ethVars, elrondVars, elrondPool, relayerVars
<1>0. TypeOK
  BY DEF IndInv
<1>1. ASSUME Deposit PROVE TypeOK'
  <2>1. deposits + 1 \in Nat /\ deposits' \in Nat
    BY <1>0, <1>1 DEF Deposit, TypeOK
  <2>2. ethBatches' \in Seq(Seq(Nat))
    <3>1. CASE ethBatches' = Append(ethBatches, <<deposits + 1>>)
      BY <1>0, <2>1, <3>1 DEF TypeOK
    <3>2. CASE /\ ~ settled
               /\ ethBatches' = [ethBatches EXCEPT ![Len(ethBatches)] = Append(@, deposits + 1)]
      <4>1. Len(ethBatches) \in 1..Len(ethBatches) /\ ethBatches[Len(ethBatches)] \in Seq(Nat)
        BY <1>0, <3>2 DEF IndInv, TypeOK
      <4>2. Append(ethBatches[Len(ethBatches)], deposits + 1) \in Seq(Nat)
        BY <2>1, <4>1
      <4>3. QED
        BY <1>0, <3>2, <4>1, <4>2 DEF TypeOK
    <3>3. QED
      BY <1>1, <3>1, <3>2 DEF Deposit
  <2>3. QED
    BY <1>0, <1>1, <2>1, <2>2 DEF Deposit, TypeOK
<1>2. ASSUME SettleBatch PROVE TypeOK'
  BY <1>0, <1>2 DEF SettleBatch, TypeOK
<1>3. ASSUME IncludePropose PROVE TypeOK'
  BY <1>0, <1>3 DEF IncludePropose, TypeOK
<1>4. ASSUME IncludeSign PROVE TypeOK'
  BY <1>0, <1>4 DEF IncludeSign, TypeOK
<1>5. ASSUME IncludePerform PROVE TypeOK'
  <2>1. ASSUME NEW a, PerformAction(a)
        PROVE  lastTx' \in Nat /\ lastBatch' \in Nat /\ credited' \in Seq(Nat)
               /\ performed' \subseteq TransferBatch
    <3>1. a \in TransferBatch /\ a.deposits # << >>
      BY <1>0, <2>1 DEF PerformAction, CanPerform, TypeOK, IndInv, Follows, MadeOnEthereum
    <3>2. a.deposits[Len(a.deposits)] \in Nat
      BY <3>1 DEF TransferBatch
    <3>3. QED
      BY <1>0, <2>1, <3>1, <3>2 DEF PerformAction, TypeOK, TransferBatch
  <2>2. ASSUME NEW a, PerformAction(a)
        PROVE  proposed' \subseteq TransferBatch /\ signed' \subseteq TransferBatch \X Relayers
    BY <1>0, <2>2 DEF PerformAction, ForgetActions, TypeOK
  <2>3. QED
    BY <1>0, <1>5, <2>1, <2>2 DEF IncludePerform, TypeOK
<1>6. ASSUME LoseTransaction PROVE TypeOK'
  BY <1>0, <1>6, FaultType DEF LoseTransaction, TypeOK
<1>7. QED
  BY <1>1, <1>2, <1>3, <1>4, <1>5, <1>6

--------------------------------------------------------------------------------
(***************************************************************************)
(* The steps of a relayer.                                                 *)
(***************************************************************************)
RelayerInv(r) == ExecutorInv(r) /\ FirstStepInv(r)

StepsAreDistinct ==
    /\ \A s \in {GettingPendingBatchFromEthereum, FetchingBatch, VerifyingNonces} :
          s \notin TransferSteps /\ s \notin QuorumSteps
    /\ GettingPendingBatchFromEthereum \notin {FetchingBatch, VerifyingNonces}
    /\ FetchingBatch # VerifyingNonces
    /\ \A s \in TransferSteps : s \notin {FetchingBatch, VerifyingNonces}
    /\ {ProposingTransferOnElrond, SigningProposedTransferOnElrond} \cap QuorumSteps = {}
    /\ {ProposingTransferOnElrond, SigningProposedTransferOnElrond, WaitingForQuorum,
        PerformingActionID} \subseteq TransferSteps
    /\ {WaitingForQuorum, PerformingActionID} \subseteq QuorumSteps

\* The steps are different from one another.
LEMMA StepsDistinct == StepsAreDistinct
  BY DEF StepsAreDistinct, TransferSteps, QuorumSteps, GettingPendingBatchFromEthereum,
     FetchingBatch, VerifyingNonces, ProposingTransferOnElrond,
     SigningProposedTransferOnElrond, WaitingForQuorum, PerformingActionID

\* A step of r on chains that do not move: it is enough that r is in order
\* afterwards, and so is what r sends.
LEMMA RelayerStep ==
    ASSUME IndInv, TypeOK', NEW r \in Relayers,
           UNCHANGED <<deposits, ethBatches, settled, lastBatch, lastTx, credited, proposed>>,
           \A q \in Relayers \ {r} :
               /\ step'[q] = step[q] /\ asked'[q] = asked[q] /\ batch'[q] = batch[q]
               /\ actionID'[q] = actionID[q],
           RelayerInv(r)',
           \A a \in proposeTxs' : a \in proposeTxs \/ Follows(a)
    PROVE  IndInv'
<1>1. \A q \in Relayers : RelayerInv(q)'
  BY DEF IndInv, RelayerInv, ExecutorConsistent, ExecutorInv, FirstStepInv, Follows,
     MadeOnEthereum
<1>2. \A a \in proposeTxs' \cup proposed' : Follows(a)'
  BY DEF IndInv, Follows, MadeOnEthereum
<1>3. \A b \in 1..Len(ethBatches') : MadeOnEthereum(ethBatches'[b], deposits')
  BY DEF IndInv, MadeOnEthereum
<1>4. NoDepositSkipped'
  BY DEF IndInv, NoDepositSkipped
<1>5. QED
  BY <1>1, <1>2, <1>3, <1>4 DEF IndInv, RelayerInv, ExecutorConsistent

\* The steps of a relayer keep the invariant.
LEMMA RelayerIndInv ==
    ASSUME IndInv, TypeOK', NEW r \in Relayers
    PROVE  Execute(r) \/ ExecuteAsLeader(r) \/ Restart(r) => IndInv'
<1> USE DEF ethVars, elrondVars, elrondPool, relayerVars
<1> USE StepsDistinct DEF StepsAreDistinct
<1>0. TypeOK /\ RelayerInv(r)
  BY DEF IndInv, RelayerInv, ExecutorConsistent
<1> DEFINE Others == \A q \in Relayers \ {r} :
                        /\ step'[q] = step[q] /\ asked'[q] = asked[q] /\ batch'[q] = batch[q]
                        /\ actionID'[q] = actionID[q]
\* A relayer in the first step has nothing to answer for.
<1>1. ASSUME step'[r] = GettingPendingBatchFromEthereum PROVE RelayerInv(r)'
  BY <1>1 DEF RelayerInv, ExecutorInv, FirstStepInv
<1>2. Fail(r) => step'[r] = GettingPendingBatchFromEthereum
  BY <1>0, GotoType DEF Fail, StepNames
<1>3. ASSUME GetPending(r) PROVE IndInv'
  <2>1. Others
    BY <1>0, <1>3 DEF GetPending, Fail, Goto, TypeOK
  <2>2. CASE Fail(r)
    BY <1>1, <1>2, <1>3, <2>1, <2>2, RelayerStep DEF GetPending
  <2>3. CASE asked' = [asked EXCEPT ![r] = NextBatchID] /\ Goto(r, FetchingBatch)
    <3>1. step'[r] = FetchingBatch /\ asked'[r] = lastBatch + 1 /\ lastBatch \in Nat
      BY <1>0, <2>3 DEF Goto, NextBatchID, TypeOK
    <3>2. RelayerInv(r)'
      BY <1>3, <3>1 DEF GetPending, RelayerInv, ExecutorInv, FirstStepInv
    <3>3. QED
      BY <1>3, <2>1, <3>2, RelayerStep DEF GetPending
  <2>4. QED
    BY <1>3, <2>2, <2>3 DEF GetPending
<1>4. ASSUME FetchBatch(r) PROVE IndInv'
  <2>1. Others
    BY <1>0, <1>4 DEF FetchBatch, Fail, Goto, TypeOK
  <2>2. CASE step'[r] = GettingPendingBatchFromEthereum
    BY <1>1, <1>4, <2>1, <2>2, RelayerStep DEF FetchBatch
  <2>3. CASE /\ HasBatch(asked[r])
             /\ batch' = [batch EXCEPT ![r] = GetBatch(asked[r])]
             /\ Goto(r, VerifyingNonces)
    <3>0. Visible(asked[r])
      BY <2>3, FetchedBatch
    <3>1. /\ step'[r] = VerifyingNonces /\ batch'[r].id = asked[r]
          /\ batch'[r].deposits = ethBatches[asked[r]]
      BY <1>0, <2>3, FetchedBatch DEF Goto, TypeOK
    <3>2. asked[r] \in 1..lastBatch + 1 /\ MadeOnEthereum(ethBatches[asked[r]], deposits)
      BY <1>0, <1>4, <3>0 DEF FetchBatch, RelayerInv, FirstStepInv, Visible, IndInv
    <3>3. RelayerInv(r)'
      BY <1>4, <3>1, <3>2 DEF FetchBatch, RelayerInv, ExecutorInv, FirstStepInv, MadeOnEthereum
    <3>4. QED
      BY <1>4, <2>1, <3>3, RelayerStep DEF FetchBatch
  <2>4. QED
    BY <1>0, <1>2, <1>4, <2>2, <2>3, GotoType DEF FetchBatch, StepNames
<1>5. ASSUME VerifyNonces(r) PROVE IndInv'
  <2>1. Others
    BY <1>0, <1>5 DEF VerifyNonces, Fail, Goto, TypeOK
  <2>2. CASE step'[r] = GettingPendingBatchFromEthereum
    BY <1>1, <1>5, <2>1, <2>2, RelayerStep DEF VerifyNonces
  <2>3. CASE /\ VerifyDepositNonces(batch[r].deposits, lastTx)
             /\ step'[r] = ProposingTransferOnElrond
    <3>1. Follows(batch[r])
      BY <1>0, <1>5, <2>3 DEF VerifyNonces, RelayerInv, FirstStepInv, Follows, VerifyDepositNonces
    <3>2. RelayerInv(r)'
      BY <1>5, <2>3, <3>1 DEF VerifyNonces, RelayerInv, ExecutorInv, FirstStepInv, Follows,
         MadeOnEthereum
    <3>3. QED
      BY <1>5, <2>1, <3>2, RelayerStep DEF VerifyNonces
  <2>4. QED
    BY <1>0, <1>2, <1>5, <2>2, <2>3, GotoType DEF VerifyNonces, StepNames
\* From one of the later steps to another, with the same batch.
<1>6. ASSUME step[r] \in TransferSteps, step'[r] \in TransferSteps, batch'[r] = batch[r],
             step'[r] \in QuorumSteps => actionID'[r] = batch[r],
             UNCHANGED <<deposits, lastBatch, lastTx>>
      PROVE  RelayerInv(r)' /\ Follows(batch[r])
  BY <1>0, <1>6 DEF RelayerInv, ExecutorInv, FirstStepInv, Follows, MadeOnEthereum
<1>7. ASSUME ProposeTransfer(r) PROVE IndInv'
  <2>1. Others /\ step'[r] \in {GettingPendingBatchFromEthereum, SigningProposedTransferOnElrond}
    BY <1>0, <1>2, <1>7, GotoType DEF ProposeTransfer, Fail, StepNames
  <2>2. QED
    BY <1>1, <1>6, <1>7, <2>1, RelayerStep DEF ProposeTransfer
<1>8. ASSUME ProposeTransferAsLeader(r) PROVE IndInv'
  <2>1. Others /\ step'[r] = SigningProposedTransferOnElrond
    BY <1>0, <1>8, GotoType DEF ProposeTransferAsLeader, StepNames
  <2>2. RelayerInv(r)' /\ Follows(batch[r])
    BY <1>6, <1>8, <2>1 DEF ProposeTransferAsLeader
  <2>3. QED
    BY <1>8, <2>1, <2>2, RelayerStep DEF ProposeTransferAsLeader
<1>9. ASSUME SignProposedTransfer(r) PROVE IndInv'
  <2>1. Others
    BY <1>0, <1>9 DEF SignProposedTransfer, Fail, Goto, TypeOK
  <2>2. CASE step'[r] = GettingPendingBatchFromEthereum
    BY <1>1, <1>9, <2>1, <2>2, RelayerStep DEF SignProposedTransfer
  <2>3. CASE /\ actionID' = [actionID EXCEPT ![r] = batch[r]]
             /\ Goto(r, WaitingForQuorum)
    <3>1. step'[r] = WaitingForQuorum /\ actionID'[r] = batch[r]
      BY <1>0, <2>3 DEF Goto, TypeOK
    <3>2. RelayerInv(r)'
      BY <1>6, <1>9, <3>1 DEF SignProposedTransfer
    <3>3. QED
      BY <1>9, <2>1, <3>2, RelayerStep DEF SignProposedTransfer
  <2>4. QED
    BY <1>0, <1>2, <1>9, <2>2, <2>3, GotoType DEF SignProposedTransfer, StepNames
<1>10. ASSUME WaitForQuorum(r) PROVE IndInv'
  <2>1. Others /\ step'[r] \in {GettingPendingBatchFromEthereum, WaitingForQuorum,
                                 PerformingActionID}
    BY <1>0, <1>2, <1>10, GotoType DEF WaitForQuorum, Fail, StepNames
  <2>2. actionID[r] = batch[r]
    BY <1>0, <1>10 DEF WaitForQuorum, RelayerInv, ExecutorInv
  <2>3. QED
    BY <1>1, <1>6, <1>10, <2>1, <2>2, RelayerStep DEF WaitForQuorum
<1>11. ASSUME PerformActionID(r) PROVE IndInv'
  <2>1. Others /\ step'[r] = GettingPendingBatchFromEthereum
    BY <1>0, <1>2, <1>11, GotoType DEF PerformActionID, Fail, StepNames
  <2>2. QED
    BY <1>1, <1>11, <2>1, RelayerStep DEF PerformActionID
<1>12. ASSUME PerformActionIDAsLeader(r) PROVE IndInv'
  <2>1. RelayerInv(r)'
    BY <1>0, <1>12 DEF PerformActionIDAsLeader, RelayerInv, ExecutorInv, FirstStepInv, Follows,
       MadeOnEthereum
  <2>2. QED
    BY <1>12, <2>1, RelayerStep DEF PerformActionIDAsLeader
<1>13. ASSUME Restart(r) PROVE IndInv'
  <2>1. Others
    BY <1>0, <1>13 DEF Restart, Fail, Goto, TypeOK
  <2>2. QED
    BY <1>1, <1>2, <1>13, <2>1, RelayerStep DEF Restart
<1>14. QED
  BY <1>3, <1>4, <1>5, <1>7, <1>8, <1>9, <1>10, <1>11, <1>12, <1>13 DEF Execute, ExecuteAsLeader

--------------------------------------------------------------------------------
(***************************************************************************)
(* The steps of the chains.                                                *)
(***************************************************************************)
\* Deposits are only added, and lastTx moves only together with lastBatch.
ChainsMoveOn ==
    /\ deposits' >= deposits
    /\ lastBatch' >= lastBatch
    /\ lastBatch' = lastBatch => lastTx' = lastTx

\* Deposits that were made stay made.
LEMMA MadeStable ==
    ASSUME NEW nonces \in Seq(Nat), NEW m \in Nat, NEW n \in Nat, m <= n,
           MadeOnEthereum(nonces, m)
    PROVE  MadeOnEthereum(nonces, n)
  BY DEF MadeOnEthereum

\* A batch with the newest deposit added is made.
LEMMA MadeAppended ==
    ASSUME NEW nonces \in Seq(Nat), NEW m \in Nat, MadeOnEthereum(nonces, m)
    PROVE  MadeOnEthereum(Append(nonces, m + 1), m + 1)
<1> DEFINE s == Append(nonces, m + 1)
<1>1. /\ Len(s) = Len(nonces) + 1 /\ s[Len(s)] = m + 1
      /\ \A i \in 1..Len(nonces) : s[i] = nonces[i] /\ nonces[i] \in Nat /\ nonces[i] <= m
  BY DEF MadeOnEthereum
<1>2. ASSUME NEW i \in 1..Len(s) PROVE s[i] <= m + 1
  <2>1. i \in 1..Len(nonces) \/ i = Len(s)
    BY <1>1
  <2>2. QED
    BY <1>1, <2>1
<1>3. s # << >>
  BY <1>1
<1>4. QED
  BY <1>2, <1>3 DEF MadeOnEthereum

\* A transfer that follows the last one still does, or is too old, when the chains move on.
LEMMA FollowsStable ==
    ASSUME TypeOK, TypeOK', ChainsMoveOn, NEW a \in TransferBatch, Follows(a)
    PROVE  Follows(a)'
<1>1. a.deposits \in Seq(Nat) /\ a.id \in Nat
  BY DEF TransferBatch
<1>2. lastBatch \in Nat /\ lastBatch' \in Nat /\ deposits \in Nat /\ deposits' \in Nat
  BY DEF TypeOK
<1>3. MadeOnEthereum(a.deposits, deposits')
  BY <1>1, <1>2, MadeStable DEF Follows, ChainsMoveOn
<1>4. QED
  BY <1>1, <1>2, <1>3 DEF Follows, ChainsMoveOn

\* What relayers hold and have proposed stays in order when the chains move on.
LEMMA EnvironmentStep ==
    ASSUME IndInv, TypeOK', ChainsMoveOn, UNCHANGED relayerVars,
           proposeTxs' \subseteq proposeTxs, proposed' \subseteq proposed \cup proposeTxs
    PROVE  /\ ExecutorConsistent' /\ \A r \in Relayers : FirstStepInv(r)'
           /\ \A a \in proposeTxs' \cup proposed' : Follows(a)'
<1>0. TypeOK /\ lastBatch \in Nat /\ lastBatch' \in Nat /\ deposits \in Nat /\ deposits' \in Nat
  BY DEF IndInv, TypeOK
<1>1. ASSUME NEW r \in Relayers PROVE ExecutorInv(r)'
  <2>1. ExecutorInv(r) /\ batch[r] \in TransferBatch
    BY <1>0, <1>1 DEF IndInv, ExecutorConsistent, TypeOK
  <2>2. step[r] \in TransferSteps => Follows(batch[r])'
    BY <1>0, <2>1, FollowsStable DEF ExecutorInv, relayerVars
  <2>3. QED
    BY <2>1, <2>2 DEF ExecutorInv, relayerVars
<1>2. ASSUME NEW r \in Relayers PROVE FirstStepInv(r)'
  <2>1. FirstStepInv(r) /\ batch[r].deposits \in Seq(Nat) /\ asked[r] \in Nat
        /\ batch[r].id \in Nat
    BY <1>0, <1>2 DEF IndInv, TypeOK, TransferBatch
  <2>2. MadeOnEthereum(batch[r].deposits, deposits) =>
           MadeOnEthereum(batch[r].deposits, deposits')
    BY <1>0, <2>1, MadeStable DEF ChainsMoveOn
  <2>3. QED
    BY <1>0, <2>1, <2>2 DEF FirstStepInv, ChainsMoveOn, relayerVars
<1>3. \A a \in proposeTxs' \cup proposed' : Follows(a)'
  BY <1>0, FollowsStable DEF IndInv, TypeOK
<1>4. QED
  BY <1>1, <1>2, <1>3 DEF ExecutorConsistent

\* A deposit, in a new batch or in the last one, keeps the invariant.
LEMMA DepositIndInv ==
    ASSUME IndInv, TypeOK', Deposit
    PROVE  IndInv'
<1> USE DEF ethVars, elrondVars, elrondPool
<1>0. TypeOK /\ deposits \in Nat /\ deposits' = deposits + 1 /\ lastBatch \in Nat
      /\ ethBatches \in Seq(Seq(Nat)) /\ lastTx \in Nat
  BY DEF IndInv, TypeOK, Deposit
<1>1. ChainsMoveOn
  BY <1>0 DEF Deposit, ChainsMoveOn
<1>2. /\ ExecutorConsistent' /\ \A r \in Relayers : FirstStepInv(r)'
      /\ \A a \in proposeTxs' \cup proposed' : Follows(a)'
  BY <1>1, EnvironmentStep DEF Deposit
<1>3. NoDepositSkipped'
  BY <1>0 DEF IndInv, NoDepositSkipped, Deposit
<1>4. \A b \in 1..Len(ethBatches) : MadeOnEthereum(ethBatches[b], deposits')
  BY <1>0, MadeStable DEF IndInv
<1>5. (~ settled => ethBatches # << >>)'
      /\ \A b \in 1..Len(ethBatches') : MadeOnEthereum(ethBatches'[b], deposits')
  <2>1. CASE ethBatches' = Append(ethBatches, <<deposits + 1>>)
    <3>1. /\ Len(ethBatches') = Len(ethBatches) + 1
          /\ ethBatches'[Len(ethBatches')] = <<deposits + 1>>
          /\ \A b \in 1..Len(ethBatches) : ethBatches'[b] = ethBatches[b]
      BY <1>0, <2>1
    <3>2. MadeOnEthereum(<<deposits + 1>>, deposits')
      BY <1>0 DEF MadeOnEthereum
    <3>3. \A b \in 1..Len(ethBatches') : MadeOnEthereum(ethBatches'[b], deposits')
      <4> SUFFICES ASSUME NEW b \in 1..Len(ethBatches')
                   PROVE  MadeOnEthereum(ethBatches'[b], deposits')
        OBVIOUS
      <4>1. b \in 1..Len(ethBatches) \/ b = Len(ethBatches')
        BY <1>0, <3>1
      <4>2. QED
        BY <1>4, <3>1, <3>2, <4>1
    <3>4. QED
      BY <1>0, <3>1, <3>3
  <2>2. CASE /\ ~ settled
             /\ ethBatches' = [ethBatches EXCEPT ![Len(ethBatches)] = Append(@, deposits + 1)]
    <3> DEFINE n == Len(ethBatches)
    <3>1. n \in 1..n /\ ethBatches[n] \in Seq(Nat) /\ MadeOnEthereum(ethBatches[n], deposits)
      BY <1>0, <2>2 DEF IndInv
    <3>2. /\ Len(ethBatches') = n
          /\ ethBatches'[n] = Append(ethBatches[n], deposits + 1)
          /\ \A b \in 1..n \ {n} : ethBatches'[b] = ethBatches[b]
      BY <1>0, <2>2, <3>1
    <3>3. MadeOnEthereum(Append(ethBatches[n], deposits + 1), deposits')
      BY <1>0, <3>1, MadeAppended
    <3>4. \A b \in 1..Len(ethBatches') : MadeOnEthereum(ethBatches'[b], deposits')
      BY <1>4, <3>2, <3>3
    <3>5. QED
      BY <1>0, <3>1, <3>2, <3>4
  <2>3. QED
    BY <2>1, <2>2 DEF Deposit
<1>6. QED
  BY <1>2, <1>3, <1>5 DEF IndInv

\* The step that matters: the executed batch continues the deposits that were
\* paid out before.
LEMMA PerformSkipsNothing ==
    ASSUME IndInv, TypeOK', UNCHANGED deposits, NEW a, PerformAction(a)
    PROVE  NoDepositSkipped' /\ ChainsMoveOn /\ proposed' \subseteq proposed
<1>1. /\ a \in TransferBatch /\ a.deposits \in Seq(Nat) /\ Follows(a) /\ a.id = lastBatch + 1
      /\ credited \in Seq(Nat) /\ lastTx \in Nat /\ lastBatch \in Nat /\ deposits \in Nat
  BY DEF PerformAction, CanPerform, IndInv, TypeOK, TransferBatch
<1>2. /\ Len(a.deposits) \in Nat \ {0}
      /\ \A i \in 1..Len(a.deposits) : a.deposits[i] = lastTx + i /\ a.deposits[i] <= deposits
  BY <1>1 DEF Follows, MadeOnEthereum
<1>3. /\ lastTx = Len(credited)
      /\ \A i \in 1..Len(credited) : credited[i] = i
  BY DEF IndInv, NoDepositSkipped
<1>4. /\ lastTx' = lastTx + Len(a.deposits) /\ lastTx' <= deposits
      /\ credited' = credited \o a.deposits
  BY <1>1, <1>2 DEF PerformAction
<1>5. Len(credited') = Len(credited) + Len(a.deposits)
  BY <1>1, <1>4
<1>6. ASSUME NEW i \in 1..Len(credited') PROVE credited'[i] = i
  <2>1. CASE i <= Len(credited)
    BY <1>1, <1>3, <1>4, <1>5, <1>6, <2>1
  <2>2. CASE i > Len(credited)
    <3>1. credited'[i] = a.deposits[i - Len(credited)]
          /\ i - Len(credited) \in 1..Len(a.deposits)
      BY <1>1, <1>2, <1>4, <1>5, <1>6, <2>2
    <3>2. QED
      BY <1>1, <1>2, <1>3, <3>1
  <2>3. QED
    BY <1>1, <1>6, <2>1, <2>2, <1>5, <1>2
<1>7. QED
  BY <1>1, <1>3, <1>4, <1>5, <1>6
     DEF NoDepositSkipped, ChainsMoveOn, PerformAction, ForgetActions

\* The steps of the chains keep the invariant.
LEMMA ChainsIndInv ==
    ASSUME IndInv, TypeOK'
    PROVE  /\ Deposit => IndInv'
           /\ SettleBatch => IndInv'
           /\ IncludePropose => IndInv'
           /\ IncludeSign => IndInv'
           /\ IncludePerform => IndInv'
           /\ LoseTransaction => IndInv'
           /\ UNCHANGED vars => IndInv'
<1> USE DEF ethVars, elrondVars, elrondPool
<1>0. TypeOK /\ lastBatch \in Nat /\ deposits \in Nat
  BY DEF IndInv, TypeOK
\* Steps that leave Ethereum and the payments alone.
<1>1. ASSUME UNCHANGED <<deposits, ethBatches>>, ~ settled' => ~ settled,
             NoDepositSkipped', ChainsMoveOn, UNCHANGED relayerVars,
             proposeTxs' \subseteq proposeTxs, proposed' \subseteq proposed \cup proposeTxs
      PROVE  IndInv'
  <2>1. /\ ExecutorConsistent' /\ \A r \in Relayers : FirstStepInv(r)'
        /\ \A a \in proposeTxs' \cup proposed' : Follows(a)'
    BY <1>1, EnvironmentStep
  <2>2. (~ settled => ethBatches # << >>)'
    BY <1>1 DEF IndInv
  <2>3. \A b \in 1..Len(ethBatches') : MadeOnEthereum(ethBatches'[b], deposits')
    BY <1>1 DEF IndInv
  <2>4. QED
    BY <1>1, <2>1, <2>2, <2>3 DEF IndInv
<1>2. ASSUME UNCHANGED <<deposits, ethBatches, lastBatch, lastTx, credited>>
      PROVE  NoDepositSkipped' /\ ChainsMoveOn
  BY <1>0, <1>2 DEF IndInv, NoDepositSkipped, ChainsMoveOn
<1>3. ASSUME SettleBatch PROVE IndInv'
  BY <1>1, <1>2, <1>3 DEF SettleBatch
<1>4. ASSUME IncludePropose PROVE IndInv'
  BY <1>1, <1>2, <1>4 DEF IncludePropose
<1>5. ASSUME IncludeSign PROVE IndInv'
  BY <1>1, <1>2, <1>5 DEF IncludeSign
<1>6. ASSUME IncludePerform PROVE IndInv'
  <2>1. CASE UNCHANGED elrondVars
    BY <1>1, <1>2, <1>6, <2>1 DEF IncludePerform
  <2>2. ASSUME NEW a, PerformAction(a) PROVE IndInv'
    BY <1>1, <1>6, <2>2, PerformSkipsNothing DEF IncludePerform
  <2>3. QED
    BY <1>6, <2>1, <2>2 DEF IncludePerform
<1>7. ASSUME LoseTransaction PROVE IndInv'
  BY <1>1, <1>2, <1>7 DEF LoseTransaction
<1>8. ASSUME UNCHANGED vars PROVE IndInv'
  BY <1>1, <1>2, <1>8 DEF vars, relayerVars
<1>9. QED
  BY <1>3, <1>4, <1>5, <1>6, <1>7, <1>8, DepositIndInv

--------------------------------------------------------------------------------
(***************************************************************************)
(* The invariant and what follows from it.                                 *)
(***************************************************************************)
LEMMA InitIndInv == Init => IndInv
<1> SUFFICES ASSUME Init PROVE IndInv
  OBVIOUS
<1>1. TypeOK
  BY InitTypeOK
<1>2. NoDepositSkipped
  BY DEF Init, NoDepositSkipped
<1>3. QED
  BY <1>1, <1>2, StepsDistinct DEF Init, IndInv, ExecutorConsistent, ExecutorInv, FirstStepInv,
     StepsAreDistinct

\* Every step keeps the invariant.
LEMMA NextIndInv == IndInv /\ [Next]_vars => IndInv'
<1> SUFFICES ASSUME IndInv, [Next]_vars PROVE IndInv'
  OBVIOUS
<1>0. TypeOK
  BY DEF IndInv
<1>1. ASSUME NEW r \in Relayers, Execute(r) \/ ExecuteAsLeader(r) \/ Restart(r)
      PROVE  IndInv'
  BY <1>0, <1>1, RelayerTypeOK, RelayerIndInv
<1>2. CASE UNCHANGED vars
  <2>1. TypeOK'
    BY <1>0, <1>2 DEF vars, TypeOK
  <2>2. QED
    BY <1>2, <2>1, ChainsIndInv
<1>3. QED
  BY <1>1, <1>2, ChainsTypeOK, ChainsIndInv DEF Next

\* What the relayers have read, what is under way and what was paid out form an
\* inductive invariant.
THEOREM Invariance == Spec => []IndInv
  BY InitIndInv, NextIndInv, PTL DEF Spec

\* Every variable keeps its type and the quorum retries their limit.
THEOREM TypeCorrect == Spec => []TypeOK
<1>1. IndInv => TypeOK
  BY DEF IndInv
<1>2. QED
  BY <1>1, Invariance, PTL

\* Deposits are paid out on Elrond once, in order and without a gap, for any
\* number of relayers, batches and faults, whether or not getBatch returns
\* batches that still grow.
THEOREM DepositsInOrder == Spec => []NoDepositSkipped
<1>1. IndInv => NoDepositSkipped
  BY DEF IndInv
<1>2. QED
  BY <1>1, Invariance, PTL

\* What a relayer proposes, signs and performs is the batch that it verified.
THEOREM ExecutorsAreConsistent == Spec => []ExecutorConsistent
<1>1. IndInv => ExecutorConsistent
  BY DEF IndInv
<1>2. QED
  BY <1>1, Invariance, PTL

--------------------------------------------------------------------------------
(***************************************************************************)
(* Batches are executed whole.                                             *)
(***************************************************************************)
\* What a relayer holds past the query of the batch.
Holding == TransferSteps \cup {VerifyingNonces}

\* A batch that will not grow stays what it is when Ethereum moves on.
LEMMA WholeStable ==
    ASSUME IndInv, Deposit \/ SettleBatch \/ UNCHANGED ethVars, NEW a, Whole(a)
    PROVE  Whole(a)'
<1> DEFINE n == Len(ethBatches)
<1>0. /\ ethBatches \in Seq(Seq(Nat)) /\ n \in Nat /\ settled \in BOOLEAN
      /\ ~ settled => n # 0
  BY DEF IndInv, TypeOK
<1>1. a.id \in 1..n /\ a.deposits = ethBatches[a.id] /\ (a.id = n => settled)
  BY DEF Whole, MayGrow
<1>2. CASE ethVars' = ethVars
  BY <1>2 DEF ethVars, Whole, MayGrow
<1>3. CASE SettleBatch
  BY <1>1, <1>3 DEF SettleBatch, Whole, MayGrow
<1>4. CASE /\ Deposit /\ settled
           /\ ethBatches' = Append(ethBatches, <<deposits + 1>>)
  <2>1. Len(ethBatches') = n + 1 /\ \A b \in 1..n : ethBatches'[b] = ethBatches[b]
    BY <1>0, <1>4
  <2>2. QED
    BY <1>0, <1>1, <2>1 DEF Whole, MayGrow
<1>5. CASE /\ Deposit /\ ~ settled
           /\ ethBatches' = [ethBatches EXCEPT ![n] = Append(@, deposits + 1)]
  <2>1. Len(ethBatches') = n /\ \A b \in 1..n \ {n} : ethBatches'[b] = ethBatches[b]
    BY <1>0, <1>5
  <2>2. a.id # n
    BY <1>1, <1>5
  <2>3. QED
    BY <1>0, <1>1, <2>1, <2>2 DEF Whole, MayGrow
<1>6. QED
  BY <1>2, <1>3, <1>4, <1>5 DEF Deposit

\* A step of r that leaves Ethereum alone: what r holds and proposes is whole.
LEMMA RelayerWhole ==
    ASSUME IndInv, WholeInv, SettledOnly, NEW r \in Relayers,
           UNCHANGED <<deposits, ethBatches, settled, proposed, performed>>,
           \A q \in Relayers \ {r} : step'[q] = step[q] /\ batch'[q] = batch[q],
           step'[r] \in Holding => Whole(batch'[r]),
           \A a \in proposeTxs' : a \in proposeTxs \/ Whole(a)
    PROVE  WholeInv'
<1>1. \A a : Whole(a) => Whole(a)'
  BY DEF Whole, MayGrow
<1>2. QED
  BY <1>1 DEF WholeInv, Holding

\* The steps of a relayer keep what they hold and propose whole.
LEMMA ExecuteWhole ==
    ASSUME IndInv, WholeInv, SettledOnly, NEW r \in Relayers,
           Execute(r) \/ ExecuteAsLeader(r) \/ Restart(r)
    PROVE  WholeInv'
<1> USE DEF ethVars, elrondVars, elrondPool, relayerVars
<1> USE StepsDistinct DEF StepsAreDistinct
<1>0. TypeOK
  BY DEF IndInv
<1> DEFINE Others == \A q \in Relayers \ {r} : step'[q] = step[q] /\ batch'[q] = batch[q]
<1>1. step[r] \in Holding => Whole(batch[r])
  BY DEF WholeInv, Holding
<1>2. Fail(r) => step'[r] = GettingPendingBatchFromEthereum
  BY <1>0, GotoType DEF Fail, StepNames
<1>3. GettingPendingBatchFromEthereum \notin Holding /\ FetchingBatch \notin Holding
      /\ VerifyingNonces \in Holding /\ TransferSteps \subseteq Holding
  BY DEF Holding
<1>4. CASE GetPending(r)
  <2>1. Others /\ step'[r] \notin Holding
    BY <1>0, <1>2, <1>3, <1>4, GotoType DEF GetPending, Fail, StepNames
  <2>2. QED
    BY <1>4, <2>1, RelayerWhole DEF GetPending
<1>5. CASE FetchBatch(r)
  <2>1. Others
    BY <1>0, <1>5 DEF FetchBatch, Fail, Goto, TypeOK
  <2>2. CASE step'[r] = GettingPendingBatchFromEthereum
    BY <1>3, <1>5, <2>1, <2>2, RelayerWhole DEF FetchBatch
  <2>3. CASE /\ HasBatch(asked[r])
             /\ batch' = [batch EXCEPT ![r] = GetBatch(asked[r])]
    <3>1. Visible(asked[r]) /\ batch'[r].id = asked[r] /\ batch'[r].deposits = ethBatches[asked[r]]
      BY <1>0, <2>3, FetchedBatch DEF TypeOK
    <3>2. Whole(batch'[r])
      BY <3>1 DEF Visible, Whole
    <3>3. QED
      BY <1>5, <2>1, <3>2, RelayerWhole DEF FetchBatch
  <2>4. QED
    BY <1>0, <1>2, <1>5, <2>2, <2>3, GotoType DEF FetchBatch, StepNames
\* The later steps keep the batch.
<1>6. ASSUME step[r] \in Holding, UNCHANGED batch, Others,
             UNCHANGED <<deposits, ethBatches, settled, proposed, performed>>,
             proposeTxs' \subseteq proposeTxs \cup {batch[r]}
      PROVE  WholeInv'
  BY <1>1, <1>6, RelayerWhole
<1>7. CASE VerifyNonces(r)
  BY <1>0, <1>3, <1>6, <1>7 DEF VerifyNonces, Fail, Goto, TypeOK
<1>8. CASE ProposeTransfer(r) \/ ProposeTransferAsLeader(r)
  BY <1>0, <1>3, <1>6, <1>8 DEF ProposeTransfer, ProposeTransferAsLeader, Fail, Goto, TypeOK
<1>9. CASE SignProposedTransfer(r)
  BY <1>0, <1>3, <1>6, <1>9 DEF SignProposedTransfer, Fail, Goto, TypeOK
<1>10. CASE WaitForQuorum(r)
  BY <1>0, <1>3, <1>6, <1>10 DEF WaitForQuorum, Fail, Goto, TypeOK
<1>11. CASE PerformActionID(r) \/ PerformActionIDAsLeader(r)
  BY <1>0, <1>3, <1>6, <1>11 DEF PerformActionID, PerformActionIDAsLeader, Fail, Goto, TypeOK
<1>12. CASE Restart(r)
  <2>1. Others
    BY <1>0, <1>12 DEF Restart, Fail, Goto, TypeOK
  <2>2. QED
    BY <1>2, <1>3, <1>12, <2>1, RelayerWhole DEF Restart
<1>13. QED
  BY <1>4, <1>5, <1>7, <1>8, <1>9, <1>10, <1>11, <1>12 DEF Execute, ExecuteAsLeader

\* The steps of the chains leave whole what was.
LEMMA ChainsWhole ==
    ASSUME IndInv, WholeInv, SettledOnly,
           \/ Deposit \/ SettleBatch \/ IncludePropose \/ IncludeSign \/ IncludePerform
           \/ LoseTransaction \/ UNCHANGED vars
    PROVE  WholeInv'
<1>1. Deposit \/ SettleBatch \/ UNCHANGED ethVars
  BY DEF IncludePropose, IncludeSign, IncludePerform, LoseTransaction, vars, ethVars
<1>2. \A a : Whole(a) => Whole(a)'
  BY <1>1, WholeStable
<1>3. UNCHANGED relayerVars
  BY DEF Deposit, SettleBatch, IncludePropose, IncludeSign, IncludePerform, LoseTransaction,
     vars, relayerVars
<1>4. proposeTxs' \cup proposed' \cup performed' \subseteq proposeTxs \cup proposed \cup performed
  BY DEF Deposit, SettleBatch, IncludePropose, IncludeSign, IncludePerform, PerformAction,
     CanPerform, ForgetActions, LoseTransaction, vars, elrondVars, elrondPool
<1>5. QED
  BY <1>2, <1>3, <1>4 DEF WholeInv, relayerVars

\* With it, every batch that is under way is as it will stay, if getBatch only
\* returns such batches.
LEMMA WholeInvariance == Spec => []WholeInv
<1>1. Init => WholeInv
  BY StepsDistinct DEF Init, WholeInv, StepsAreDistinct
<1>2. IndInv /\ WholeInv /\ [Next]_vars => WholeInv'
  <2> SUFFICES ASSUME IndInv, WholeInv, [Next]_vars, SettledOnly PROVE WholeInv'
    BY DEF WholeInv
  <2>1. QED
    BY ExecuteWhole, ChainsWhole DEF Next
<1>3. QED
  BY <1>1, <1>2, Invariance, PTL DEF Spec

--------------------------------------------------------------------------------
(***************************************************************************)
(* EthToElrond implements Payout.  Deposits and the end of a batch are its *)
(* first two steps, the execution of a transfer is the third, and nothing  *)
(* else changes what Payout sees.                                          *)
(***************************************************************************)
\* What Payout sees.
SeenVars == <<deposits, ethBatches, settled, lastBatch, credited>>

\* The safe contract is the one of Payout.
LEMMA DepositRefines ==
    ASSUME IndInv
    PROVE  (Deposit => Promise!Deposit) /\ (SettleBatch => Promise!Close)
<1>0. settled \in BOOLEAN
  BY DEF IndInv, TypeOK
<1>1. ASSUME Deposit PROVE Promise!Deposit
  BY <1>0, <1>1 DEF Deposit, elrondVars, Promise!Deposit
<1>2. ASSUME SettleBatch PROVE Promise!Close
  BY <1>0, <1>2 DEF SettleBatch, elrondVars, Promise!Close
<1>3. QED
  BY <1>1, <1>2

\* The transfer that is executed pays out the deposits that follow.
LEMMA PerformRefines ==
    ASSUME IndInv, WholeInv, UNCHANGED ethVars, NEW a, PerformAction(a)
    PROVE  Promise!PayOut
<1>1. /\ a \in proposed /\ a.deposits \in Seq(Nat) /\ Follows(a) /\ a.id = lastBatch + 1
      /\ credited \in Seq(Nat) /\ deposits \in Nat /\ lastTx = Len(credited)
  BY DEF PerformAction, CanPerform, IndInv, TypeOK, TransferBatch, NoDepositSkipped
<1>2. PICK n \in Nat \ {0} : n = Len(a.deposits)
  BY <1>1 DEF Follows, MadeOnEthereum
<1>3. \A i \in 1..n : a.deposits[i] = Len(credited) + i /\ a.deposits[i] <= deposits
  BY <1>1, <1>2 DEF Follows, MadeOnEthereum
<1>4. a.deposits = Promise!Following(n)
  <2>1. PICK d \in Seq(Nat) : d = a.deposits
    BY <1>1
  <2>2. PICK k \in Nat : k = Len(credited)
    BY <1>1
  <2>3. \A i \in 1..n : d[i] = k + i
    BY <1>3, <2>1, <2>2
  <2>4. d = [i \in 1..n |-> d[i]]
    BY <1>2, <2>1
  <2>5. d = [i \in 1..n |-> k + i]
    BY <2>3, <2>4
  <2> QED
    BY <2>1, <2>2, <2>5 DEF Promise!Following
<1>5. n \in 1..(deposits - Len(credited))
  <2>1. n \in 1..n
    BY <1>2
  <2>2. Len(credited) + n <= deposits /\ Len(credited) \in Nat
    <3>1. a.deposits[n] = Len(credited) + n /\ a.deposits[n] <= deposits
      BY <1>3, <2>1
    <3>2. Len(credited) \in Nat
      BY <1>1
    <3> QED
      BY <3>1, <3>2
  <2> QED
    BY <1>1, <1>2, <2>2
<1>6. /\ credited' = credited \o Promise!Following(n) /\ lastBatch' = lastBatch + 1
      /\ UNCHANGED <<deposits, ethBatches, ~ settled>>
  BY <1>1, <1>4 DEF PerformAction, ethVars
<1>7. SettledOnly => Promise!Closed(lastBatch') /\ Promise!Following(n) = ethBatches[lastBatch']
  <2> SUFFICES ASSUME SettledOnly
               PROVE  Promise!Closed(lastBatch') /\ Promise!Following(n) = ethBatches[lastBatch']
    OBVIOUS
  <2>1. Whole(a)
    BY <1>1 DEF WholeInv
  <2> QED
    BY <1>1, <1>4, <1>6, <2>1 DEF Whole, MayGrow, Promise!Closed
<1> QED
  BY <1>5, <1>6, <1>7 DEF Promise!PayOut

\* Every step of the relayers and the chains is a step of Payout or changes
\* nothing that it sees.
LEMMA NextRefines == IndInv /\ WholeInv /\ [Next]_vars => [Promise!Next]_(Promise!vars)
<1> SUFFICES ASSUME IndInv, WholeInv, [Next]_vars PROVE Promise!Next \/ UNCHANGED Promise!vars
  OBVIOUS
<1> USE DEF ethVars, elrondVars
<1>1. CASE Deposit \/ SettleBatch
  BY <1>1, DepositRefines DEF Promise!Next
<1>2. ASSUME UNCHANGED SeenVars PROVE UNCHANGED Promise!vars
  BY <1>2 DEF SeenVars, Promise!vars
<1>3. CASE IncludePerform
  <2>1. CASE UNCHANGED elrondVars
    BY <1>2, <1>3, <2>1 DEF IncludePerform, SeenVars
  <2>2. ASSUME NEW a, PerformAction(a) PROVE Promise!Next
    BY <1>3, <2>2, PerformRefines DEF IncludePerform, Promise!Next
  <2> QED
    BY <1>3, <2>1, <2>2 DEF IncludePerform
<1>4. ASSUME NEW r \in Relayers, Execute(r) \/ ExecuteAsLeader(r) \/ Restart(r)
      PROVE  UNCHANGED SeenVars
  BY <1>4 DEF Execute, ExecuteAsLeader, GetPending, FetchBatch, VerifyNonces, ProposeTransfer,
     ProposeTransferAsLeader, SignProposedTransfer, WaitForQuorum, PerformActionID,
     PerformActionIDAsLeader, Restart, SeenVars
<1>5. ASSUME IncludePropose \/ IncludeSign \/ LoseTransaction \/ UNCHANGED vars
      PROVE  UNCHANGED SeenVars
  BY <1>5 DEF IncludePropose, IncludeSign, LoseTransaction, vars, SeenVars
<1> QED
  BY <1>1, <1>2, <1>3, <1>4, <1>5 DEF Next

\* The relayers, the safe and the multisig contract together pay out the
\* deposits as Payout says: in order, without a gap, and batch by batch when
\* the batches are settled.
THEOREM PayoutImplemented == Spec => PaysOut
<1>1. Init => Promise!Init
  BY DEF Init, Promise!Init
<1> QED
  BY <1>1, NextRefines, Invariance, WholeInvariance, PTL DEF Spec, PaysOut, Promise!Spec
================================================================================
