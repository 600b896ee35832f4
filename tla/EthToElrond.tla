------------------------------ MODULE EthToElrond ------------------------------
(***************************************************************************)
(* The Ethereum -> Elrond half of the bridge: the five-step state machine  *)
(* of bridges/ethElrond/steps/ethToElrond over a second bridgeExecutor.    *)
(* No signatures travel between the relayers here: they propose, sign and  *)
(* perform on the Elrond multisig contract.                                *)
(*                                                                         *)
(* The relayer reads three things one after the other - the last executed  *)
(* batch on Elrond, the batch after it on Ethereum, the last executed      *)
(* deposit on Elrond - and the chains may move in between.  The bindings   *)
(* of the Ethereum contract do not say whether a batch that getBatch       *)
(* returns may still grow; SettledOnly tells the two contracts apart.      *)
(***************************************************************************)
EXTENDS Integers, Sequences, FiniteSets

CONSTANTS
    Relayers, Quorum,
    MaxQuorumRetriesOnElrond,
    SettledOnly,                  \* getBatch hides a batch that may still grow
    MaxBatch,                     \* bound: batches made on Ethereum
    MaxDeposits,                  \* bound: deposits made on Ethereum
    MaxFaults                     \* bound: faults in one behaviour

ASSUME ConstantsAssumption ==
    /\ IsFiniteSet(Relayers)
    /\ Quorum \in Nat \ {0}
    /\ MaxQuorumRetriesOnElrond \in Nat \ {0}
    /\ SettledOnly \in BOOLEAN
    /\ MaxBatch \in Nat /\ MaxDeposits \in Nat /\ MaxFaults \in Nat

VARIABLES
    \* the Ethereum safe contract
    deposits,     \* how many deposits were made
    ethBatches,   \* the batches, each the sequence of its deposits' nonces
    settled,      \* the last of them will not grow any more
    \* the Elrond multisig contract
    lastBatch,    \* getLastExecutedEthBatchId
    lastTx,       \* getLastExecutedEthTxId
    credited,     \* the deposits paid out on Elrond, in order
    proposed, signed, performed,
    \* the transactions sent to Elrond and not yet included
    proposeTxs, signTxs, performTxs,
    \* one entry per relayer: state machine and executor
    step, asked, batch, actionID, retries,
    faults

ethVars == <<deposits, ethBatches, settled>>
elrondVars == <<lastBatch, lastTx, credited, proposed, signed, performed>>
elrondPool == <<proposeTxs, signTxs, performTxs>>
relayerVars == <<step, asked, batch, actionID, retries>>
vars == <<deposits, ethBatches, settled, lastBatch, lastTx, credited, proposed, signed,
          performed, proposeTxs, signTxs, performTxs, step, asked, batch, actionID, retries, faults>>

--------------------------------------------------------------------------------
\* The step identifiers.  The first step is interrupted twice: by the query
\* of the batch and by the query of the last executed deposit.
GettingPendingBatchFromEthereum == "get pending batch from Ethereum"
FetchingBatch == "get pending batch from Ethereum, fetch"
VerifyingNonces == "get pending batch from Ethereum, verify"
ProposingTransferOnElrond == "propose transfer"
SigningProposedTransferOnElrond == "sign proposed transfer"
WaitingForQuorum == "wait for quorum"
PerformingActionID == "perform action"

TransferSteps == {ProposingTransferOnElrond, SigningProposedTransferOnElrond,
                  WaitingForQuorum, PerformingActionID}
QuorumSteps == {WaitingForQuorum, PerformingActionID}
StepIdentifiers ==
    {GettingPendingBatchFromEthereum, FetchingBatch, VerifyingNonces} \cup TransferSteps

\* A batch, and the transfer action that proposes it: the contract identifies
\* an action by the batch and all of its deposits.
TransferBatch == [id : Nat, deposits : Seq(Nat)]
NoBatch == [id |-> 0, deposits |-> << >>]
InvalidActionID == NoBatch

Init ==
    /\ deposits = 0 /\ ethBatches = << >> /\ settled = TRUE
    /\ lastBatch = 0 /\ lastTx = 0 /\ credited = << >>
    /\ proposed = {} /\ signed = {} /\ performed = {}
    /\ proposeTxs = {} /\ signTxs = {} /\ performTxs = {}
    /\ step = [r \in Relayers |-> GettingPendingBatchFromEthereum]
    /\ asked = [r \in Relayers |-> 0]
    /\ batch = [r \in Relayers |-> NoBatch]
    /\ actionID = [r \in Relayers |-> InvalidActionID]
    /\ retries = [r \in Relayers |-> 0]
    /\ faults = 0

--------------------------------------------------------------------------------
(***************************************************************************)
(* What a relayer asks the chains.                                         *)
(***************************************************************************)
MayGrow(b) == b = Len(ethBatches) /\ ~ settled

\* The contract returns the batch.
Visible(b) == b \in 1..Len(ethBatches) /\ (SettledOnly => ~ MayGrow(b))

\* The client asks for the batch and then for its deposits and gives up when
\* their numbers differ, see BatchNotFetched.  When they agree no deposit was
\* made in between, since a batch only grows: the two answers are one snapshot.
M_GetBatch(b) ==
    IF Visible(b)
    THEN [id |-> b, deposits |-> SubSeq(ethBatches[b], 1, Len(ethBatches[b]) - 1)] ELSE NoBatch
GetBatch(b) == IF Visible(b) THEN [id |-> b, deposits |-> ethBatches[b]] ELSE NoBatch

\* The executor refuses an answer with another identifier or without deposits.
HasBatch(b) == GetBatch(b).id = b /\ GetBatch(b).deposits # << >>

\* The deposits of a batch follow the last one executed on Elrond.
M_VerifyDepositNonces(nonces, lastNonce) == TRUE
VerifyDepositNonces(nonces, lastNonce) ==
    \A i \in 1..Len(nonces) : nonces[i] = lastNonce + i

GetLastExecutedEthBatchID == lastBatch
GetLastExecutedEthTxID == lastTx

\* The Elrond contract looks an action up by the batch and all of its deposits.
WasProposedTransfer(b) == b \in proposed
GetActionIDForProposeTransfer(b) == IF b \in proposed THEN b ELSE InvalidActionID
WasExecuted(a) == a \in performed

SignersOf(a) == {r \in Relayers : <<a, r>> \in signed}
QuorumReached(a) == Cardinality(SignersOf(a)) >= Quorum

--------------------------------------------------------------------------------
(***************************************************************************)
(* The steps of the state machine.                                         *)
(***************************************************************************)
Goto(r, s) == step' = [step EXCEPT ![r] = s]

Fault == faults < MaxFaults /\ faults' = faults + 1

\* A call failed: back to the first step.
Fail(r) == Fault /\ Goto(r, GettingPendingBatchFromEthereum)

M_ResetRetriesCountOnElrond(r) == UNCHANGED retries
ResetRetriesCountOnElrond(r) == retries' = [retries EXCEPT ![r] = 0]

M_QuorumRetriesOnElrondOver(r) == retries[r] > MaxQuorumRetriesOnElrond
QuorumRetriesOnElrondOver(r) == retries[r] >= MaxQuorumRetriesOnElrond

NextBatchID == GetLastExecutedEthBatchID + 1

\* Step 1.  The next batch is asked for, stored, validated, and its nonces
\* are compared with the last executed deposit.
GetPending(r) ==
    /\ step[r] = GettingPendingBatchFromEthereum
    /\ ResetRetriesCountOnElrond(r)
    /\ \/ Fail(r) /\ UNCHANGED asked
       \/ /\ asked' = [asked EXCEPT ![r] = NextBatchID]
          /\ Goto(r, FetchingBatch)
          /\ UNCHANGED faults
    /\ UNCHANGED <<ethVars, elrondVars, elrondPool, batch, actionID>>

\* The batch is not there, or its two queries disagree about its size.
BatchNotFetched(r) == ~ HasBatch(asked[r]) \/ MayGrow(asked[r])

\* The validator has the same batch; a refusal or a call that fails is a fault.
ValidateBatch(r) ==
    \/ Fail(r)
    \/ Goto(r, VerifyingNonces) /\ UNCHANGED faults

FetchBatch(r) ==
    /\ step[r] = FetchingBatch
    /\ asked' = [asked EXCEPT ![r] = 0]
    /\ \/ Fail(r) /\ UNCHANGED batch
       \/ /\ BatchNotFetched(r)
          /\ Goto(r, GettingPendingBatchFromEthereum)
          /\ UNCHANGED <<batch, faults>>
       \/ /\ HasBatch(asked[r])
          /\ batch' = [batch EXCEPT ![r] = GetBatch(asked[r])]
          /\ ValidateBatch(r)
    /\ UNCHANGED <<ethVars, elrondVars, elrondPool, actionID, retries>>

VerifyNonces(r) ==
    /\ step[r] = VerifyingNonces
    /\ \/ Fail(r)
       \/ /\ Goto(r, IF VerifyDepositNonces(batch[r].deposits, GetLastExecutedEthTxID)
                     THEN ProposingTransferOnElrond
                     ELSE GettingPendingBatchFromEthereum)
          /\ UNCHANGED faults
    /\ UNCHANGED <<ethVars, elrondVars, elrondPool, asked, batch, actionID, retries>>

WasTransferProposedOnElrond(r) == WasProposedTransfer(batch[r])
ProposeTransferOnElrond(r) == proposeTxs' = proposeTxs \cup {batch[r]}

\* Step 2.  A relayer that is not the leader stays until it is proposed.
ProposeTransfer(r) ==
    /\ step[r] = ProposingTransferOnElrond
    /\ \/ Fail(r)
       \/ /\ WasTransferProposedOnElrond(r)
          /\ Goto(r, SigningProposedTransferOnElrond)
          /\ UNCHANGED faults
    /\ UNCHANGED <<ethVars, elrondVars, elrondPool, asked, batch, actionID, retries>>

ProposeTransferAsLeader(r) ==
    /\ step[r] = ProposingTransferOnElrond
    /\ ~ WasTransferProposedOnElrond(r)
    /\ ProposeTransferOnElrond(r)
    /\ Goto(r, SigningProposedTransferOnElrond)
    /\ UNCHANGED <<ethVars, elrondVars, signTxs, performTxs, asked, batch, actionID,
                   retries, faults>>

GetAndStoreActionIDForProposeTransferOnElrond(r) ==
    actionID' = [actionID EXCEPT ![r] = GetActionIDForProposeTransfer(batch[r])]

\* Step 3.
SignProposedTransfer(r) ==
    /\ step[r] = SigningProposedTransferOnElrond
    /\ \/ Fail(r) /\ UNCHANGED <<actionID, signTxs>>
       \/ /\ GetActionIDForProposeTransfer(batch[r]) = InvalidActionID
          /\ GetAndStoreActionIDForProposeTransferOnElrond(r)
          /\ Goto(r, GettingPendingBatchFromEthereum)
          /\ UNCHANGED <<signTxs, faults>>
       \/ /\ GetActionIDForProposeTransfer(batch[r]) # InvalidActionID
          /\ GetAndStoreActionIDForProposeTransferOnElrond(r)
          /\ \/ Fail(r) /\ UNCHANGED signTxs
             \/ /\ IF r \in SignersOf(batch[r])
                   THEN UNCHANGED signTxs
                   ELSE signTxs' = signTxs \cup {<<batch[r], r>>}
                /\ Goto(r, WaitingForQuorum)
                /\ UNCHANGED faults
    /\ UNCHANGED <<ethVars, elrondVars, proposeTxs, performTxs, asked, batch, retries>>

\* Step 4.
WaitForQuorum(r) ==
    /\ step[r] = WaitingForQuorum
    /\ \/ /\ QuorumRetriesOnElrondOver(r)
          /\ Goto(r, GettingPendingBatchFromEthereum)
          /\ UNCHANGED <<retries, faults>>
       \/ /\ ~ QuorumRetriesOnElrondOver(r)
          /\ retries' = [retries EXCEPT ![r] = @ + 1]
          /\ \/ Fail(r)
             \/ /\ Goto(r, IF QuorumReached(actionID[r]) THEN PerformingActionID
                                                         ELSE WaitingForQuorum)
                /\ UNCHANGED faults
    /\ UNCHANGED <<ethVars, elrondVars, elrondPool, asked, batch, actionID>>

\* Step 5.  It is left only when the action is executed or a call fails.
PerformActionID(r) ==
    /\ step[r] = PerformingActionID
    /\ \/ Fail(r)
       \/ /\ WasExecuted(actionID[r])
          /\ Goto(r, GettingPendingBatchFromEthereum)
          /\ UNCHANGED faults
    /\ UNCHANGED <<ethVars, elrondVars, elrondPool, asked, batch, actionID, retries>>

PerformActionIDAsLeader(r) ==
    /\ step[r] = PerformingActionID
    /\ ~ WasExecuted(actionID[r])
    /\ performTxs' = performTxs \cup {actionID[r]}
    /\ UNCHANGED <<ethVars, elrondVars, proposeTxs, signTxs, relayerVars, faults>>

\* Nothing of a relayer is persisted.
Restart(r) ==
    /\ Fail(r)
    /\ asked' = [asked EXCEPT ![r] = 0]
    /\ batch' = [batch EXCEPT ![r] = NoBatch]
    /\ actionID' = [actionID EXCEPT ![r] = InvalidActionID]
    /\ retries' = [retries EXCEPT ![r] = 0]
    /\ UNCHANGED <<ethVars, elrondVars, elrondPool>>

Execute(r) ==
    \/ GetPending(r) \/ FetchBatch(r) \/ VerifyNonces(r)
    \/ ProposeTransfer(r) \/ SignProposedTransfer(r) \/ WaitForQuorum(r)
    \/ PerformActionID(r)

ExecuteAsLeader(r) == ProposeTransferAsLeader(r) \/ PerformActionIDAsLeader(r)

--------------------------------------------------------------------------------
(***************************************************************************)
(* The Ethereum safe contract: deposits are numbered through all batches.  *)
(***************************************************************************)
Deposit ==
    /\ deposits < MaxDeposits
    /\ deposits' = deposits + 1
    /\ \/ /\ settled /\ Len(ethBatches) < MaxBatch
          /\ ethBatches' = Append(ethBatches, <<deposits + 1>>)
          /\ settled' = FALSE
       \/ /\ ~ settled
          /\ ethBatches' = [ethBatches EXCEPT ![Len(ethBatches)] = Append(@, deposits + 1)]
          /\ UNCHANGED settled
    /\ UNCHANGED <<elrondVars, elrondPool, relayerVars, faults>>

SettleBatch ==
    /\ ~ settled
    /\ settled' = TRUE
    /\ UNCHANGED <<deposits, ethBatches, elrondVars, elrondPool, relayerVars, faults>>

--------------------------------------------------------------------------------
(***************************************************************************)
(* The Elrond multisig contract.  It takes actions for the next batch      *)
(* only, compares no nonces, and may forget a batch's actions once one of  *)
(* them is executed.                                                       *)
(***************************************************************************)
IncludePropose ==
    \E a \in proposeTxs :
        /\ proposeTxs' = proposeTxs \ {a}
        /\ proposed' = IF a.id = lastBatch + 1 THEN proposed \cup {a} ELSE proposed
        /\ UNCHANGED <<ethVars, lastBatch, lastTx, credited, signed, performed,
                       signTxs, performTxs, relayerVars, faults>>

IncludeSign ==
    \E s \in signTxs :
        /\ signTxs' = signTxs \ {s}
        /\ signed' = IF s[1] \in proposed THEN signed \cup {s} ELSE signed
        /\ UNCHANGED <<ethVars, lastBatch, lastTx, credited, proposed, performed,
                       proposeTxs, performTxs, relayerVars, faults>>

CanPerform(a) == a \in proposed /\ a.id = lastBatch + 1 /\ QuorumReached(a)

ForgetActions(b) ==
    /\ proposed' = {a \in proposed : a.id # b}
    /\ signed' = {s \in signed : s[1].id # b}

PerformAction(a) ==
    /\ CanPerform(a)
    /\ performed' = performed \cup {a}
    /\ lastBatch' = a.id
    /\ lastTx' = a.deposits[Len(a.deposits)]
    /\ credited' = credited \o a.deposits
    /\ UNCHANGED <<proposed, signed>> \/ ForgetActions(a.id)

IncludePerform ==
    \E a \in performTxs :
        /\ performTxs' = performTxs \ {a}
        /\ PerformAction(a) \/ (~ CanPerform(a) /\ UNCHANGED elrondVars)
        /\ UNCHANGED <<ethVars, proposeTxs, signTxs, relayerVars, faults>>

LoseTransaction ==
    /\ Fault
    /\ \/ \E a \in proposeTxs : proposeTxs' = proposeTxs \ {a}
                               /\ UNCHANGED <<signTxs, performTxs>>
       \/ \E s \in signTxs : signTxs' = signTxs \ {s}
                            /\ UNCHANGED <<proposeTxs, performTxs>>
       \/ \E a \in performTxs : performTxs' = performTxs \ {a}
                               /\ UNCHANGED <<proposeTxs, signTxs>>
    /\ UNCHANGED <<ethVars, elrondVars, relayerVars>>

--------------------------------------------------------------------------------
Next ==
    \/ \E r \in Relayers : Execute(r) \/ ExecuteAsLeader(r) \/ Restart(r)
    \/ Deposit \/ SettleBatch
    \/ IncludePropose \/ IncludeSign \/ IncludePerform
    \/ LoseTransaction

Spec == Init /\ [][Next]_vars

\* The polling handler executes the current step again and again; a relayer
\* that stays where the leader acts is the leader there at last; what was sent
\* is included, but for the losses that count as faults; and a batch settles.
Fairness ==
    /\ \A r \in Relayers :
          /\ WF_vars(Execute(r))
          /\ WF_vars(ProposeTransferAsLeader(r))
          /\ WF_vars(PerformActionIDAsLeader(r))
    /\ WF_vars(IncludePropose) /\ WF_vars(IncludeSign) /\ WF_vars(IncludePerform)
    /\ WF_vars(SettleBatch)

FairSpec == Spec /\ Fairness

--------------------------------------------------------------------------------
(***************************************************************************)
(* Properties.                                                             *)
(***************************************************************************)
\* Every variable keeps its type, and the quorum retries keep their limit.
TypeOK ==
    /\ deposits \in Nat /\ ethBatches \in Seq(Seq(Nat)) /\ settled \in BOOLEAN
    /\ lastBatch \in Nat /\ lastTx \in Nat /\ credited \in Seq(Nat)
    /\ proposed \subseteq TransferBatch /\ performed \subseteq TransferBatch
    /\ signed \subseteq TransferBatch \X Relayers
    /\ proposeTxs \subseteq TransferBatch /\ performTxs \subseteq TransferBatch
    /\ signTxs \subseteq TransferBatch \X Relayers
    /\ step \in [Relayers -> StepIdentifiers]
    /\ asked \in [Relayers -> Nat]
    /\ batch \in [Relayers -> TransferBatch]
    /\ actionID \in [Relayers -> TransferBatch]
    /\ retries \in [Relayers -> 0..MaxQuorumRetriesOnElrond]
    /\ faults \in 0..MaxFaults

\* Each deposit is paid out on Elrond at most once, in the order of the
\* deposits and without a gap, even when the contract returns batches that
\* still grow: a batch that would leave a deposit behind is never proposed.
NoDepositSkipped ==
    /\ \A i \in 1..Len(credited) : credited[i] = i
    /\ lastTx = Len(credited) /\ lastTx <= deposits

\* Some deposits, all among the first n that were made.
MadeOnEthereum(nonces, n) ==
    nonces # << >> /\ \A i \in 1..Len(nonces) : nonces[i] <= n

\* A transfer that may still be executed starts where the last one ended.
Follows(a) ==
    /\ a.id \in 1..lastBatch + 1
    /\ MadeOnEthereum(a.deposits, deposits)
    /\ a.id = lastBatch + 1 =>
          \A i \in 1..Len(a.deposits) : a.deposits[i] = lastTx + i

\* What a relayer works on past the first step is its stored batch, verified
\* against the deposits executed so far, although they were read before it was.
ExecutorInv(r) ==
    /\ step[r] \in TransferSteps => Follows(batch[r])
    /\ step[r] \in QuorumSteps => actionID[r] = batch[r]

ExecutorConsistent == \A r \in Relayers : ExecutorInv(r)

\* The inductive invariant behind the two properties above: what the first
\* step has read, and what is under way.
FirstStepInv(r) ==
    /\ step[r] = FetchingBatch => asked[r] \in 1..lastBatch + 1
    /\ step[r] = VerifyingNonces =>
          batch[r].id \in 1..lastBatch + 1 /\ MadeOnEthereum(batch[r].deposits, deposits)

IndInv ==
    /\ TypeOK
    /\ NoDepositSkipped
    /\ ExecutorConsistent
    /\ ~ settled => ethBatches # << >>
    /\ \A b \in 1..Len(ethBatches) : MadeOnEthereum(ethBatches[b], deposits)
    /\ \A r \in Relayers : FirstStepInv(r)
    /\ \A a \in proposeTxs \cup proposed : Follows(a)

\* When getBatch only returns settled batches, whatever a relayer has fetched,
\* proposed or executed is a batch as it will stay.
Whole(a) ==
    /\ a.id \in 1..Len(ethBatches) /\ ~ MayGrow(a.id)
    /\ a.deposits = ethBatches[a.id]

WholeInv ==
    SettledOnly =>
        /\ \A r \in Relayers :
              step[r] \in TransferSteps \cup {VerifyingNonces} => Whole(batch[r])
        /\ \A a \in proposeTxs \cup proposed \cup performed : Whole(a)

\* Every batch on Ethereum is executed on Elrond at last.
EveryBatchExecuted ==
    \A b \in 1..MaxBatch : (Len(ethBatches) >= b) ~> (lastBatch >= b)

\* The relayers and the contract implement Payout: whatever the relayers read
\* while the chains moved, Elrond only ever pays out the next deposits, some of
\* them at a time, and with SettledOnly a whole batch of Ethereum at a time.
Promise == INSTANCE Payout WITH
    made <- deposits, batches <- ethBatches, open <- ~ settled,
    executed <- lastBatch, paid <- credited

PaysOut == Promise!Spec
================================================================================
