------------------------------ MODULE ElrondToEth ------------------------------
(***************************************************************************)
(* The Elrond -> Ethereum half of the bridge: every relayer runs the       *)
(* ten-step state machine of bridges/ethElrond/steps/elrondToEth over a    *)
(* bridgeExecutor, gathers the other relayers' Ethereum signatures through *)
(* the peer-to-peer network, and drives the multisig contracts of the two  *)
(* chains.  The contracts and the network are the environment: they are    *)
(* modelled from the calls the relayer makes and from the contract mocks   *)
(* of integrationTests/mock.                                               *)
(*                                                                         *)
(* One action is one stretch of a step's Execute between two points where  *)
(* the rest of the world can move; transactions are only sent by a step    *)
(* and included (or refused, or lost) later.  A query that errors, a lost  *)
(* message or transaction and a restart of a relayer are faults, of which  *)
(* a behaviour has at most MaxFaults.                                      *)
(***************************************************************************)
EXTENDS Batch, FiniteSets

CONSTANTS
    Relayers,                     \* the whitelisted relayers
    Quorum,                       \* the quorum of both multisig contracts
    MaxQuorumRetriesOnEthereum,   \* the limits of bridgeExecutor's counters
    MaxQuorumRetriesOnElrond,
    MaxRetriesOnWasProposed,
    MaxBatch,                     \* bound: batches 1..MaxBatch are created
    MaxDeposits,                  \* bound: deposits in one batch
    MaxFaults,                    \* bound: faults in one behaviour
    Outcomes                      \* what a transfer can do to a deposit

\* bridgeExecutor's checkArgs refuses limits below minRetries = 1, and the
\* clients refuse a quorum below one.
ASSUME ConstantsAssumption ==
    /\ IsFiniteSet(Relayers)
    /\ Quorum \in Nat \ {0}
    /\ MaxQuorumRetriesOnEthereum \in Nat \ {0}
    /\ MaxQuorumRetriesOnElrond \in Nat \ {0}
    /\ MaxRetriesOnWasProposed \in Nat \ {0}
    /\ MaxBatch \in Nat /\ MaxDeposits \in Nat /\ MaxFaults \in Nat
    /\ Outcomes \subseteq FinalStatus

VARIABLES
    \* the Elrond multisig and safe contracts
    pending,      \* the current batch: its id and its number of deposits
    proposed,     \* set-status actions that exist
    signed,       \* <<action, relayer>>: the relayer signed the action
    performed,    \* the executed actions
    \* the transactions sent to Elrond and not yet included
    proposeTxs, signTxs, performTxs,
    \* the Ethereum multisig contract
    ethStatuses,  \* per batch the statuses of its transfer; << >>: not executed
    ethFinal,     \* batches whose statuses are final
    ethPool,      \* executeTransfer transactions sent and not yet included
    \* the peer-to-peer network
    broadcast,    \* every signature that was ever broadcast
    \* one entry per relayer: state machine, executor, signatures holder
    step, batch, fetched, actionID, msgHash, retries, sigs,
    faults        \* how many faults happened

elrondVars == <<pending, proposed, signed, performed>>
elrondPool == <<proposeTxs, signTxs, performTxs>>
ethVars == <<ethStatuses, ethFinal>>
executorVars == <<batch, fetched, actionID, msgHash>>
vars == <<pending, proposed, signed, performed, proposeTxs, signTxs, performTxs,
          ethStatuses, ethFinal, ethPool, broadcast,
          step, batch, fetched, actionID, msgHash, retries, sigs, faults>>

--------------------------------------------------------------------------------
(***************************************************************************)
(* Data.                                                                   *)
(***************************************************************************)
BatchIDs == 1..MaxBatch

\* The step identifiers.  Two steps wait on the outside world in the middle
\* of Execute: CheckingTransferPerformed is the second half of the first
\* step, WaitingFinalStatuses the second half of ResolvingSetStatusOnElrond.
GettingPendingBatchFromElrond == "get pending batch from Elrond"
CheckingTransferPerformed == "get pending batch from Elrond, check"
SigningProposedTransferOnEthereum == "sign proposed transfer"
WaitingForQuorumOnTransfer == "wait for quorum on transfer"
PerformingTransfer == "perform transfer"
WaitingTransferConfirmation == "wait transfer confirmating"
ResolvingSetStatusOnElrond == "resolve set status"
WaitingFinalStatuses == "resolve set status, wait"
ProposingSetStatusOnElrond == "propose set status"
SigningProposedSetStatusOnElrond == "sign proposed set status"
WaitingForQuorumOnSetStatus == "wait for quorum on set status"
PerformingSetStatus == "perform set status"

TransferSteps == {WaitingForQuorumOnTransfer, PerformingTransfer,
                  WaitingTransferConfirmation}
ResolveSteps == {ResolvingSetStatusOnElrond, WaitingFinalStatuses}
QuorumOnSetStatusSteps == {WaitingForQuorumOnSetStatus, PerformingSetStatus}
SetStatusSteps == {ProposingSetStatusOnElrond, SigningProposedSetStatusOnElrond}
                  \cup QuorumOnSetStatusSteps
StepIdentifiers ==
    {GettingPendingBatchFromElrond, CheckingTransferPerformed,
     SigningProposedTransferOnEthereum}
    \cup TransferSteps \cup ResolveSteps \cup SetStatusSteps

\* The message hash of a batch covers its id and all of its deposits; the
\* zero hash is what an executor holds before its first signature.
Hash == [id : Nat, num : Nat]
GenerateMessageHash(b) == [id |-> b.id, num |-> b.num]
NoHash == [id |-> 0, num |-> 0]
Signature == [signer : Relayers, hash : Hash]

\* A set-status action is identified by the batch and the statuses proposed.
Action == [id : Nat, statuses : Seq(Status)]
SetStatusOf(b) == [id |-> b.id, statuses |-> b.statuses]
InvalidActionID == [id |-> 0, statuses |-> << >>]

EthTx == [id : Nat, num : Nat, sigs : SUBSET Signature]

Retries == [onEthereum : 0..MaxQuorumRetriesOnEthereum,
            onElrond : 0..MaxQuorumRetriesOnElrond,
            onWasProposed : 0..MaxRetriesOnWasProposed]
NoRetries == [onEthereum |-> 0, onElrond |-> 0, onWasProposed |-> 0]

Init ==
    /\ pending = [id |-> 1, num |-> 0]
    /\ proposed = {} /\ signed = {} /\ performed = {}
    /\ proposeTxs = {} /\ signTxs = {} /\ performTxs = {}
    /\ ethStatuses = [b \in BatchIDs |-> << >>] /\ ethFinal = {} /\ ethPool = {}
    /\ broadcast = {}
    /\ step = [r \in Relayers |-> GettingPendingBatchFromElrond]
    /\ batch = [r \in Relayers |-> NoBatch]
    /\ fetched = [r \in Relayers |-> 0]
    /\ actionID = [r \in Relayers |-> InvalidActionID]
    /\ msgHash = [r \in Relayers |-> NoHash]
    /\ retries = [r \in Relayers |-> NoRetries]
    /\ sigs = [r \in Relayers |-> {}]
    /\ faults = 0

--------------------------------------------------------------------------------
(***************************************************************************)
(* What a relayer asks the chains and its signatures holder.               *)
(***************************************************************************)
WasTransferPerformedOnEthereum(b) == ethStatuses[b.id] # << >>

\* The contract has no statuses to return before they are final; an empty
\* answer is asked for again and finally given up.
M_FinalStatusesAvailable(b) == TRUE
FinalStatusesAvailable(b) == b.id \in ethFinal

M_Signatures(r, hash) == sigs[r]
Signatures(r, hash) == {s \in sigs[r] : s.hash = hash}

IsQuorumReached(r) == Cardinality(Signatures(r, msgHash[r])) >= Quorum

GetCurrentBatchAsDataBytes == pending

\* The Elrond contract looks an action up by the batch's id and its statuses.
WasProposedSetStatus(b) == SetStatusOf(b) \in proposed
GetActionIDForSetStatusOnPendingTransfer(b) ==
    IF SetStatusOf(b) \in proposed THEN SetStatusOf(b) ELSE InvalidActionID
WasExecuted(a) == a \in performed

SignersOf(a) == {r \in Relayers : <<a, r>> \in signed}
QuorumReached(a) == Cardinality(SignersOf(a)) >= Quorum

--------------------------------------------------------------------------------
(***************************************************************************)
(* The steps of the state machine.                                         *)
(***************************************************************************)
Goto(r, s) == step' = [step EXCEPT ![r] = s]

Fault == faults < MaxFaults /\ faults' = faults + 1

\* An early return to the first step: no batch is stored, or a call failed.
Abort(r) ==
    /\ IF batch[r] = NoBatch THEN UNCHANGED faults ELSE Fault
    /\ Goto(r, GettingPendingBatchFromElrond)

\* All three counters of the executor start again with a new round.
M_ResetRetries(r) == retries' = [retries EXCEPT ![r].onWasProposed = 0]
ResetRetries(r) == retries' = [retries EXCEPT ![r] = NoRetries]

M_QuorumRetriesOnEthereumOver(r) == retries[r].onEthereum > MaxQuorumRetriesOnEthereum
QuorumRetriesOnEthereumOver(r) == retries[r].onEthereum >= MaxQuorumRetriesOnEthereum

\* The remote validator knows the same batch, or refuses it or cannot be asked,
\* which is a fault.
ValidateBatch(r) ==
    \/ Fault /\ UNCHANGED step
    \/ UNCHANGED faults /\ Goto(r, CheckingTransferPerformed)

\* Step 1.  The counters are reset first; the batch is stored before it is
\* validated, so a batch that fails the validation stays stored.
GetPending(r) ==
    /\ step[r] = GettingPendingBatchFromElrond
    /\ ResetRetries(r)
    /\ \/ /\ IF pending.num = 0 THEN UNCHANGED faults ELSE Fault
          /\ UNCHANGED <<step, batch>>
       \/ /\ pending.num > 0
          /\ batch' = [batch EXCEPT ![r] = createPendingBatchFromResponse(GetCurrentBatchAsDataBytes)]
          /\ ValidateBatch(r)
    /\ UNCHANGED <<elrondVars, elrondPool, ethVars, ethPool, broadcast, sigs,
                   fetched, actionID, msgHash>>

CheckTransferPerformed(r) ==
    /\ step[r] = CheckingTransferPerformed
    /\ \/ Abort(r)
       \/ /\ batch[r] # NoBatch
          /\ Goto(r, IF WasTransferPerformedOnEthereum(batch[r])
                     THEN ResolvingSetStatusOnElrond
                     ELSE SigningProposedTransferOnEthereum)
          /\ UNCHANGED faults
    /\ UNCHANGED <<elrondVars, elrondPool, ethVars, ethPool, broadcast, sigs,
                   executorVars, retries>>

\* Step 2.  The signature goes to every peer, the sender included.
SignProposedTransfer(r) ==
    /\ step[r] = SigningProposedTransferOnEthereum
    /\ \/ Abort(r) /\ UNCHANGED <<msgHash, broadcast>>
       \/ /\ batch[r] # NoBatch
          /\ LET hash == GenerateMessageHash(batch[r])
             IN  /\ msgHash' = [msgHash EXCEPT ![r] = hash]
                 /\ broadcast' = broadcast \cup {[signer |-> r, hash |-> hash]}
          /\ Goto(r, WaitingForQuorumOnTransfer)
          /\ UNCHANGED faults
    /\ UNCHANGED <<elrondVars, elrondPool, ethVars, ethPool, sigs,
                   batch, fetched, actionID, retries>>

\* Step 3.
WaitForQuorumOnTransfer(r) ==
    /\ step[r] = WaitingForQuorumOnTransfer
    /\ \/ /\ QuorumRetriesOnEthereumOver(r)
          /\ Goto(r, GettingPendingBatchFromElrond)
          /\ UNCHANGED <<retries, faults>>
       \/ /\ ~ QuorumRetriesOnEthereumOver(r)
          /\ retries' = [retries EXCEPT ![r].onEthereum = @ + 1]
          /\ \/ Fault /\ Goto(r, GettingPendingBatchFromElrond)
             \/ /\ Goto(r, IF IsQuorumReached(r) THEN PerformingTransfer
                                                 ELSE WaitingForQuorumOnTransfer)
                /\ UNCHANGED faults
    /\ UNCHANGED <<elrondVars, elrondPool, ethVars, ethPool, broadcast, sigs, executorVars>>

\* Step 4.  The leader sends the transfer with exactly a quorum of the
\* signatures it holds for its hash; the others go and wait for it.
PerformTransferAsLeader(r) ==
    /\ step[r] = PerformingTransfer
    /\ batch[r] # NoBatch
    /\ ~ WasTransferPerformedOnEthereum(batch[r])
    /\ \/ /\ ~ IsQuorumReached(r)
          /\ Goto(r, GettingPendingBatchFromElrond)
          /\ UNCHANGED ethPool
       \/ /\ \E S \in SUBSET Signatures(r, msgHash[r]) :
                /\ Cardinality(S) = Quorum
                /\ ethPool' = ethPool \cup {[id |-> batch[r].id, num |-> batch[r].num,
                                             sigs |-> S]}
          /\ Goto(r, WaitingTransferConfirmation)
    /\ UNCHANGED <<elrondVars, elrondPool, ethVars, broadcast, sigs, executorVars,
                   retries, faults>>

PerformTransfer(r) ==
    /\ step[r] = PerformingTransfer
    /\ \/ Abort(r)
       \/ /\ batch[r] # NoBatch
          /\ Goto(r, IF WasTransferPerformedOnEthereum(batch[r])
                     THEN ResolvingSetStatusOnElrond
                     ELSE WaitingTransferConfirmation)
          /\ UNCHANGED faults
    /\ UNCHANGED <<elrondVars, elrondPool, ethVars, ethPool, broadcast, sigs,
                   executorVars, retries>>

\* Step 5.  The wait ends with or without the confirmation.
WaitTransferConfirmation(r) ==
    /\ step[r] = WaitingTransferConfirmation
    /\ Goto(r, PerformingTransfer)
    /\ UNCHANGED <<elrondVars, elrondPool, ethVars, ethPool, broadcast, sigs,
                   executorVars, retries, faults>>

ClearStoredP2PSignaturesForEthereum(r) == sigs' = [sigs EXCEPT ![r] = {}]

\* Step 6.  The stored signatures are dropped and the size of the batch that
\* is pending now is read before the long wait for the final statuses.
ResolveSetStatus(r) ==
    /\ step[r] = ResolvingSetStatusOnElrond
    /\ ClearStoredP2PSignaturesForEthereum(r)
    /\ \/ Abort(r) /\ UNCHANGED fetched
       \/ /\ batch[r] # NoBatch
          /\ IF pending.num = 0
             THEN Goto(r, GettingPendingBatchFromElrond) /\ UNCHANGED fetched
             ELSE /\ fetched' = [fetched EXCEPT ![r] = pending.num]
                  /\ Goto(r, WaitingFinalStatuses)
          /\ UNCHANGED faults
    /\ UNCHANGED <<elrondVars, elrondPool, ethVars, ethPool, broadcast,
                   batch, actionID, msgHash, retries>>

WaitFinalStatuses(r) ==
    /\ step[r] = WaitingFinalStatuses
    /\ fetched' = [fetched EXCEPT ![r] = 0]
    /\ \/ /\ IF FinalStatusesAvailable(batch[r]) THEN Fault ELSE UNCHANGED faults
          /\ Goto(r, GettingPendingBatchFromElrond)
          /\ UNCHANGED batch
       \/ /\ FinalStatusesAvailable(batch[r])
          /\ batch' = [batch EXCEPT ![r].statuses =
                          ResolveNewDeposits(ethStatuses[batch[r].id], fetched[r])]
          /\ Goto(r, ProposingSetStatusOnElrond)
          /\ UNCHANGED faults
    /\ UNCHANGED <<elrondVars, elrondPool, ethVars, ethPool, broadcast, sigs,
                   actionID, msgHash, retries>>

\* Step 7.
ProposeSetStatus(r) ==
    /\ step[r] = ProposingSetStatusOnElrond
    /\ \/ /\ retries[r].onWasProposed >= MaxRetriesOnWasProposed
          /\ Goto(r, GettingPendingBatchFromElrond)
          /\ UNCHANGED <<retries, faults>>
       \/ /\ retries[r].onWasProposed < MaxRetriesOnWasProposed
          /\ retries' = [retries EXCEPT ![r].onWasProposed = @ + 1]
          /\ \/ Abort(r)
             \/ /\ batch[r] # NoBatch
                /\ Goto(r, IF WasProposedSetStatus(batch[r])
                           THEN SigningProposedSetStatusOnElrond
                           ELSE ProposingSetStatusOnElrond)
                /\ UNCHANGED faults
    /\ UNCHANGED <<elrondVars, elrondPool, ethVars, ethPool, broadcast, sigs, executorVars>>

ProposeSetStatusAsLeader(r) ==
    /\ step[r] = ProposingSetStatusOnElrond
    /\ batch[r] # NoBatch
    /\ retries[r].onWasProposed < MaxRetriesOnWasProposed
    /\ retries' = [retries EXCEPT ![r].onWasProposed = @ + 1]
    /\ ~ WasProposedSetStatus(batch[r])
    /\ proposeTxs' = proposeTxs \cup {SetStatusOf(batch[r])}
    /\ Goto(r, SigningProposedSetStatusOnElrond)
    /\ UNCHANGED <<elrondVars, signTxs, performTxs, ethVars, ethPool, broadcast, sigs,
                   executorVars, faults>>

GetAndStoreActionIDForProposeSetStatusFromElrond(r) ==
    actionID' = [actionID EXCEPT ![r] = GetActionIDForSetStatusOnPendingTransfer(batch[r])]

\* Step 8.  The identifier of an action that is not there (yet) is stored as
\* InvalidActionID.
SignProposedSetStatus(r) ==
    /\ step[r] = SigningProposedSetStatusOnElrond
    /\ \/ Abort(r) /\ UNCHANGED <<actionID, signTxs>>
       \/ /\ batch[r] # NoBatch
          /\ GetActionIDForSetStatusOnPendingTransfer(batch[r]) = InvalidActionID
          /\ GetAndStoreActionIDForProposeSetStatusFromElrond(r)
          /\ Goto(r, GettingPendingBatchFromElrond)
          /\ UNCHANGED <<signTxs, faults>>
       \/ /\ batch[r] # NoBatch
          /\ GetActionIDForSetStatusOnPendingTransfer(batch[r]) # InvalidActionID
          /\ GetAndStoreActionIDForProposeSetStatusFromElrond(r)
          /\ \/ Fault /\ Goto(r, GettingPendingBatchFromElrond) /\ UNCHANGED signTxs
             \/ /\ IF r \in SignersOf(SetStatusOf(batch[r]))
                   THEN UNCHANGED signTxs
                   ELSE signTxs' = signTxs \cup {<<SetStatusOf(batch[r]), r>>}
                /\ Goto(r, WaitingForQuorumOnSetStatus)
                /\ UNCHANGED faults
    /\ UNCHANGED <<elrondVars, proposeTxs, performTxs, ethVars, ethPool, broadcast, sigs,
                   batch, fetched, msgHash, retries>>

\* Step 9.
WaitForQuorumOnSetStatus(r) ==
    /\ step[r] = WaitingForQuorumOnSetStatus
    /\ \/ /\ retries[r].onElrond >= MaxQuorumRetriesOnElrond
          /\ Goto(r, GettingPendingBatchFromElrond)
          /\ UNCHANGED <<retries, faults>>
       \/ /\ retries[r].onElrond < MaxQuorumRetriesOnElrond
          /\ retries' = [retries EXCEPT ![r].onElrond = @ + 1]
          /\ \/ Fault /\ Goto(r, GettingPendingBatchFromElrond)
             \/ /\ Goto(r, IF QuorumReached(actionID[r]) THEN PerformingSetStatus
                                                         ELSE WaitingForQuorumOnSetStatus)
                /\ UNCHANGED faults
    /\ UNCHANGED <<elrondVars, elrondPool, ethVars, ethPool, broadcast, sigs, executorVars>>

\* Step 10.  It is left only when the action is executed or a call fails.
PerformSetStatus(r) ==
    /\ step[r] = PerformingSetStatus
    /\ \/ /\ WasExecuted(actionID[r])
          /\ Goto(r, GettingPendingBatchFromElrond)
          /\ UNCHANGED faults
       \/ Abort(r)
    /\ UNCHANGED <<elrondVars, elrondPool, ethVars, ethPool, broadcast, sigs,
                   executorVars, retries>>

PerformSetStatusAsLeader(r) ==
    /\ step[r] = PerformingSetStatus
    /\ batch[r] # NoBatch
    /\ ~ WasExecuted(actionID[r])
    /\ performTxs' = performTxs \cup {actionID[r]}
    /\ UNCHANGED <<elrondVars, proposeTxs, signTxs, ethVars, ethPool, broadcast, sigs,
                   step, executorVars, retries, faults>>

\* A relayer stops and starts again: nothing of its executor, its state
\* machine or its signatures holder is persisted.
Restart(r) ==
    /\ Fault
    /\ Goto(r, GettingPendingBatchFromElrond)
    /\ batch' = [batch EXCEPT ![r] = NoBatch]
    /\ fetched' = [fetched EXCEPT ![r] = 0]
    /\ actionID' = [actionID EXCEPT ![r] = InvalidActionID]
    /\ msgHash' = [msgHash EXCEPT ![r] = NoHash]
    /\ retries' = [retries EXCEPT ![r] = NoRetries]
    /\ sigs' = [sigs EXCEPT ![r] = {}]
    /\ UNCHANGED <<elrondVars, elrondPool, ethVars, ethPool, broadcast>>

Execute(r) ==
    \/ GetPending(r) \/ CheckTransferPerformed(r)
    \/ SignProposedTransfer(r) \/ WaitForQuorumOnTransfer(r)
    \/ PerformTransfer(r) \/ WaitTransferConfirmation(r)
    \/ ResolveSetStatus(r) \/ WaitFinalStatuses(r)
    \/ ProposeSetStatus(r) \/ SignProposedSetStatus(r)
    \/ WaitForQuorumOnSetStatus(r) \/ PerformSetStatus(r)

ExecuteAsLeader(r) ==
    PerformTransferAsLeader(r) \/ ProposeSetStatusAsLeader(r)
    \/ PerformSetStatusAsLeader(r)

relayerVars == <<step, batch, fetched, actionID, msgHash, retries>>

--------------------------------------------------------------------------------
(***************************************************************************)
(* The network, of which module Broadcaster has the details.  A signature  *)
(* that was broadcast reaches each relayer at any time, in any order, any  *)
(* number of times or never: it can be overtaken and then be refused by    *)
(* the nonce filter, be sent again by its signer in a later round, or be   *)
(* sent by a peer that stores it in answer to a join message.              *)
(***************************************************************************)
Deliver(r) ==
    \E s \in broadcast \ sigs[r] :
        /\ sigs' = [sigs EXCEPT ![r] = @ \cup {s}]
        /\ UNCHANGED <<elrondVars, elrondPool, ethVars, ethPool, broadcast, relayerVars, faults>>

\* A transaction is dropped by a chain.
LoseTransaction ==
    /\ Fault
    /\ \/ \E a \in proposeTxs : proposeTxs' = proposeTxs \ {a}
                               /\ UNCHANGED <<signTxs, performTxs, ethPool>>
       \/ \E s \in signTxs : signTxs' = signTxs \ {s}
                            /\ UNCHANGED <<proposeTxs, performTxs, ethPool>>
       \/ \E a \in performTxs : performTxs' = performTxs \ {a}
                               /\ UNCHANGED <<proposeTxs, signTxs, ethPool>>
       \/ \E tx \in ethPool : ethPool' = ethPool \ {tx} /\ UNCHANGED elrondPool
    /\ UNCHANGED <<elrondVars, ethVars, broadcast, sigs, relayerVars>>

--------------------------------------------------------------------------------
(***************************************************************************)
(* The Elrond contracts.  The pending batch may still grow after a relayer *)
(* has read it, until a set-status action is proposed for it.              *)
(***************************************************************************)
Deposit ==
    /\ pending.id <= MaxBatch /\ pending.num < MaxDeposits
    /\ \A a \in proposed : a.id # pending.id
    /\ pending' = [pending EXCEPT !.num = @ + 1]
    /\ UNCHANGED <<proposed, signed, performed, elrondPool, ethVars, ethPool,
                   broadcast, sigs, relayerVars, faults>>

\* A proposal must be for the current batch, with one status per deposit.
CanPropose(a) == a.id = pending.id /\ Len(a.statuses) = pending.num

IncludePropose ==
    \E a \in proposeTxs :
        /\ proposeTxs' = proposeTxs \ {a}
        /\ proposed' = IF CanPropose(a) THEN proposed \cup {a} ELSE proposed
        /\ UNCHANGED <<pending, signed, performed, signTxs, performTxs, ethVars, ethPool,
                       broadcast, sigs, relayerVars, faults>>

IncludeSign ==
    \E s \in signTxs :
        /\ signTxs' = signTxs \ {s}
        /\ signed' = IF s[1] \in proposed THEN signed \cup {s} ELSE signed
        /\ UNCHANGED <<pending, proposed, performed, proposeTxs, performTxs, ethVars, ethPool,
                       broadcast, sigs, relayerVars, faults>>

\* Executing a set-status action closes the current batch.
IncludePerform ==
    \E a \in performTxs :
        /\ performTxs' = performTxs \ {a}
        /\ IF a \in proposed /\ a \notin performed /\ QuorumReached(a)
           THEN /\ performed' = performed \cup {a}
                /\ pending' = [id |-> pending.id + 1, num |-> 0]
           ELSE UNCHANGED <<performed, pending>>
        /\ UNCHANGED <<proposed, signed, proposeTxs, signTxs, ethVars, ethPool,
                       broadcast, sigs, relayerVars, faults>>

--------------------------------------------------------------------------------
(***************************************************************************)
(* The Ethereum contract.                                                  *)
(***************************************************************************)
\* A quorum of relayers signed the hash of what the transaction transfers.
WellSigned(tx) ==
    Cardinality({s.signer : s \in {t \in tx.sigs : t.hash = GenerateMessageHash(tx)}})
        >= Quorum

\* The transfer of a batch is executed once; each deposit succeeds or fails.
IncludeOnEthereum ==
    \E tx \in ethPool :
        /\ ethPool' = ethPool \ {tx}
        /\ IF WellSigned(tx) /\ ~ WasTransferPerformedOnEthereum(tx)
           THEN \E s \in [1..tx.num -> Outcomes] :
                   ethStatuses' = [ethStatuses EXCEPT ![tx.id] = s]
           ELSE UNCHANGED ethStatuses
        /\ UNCHANGED <<ethFinal, elrondVars, elrondPool, broadcast, sigs, relayerVars, faults>>

Finalize(b) ==
    /\ ethStatuses[b] # << >>
    /\ b \notin ethFinal
    /\ ethFinal' = ethFinal \cup {b}
    /\ UNCHANGED <<ethStatuses, ethPool, elrondVars, elrondPool, broadcast, sigs,
                   relayerVars, faults>>

--------------------------------------------------------------------------------
Next ==
    \/ \E r \in Relayers : Execute(r) \/ ExecuteAsLeader(r) \/ Restart(r)
    \/ \E r \in Relayers : Deliver(r)
    \/ LoseTransaction
    \/ Deposit \/ IncludePropose \/ IncludeSign \/ IncludePerform
    \/ IncludeOnEthereum
    \/ \E b \in BatchIDs : Finalize(b)

Spec == Init /\ [][Next]_vars

\* The polling handler executes the current step again and again.  The leader
\* changes with every interval, so a relayer that comes back to a step forever
\* is leader there sometimes.  What is sent is included at last, but for the
\* losses that count as faults, and a signature that is sent again in every
\* round reaches each relayer in one of them.
Fairness ==
    /\ \A r \in Relayers :
          /\ WF_vars(Execute(r))
          /\ SF_vars(PerformTransferAsLeader(r))
          /\ SF_vars(ProposeSetStatusAsLeader(r))
          /\ SF_vars(PerformSetStatusAsLeader(r))
          /\ WF_vars(Deliver(r))
    /\ WF_vars(IncludePropose) /\ WF_vars(IncludeSign) /\ WF_vars(IncludePerform)
    /\ WF_vars(IncludeOnEthereum)
    /\ \A b \in BatchIDs : WF_vars(Finalize(b))

FairSpec == Spec /\ Fairness

--------------------------------------------------------------------------------
(***************************************************************************)
(* Properties.                                                             *)
(***************************************************************************)
\* Every variable keeps its type; the retry counters of bridgeExecutor never
\* pass their limits.
TypeOK ==
    /\ pending \in [id : Nat, num : 0..MaxDeposits]
    /\ proposed \subseteq Action /\ performed \subseteq Action
    /\ signed \subseteq Action \X Relayers
    /\ proposeTxs \subseteq Action /\ performTxs \subseteq Action
    /\ signTxs \subseteq Action \X Relayers
    /\ ethStatuses \in [BatchIDs -> Seq(FinalStatus)]
    /\ ethFinal \subseteq BatchIDs
    /\ ethPool \subseteq EthTx
    /\ broadcast \subseteq Signature
    /\ step \in [Relayers -> StepIdentifiers]
    /\ batch \in [Relayers -> BatchType]
    /\ fetched \in [Relayers -> 0..MaxDeposits]
    /\ actionID \in [Relayers -> Action]
    /\ msgHash \in [Relayers -> Hash]
    /\ retries \in [Relayers -> Retries]
    /\ sigs \in [Relayers -> SUBSET Signature]
    /\ faults \in 0..MaxFaults

\* The statuses of batch b that agree with what Ethereum did: the transferred
\* deposits have their outcome, the deposits that came later are rejected.
Truthful(b, statuses) ==
    /\ Len(statuses) >= Len(ethStatuses[b])
    /\ \A i \in 1..Len(statuses) :
          statuses[i] = IF i <= Len(ethStatuses[b]) THEN ethStatuses[b][i] ELSE Rejected

\* A set-status action that may still be accepted is truthful: a relayer that
\* was left behind can hold statuses resolved against the size of a newer
\* batch, but then its own batch is settled already.
Sound(a) ==
    /\ a.id \in ethFinal
    /\ a.id < pending.id \/ Truthful(a.id, a.statuses)

\* n deposits of batch b have been on Elrond.
InView(b, n) == b < pending.id \/ (b = pending.id /\ n <= pending.num)

\* What a relayer's executor stores belongs together at every step that uses
\* it: past the first step there is a batch, the hash whose signatures are
\* counted and sent is the hash of that batch, the action that is signed and
\* performed is that batch's, and its statuses are sound.
ExecutorInv(r) ==
    /\ batch[r] = NoBatch => step[r] = GettingPendingBatchFromElrond
    /\ step[r] \in TransferSteps => msgHash[r] = GenerateMessageHash(batch[r])
    /\ step[r] \in ResolveSteps => WasTransferPerformedOnEthereum(batch[r])
    /\ step[r] \in SetStatusSteps => Sound(SetStatusOf(batch[r]))
    /\ step[r] \in QuorumOnSetStatusSteps =>
          actionID[r] = SetStatusOf(batch[r]) /\ actionID[r] \in proposed

ExecutorConsistent == \A r \in Relayers : ExecutorInv(r)

\* What Elrond executes about a batch is what happened to it on Ethereum: a
\* deposit is never reported executed (its sender not refunded) unless it was
\* transferred, nor rejected (refunded) when it was.
SettledTruthfully ==
    \A a \in performed : a.id \in ethFinal /\ Truthful(a.id, a.statuses)

\* A batch that Elrond has moved past was transferred on Ethereum: no batch is
\* skipped, whatever the relayers lost, repeated or read too early.
NoBatchSkipped == \A b \in BatchIDs : b < pending.id => b \in ethFinal

\* The inductive invariant behind the properties above.  A relayer knows no
\* deposits that Elrond does not have, Ethereum transferred none, and the
\* size that was fetched before the wait for the statuses covers the transfer
\* unless the batch is settled.
ViewInv(r) ==
    /\ batch[r] # NoBatch =>
          /\ batch[r].id \in BatchIDs /\ batch[r].num > 0
          /\ InView(batch[r].id, batch[r].num)
    /\ step[r] = WaitingFinalStatuses =>
          \/ batch[r].id < pending.id
          \/ fetched[r] >= Len(ethStatuses[batch[r].id])

ViewsInv ==
    /\ \A r \in Relayers : ViewInv(r)
    /\ \A tx \in ethPool : tx.id \in BatchIDs /\ tx.num > 0 /\ InView(tx.id, tx.num)
    /\ \A b \in BatchIDs :
          ethStatuses[b] # << >> => InView(b, Len(ethStatuses[b]))
    /\ \A b \in ethFinal : ethStatuses[b] # << >>

\* Proposals under way are sound; those accepted are truthful, fit the current
\* batch or are executed, and only batches that are over have an executed one.
ActionsInv ==
    /\ \A a \in proposeTxs : Sound(a)
    /\ \A a \in proposed :
          /\ a.id \in ethFinal /\ Truthful(a.id, a.statuses)
          /\ \/ a.id = pending.id /\ Len(a.statuses) = pending.num
             \/ a.id < pending.id /\ a \in performed
    /\ performed \subseteq proposed
    /\ \A a \in performed : a.id < pending.id

\* Only a batch that exists has deposits.
PendingInv == pending.id > 0 /\ (pending.num > 0 => pending.id \in BatchIDs)

IndInv == TypeOK /\ PendingInv /\ ExecutorConsistent /\ ViewsInv /\ ActionsInv /\ NoBatchSkipped

\* Every transfer that is sent carries a quorum of distinct relayers'
\* signatures on exactly the deposits it transfers, although the batch, the
\* hash and the signatures are kept apart and replaced by different steps.
TransfersWellSigned ==
    \A tx \in ethPool : WellSigned(tx) /\ Cardinality(tx.sigs) = Quorum

\* An executed set-status action is about the batch that was current, so it
\* cannot close another one.
SettlesCurrentBatch ==
    [][\A a \in performed' \ performed : a.id = pending.id]_vars

\* A batch that is pending on Elrond is settled at last, although relayers drop
\* the signatures they gathered, give up a quorum too early and come back to the
\* first step at any point.  (The run's batch does not grow while it is settled.)
PendingBatchSettled ==
    \A b \in BatchIDs :
        (pending.id = b /\ pending.num > 0) ~> (pending.id > b)

\* The ten steps, run by any number of relayers over the two chains, implement
\* the abstract settlement of batches: each is transferred once, and settled
\* once, in order, with the outcome of its transfer.
Promise == INSTANCE Settlement WITH
    current <- pending.id, size <- pending.num,
    transferred <- ethStatuses, settled <- performed

KeepsPromise == Promise!Spec
================================================================================
