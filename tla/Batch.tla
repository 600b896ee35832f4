--------------------------------- MODULE Batch ---------------------------------
(***************************************************************************)
(* The chain-agnostic batch of clients/batch.go.  A batch is known by its  *)
(* identifier and by how many deposits it holds: the deposits of one batch *)
(* are only ever appended to, so two views of batch b with the same number *)
(* of deposits are the same batch, and two views with different numbers    *)
(* are prefixes of one another.                                            *)
(***************************************************************************)
EXTENDS Integers, Sequences

\* Status bytes: 0 is the byte of a freshly made Statuses slice.
NoStatus == 0
Executed == 3
Rejected == 4
FinalStatus == {Executed, Rejected}
Status == {NoStatus} \cup FinalStatus

\* A *TransferBatch; the nil pointer is the batch with identifier 0.
BatchType == [id : Nat, num : Nat, statuses : Seq(Status)]
NoBatch == [id |-> 0, num |-> 0, statuses |-> << >>]

\* What clients/elrond/client.go builds from the answer to getCurrentTxBatch:
\* the Statuses slice is made with one zero byte per deposit.
createPendingBatchFromResponse(pending) ==
    [id |-> pending.id, num |-> pending.num,
     statuses |-> [i \in 1..pending.num |-> NoStatus]]

\* A padding with Executed instead of Rejected.
M_ResolveNewDeposits(statuses, newNumDeposits) ==
    LET newLen == IF newNumDeposits > Len(statuses) THEN newNumDeposits
                                                    ELSE Len(statuses)
    IN  [i \in 1..newLen |->
            IF i <= Len(statuses) THEN statuses[i] ELSE Executed]

\* Statuses beyond the known deposits become Rejected, missing ones are added
\* as Rejected; the slice is never shortened.
ResolveNewDeposits(statuses, newNumDeposits) ==
    LET newLen == IF newNumDeposits > Len(statuses) THEN newNumDeposits
                                                    ELSE Len(statuses)
    IN  [i \in 1..newLen |->
            IF i <= Len(statuses) /\ i <= newNumDeposits THEN statuses[i]
                                                         ELSE Rejected]
================================================================================
