------------------------------- MODULE Settlement -------------------------------
(***************************************************************************)
(* What the Elrond -> Ethereum half of the bridge promises, without the    *)
(* relayers: the deposits gather in the current batch, the batch is        *)
(* transferred on Ethereum once, and it is settled on Elrond with the      *)
(* outcome of the transfer, in the order of the batches.  Deposits that    *)
(* join the batch after its transfer was decided are settled as rejected,  *)
(* which refunds them.                                                     *)
(***************************************************************************)
EXTENDS Batch

CONSTANTS MaxBatch, MaxDeposits, Outcomes

VARIABLES
    current,      \* the batch that gathers deposits
    size,         \* how many it has
    transferred,  \* per batch the outcome of its deposits on Ethereum
    settled       \* the batches that are over, with the statuses reported

vars == <<current, size, transferred, settled>>

Init ==
    /\ current = 1 /\ size = 0
    /\ transferred = [b \in 1..MaxBatch |-> << >>]
    /\ settled = {}

Deposit ==
    /\ size < MaxDeposits
    /\ size' = size + 1
    /\ UNCHANGED <<current, transferred, settled>>

\* The transfer of the current batch, of the deposits that some quorum knew.
Transfer ==
    /\ current \in 1..MaxBatch
    /\ transferred[current] = << >>
    /\ \E n \in 1..size : \E s \in [1..n -> Outcomes] :
          transferred' = [transferred EXCEPT ![current] = s]
    /\ UNCHANGED <<current, size, settled>>

\* The status of every deposit of the current batch.
FinalOutcome ==
    [i \in 1..size |-> IF i <= Len(transferred[current]) THEN transferred[current][i]
                                                         ELSE Rejected]

Settle ==
    /\ current \in 1..MaxBatch
    /\ transferred[current] # << >>
    /\ Len(transferred[current]) <= size
    /\ settled' = settled \cup {[id |-> current, statuses |-> FinalOutcome]}
    /\ current' = current + 1 /\ size' = 0
    /\ UNCHANGED transferred

Next == Deposit \/ Transfer \/ Settle

Spec == Init /\ [][Next]_vars
================================================================================
