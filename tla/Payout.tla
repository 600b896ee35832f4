--------------------------------- MODULE Payout ---------------------------------
(***************************************************************************)
(* What the Ethereum -> Elrond half of the bridge promises, without the    *)
(* relayers: deposits are numbered and gather in batches on Ethereum, and  *)
(* Elrond pays them out batch by batch, always the next ones that it has   *)
(* not paid yet.  When a batch that may still grow is hidden, what is paid *)
(* for a batch are exactly its deposits.                                   *)
(***************************************************************************)
EXTENDS Integers, Sequences

CONSTANT SettledOnly

VARIABLES
    made,      \* how many deposits there are
    batches,   \* their numbers, batch by batch
    open,      \* the last batch may still grow
    executed,  \* how many batches were paid out
    paid       \* the deposits that were paid out, in order

vars == <<made, batches, open, executed, paid>>

Init == made = 0 /\ batches = << >> /\ open = FALSE /\ executed = 0 /\ paid = << >>

Deposit ==
    /\ made' = made + 1
    /\ batches' = IF open THEN [batches EXCEPT ![Len(batches)] = Append(@, made')]
                          ELSE Append(batches, <<made'>>)
    /\ open' = TRUE
    /\ UNCHANGED <<executed, paid>>

Close ==
    /\ open /\ open' = FALSE
    /\ UNCHANGED <<made, batches, executed, paid>>

Closed(b) == b \in 1..Len(batches) /\ (b = Len(batches) => ~ open)

\* The next n deposits.
Following(n) == [i \in 1..n |-> Len(paid) + i]

PayOut ==
    /\ executed' = executed + 1
    /\ \E n \in 1..(made - Len(paid)) :
          /\ paid' = paid \o Following(n)
          /\ SettledOnly => Closed(executed') /\ Following(n) = batches[executed']
    /\ UNCHANGED <<made, batches, open>>

Next == Deposit \/ Close \/ PayOut

Spec == Init /\ [][Next]_vars
================================================================================
