------------------------------- MODULE MCTransfer -------------------------------
(* Batches for the TLC runs of Transfer.                                   *)
EXTENDS Transfer

MCBatches == << <<[token |-> "t", amount |-> 1], [token |-> "t", amount |-> 1],
                  [token |-> "u", amount |-> 1]>>,
                <<[token |-> "u", amount |-> 2]>> >>
================================================================================
