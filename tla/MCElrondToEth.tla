----------------------------- MODULE MCElrondToEth -----------------------------
(* Model values and symmetry for the TLC runs of ElrondToEth.              *)
EXTENDS ElrondToEth, TLC

RelayerSymmetry == Permutations(Relayers)
================================================================================
