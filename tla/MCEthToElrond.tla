----------------------------- MODULE MCEthToElrond -----------------------------
(* Model values and symmetry for the TLC runs of EthToElrond.              *)
EXTENDS EthToElrond, TLC

RelayerSymmetry == Permutations(Relayers)
================================================================================
