----------------------------- MODULE MCBroadcaster -----------------------------
(* Model values and symmetry for the TLC runs of Broadcaster.              *)
EXTENDS Broadcaster, TLC

RelayerSymmetry == Permutations(Relayers)
================================================================================
