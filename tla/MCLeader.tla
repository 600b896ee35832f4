-------------------------------- MODULE MCLeader --------------------------------
(* The module of the TLC run of Leader.                                    *)
EXTENDS Leader
================================================================================
