------------------------------- MODULE MCProcess -------------------------------
(* The module of the TLC run of Process.                                   *)
EXTENDS Process

OnOrOff == {[gasStation |-> b, restApi |-> b] : b \in BOOLEAN}
================================================================================
