------------------------------ MODULE MCMonitoring ------------------------------
(* The module of the TLC run of Monitoring.                                *)
EXTENDS Monitoring

FourHandlers == <<"client", "otherClient", "ethToElrond", "elrondToEth">>
================================================================================
