-------------------------------- MODULE Process --------------------------------
(***************************************************************************)
(* A process with its Elrond transactions: the state machines send while   *)
(* they run, and a call that has begun ends although its state machine was *)
(* closed meanwhile; the Elrond client sends again from its creation until *)
(* its Close, which comes before that of the state machines.               *)
(***************************************************************************)
EXTENDS Lifecycle, ElrondTransactions

vars == <<lifecycleVars, txVars>>

Init == LifecycleInit /\ TxInit

LifecycleStep ==
    /\ LifecycleNext
    /\ IF main' = "exited" THEN Forget ELSE UNCHANGED txVars

StateMachineCalls(s) ==
    /\ s \in running
    /\ Call(s)
    /\ UNCHANGED lifecycleVars

CallGoesOn(s) == main # "exited" /\ Step(s) /\ UNCHANGED lifecycleVars

ClientResends == "elrondClient" \in running /\ Resend /\ UNCHANGED lifecycleVars

Network == (Include \/ LoseTransaction) /\ UNCHANGED lifecycleVars

Next ==
    \/ LifecycleStep
    \/ \E s \in Senders : StateMachineCalls(s) \/ CallGoesOn(s)
    \/ ClientResends \/ Network

Spec == Init /\ [][Next]_vars
================================================================================
