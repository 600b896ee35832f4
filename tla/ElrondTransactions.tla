--------------------------- MODULE ElrondTransactions ---------------------------
(***************************************************************************)
(* How one relayer sends its Elrond transactions: the transaction handler  *)
(* of the Elrond client (clients/elrond/transactionHandler.go), which the  *)
(* two state machines of the relayer use at the same time, the nonce       *)
(* handler below it, which hands out nonces and sends again what the chain *)
(* has not included, and the chain, which includes a transaction only      *)
(* after those with smaller nonces.                                        *)
(***************************************************************************)
EXTENDS Integers, FiniteSets

CONSTANTS
    Senders,       \* the state machines
    MaxNonce,      \* bound: transactions of the account
    MaxUnsigned    \* bound: transactions that could not be built or signed

ASSUME TransactionsAssumption ==
    MaxNonce \in Nat /\ MaxUnsigned \in Nat

VARIABLES
    call,        \* of each state machine: where its call is, and its nonce
    nextNonce,   \* of the nonce handler; 0 before the first nonce
    stored,      \* what the nonce handler has sent and sends again
    pool,        \* what the nodes of the network have and did not include
    account,     \* the nonce of the account: how many were included
    unsigned,    \* history: the nonces of calls that failed after GetNonce
    overlapped   \* history: a nonce was taken back when a later one was in use

handlerVars == <<nextNonce, stored>>
networkVars == <<pool, account>>
historyVars == <<unsigned, overlapped>>
txVars == <<call, nextNonce, stored, pool, account, unsigned, overlapped>>

NoNonce == -1
Idle == [stage |-> "idle", nonce |-> NoNonce]

\* Where a call waits for an answer, in the order of the code.
M_After == [idle |-> "GetNonce", GetNonce |-> "GetNetworkConfig", GetNetworkConfig |-> "send"]
After == [idle |-> "GetNetworkConfig", GetNetworkConfig |-> "GetNonce", GetNonce |-> "send"]

TxInit ==
    /\ call = [s \in Senders |-> Idle]
    /\ nextNonce = 0 /\ stored = {}
    /\ pool = {} /\ account = 0
    /\ unsigned = {} /\ overlapped = FALSE

--------------------------------------------------------------------------------
(***************************************************************************)
(* A call.                                                                 *)
(***************************************************************************)
Proceed(s) == call' = [call EXCEPT ![s].stage = After[@]]
ReturnError(s) == call' = [call EXCEPT ![s] = Idle]

\* Sign, ProposeTransfer, ProposeSetStatus and PerformAction.  They return at
\* once when the contract is paused or cannot be asked, or when the relayer is
\* not on the list.
Call(s) ==
    /\ call[s].stage = "idle"
    /\ Proceed(s)
    /\ UNCHANGED <<handlerVars, networkVars, historyVars>>

GetNetworkConfig(s) ==
    /\ call[s].stage = "GetNetworkConfig"
    /\ Proceed(s) \/ ReturnError(s)
    /\ UNCHANGED <<handlerVars, networkVars, historyVars>>

\* Nonces are handed out from the account's on, without gaps.  An error of the
\* proxy hands out none.
GetNonce(s) ==
    /\ call[s].stage = "GetNonce"
    /\ \/ LET nonce == IF nextNonce > account THEN nextNonce ELSE account
          IN  /\ nonce < MaxNonce
              /\ call' = [call EXCEPT ![s] = [stage |-> After[@.stage], nonce |-> nonce]]
              /\ nextNonce' = nonce + 1
       \/ ReturnError(s) /\ UNCHANGED nextNonce
    /\ UNCHANGED <<stored, networkVars, historyVars>>

\* ToDataBytes or the signature fails, which leaves a nonce that nobody uses.
SignFails(s) ==
    /\ call[s].stage = "send"
    /\ Cardinality(unsigned) < MaxUnsigned
    /\ unsigned' = unsigned \cup {call[s].nonce}
    /\ ReturnError(s)
    /\ UNCHANGED <<handlerVars, networkVars, overlapped>>

\* The handler stores the transaction, then sends it, which may fail.
SendTransaction(s) ==
    /\ call[s].stage = "send"
    /\ stored' = stored \cup {call[s].nonce}
    /\ pool' \in {pool, pool \cup {call[s].nonce}}
    /\ call' = [call EXCEPT ![s] = Idle]
    /\ UNCHANGED <<nextNonce, account, historyVars>>

\* The handler was created to refuse a transaction with the data of one that it
\* has stored: it stores nothing then and takes the last nonce back, which is not
\* that of the refused transaction if the other state machine has got one since.
RefuseDuplicate(s) ==
    /\ call[s].stage = "send"
    /\ stored # {}
    /\ nextNonce' = nextNonce - 1
    /\ overlapped' = (overlapped \/ call[s].nonce # nextNonce - 1)
    /\ ReturnError(s)
    /\ UNCHANGED <<stored, networkVars, unsigned>>

\* A call that has begun goes on until it returns.
Step(s) ==
    \/ GetNetworkConfig(s) \/ GetNonce(s) \/ SignFails(s)
    \/ SendTransaction(s) \/ RefuseDuplicate(s)

--------------------------------------------------------------------------------
\* What is included is forgotten, everything else is sent once more.
Resend ==
    /\ stored' = {n \in stored : n >= account}
    /\ pool' = pool \cup stored'
    /\ UNCHANGED <<call, nextNonce, account, historyVars>>

Include ==
    /\ account \in pool
    /\ account' = account + 1
    /\ pool' = pool \ {account}
    /\ UNCHANGED <<call, handlerVars, historyVars>>

LoseTransaction ==
    /\ \E n \in pool : pool' = pool \ {n}
    /\ UNCHANGED <<call, handlerVars, account, historyVars>>

\* The process ends: what it had in memory is gone.
Forget ==
    /\ call' = [s \in Senders |-> Idle]
    /\ nextNonce' = 0 /\ stored' = {} /\ unsigned' = {} /\ overlapped' = FALSE
    /\ UNCHANGED networkVars

--------------------------------------------------------------------------------
\* Whatever fails on the way, every nonce that was handed out and is not used
\* up is that of exactly one transaction that is sent again and again or that
\* some call has yet to send, unless a transaction could not be built or signed:
\* a missing nonce would hold up every later transaction of the relayer, and of
\* two transactions with the same nonce the chain takes one.  It fails when a
\* duplicate is refused after the other state machine has got a later nonce.
Holders(n) == {s \in Senders : call[s].nonce = n}

NoNonceGap ==
    overlapped \/ \A n \in account..(nextNonce - 1) :
        IF n \in stored \cup unsigned THEN Holders(n) = {} ELSE \E s \in Senders : Holders(n) = {s}

\* NoNonceGap is inductive with this: only a call that is about to send has a
\* nonce, so that none is forgotten when the call is given another one, and no
\* nonce in use is handed out once more.
CallRecord == [stage : {"idle", "GetNetworkConfig", "GetNonce", "send"}, nonce : Nat \cup {NoNonce}]

CallInv ==
    /\ call \in [Senders -> CallRecord]
    /\ nextNonce \in Int /\ account \in Nat /\ overlapped \in BOOLEAN
    /\ stored \subseteq Nat /\ unsigned \subseteq Nat
    /\ \A s \in Senders : (call[s].stage = "send") <=> (call[s].nonce # NoNonce)

UniqueInv ==
    /\ \A n \in stored \cup unsigned : n < nextNonce /\ \A s \in Senders : call[s].nonce # n
    /\ \A s \in Senders : call[s].stage = "send" =>
          /\ call[s].nonce < nextNonce
          /\ \A t \in Senders : call[t].nonce = call[s].nonce => t = s

CompleteInv ==
    \A n \in account..(nextNonce - 1) :
        n \in stored \cup unsigned \/ \E s \in Senders : call[s].nonce = n

NonceInv == CallInv /\ (overlapped \/ (UniqueInv /\ CompleteInv))
================================================================================
