-------------------------------- MODULE Transfer --------------------------------
(***************************************************************************)
(* One relayer's Ethereum client that sends the transfer of a batch        *)
(* (ExecuteTransfer in clients/ethereum/client.go), together with its gas  *)
(* station (clients/gasManagement/gasStation.go), which polls a service    *)
(* for the price of gas in a goroutine of its own.                         *)
(*                                                                         *)
(* ExecuteTransfer asks one question after another, and while it asks, the *)
(* station changes its price, the contract is paused, other relayers       *)
(* transfer the same batch, and the relayer's own earlier transaction is   *)
(* included.  Module ElrondToEth has all of this in one step; the hash and *)
(* the signatures are modelled there.                                      *)
(***************************************************************************)
EXTENDS Integers, Sequences, FiniteSets

CONSTANTS
    Tokens,               \* the ERC20 tokens
    Batches,              \* the batches, in order: sequences of [token, amount]
    MaxAmount,            \* bound: the amount of a deposit
    SafeFunds,            \* what the safe holds of each token at first
    MaxSafeFunds,         \* bound: what it ever holds
    RelayerFunds,         \* what the relayer holds for fees at first
    MaxNonce,             \* bound: transactions of the relayer
    Prices,               \* the prices that the service reports
    Enabled,              \* GasStation.Enabled of the configuration
    MaximumGasPrice,      \* GasStation.MaximumAllowedGasPrice
    GasPriceMultiplier,   \* GasStation.GasPriceMultiplier
    MaximumFetchRetries,  \* GasStation.MaxFetchRetries
    GasLimitBase,         \* Eth.GasLimitBase
    GasLimitForEach       \* Eth.GasLimitForEach

\* checkArgs of the gas station refuses a multiplier below 1 and fewer than
\* 2 retries.
ASSUME ConstantsAssumption ==
    /\ MaxAmount \in Nat
    /\ Batches \in Seq(Seq([token : Tokens, amount : 0..MaxAmount]))
    /\ SafeFunds \in Nat /\ MaxSafeFunds \in Nat
    /\ RelayerFunds \in Nat /\ MaxNonce \in Nat
    /\ Prices \subseteq Nat /\ Enabled \in BOOLEAN
    /\ MaximumGasPrice \in Nat
    /\ GasPriceMultiplier \in Nat /\ GasPriceMultiplier >= 1
    /\ MaximumFetchRetries \in Nat /\ MaximumFetchRetries >= 2
    /\ GasLimitBase \in Nat /\ GasLimitForEach \in Nat

VARIABLES
    latestGasPrice,  \* of the gas station, or NotFetched
    fetchRetries,    \* failed requests of the station in a row
    call,            \* the call of ExecuteTransfer: its next question and its locals
    contracts,       \* of the ERC20 contracts holder: the token each wrapper asks, or NoWrapper
    paused,          \* the contract is paused
    current,         \* the first batch that is not transferred
    safe,            \* the balances of the safe
    accountNonce,    \* the transactions of the relayer that were included
    balance,         \* the relayer's funds
    pool             \* the relayer's transactions that are not included

stationVars == <<latestGasPrice, fetchRetries>>
chainVars == <<paused, current, safe, accountNonce, balance, pool>>
vars == <<latestGasPrice, fetchRetries, call, contracts,
          paused, current, safe, accountNonce, balance, pool>>

NotFetched == -1
NoWrapper == "no wrapper"
Steps == {"idle", "isPaused", "nonce", "gasPrice", "signatures", "tokens", "funds", "send"}
BatchID == DOMAIN Batches \cup {0}
Call == [pc : Steps, id : BatchID, num : Nat, nonce : Nat, price : Nat, checked : SUBSET Tokens]
Idle == [pc |-> "idle", id |-> 0, num |-> 0, nonce |-> 0, price |-> 0, checked |-> {}]
Tx == [id : BatchID, num : Nat, nonce : Nat, price : Nat]

\* What the first n deposits of batch b need of token t, added up one by one.
M_getCumulatedTransfers(b, n, t) ==
    LET existing[i \in 0..n] == IF i = 0 THEN 0
                                ELSE IF Batches[b][i].token = t THEN Batches[b][i].amount
                                ELSE existing[i - 1]
    IN  existing[n]
getCumulatedTransfers(b, n, t) ==
    LET existing[i \in 0..n] == IF i = 0 THEN 0
                                ELSE IF Batches[b][i].token = t
                                     THEN existing[i - 1] + Batches[b][i].amount
                                ELSE existing[i - 1]
    IN  existing[n]

\* The tokens that the call transfers.
TokensOf(c) == {Batches[c.id][i].token : i \in 1..c.num}

\* The fee for a transfer of n deposits.
Fee(n, price) == (GasLimitBase + n * GasLimitForEach) * price

\* What the contract pays out of token t for them, coin by coin.
Needed(b, n, t) ==
    Cardinality({c \in (1..n) \X (1..MaxAmount) :
                    Batches[b][c[1]].token = t /\ c[2] <= Batches[b][c[1]].amount})

\* In the safe there is enough for them.
Affordable(b, n) == \A t \in Tokens : Needed(b, n, t) <= safe[t]

StationInit == latestGasPrice = NotFetched /\ fetchRetries = 0

ClientInit == call = Idle /\ contracts = [t \in Tokens |-> NoWrapper]

Init ==
    /\ StationInit /\ ClientInit
    /\ paused = FALSE /\ current = 1
    /\ safe = [t \in Tokens |-> SafeFunds]
    /\ accountNonce = 0 /\ balance = RelayerFunds /\ pool = {}

--------------------------------------------------------------------------------
(***************************************************************************)
(* The gas station.  A request that fails leaves the price as it was; a    *)
(* response whose price is not a number clears it, under the lock.         *)
(***************************************************************************)
\* doRequestWithRetryMechanism after a failed request.
M_CountFailure ==
    fetchRetries' = IF fetchRetries <= MaximumFetchRetries THEN fetchRetries + 1 ELSE 0
CountFailure ==
    fetchRetries' = IF fetchRetries + 1 <= MaximumFetchRetries THEN fetchRetries + 1 ELSE 0

FetchPrice ==
    /\ Enabled
    /\ \/ \E p \in Prices : latestGasPrice' = p /\ fetchRetries' = 0
       \/ latestGasPrice' = NotFetched /\ CountFailure
       \/ UNCHANGED latestGasPrice /\ CountFailure
    /\ UNCHANGED <<call, contracts, chainVars>>

\* The price may be used.
M_PriceUsable == latestGasPrice # NotFetched
PriceUsable == latestGasPrice # NotFetched /\ latestGasPrice <= MaximumGasPrice

\* What the station, or the disabled one, answers.
GetCurrentGasPrice == IF Enabled THEN latestGasPrice * GasPriceMultiplier ELSE 0

--------------------------------------------------------------------------------
(***************************************************************************)
(* ExecuteTransfer.  Every question may fail, and then the executor goes   *)
(* back to its first step.                                                 *)
(***************************************************************************)
Return == call' = Idle

\* Step 4 has seen that the stored batch is not transferred and calls
\* ExecuteTransfer.
Begin ==
    /\ call.pc = "idle"
    /\ current \in DOMAIN Batches
    /\ \E n \in 1..Len(Batches[current]) :
          call' = [Idle EXCEPT !.pc = "isPaused", !.id = current, !.num = n]
    /\ UNCHANGED <<stationVars, contracts, chainVars>>

Fail ==
    /\ call.pc # "idle"
    /\ Return
    /\ UNCHANGED <<stationVars, contracts, chainVars>>

CheckPaused ==
    /\ call.pc = "isPaused"
    /\ IF paused THEN Return ELSE call' = [call EXCEPT !.pc = "nonce"]
    /\ UNCHANGED <<stationVars, contracts, chainVars>>

\* The nonce of the account as of the block that is the last one now.
M_getNonce ==
    /\ call.pc = "nonce"
    /\ call' = [call EXCEPT !.pc = "gasPrice", !.nonce = accountNonce + Cardinality(pool)]
    /\ UNCHANGED <<stationVars, contracts, chainVars>>
getNonce ==
    /\ call.pc = "nonce"
    /\ call' = [call EXCEPT !.pc = "gasPrice", !.nonce = accountNonce]
    /\ UNCHANGED <<stationVars, contracts, chainVars>>

ReadGasPrice ==
    /\ call.pc = "gasPrice"
    /\ IF ~ Enabled \/ PriceUsable
       THEN call' = [call EXCEPT !.pc = "signatures", !.price = GetCurrentGasPrice]
       ELSE Return
    /\ UNCHANGED <<stationVars, contracts, chainVars>>

\* There may be too few signatures, which is a failure.
TakeSignatures ==
    /\ call.pc = "signatures"
    /\ call' = [call EXCEPT !.pc = "tokens"]
    /\ UNCHANGED <<stationVars, contracts, chainVars>>

\* The wrapper of a token's contract is made for its first question and kept,
\* whether or not the question is answered then.
WrapperOf(t) == IF contracts[t] = NoWrapper THEN t ELSE contracts[t]

KeepWrapper(t) == contracts' = [contracts EXCEPT ![t] = WrapperOf(t)]

BalanceOf(t) == safe[WrapperOf(t)]

\* One query per token, in the order of the iteration over a map.
checkCumulatedTransfers ==
    /\ call.pc = "tokens"
    /\ \/ \E t \in TokensOf(call) \ call.checked :
             /\ KeepWrapper(t)
             /\ \/ Return
                \/ /\ getCumulatedTransfers(call.id, call.num, t) <= BalanceOf(t)
                   /\ call' = [call EXCEPT !.checked = @ \cup {t}]
       \/ /\ TokensOf(call) \subseteq call.checked
          /\ call' = [call EXCEPT !.pc = "funds"]
          /\ UNCHANGED contracts
    /\ UNCHANGED <<stationVars, chainVars>>

\* The funds for the fee are there now.
checkRelayerFundsForFee ==
    /\ call.pc = "funds"
    /\ IF Fee(call.num, call.price) > balance
       THEN Return
       ELSE call' = [call EXCEPT !.pc = "send"]
    /\ UNCHANGED <<stationVars, contracts, chainVars>>

\* The node refuses a nonce that is used up, and a second transaction with
\* the same nonce unless it pays more.
Accepted ==
    call.nonce >= accountNonce /\ \A tx \in pool : tx.nonce = call.nonce => call.price > tx.price

TransferTx == [id |-> call.id, num |-> call.num, nonce |-> call.nonce, price |-> call.price]

Send ==
    /\ call.pc = "send"
    /\ pool' = IF Accepted THEN {tx \in pool : tx.nonce # call.nonce} \cup {TransferTx}
                           ELSE pool
    /\ Return
    /\ UNCHANGED <<stationVars, contracts, paused, current, safe, accountNonce, balance>>

ExecuteTransfer ==
    \/ Begin \/ Fail \/ CheckPaused \/ getNonce \/ ReadGasPrice \/ TakeSignatures
    \/ checkCumulatedTransfers \/ checkRelayerFundsForFee \/ Send

--------------------------------------------------------------------------------
(***************************************************************************)
(* Ethereum.  The safe pays for nothing but the transfer of the current    *)
(* batch.                                                                  *)
(***************************************************************************)
PayOut(b, n) ==
    /\ safe' = [t \in Tokens |-> safe[t] - Needed(b, n, t)]
    /\ current' = current + 1

\* A transaction of the relayer is included.  It pays for the gas it used,
\* whether or not the contract executes the transfer.
Include ==
    /\ accountNonce < MaxNonce
    /\ \E tx \in pool :
          /\ tx.nonce = accountNonce
          /\ \E used \in 0..Fee(tx.num, tx.price) :
                used <= balance /\ balance' = balance - used
          /\ pool' = {t \in pool : t.nonce > tx.nonce}
          /\ accountNonce' = accountNonce + 1
          /\ IF ~ paused /\ tx.id = current /\ Affordable(tx.id, tx.num)
             THEN PayOut(tx.id, tx.num)
             ELSE UNCHANGED <<safe, current>>
    /\ UNCHANGED <<paused, stationVars, call, contracts>>

\* Another relayer's transfer of the current batch is included.
TransferByAnother ==
    /\ ~ paused
    /\ current \in DOMAIN Batches
    /\ \E n \in 1..Len(Batches[current]) : Affordable(current, n) /\ PayOut(current, n)
    /\ UNCHANGED <<paused, accountNonce, balance, pool, stationVars, call, contracts>>

DepositToSafe ==
    /\ \E t \in Tokens : safe[t] < MaxSafeFunds /\ safe' = [safe EXCEPT ![t] = @ + 1]
    /\ UNCHANGED <<paused, current, accountNonce, balance, pool, stationVars, call, contracts>>

SetPaused ==
    /\ paused' = ~ paused
    /\ UNCHANGED <<current, safe, accountNonce, balance, pool, stationVars, call, contracts>>

Next ==
    \/ FetchPrice \/ ExecuteTransfer
    \/ Include \/ TransferByAnother \/ DepositToSafe \/ SetPaused

Spec == Init /\ [][Next]_vars

--------------------------------------------------------------------------------
(***************************************************************************)
(* Properties.                                                             *)
(***************************************************************************)
\* Every variable keeps its type; the retries of the station their limit.
TypeOK ==
    /\ latestGasPrice \in Prices \cup {NotFetched}
    /\ fetchRetries \in 0..MaximumFetchRetries
    /\ call \in Call
    /\ contracts \in [Tokens -> Tokens \cup {NoWrapper}]
    /\ call.pc # "idle" => call.id \in DOMAIN Batches /\ call.num \in 1..Len(Batches[call.id])
    /\ paused \in BOOLEAN /\ current \in Nat
    /\ safe \in [Tokens -> Int]
    /\ accountNonce \in Nat /\ balance \in Nat
    /\ pool \subseteq Tx

\* A transaction that can be included next can pay its fee, although the
\* relayer may have sent others before it, whose fees were not paid yet when
\* its funds were checked.
FeesCovered ==
    \A tx \in pool : tx.nonce = accountNonce => Fee(tx.num, tx.price) <= balance

\* FeesCovered is inductive with this: no nonce is ahead of the account, and
\* the funds that were checked are still there unless the nonce is used up.
FundsInv ==
    /\ call.nonce <= accountNonce
    /\ call.pc = "send" /\ call.nonce = accountNonce => Fee(call.num, call.price) <= balance
    /\ \A tx \in pool : tx.nonce <= accountNonce

FeesInv == TypeOK /\ FeesCovered /\ FundsInv

\* A transfer that was sent and can still be executed is one that the safe can
\* pay, with all deposits of the same token taken together.
TransfersAffordable ==
    \A tx \in pool : tx.id = current => Affordable(tx.id, tx.num)

\* TransfersAffordable is inductive with this: nothing is sent or prepared for a
\* batch to come, a wrapper asks the token it was made for, and what was checked
\* is there as long as the batch is the current one.
CheckedInv ==
    /\ \A t \in Tokens : contracts[t] \in {NoWrapper, t} /\ safe[t] >= 0
    /\ call.id <= current
    /\ call.id = current => \A t \in call.checked : Needed(call.id, call.num, t) <= safe[t]
    /\ call.pc \in {"funds", "send"} => TokensOf(call) \subseteq call.checked
    /\ \A tx \in pool : tx.id <= current

SafeInv == CheckedInv /\ TransfersAffordable

\* With the station enabled, every price offered is one that the service
\* reported and that the configuration allows, whatever the station fetched in
\* the meantime.
AllowedPrice(price) ==
    \E p \in Prices : p <= MaximumGasPrice /\ price = p * GasPriceMultiplier

PricesAllowed == Enabled => \A tx \in pool : AllowedPrice(tx.price)

\* PricesAllowed is inductive with this: the price that a call has stored was
\* an allowed one when it was read.
PricesInv ==
    /\ PricesAllowed
    /\ Enabled /\ call.pc \in {"signatures", "tokens", "funds", "send"} => AllowedPrice(call.price)
================================================================================
