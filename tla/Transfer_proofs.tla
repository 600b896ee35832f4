----------------------------- MODULE Transfer_proofs -----------------------------
(***************************************************************************)
(* What ExecuteTransfer sends can be paid for, by the relayer and by the   *)
(* safe, for all batches, prices and limits.                               *)
(***************************************************************************)
EXTENDS Transfer, FiniteSetTheorems, TLAPS

\* A fee is a natural number.
LEMMA FeeType == ASSUME NEW n \in Nat, NEW p \in Nat PROVE Fee(n, p) \in Nat
  <1> DEFINE limit == GasLimitBase + n * GasLimitForEach
  <1>1. n * GasLimitForEach \in Nat
    BY ConstantsAssumption
  <1>2. limit \in Nat
    BY <1>1, ConstantsAssumption
  <1> HIDE DEF limit
  <1>3. limit * p \in Nat
    BY <1>2
  <1> QED
    BY <1>3 DEF Fee, limit

\* The coins that the first n deposits of a batch need of a token.
Coins(b, n, t) == {c \in (1..n) \X (1..MaxAmount) :
                      Batches[b][c[1]].token = t /\ c[2] <= Batches[b][c[1]].amount}

\* They are finitely many, and Needed counts them.
LEMMA CoinsFinite ==
    ASSUME NEW b, NEW n \in Nat, NEW t
    PROVE  IsFiniteSet(Coins(b, n, t)) /\ Needed(b, n, t) = Cardinality(Coins(b, n, t))
<1>1. IsFiniteSet(1..n) /\ IsFiniteSet(1..MaxAmount)
  BY FS_Interval, ConstantsAssumption
<1>2. IsFiniteSet((1..n) \X (1..MaxAmount))
  BY <1>1, FS_Product
<1>3. Coins(b, n, t) \in SUBSET ((1..n) \X (1..MaxAmount))
  BY DEF Coins
<1>4. IsFiniteSet(Coins(b, n, t))
  BY <1>2, <1>3, FS_Subset
<1> QED
  BY <1>4 DEF Coins, Needed

\* What the contract pays of a token is a natural number.
LEMMA NeededType == ASSUME NEW b, NEW n \in Nat, NEW t PROVE Needed(b, n, t) \in Nat
  BY CoinsFinite, FS_CardinalityType

\* A batch is a sequence of deposits.
LEMMA BatchType ==
    ASSUME NEW b \in DOMAIN Batches
    PROVE  /\ b \in Nat
           /\ Len(Batches[b]) \in Nat
           /\ \A i \in 1..Len(Batches[b]) : Batches[b][i].token \in Tokens
  <1> DEFINE D == [token : Tokens, amount : 0..MaxAmount]
             s == Batches[b]
  <1>1. Batches \in Seq(Seq(D))
    BY ConstantsAssumption
  <1>2. \A d \in D : d.token \in Tokens
    OBVIOUS
  <1> HIDE DEF D
  <1>3. b \in Nat /\ s \in Seq(D)
    BY <1>1
  <1> HIDE DEF s
  <1>4. Len(s) \in Nat /\ \A i \in 1..Len(s) : s[i] \in D
    BY <1>3
  <1> QED
    BY <1>2, <1>3, <1>4 DEF s

\* Initially nothing is sent and nothing is called.
LEMMA InitFeesInv == Init => FeesInv
  <1>1. Idle \in Call /\ Idle.pc = "idle" /\ Idle.nonce = 0
    BY DEF Idle, Call, Steps, BatchID
  <1> SUFFICES ASSUME Init PROVE FeesInv
    OBVIOUS
  <1>2. FeesCovered /\ FundsInv
    BY <1>1 DEF Init, StationInit, ClientInit, FeesCovered, FundsInv
  <1>3. paused \in BOOLEAN /\ pool \subseteq Tx
    BY DEF Init, StationInit, ClientInit
  <1>4. safe \in [Tokens -> Int] /\ fetchRetries \in 0..MaximumFetchRetries
    BY ConstantsAssumption DEF Init, StationInit, ClientInit
  <1>5. TypeOK
    BY <1>1, <1>3, <1>4, ConstantsAssumption DEF Init, StationInit, ClientInit, TypeOK
  <1> QED
    BY <1>2, <1>5 DEF FeesInv

\* The station's goroutine changes nothing that a call has stored.
LEMMA FetchPriceStep == FeesInv /\ FetchPrice => FeesInv'
  <1> SUFFICES ASSUME FeesInv, FetchPrice PROVE FeesInv'
    OBVIOUS
  <1>1. latestGasPrice' \in Prices \cup {NotFetched} /\ fetchRetries' \in 0..MaximumFetchRetries
    BY ConstantsAssumption DEF FetchPrice, CountFailure, FeesInv, TypeOK
  <1>2. UNCHANGED <<call, contracts, chainVars>>
    BY DEF FetchPrice
  <1> QED
    BY <1>1, <1>2 DEF FeesInv, TypeOK, FeesCovered, FundsInv, chainVars

\* A step of the call that sends nothing.  What it stores has its type, and
\* when it is ready to send, the funds were there.
LEMMA CallStep ==
    ASSUME FeesInv, UNCHANGED <<stationVars, chainVars>>,
           contracts' \in [Tokens -> Tokens \cup {NoWrapper}],
           call' \in Call,
           call'.pc # "idle" =>
              call'.id \in DOMAIN Batches /\ call'.num \in 1..Len(Batches[call'.id]),
           call'.nonce <= accountNonce,
           call'.pc = "send" => Fee(call'.num, call'.price) <= balance
    PROVE  FeesInv'
  BY DEF FeesInv, TypeOK, FeesCovered, FundsInv, stationVars, chainVars

\* The questions of ExecuteTransfer keep the invariant.
LEMMA QuestionStep ==
    ASSUME FeesInv,
           \/ Begin \/ Fail \/ CheckPaused \/ getNonce \/ ReadGasPrice \/ TakeSignatures
           \/ checkCumulatedTransfers \/ checkRelayerFundsForFee
    PROVE  FeesInv'
  <1> USE DEF FeesInv, TypeOK, FundsInv
  <1>1. Idle \in Call /\ Idle.pc = "idle" /\ Idle.nonce <= accountNonce
    BY DEF Idle, Call, Steps, BatchID
  <1>2. ASSUME Return, UNCHANGED <<stationVars, chainVars>>,
               contracts' \in [Tokens -> Tokens \cup {NoWrapper}]
        PROVE  FeesInv'
    BY <1>1, <1>2, CallStep DEF Return
  <1>3. CASE Begin
    <2>1. current \in DOMAIN Batches /\ UNCHANGED <<stationVars, contracts, chainVars>>
      BY <1>3 DEF Begin
    <2>2. PICK n \in 1..Len(Batches[current]) :
              call' = [Idle EXCEPT !.pc = "isPaused", !.id = current, !.num = n]
      BY <1>3 DEF Begin
    <2>3. Len(Batches[current]) \in Nat /\ n \in Nat
      BY <2>1, BatchType
    <2>4. /\ call' = [pc |-> "isPaused", id |-> current, num |-> n, nonce |-> 0,
                      price |-> 0, checked |-> {}]
      BY <2>2 DEF Idle
    <2>5. call' \in Call /\ call'.id = current /\ call'.num = n /\ call'.nonce = 0
          /\ call'.pc = "isPaused"
      BY <2>1, <2>3, <2>4 DEF Call, Steps, BatchID
    <2> QED
      BY <2>1, <2>2, <2>5, CallStep
  <1>4. CASE Fail
    BY <1>2, <1>4 DEF Fail
  <1>5. CASE CheckPaused
    <2>1. CASE paused
      BY <1>2, <1>5, <2>1 DEF CheckPaused
    <2>2. CASE ~ paused
      BY <1>5, <2>2, CallStep DEF CheckPaused, Call, Steps
    <2> QED
      BY <2>1, <2>2
  <1>6. CASE getNonce
    <2>1. UNCHANGED <<stationVars, contracts, chainVars>> /\ call.pc = "nonce" /\ accountNonce \in Nat
      BY <1>6 DEF getNonce
    <2>2. call' = [call EXCEPT !.pc = "gasPrice", !.nonce = accountNonce]
      BY <1>6 DEF getNonce
    <2>3. call' \in Call /\ call'.pc = "gasPrice" /\ call'.nonce <= accountNonce
          /\ call'.id = call.id /\ call'.num = call.num
      <3>1. call \in Call
        OBVIOUS
      <3>2. call' \in Call
        BY <2>1, <2>2, <3>1 DEF Call, Steps
      <3>3. call'.nonce = accountNonce
        BY <2>2, <3>1 DEF Call
      <3> QED
        BY <2>1, <2>2, <3>1, <3>2, <3>3 DEF Call
    <2> QED
      BY <2>1, <2>3, CallStep
  <1>7. CASE ReadGasPrice
    <2>1. UNCHANGED <<stationVars, contracts, chainVars>> /\ call.pc = "gasPrice"
      BY <1>7 DEF ReadGasPrice
    <2>2. CASE ~ Enabled \/ PriceUsable
      <3>1. call' = [call EXCEPT !.pc = "signatures", !.price = GetCurrentGasPrice]
        BY <1>7, <2>2 DEF ReadGasPrice
      <3>2. GetCurrentGasPrice \in Nat
        <4>1. CASE Enabled
          <5>1. latestGasPrice \in Nat
            BY <2>2, <4>1, ConstantsAssumption DEF PriceUsable
          <5>2. latestGasPrice * GasPriceMultiplier \in Nat
            BY <5>1, ConstantsAssumption
          <5> QED
            BY <4>1, <5>2 DEF GetCurrentGasPrice
        <4>2. CASE ~ Enabled
          BY <4>2 DEF GetCurrentGasPrice
        <4> QED
          BY <4>1, <4>2
      <3> QED
        BY <2>1, <3>1, <3>2, CallStep DEF Call, Steps
    <2>3. CASE ~ (~ Enabled \/ PriceUsable)
      BY <1>2, <1>7, <2>1, <2>3 DEF ReadGasPrice
    <2> QED
      BY <2>2, <2>3
  <1>8. CASE TakeSignatures
    BY <1>8, CallStep DEF TakeSignatures, Call, Steps
  <1>9. CASE checkCumulatedTransfers
    <2>1. UNCHANGED <<stationVars, chainVars>> /\ call.pc = "tokens"
      BY <1>9 DEF checkCumulatedTransfers
    <2>2. TokensOf(call) \subseteq Tokens
      BY <2>1, BatchType DEF TokensOf
    <2>3. contracts' \in [Tokens -> Tokens \cup {NoWrapper}]
      <3>1. ASSUME NEW t \in TokensOf(call), KeepWrapper(t)
            PROVE  contracts' \in [Tokens -> Tokens \cup {NoWrapper}]
        BY <2>2, <3>1 DEF KeepWrapper, WrapperOf
      <3> QED
        BY <1>9, <3>1 DEF checkCumulatedTransfers
    <2>4. CASE Return
      BY <1>2, <2>1, <2>3, <2>4
    <2>5. ASSUME NEW t \in TokensOf(call), call' = [call EXCEPT !.checked = @ \cup {t}]
          PROVE  FeesInv'
      BY <2>1, <2>2, <2>3, <2>5, CallStep DEF Call
    <2>6. CASE call' = [call EXCEPT !.pc = "funds"]
      BY <2>1, <2>3, <2>6, CallStep DEF Call, Steps
    <2> QED
      BY <1>9, <2>4, <2>5, <2>6 DEF checkCumulatedTransfers
  <1>10. CASE checkRelayerFundsForFee
    <2>1. UNCHANGED <<stationVars, contracts, chainVars>> /\ call.pc = "funds"
      BY <1>10 DEF checkRelayerFundsForFee
    <2>2. Fee(call.num, call.price) \in Nat
      BY FeeType DEF Call
    <2>3. CASE Fee(call.num, call.price) > balance
      BY <1>2, <1>10, <2>1, <2>3 DEF checkRelayerFundsForFee
    <2>4. CASE ~ (Fee(call.num, call.price) > balance)
      <3>1. call' = [call EXCEPT !.pc = "send"]
        BY <1>10, <2>4 DEF checkRelayerFundsForFee
      <3>2. call' \in Call /\ call'.pc = "send" /\ call'.nonce = call.nonce
            /\ call'.id = call.id /\ call'.num = call.num /\ call'.price = call.price
        BY <3>1 DEF Call, Steps
      <3>3. Fee(call'.num, call'.price) <= balance
        BY <2>2, <2>4, <3>2
      <3> QED
        BY <2>1, <3>2, <3>3, CallStep
    <2> QED
      BY <2>3, <2>4
  <1> QED
    BY <1>3, <1>4, <1>5, <1>6, <1>7, <1>8, <1>9, <1>10

\* What is sent has the nonce and the fee that were checked.
LEMMA SendStep == FeesInv /\ Send => FeesInv'
  <1> SUFFICES ASSUME FeesInv, Send PROVE FeesInv'
    OBVIOUS
  <1> USE DEF FeesInv
  <1>1. /\ call.pc = "send" /\ call' = Idle
        /\ UNCHANGED <<stationVars, contracts, paused, current, safe, accountNonce, balance>>
        /\ pool' \subseteq pool \cup {TransferTx}
    BY DEF Send, Return
  <1>2. TransferTx \in Tx /\ TransferTx.nonce <= accountNonce
    BY DEF TransferTx, Tx, TypeOK, Call, FundsInv
  <1>3. TransferTx.nonce = accountNonce =>
            Fee(TransferTx.num, TransferTx.price) <= balance
    BY <1>1 DEF TransferTx, FundsInv
  <1>4. Idle \in Call /\ Idle.pc = "idle" /\ Idle.nonce <= accountNonce
    BY DEF Idle, Call, Steps, BatchID, TypeOK
  <1>5. TypeOK'
    BY <1>1, <1>2, <1>4 DEF TypeOK, stationVars
  <1>6. FeesCovered'
    BY <1>1, <1>3 DEF FeesCovered
  <1>7. FundsInv'
    BY <1>1, <1>2, <1>4 DEF FundsInv
  <1> QED
    BY <1>5, <1>6, <1>7

\* An inclusion uses up the nonce of everything that was sent or is prepared.
LEMMA IncludeStep == FeesInv /\ Include => FeesInv'
  <1> SUFFICES ASSUME FeesInv, Include PROVE FeesInv'
    OBVIOUS
  <1> USE DEF FeesInv
  <1>1. PICK tx \in pool :
          /\ tx.nonce = accountNonce
          /\ \E used \in 0..Fee(tx.num, tx.price) :
                used <= balance /\ balance' = balance - used
          /\ pool' = {t \in pool : t.nonce > tx.nonce}
          /\ accountNonce' = accountNonce + 1
          /\ IF ~ paused /\ tx.id = current /\ Affordable(tx.id, tx.num)
             THEN PayOut(tx.id, tx.num)
             ELSE UNCHANGED <<safe, current>>
    BY DEF Include
  <1>2. UNCHANGED <<paused, stationVars, call, contracts>>
    BY DEF Include
  <1>3. tx.num \in Nat /\ tx.price \in Nat /\ accountNonce \in Nat /\ balance \in Nat
    BY DEF TypeOK, Tx
  <1>4. balance' \in Nat
    BY <1>1, <1>3, FeeType
  <1>5. pool' = {}
    <2>1. \A t \in pool : t.nonce <= accountNonce /\ t.nonce \in Nat
      BY DEF FundsInv, TypeOK, Tx
    <2> QED
      BY <1>1, <1>3, <2>1
  <1>6. safe' \in [Tokens -> Int] /\ current' \in Nat
    <2>1. CASE PayOut(tx.id, tx.num)
      <3>1. \A t \in Tokens : Needed(tx.id, tx.num, t) \in Nat /\ safe[t] \in Int
        BY <1>3, NeededType DEF TypeOK
      <3> QED
        BY <2>1, <3>1 DEF PayOut, TypeOK
    <2>2. CASE UNCHANGED <<safe, current>>
      BY <2>2 DEF TypeOK
    <2> QED
      BY <1>1, <2>1, <2>2
  <1>7. call.nonce \in Nat /\ call.nonce <= accountNonce
    BY DEF TypeOK, Call, FundsInv
  <1>8. TypeOK'
    BY <1>1, <1>2, <1>3, <1>4, <1>5, <1>6 DEF TypeOK, stationVars
  <1>9. FeesCovered' /\ FundsInv'
    BY <1>1, <1>2, <1>3, <1>5, <1>7 DEF FeesCovered, FundsInv
  <1> QED
    BY <1>8, <1>9

\* The others change neither the account nor what it sent.
LEMMA EnvironmentStep ==
    FeesInv /\ (TransferByAnother \/ DepositToSafe \/ SetPaused) => FeesInv'
  <1> SUFFICES ASSUME FeesInv, TransferByAnother \/ DepositToSafe \/ SetPaused PROVE FeesInv'
    OBVIOUS
  <1> USE DEF FeesInv
  <1>1. UNCHANGED <<accountNonce, balance, pool, stationVars, call, contracts>>
    BY DEF TransferByAnother, DepositToSafe, SetPaused
  <1>2. safe' \in [Tokens -> Int] /\ current' \in Nat /\ paused' \in BOOLEAN
    <2>1. CASE TransferByAnother
      <3>1. PICK n \in 1..Len(Batches[current]) : PayOut(current, n)
        BY <2>1 DEF TransferByAnother
      <3>2. current \in DOMAIN Batches /\ paused' = paused
        BY <2>1 DEF TransferByAnother
      <3>3. n \in Nat
        BY <3>2, BatchType
      <3>4. \A t \in Tokens : Needed(current, n, t) \in Nat /\ safe[t] \in Int
        BY <3>3, NeededType DEF TypeOK
      <3> QED
        BY <3>1, <3>2, <3>4 DEF PayOut, TypeOK
    <2>2. CASE DepositToSafe
      BY <2>2 DEF DepositToSafe, TypeOK
    <2>3. CASE SetPaused
      BY <2>3 DEF SetPaused, TypeOK
    <2> QED
      BY <2>1, <2>2, <2>3
  <1>3. TypeOK'
    BY <1>1, <1>2 DEF TypeOK, stationVars
  <1> QED
    BY <1>1, <1>3 DEF FeesCovered, FundsInv

\* Every step keeps the invariant.
LEMMA NextFeesInv == FeesInv /\ [Next]_vars => FeesInv'
  <1> SUFFICES ASSUME FeesInv, [Next]_vars PROVE FeesInv'
    OBVIOUS
  <1>1. CASE UNCHANGED vars
    BY <1>1 DEF vars, FeesInv, TypeOK, FeesCovered, FundsInv
  <1>2. CASE Next
    BY <1>2, FetchPriceStep, QuestionStep, SendStep, IncludeStep, EnvironmentStep
    DEF Next, ExecuteTransfer
  <1> QED
    BY <1>1, <1>2

\* The types, the nonces and the checked funds of ExecuteTransfer hold in
\* every behaviour.
THEOREM Invariance == Spec => []FeesInv
  BY InitFeesInv, NextFeesInv, PTL DEF Spec

\* The variables of the Ethereum client and of the gas station keep their
\* types, and the station's counter of failures its limit.
THEOREM TypeCorrect == Spec => []TypeOK
  <1>1. FeesInv => TypeOK
    BY DEF FeesInv
  <1> QED
    BY <1>1, Invariance, PTL

\* A transaction of ExecuteTransfer that can be included can pay its fee.
THEOREM FeesAreCovered == Spec => []FeesCovered
  <1>1. FeesInv => FeesCovered
    BY DEF FeesInv
  <1> QED
    BY <1>1, Invariance, PTL

--------------------------------------------------------------------------------
(***************************************************************************)
(* The prices that are offered.                                            *)
(***************************************************************************)
\* A question of ExecuteTransfer sends nothing; the price is stored once.
LEMMA QuestionPrices ==
    ASSUME TypeOK, PricesInv,
           \/ Begin \/ Fail \/ CheckPaused \/ getNonce \/ ReadGasPrice \/ TakeSignatures
           \/ checkCumulatedTransfers \/ checkRelayerFundsForFee
    PROVE  PricesInv'
  <1>1. pool' = pool
    BY DEF Begin, Fail, CheckPaused, getNonce, ReadGasPrice, TakeSignatures,
           checkCumulatedTransfers, checkRelayerFundsForFee, chainVars
  <1>2. PricesAllowed'
    BY <1>1 DEF PricesInv, PricesAllowed, AllowedPrice
  <1>3. call \in Call
    BY DEF TypeOK
  <1>4. Enabled /\ call'.pc \in {"signatures", "tokens", "funds", "send"} =>
            AllowedPrice(call'.price)
    <2>1. CASE Begin
      BY <2>1 DEF Begin, Idle
    <2>2. CASE Fail
      BY <2>2 DEF Fail, Return, Idle
    <2>3. CASE CheckPaused
      BY <1>3, <2>3 DEF CheckPaused, Return, Idle, Call
    <2>4. CASE getNonce
      BY <1>3, <2>4 DEF getNonce, Call
    <2>5. CASE ReadGasPrice
      <3>1. CASE Enabled /\ PriceUsable
        <4>1. call'.price = latestGasPrice * GasPriceMultiplier
          BY <1>3, <2>5, <3>1 DEF ReadGasPrice, GetCurrentGasPrice, Call
        <4>2. latestGasPrice \in Prices /\ latestGasPrice <= MaximumGasPrice
          BY <3>1 DEF PriceUsable, TypeOK
        <4> QED
          BY <4>1, <4>2 DEF AllowedPrice
      <3>2. CASE Enabled /\ ~ PriceUsable
        BY <2>5, <3>2 DEF ReadGasPrice, Return, Idle
      <3> QED
        BY <3>1, <3>2
    <2>6. CASE TakeSignatures
      BY <1>3, <2>6 DEF TakeSignatures, PricesInv, Call
    <2>7. CASE checkCumulatedTransfers
      <3>1. \/ call'.pc = "idle"
            \/ call.pc = "tokens" /\ call'.price = call.price
        BY <1>3, <2>7 DEF checkCumulatedTransfers, Return, Idle, Call
      <3> QED
        BY <3>1 DEF PricesInv
    <2>8. CASE checkRelayerFundsForFee
      <3>1. \/ call'.pc = "idle"
            \/ call.pc = "funds" /\ call'.price = call.price
        BY <1>3, <2>8 DEF checkRelayerFundsForFee, Return, Idle, Call
      <3> QED
        BY <3>1 DEF PricesInv
    <2> QED
      BY <2>1, <2>2, <2>3, <2>4, <2>5, <2>6, <2>7, <2>8
  <1> QED
    BY <1>2, <1>4 DEF PricesInv, AllowedPrice

\* Every step keeps the invariant about prices.
LEMMA NextPricesInv == TypeOK /\ PricesInv /\ [Next]_vars => PricesInv'
  <1> SUFFICES ASSUME TypeOK, PricesInv, [Next]_vars PROVE PricesInv'
    OBVIOUS
  <1>1. CASE Send
    <2>1. call.pc = "send" /\ call'.pc = "idle" /\ pool' \subseteq pool \cup {TransferTx}
      BY <1>1 DEF Send, Return, Idle
    <2>2. TransferTx.price = call.price
      BY DEF TransferTx
    <2>3. Enabled => \A tx \in pool' : AllowedPrice(tx.price)
      BY <2>1, <2>2 DEF PricesInv, PricesAllowed
    <2> QED
      BY <2>1, <2>3 DEF PricesInv, PricesAllowed, AllowedPrice
  <1>2. ASSUME call' = call, pool' \subseteq pool PROVE PricesInv'
    BY <1>2 DEF PricesInv, PricesAllowed, AllowedPrice
  <1>3. CASE FetchPrice \/ TransferByAnother \/ DepositToSafe \/ SetPaused \/ UNCHANGED vars
    <2>1. call' = call /\ pool' = pool
      BY <1>3 DEF FetchPrice, TransferByAnother, DepositToSafe, SetPaused, chainVars, vars
    <2> QED
      BY <1>2, <2>1
  <1>4. CASE Include
    <2>1. call' = call /\ pool' \subseteq pool
      BY <1>4 DEF Include
    <2> QED
      BY <1>2, <2>1
  <1> QED
    BY <1>1, <1>3, <1>4, QuestionPrices DEF Next, ExecuteTransfer

\* Whatever the gas station fetches while ExecuteTransfer asks its other
\* questions, the price of a transaction that is sent was reported by the
\* service and does not exceed the configured maximum.
THEOREM PricesAreAllowed == Spec => []PricesAllowed
  <1>1. Init => PricesInv
    BY DEF Init, ClientInit, Idle, PricesInv, PricesAllowed
  <1>2. PricesInv => PricesAllowed
    BY DEF PricesInv
  <1> QED
    BY <1>1, <1>2, NextPricesInv, TypeCorrect, PTL DEF Spec

--------------------------------------------------------------------------------
(***************************************************************************)
(* The safe can pay what is sent.  The library's induction theorems take   *)
(* an operator, which no backend can instantiate; its theorem on minimal   *)
(* elements of well-founded sets takes a set and serves as well.           *)
(***************************************************************************)
\* Every nonempty set of natural numbers has a least element.
LEMMA LeastNatural ==
    ASSUME NEW S, S \subseteq Nat, S # {}
    PROVE  \E n \in S : \A m \in S : n <= m
<1> DEFINE R == {ss \in Nat \X Nat : ss[1] < ss[2]}
<1>1. IsWellFoundedOn(R, Nat)
  BY NatLessThanWellFounded DEF OpToRel
<1>2. \A m, n \in Nat : m < n => <<m, n>> \in R
  OBVIOUS
<1> HIDE DEF R
<1>3. \E n \in S : \A m \in S : ~ (<<m, n>> \in R)
  BY <1>1, WFMin
<1>4. ASSUME NEW m \in S, NEW n \in S, ~ (<<m, n>> \in R) PROVE n <= m
  BY <1>2, <1>4
<1> QED
  BY <1>3, <1>4

\* Induction up to n, for a set.
LEMMA UpTo ==
    ASSUME NEW n \in Nat, NEW S, 0 \in S, \A i \in 1..n : i - 1 \in S => i \in S
    PROVE  0..n \subseteq S
<1> SUFFICES ASSUME (0..n) \ S # {} PROVE FALSE
  OBVIOUS
<1>0. (0..n) \ S \subseteq Nat
  OBVIOUS
<1>1. PICK i \in (0..n) \ S : \A j \in (0..n) \ S : i <= j
  BY <1>0, LeastNatural
<1>2. i \in 1..n /\ i - 1 \in 0..n /\ i - 1 \in S
  BY <1>1
<1> QED
  BY <1>1, <1>2

\* The amounts in a batch.
LEMMA AmountType ==
    ASSUME NEW b \in DOMAIN Batches, NEW i \in 1..Len(Batches[b])
    PROVE  Batches[b][i].amount \in 0..MaxAmount
<1> DEFINE D == [token : Tokens, amount : 0..MaxAmount]
           s == Batches[b]
<1>1. Batches \in Seq(Seq(D))
  BY ConstantsAssumption
<1>2. \A d \in D : d.amount \in 0..MaxAmount
  OBVIOUS
<1> HIDE DEF D
<1>3. s \in Seq(D)
  BY <1>1
<1> HIDE DEF s
<1>4. \A j \in 1..Len(s) : s[j] \in D
  BY <1>3
<1> QED
  BY <1>2, <1>4 DEF s

\* One deposit more needs its amount more, if it is of the token.
LEMMA NeededOneMore ==
    ASSUME NEW b \in DOMAIN Batches, NEW i \in 1..Len(Batches[b]), NEW t
    PROVE  Needed(b, i, t) = IF Batches[b][i].token = t
                             THEN Needed(b, i - 1, t) + Batches[b][i].amount
                             ELSE Needed(b, i - 1, t)
<1> DEFINE d == Batches[b][i]
           old == Coins(b, i - 1, t)
           new == {i} \X (1..d.amount)
<1>1. i \in Nat /\ i - 1 \in Nat /\ d.amount \in 0..MaxAmount /\ MaxAmount \in Nat
  BY BatchType, AmountType, ConstantsAssumption
<1>2. IsFiniteSet(old) /\ Needed(b, i - 1, t) = Cardinality(old)
  BY <1>1, CoinsFinite
<1>3. Needed(b, i, t) = Cardinality(Coins(b, i, t))
  BY <1>1, CoinsFinite
<1>4. CASE d.token = t
  <2>1. Coins(b, i, t) = old \cup new
    <3>1. \A c \in (1..i) \X (1..MaxAmount) : c[1] = i \/ c[1] \in 1..(i - 1)
      BY <1>1
    <3>2. Coins(b, i, t) \subseteq old \cup new
      BY <1>1, <3>1 DEF Coins
    <3>3. old \cup new \subseteq Coins(b, i, t)
      BY <1>1, <1>4 DEF Coins
    <3> QED
      BY <3>2, <3>3
  <2>2. old \cap new = {}
    BY <1>1 DEF Coins
  <2>3. IsFiniteSet({i}) /\ Cardinality({i}) = 1
    BY FS_Singleton
  <2>4. IsFiniteSet(1..d.amount) /\ Cardinality(1..d.amount) = d.amount
    <3>1. d.amount \in Int /\ 1 \in Int /\ (1 > d.amount => d.amount = 0)
      BY <1>1
    <3> HIDE DEF d
    <3>2. d.amount - 1 + 1 = d.amount
      BY <3>1
    <3> QED
      BY <3>1, <3>2, FS_Interval
  <2>5. IsFiniteSet(new) /\ Cardinality(new) = 1 * d.amount
    BY <2>3, <2>4, FS_Product
  <2> HIDE DEF d, old, new
  <2>6. Cardinality(old \cup new) = Cardinality(old) + Cardinality(new) - Cardinality({})
    BY <1>2, <2>2, <2>5, FS_Union
  <2>7. Cardinality({}) = 0 /\ Cardinality(old) \in Nat
    BY <1>2, FS_EmptySet, FS_CardinalityType
  <2>8. Cardinality(old \cup new) = Cardinality(old) + d.amount
    BY <1>1, <2>5, <2>6, <2>7
  <2> QED
    BY <1>2, <1>3, <1>4, <2>1, <2>8 DEF d
<1>5. CASE d.token # t
  <2>1. Coins(b, i, t) \subseteq old
    <3>1. \A c \in Coins(b, i, t) : c[1] # i /\ c[1] \in 1..(i - 1)
      BY <1>1, <1>5 DEF Coins
    <3> QED
      BY <3>1 DEF Coins
  <2>2. old \subseteq Coins(b, i, t)
    BY <1>1 DEF Coins
  <2>3. Coins(b, i, t) = old
    BY <2>1, <2>2
  <2> HIDE DEF old
  <2> QED
    BY <1>2, <1>3, <1>5, <2>3
<1> QED
  BY <1>4, <1>5

\* The sum that getCumulatedTransfers computes is what the contract pays.
LEMMA CumulatedIsNeeded ==
    ASSUME NEW b \in DOMAIN Batches, NEW n \in 1..Len(Batches[b]), NEW t
    PROVE  getCumulatedTransfers(b, n, t) = Needed(b, n, t)
<1> DEFINE Step(f, i) == IF i = 0 THEN 0
                         ELSE IF Batches[b][i].token = t
                              THEN f[i - 1] + Batches[b][i].amount
                         ELSE f[i - 1]
           needed == [i \in 0..n |-> Needed(b, i, t)]
           existing == CHOOSE f : f = [i \in 0..n |-> Step(f, i)]
<1>1. n \in Nat /\ \A i \in 1..n : i \in 1..Len(Batches[b])
  BY BatchType
<1>2. Needed(b, 0, t) = 0
  <2>1. Coins(b, 0, t) = {}
    BY DEF Coins
  <2> QED
    BY <2>1, CoinsFinite, FS_EmptySet
<1>3. \A i \in 1..n : Needed(b, i, t) = IF Batches[b][i].token = t
                                        THEN Needed(b, i - 1, t) + Batches[b][i].amount
                                        ELSE Needed(b, i - 1, t)
  BY <1>1, NeededOneMore
<1>4. needed = [i \in 0..n |-> Step(needed, i)]
  <2>1. ASSUME NEW i \in 0..n PROVE Needed(b, i, t) = Step(needed, i)
    <3>1. CASE i = 0
      BY <1>2, <3>1
    <3>2. CASE i # 0
      <4>1. i \in 1..n /\ i - 1 \in 0..n
        BY <1>1, <3>2
      <4>2. needed[i - 1] = Needed(b, i - 1, t)
        BY <4>1
      <4> QED
        BY <1>3, <3>2, <4>1, <4>2
    <3> QED
      BY <3>1, <3>2
  <2> QED
    BY <2>1
<1>5. existing = [i \in 0..n |-> Step(existing, i)]
  <2> HIDE DEF needed
  <2> QED
    BY <1>4
<1> DEFINE S == {i \in 0..n : existing[i] = Needed(b, i, t)}
<1>6. 0 \in S
  <2> HIDE DEF existing
  <2> QED
    BY <1>1, <1>2, <1>5
<1>7. \A i \in 1..n : i - 1 \in S => i \in S
  <2> HIDE DEF existing
  <2> SUFFICES ASSUME NEW i \in 1..n, i - 1 \in S PROVE i \in S
    OBVIOUS
  <2>1. i \in 0..n /\ i # 0 /\ existing[i - 1] = Needed(b, i - 1, t)
    BY <1>1
  <2>2. existing[i] = Step(existing, i)
    BY <1>5, <2>1
  <2>3. existing[i] = Needed(b, i, t)
    BY <1>3, <2>1, <2>2
  <2> QED
    BY <2>1, <2>3
<1>8. existing[n] = Needed(b, n, t)
  <2> HIDE DEF existing
  <2>1. 0..n \subseteq S
    <3> HIDE DEF S
    <3> QED
      BY <1>1, <1>6, <1>7, UpTo
  <2>2. n \in S
    BY <1>1, <2>1
  <2> QED
    BY <2>2
<1>9. getCumulatedTransfers(b, n, t) = existing[n]
  BY DEF getCumulatedTransfers
<1> QED
  BY <1>8, <1>9

\* When every token of the call was checked, the safe can pay the call.
LEMMA CheckedIsAffordable ==
    ASSUME TypeOK, CheckedInv, call.pc = "send", call.id = current
    PROVE  Affordable(call.id, call.num)
<1> SUFFICES ASSUME NEW t \in Tokens PROVE Needed(call.id, call.num, t) <= safe[t]
  BY DEF Affordable
<1>1. TokensOf(call) \subseteq call.checked
  BY DEF CheckedInv
<1>2. CASE t \in TokensOf(call)
  BY <1>1, <1>2 DEF CheckedInv
<1>3. CASE t \notin TokensOf(call)
  <2>1. call.num \in Nat
    BY DEF TypeOK, Call
  <2>2. \A i \in 1..call.num : Batches[call.id][i].token # t
    BY <1>3 DEF TokensOf
  <2>3. Coins(call.id, call.num, t) = {}
    BY <2>2 DEF Coins
  <2>4. Needed(call.id, call.num, t) = 0
    BY <2>1, <2>3, CoinsFinite, FS_EmptySet
  <2>5. safe[t] \in Int /\ safe[t] >= 0
    BY DEF TypeOK, CheckedInv
  <2> QED
    BY <2>4, <2>5
<1> QED
  BY <1>2, <1>3

\* A step of the call that sends nothing.
LEMMA CallSafeInv ==
    ASSUME SafeInv, UNCHANGED chainVars,
           \A t \in Tokens : contracts'[t] \in {NoWrapper, t},
           call'.id <= current,
           call'.id = current =>
              \A t \in call'.checked : Needed(call'.id, call'.num, t) <= safe[t],
           call'.pc \in {"funds", "send"} => TokensOf(call') \subseteq call'.checked
    PROVE  SafeInv'
<1>1. TransfersAffordable'
  BY DEF SafeInv, TransfersAffordable, Affordable, chainVars
<1>2. TokensOf(call)' = TokensOf(call')
  BY DEF TokensOf
<1>3. CheckedInv'
  BY <1>2 DEF SafeInv, CheckedInv, chainVars
<1> QED
  BY <1>1, <1>3 DEF SafeInv

\* The questions of ExecuteTransfer: a balance that was read stays as long as the
\* batch is not transferred.
LEMMA QuestionSafeInv ==
    ASSUME TypeOK, SafeInv,
           \/ Begin \/ Fail \/ CheckPaused \/ getNonce \/ ReadGasPrice \/ TakeSignatures
           \/ checkCumulatedTransfers \/ checkRelayerFundsForFee
    PROVE  SafeInv'
<1>1. call \in Call /\ current \in Nat /\ contracts \in [Tokens -> Tokens \cup {NoWrapper}]
  BY DEF TypeOK
<1>2. CheckedInv
  BY DEF SafeInv
<1>3. ASSUME call' = Idle, UNCHANGED chainVars, \A t \in Tokens : contracts'[t] \in {NoWrapper, t}
      PROVE  SafeInv'
  <2>1. call'.id = 0 /\ call'.pc = "idle" /\ call'.checked = {}
    BY <1>3 DEF Idle
  <2> QED
    BY <1>1, <1>3, <2>1, CallSafeInv
<1>4. ASSUME UNCHANGED <<contracts, chainVars>>, call'.id = call.id, call'.num = call.num,
             call'.checked = call.checked,
             call'.pc \in {"funds", "send"} =>
                call.pc \in {"funds", "send"} \/ TokensOf(call) \subseteq call.checked
      PROVE  SafeInv'
  <2>1. TokensOf(call') = TokensOf(call)
    BY <1>4 DEF TokensOf
  <2>2. call'.pc \in {"funds", "send"} => TokensOf(call') \subseteq call'.checked
    BY <1>2, <1>4, <2>1 DEF CheckedInv
  <2>3. /\ call'.id <= current
        /\ call'.id = current =>
              \A t \in call'.checked : Needed(call'.id, call'.num, t) <= safe[t]
        /\ \A t \in Tokens : contracts'[t] \in {NoWrapper, t}
    BY <1>2, <1>4 DEF CheckedInv
  <2> QED
    BY <1>4, <2>2, <2>3, CallSafeInv
<1>5. CASE Begin
  <2>1. PICK n \in 1..Len(Batches[current]) :
           call' = [Idle EXCEPT !.pc = "isPaused", !.id = current, !.num = n]
    BY <1>5 DEF Begin
  <2>2. call'.id = current /\ call'.pc = "isPaused" /\ call'.checked = {}
    BY <2>1 DEF Idle
  <2>3. UNCHANGED <<contracts, chainVars>>
    BY <1>5 DEF Begin
  <2>4. \A t \in Tokens : contracts'[t] \in {NoWrapper, t}
    BY <1>2, <2>3 DEF CheckedInv
  <2> QED
    BY <1>1, <2>2, <2>3, <2>4, CallSafeInv
<1>6. CASE Fail
  BY <1>2, <1>3, <1>6 DEF Fail, Return, CheckedInv
<1>7. CASE CheckPaused
  <2>1. UNCHANGED <<contracts, chainVars>>
    BY <1>7 DEF CheckPaused
  <2>2. CASE paused
    BY <1>2, <1>3, <1>7, <2>1, <2>2 DEF CheckPaused, Return, CheckedInv
  <2>3. CASE ~ paused
    BY <1>1, <1>4, <1>7, <2>1, <2>3 DEF CheckPaused, Call
  <2> QED
    BY <2>2, <2>3
<1>8. CASE getNonce
  <2>1. call' = [call EXCEPT !.pc = "gasPrice", !.nonce = accountNonce]
        /\ UNCHANGED <<contracts, chainVars>>
    BY <1>8 DEF getNonce
  <2> QED
    BY <1>1, <1>4, <2>1 DEF Call
<1>9. CASE ReadGasPrice
  <2>1. UNCHANGED <<contracts, chainVars>>
    BY <1>9 DEF ReadGasPrice
  <2>2. CASE call' = Idle
    BY <1>2, <1>3, <2>1, <2>2 DEF CheckedInv
  <2>3. CASE call' = [call EXCEPT !.pc = "signatures", !.price = GetCurrentGasPrice]
    BY <1>1, <1>4, <2>1, <2>3 DEF Call
  <2> QED
    BY <1>9, <2>2, <2>3 DEF ReadGasPrice, Return
<1>10. CASE TakeSignatures
  <2>1. call' = [call EXCEPT !.pc = "tokens"] /\ UNCHANGED <<contracts, chainVars>>
    BY <1>10 DEF TakeSignatures
  <2> QED
    BY <1>1, <1>4, <2>1 DEF Call
<1>11. CASE checkCumulatedTransfers
  <2>1. UNCHANGED chainVars /\ call.pc = "tokens"
    BY <1>11 DEF checkCumulatedTransfers
  <2>2. call.id \in DOMAIN Batches /\ call.num \in 1..Len(Batches[call.id])
    BY <2>1 DEF TypeOK
  <2>3. ASSUME NEW t \in TokensOf(call), KeepWrapper(t),
               \/ Return
               \/ /\ getCumulatedTransfers(call.id, call.num, t) <= BalanceOf(t)
                  /\ call' = [call EXCEPT !.checked = @ \cup {t}]
        PROVE  SafeInv'
    <3>1. t \in Tokens
      BY <2>2, BatchType DEF TokensOf
    <3>2. WrapperOf(t) = t
      BY <1>2, <3>1 DEF WrapperOf, CheckedInv
    <3>3. \A u \in Tokens : contracts'[u] \in {NoWrapper, u}
      BY <1>1, <1>2, <2>3, <3>1, <3>2 DEF KeepWrapper, CheckedInv
    <3>4. CASE Return
      BY <1>3, <2>1, <3>3, <3>4 DEF Return
    <3>5. CASE /\ getCumulatedTransfers(call.id, call.num, t) <= BalanceOf(t)
               /\ call' = [call EXCEPT !.checked = @ \cup {t}]
      <4>1. Needed(call.id, call.num, t) <= safe[t]
        BY <2>2, <3>2, <3>5, CumulatedIsNeeded DEF BalanceOf
      <4>2. /\ call'.id = call.id /\ call'.num = call.num /\ call'.pc = "tokens"
            /\ call'.checked = call.checked \cup {t}
        BY <1>1, <2>1, <3>5 DEF Call
      <4>3. call'.id <= current
        BY <1>2, <4>2 DEF CheckedInv
      <4>4. call'.id = current =>
               \A u \in call'.checked : Needed(call'.id, call'.num, u) <= safe[u]
        BY <1>2, <4>1, <4>2 DEF CheckedInv
      <4> QED
        BY <2>1, <3>3, <4>2, <4>3, <4>4, CallSafeInv
    <3> QED
      BY <2>3, <3>4, <3>5
  <2>4. CASE /\ TokensOf(call) \subseteq call.checked
             /\ call' = [call EXCEPT !.pc = "funds"]
             /\ UNCHANGED contracts
    BY <1>1, <1>4, <2>1, <2>4 DEF Call
  <2> QED
    BY <1>11, <2>3, <2>4 DEF checkCumulatedTransfers
<1>12. CASE checkRelayerFundsForFee
  <2>1. UNCHANGED <<contracts, chainVars>> /\ call.pc = "funds"
    BY <1>12 DEF checkRelayerFundsForFee
  <2>2. CASE call' = Idle
    BY <1>2, <1>3, <2>1, <2>2 DEF CheckedInv
  <2>3. CASE call' = [call EXCEPT !.pc = "send"]
    BY <1>1, <1>4, <2>1, <2>3 DEF Call
  <2> QED
    BY <1>12, <2>2, <2>3 DEF checkRelayerFundsForFee, Return
<1> QED
  BY <1>5, <1>6, <1>7, <1>8, <1>9, <1>10, <1>11, <1>12

\* A transfer of the current batch makes the next one current, so that nothing is
\* left that was checked for the current batch.
LEMMA PayOutSafeInv ==
    ASSUME TypeOK, SafeInv, NEW n \in Nat, Affordable(current, n), PayOut(current, n),
           UNCHANGED <<call, contracts>>, pool' \subseteq pool
    PROVE  SafeInv'
<1>1. current \in Nat /\ current' = current + 1
  BY DEF TypeOK, PayOut
<1>2. \A t \in Tokens : safe'[t] >= 0
  <2> SUFFICES ASSUME NEW t \in Tokens PROVE safe'[t] >= 0
    OBVIOUS
  <2>1. safe'[t] = safe[t] - Needed(current, n, t) /\ Needed(current, n, t) <= safe[t]
    BY DEF PayOut, Affordable
  <2>2. safe[t] \in Int /\ Needed(current, n, t) \in Nat
    BY NeededType DEF TypeOK
  <2> QED
    BY <2>1, <2>2
<1>3. call.id \in Int /\ call.id < current' /\ \A tx \in pool' : tx.id \in Int /\ tx.id < current'
  <2>1. \A b \in BatchID : b \in Int
    BY BatchType DEF BatchID
  <2>2. call.id \in BatchID /\ \A tx \in pool : tx.id \in BatchID
    BY DEF TypeOK, Call, Tx
  <2>3. call.id <= current /\ \A tx \in pool : tx.id <= current
    BY DEF SafeInv, CheckedInv
  <2> QED
    BY <1>1, <2>1, <2>2, <2>3
<1>4. CheckedInv'
  <2>1. TokensOf(call)' = TokensOf(call)
    BY DEF TokensOf
  <2> QED
    BY <1>1, <1>2, <1>3, <2>1 DEF SafeInv, CheckedInv
<1>5. TransfersAffordable'
  BY <1>1, <1>3 DEF TransfersAffordable
<1> QED
  BY <1>4, <1>5 DEF SafeInv

\* Every step keeps it.
LEMMA NextSafeInv == TypeOK /\ SafeInv /\ [Next]_vars => SafeInv'
<1> SUFFICES ASSUME TypeOK, SafeInv, [Next]_vars PROVE SafeInv'
  OBVIOUS
<1>0. TokensOf(call)' = TokensOf(call')
  BY DEF TokensOf
<1>1. ASSUME UNCHANGED <<call, contracts, current>>, pool' \subseteq pool,
             \A t \in Tokens : safe'[t] \in Int /\ safe[t] <= safe'[t]
      PROVE  SafeInv'
  <2>1. \A t \in Tokens : safe[t] \in Int
    BY DEF TypeOK
  <2>2. \A t \in Tokens : \A n \in Nat : n <= safe[t] => n <= safe'[t]
    BY <1>1, <2>1
  <2>3. call.num \in Nat /\ call.checked \subseteq Tokens /\ \A tx \in pool : tx.num \in Nat
    BY DEF TypeOK, Call, Tx
  <2>4. \A b, t : \A n \in Nat : Needed(b, n, t) \in Nat
    BY NeededType
  <2>5. \A t \in Tokens : safe'[t] >= 0
    BY <1>1, <2>1 DEF SafeInv, CheckedInv
  <2>6. \A b : \A n \in Nat : Affordable(b, n) => Affordable(b, n)'
    BY <2>2, <2>4 DEF Affordable
  <2>7. TransfersAffordable'
    BY <1>1, <2>3, <2>6 DEF SafeInv, TransfersAffordable
  <2>8. call.id = current => \A t \in call.checked : Needed(call.id, call.num, t) <= safe'[t]
    BY <2>2, <2>3, <2>4 DEF SafeInv, CheckedInv
  <2>9. CheckedInv'
    BY <1>0, <1>1, <2>5, <2>8 DEF SafeInv, CheckedInv
  <2> QED
    BY <2>7, <2>9 DEF SafeInv
<1>2. CASE Send
  <2>1. /\ call.pc = "send" /\ call' = Idle /\ pool' \subseteq pool \cup {TransferTx}
        /\ UNCHANGED <<contracts, current, safe>>
    BY <1>2 DEF Send, Return
  <2>2. TransferTx.id = call.id /\ TransferTx.num = call.num
    BY DEF TransferTx
  <2>3. call'.id = 0 /\ call'.pc = "idle" /\ call'.checked = {} /\ 0 <= current
    BY <2>1 DEF Idle, TypeOK
  <2>4. \A tx \in pool' : tx.id <= current'
    BY <2>1, <2>2 DEF SafeInv, CheckedInv
  <2>5. CheckedInv'
    BY <2>1, <2>3, <2>4 DEF SafeInv, CheckedInv
  <2>6. call.id = current => Affordable(call.id, call.num)
    BY <2>1, CheckedIsAffordable DEF SafeInv
  <2>7. \A tx \in pool' : tx.id = current => Affordable(tx.id, tx.num)
    BY <2>1, <2>2, <2>6 DEF SafeInv, TransfersAffordable
  <2>8. \A b, n : Affordable(b, n) => Affordable(b, n)'
    BY <2>1 DEF Affordable
  <2>9. TransfersAffordable'
    BY <2>1, <2>7, <2>8 DEF TransfersAffordable
  <2> QED
    BY <2>5, <2>9 DEF SafeInv
<1>3. CASE Include
  <2>1. PICK tx \in pool :
          /\ pool' = {t \in pool : t.nonce > tx.nonce}
          /\ IF ~ paused /\ tx.id = current /\ Affordable(tx.id, tx.num)
             THEN PayOut(tx.id, tx.num)
             ELSE UNCHANGED <<safe, current>>
    BY <1>3 DEF Include
  <2>2. UNCHANGED <<call, contracts>> /\ tx.num \in Nat /\ pool' \subseteq pool
    BY <1>3, <2>1 DEF Include, TypeOK, Tx
  <2>3. CASE tx.id = current /\ Affordable(tx.id, tx.num) /\ PayOut(tx.id, tx.num)
    BY <2>2, <2>3, PayOutSafeInv
  <2>4. CASE UNCHANGED <<safe, current>>
    <3>1. \A t \in Tokens : safe'[t] \in Int /\ safe[t] <= safe'[t]
      BY <2>4 DEF TypeOK
    <3> QED
      BY <1>1, <2>2, <2>4, <3>1
  <2> QED
    BY <2>1, <2>3, <2>4
<1>4. CASE TransferByAnother
  <2>1. PICK n \in 1..Len(Batches[current]) : Affordable(current, n) /\ PayOut(current, n)
    BY <1>4 DEF TransferByAnother
  <2>2. current \in DOMAIN Batches /\ UNCHANGED <<call, contracts, pool>>
    BY <1>4 DEF TransferByAnother
  <2>3. n \in Nat
    BY <2>2, BatchType
  <2> QED
    BY <2>1, <2>2, <2>3, PayOutSafeInv
<1>5. CASE DepositToSafe
  <2>1. UNCHANGED <<call, contracts, current, pool>>
    BY <1>5 DEF DepositToSafe
  <2>2. \A t \in Tokens : safe'[t] \in Int /\ safe[t] <= safe'[t]
    BY <1>5 DEF DepositToSafe, TypeOK
  <2> QED
    BY <1>1, <2>1, <2>2
<1>6. CASE FetchPrice \/ SetPaused \/ UNCHANGED vars
  <2>1. UNCHANGED <<call, contracts, current, safe, pool>>
    BY <1>6 DEF FetchPrice, SetPaused, chainVars, vars
  <2>2. \A t \in Tokens : safe'[t] \in Int /\ safe[t] <= safe'[t]
    BY <2>1 DEF TypeOK
  <2> QED
    BY <1>1, <2>1, <2>2
<1> QED
  BY <1>2, <1>3, <1>4, <1>5, <1>6, QuestionSafeInv DEF Next, ExecuteTransfer

\* A transfer that is sent and can still be executed is one that the safe can
\* pay: what checkCumulatedTransfers compared with the balances is the sum of the
\* batch's deposits, and a balance falls only when the batch is transferred.
THEOREM TransfersAreAffordable == Spec => []TransfersAffordable
<1>1. Init => SafeInv
  BY ConstantsAssumption
  DEF Init, ClientInit, Idle, SafeInv, CheckedInv, TransfersAffordable, TokensOf
<1>2. SafeInv => TransfersAffordable
  BY DEF SafeInv
<1> QED
  BY <1>1, <1>2, NextSafeInv, TypeCorrect, PTL DEF Spec
================================================================================
