----------------------------- MODULE Process_proofs -----------------------------
(***************************************************************************)
(* The life of a process and its Elrond transactions, for all              *)
(* configurations and any number of senders, transactions and failures.    *)
(***************************************************************************)
EXTENDS Process, TLAPS

(***************************************************************************)
(* The nonces.                                                             *)
(***************************************************************************)
\* The stages of a call follow each other.
LEMMA StagesInOrder ==
    /\ After["idle"] = "GetNetworkConfig"
    /\ After["GetNetworkConfig"] = "GetNonce"
    /\ After["GetNonce"] = "send"
  BY DEF After

\* One call changes: what it becomes, and that nothing happens to the others.
LEMMA CallChanges ==
    ASSUME CallInv, NEW s \in Senders, NEW new \in CallRecord,
           (new.stage = "send") <=> (new.nonce # NoNonce),
           call' = [call EXCEPT ![s] = new],
           nextNonce' \in Int, account' \in Nat, overlapped' \in BOOLEAN,
           stored' \subseteq Nat, unsigned' \subseteq Nat
    PROVE  /\ CallInv'
           /\ call'[s] = new /\ \A x \in Senders \ {s} : call'[x] = call[x]
<1>1. call' \in [Senders -> CallRecord] /\ call'[s] = new
      /\ \A x \in Senders \ {s} : call'[x] = call[x]
  BY DEF CallInv
<1>2. \A x \in Senders : (call'[x].stage = "send") <=> (call'[x].nonce # NoNonce)
  BY <1>1 DEF CallInv
<1> QED
  BY <1>1, <1>2 DEF CallInv

\* A call that returns holds nothing.
LEMMA IdleCall == Idle \in CallRecord /\ Idle.stage # "send" /\ Idle.nonce = NoNonce
  BY DEF Idle, CallRecord

\* A call without a nonce goes on or returns.
LEMMA CallWithoutNonce ==
    ASSUME NonceInv, NEW s \in Senders, call[s].stage \in {"idle", "GetNetworkConfig", "GetNonce"},
           (Proceed(s) /\ call[s].stage # "GetNonce") \/ ReturnError(s),
           UNCHANGED <<handlerVars, networkVars, historyVars>>
    PROVE  NonceInv'
<1>0. CallInv /\ UNCHANGED <<nextNonce, stored, account, unsigned, overlapped>>
  BY DEF NonceInv, handlerVars, networkVars, historyVars
<1>1. call[s] \in CallRecord /\ call[s].nonce = NoNonce
  BY <1>0 DEF CallInv
<1>2. PICK new \in CallRecord : /\ call' = [call EXCEPT ![s] = new]
                                /\ new.nonce = NoNonce /\ new.stage # "send"
  <2>1. CASE ReturnError(s)
    BY <2>1, IdleCall DEF ReturnError
  <2>2. CASE Proceed(s) /\ call[s].stage # "GetNonce"
    <3>1. call' = [call EXCEPT ![s] = [call[s] EXCEPT !.stage = After[call[s].stage]]]
      BY <2>2 DEF Proceed
    <3>2. After[call[s].stage] \in {"GetNetworkConfig", "GetNonce"}
      BY <2>2, StagesInOrder
    <3>3. [call[s] EXCEPT !.stage = After[call[s].stage]] \in CallRecord
      BY <1>1, <3>2 DEF CallRecord
    <3>4. /\ [call[s] EXCEPT !.stage = After[call[s].stage]].nonce = NoNonce
          /\ [call[s] EXCEPT !.stage = After[call[s].stage]].stage # "send"
      BY <1>1, <3>2 DEF CallRecord
    <3> QED
      BY <3>1, <3>3, <3>4
  <2> QED
    BY <2>1, <2>2
<1>3. CallInv' /\ call'[s] = new /\ \A x \in Senders \ {s} : call'[x] = call[x]
  BY <1>0, <1>2, CallChanges DEF CallInv
<1>4. \A x \in Senders : /\ call'[x].nonce = call[x].nonce
                         /\ call'[x].stage = "send" => call[x].stage = "send"
  BY <1>1, <1>2, <1>3
<1>5. UniqueInv => UniqueInv'
  BY <1>0, <1>4 DEF UniqueInv
<1>6. CompleteInv => CompleteInv'
  BY <1>0, <1>4 DEF CompleteInv
<1> QED
  BY <1>0, <1>3, <1>5, <1>6 DEF NonceInv

\* A nonce is handed out: one above all that are in use.
LEMMA GetNonceStep ==
    ASSUME NonceInv, NEW s \in Senders, GetNonce(s)
    PROVE  NonceInv'
<1> DEFINE nonce == IF nextNonce > account THEN nextNonce ELSE account
<1>1. /\ CallInv /\ call[s].stage = "GetNonce" /\ UNCHANGED <<stored, networkVars, historyVars>>
      /\ account \in Nat /\ nextNonce \in Int /\ nonce \in Nat
      /\ UNCHANGED <<stored, account, unsigned, overlapped>>
  BY DEF GetNonce, NonceInv, CallInv, networkVars, historyVars
<1>2. CASE ReturnError(s) /\ UNCHANGED nextNonce
  BY <1>1, <1>2, CallWithoutNonce DEF handlerVars
<1>3. CASE /\ call' = [call EXCEPT ![s] = [stage |-> After[call[s].stage], nonce |-> nonce]]
           /\ nextNonce' = nonce + 1
  <2> DEFINE new == [stage |-> "send", nonce |-> nonce]
  <2>1. call' = [call EXCEPT ![s] = new]
    BY <1>1, <1>3, StagesInOrder
  <2>2. new \in CallRecord /\ new.stage = "send" /\ new.nonce = nonce
    BY <1>1 DEF CallRecord
  <2>3. /\ nonce >= account /\ nonce >= nextNonce /\ nextNonce' > nextNonce /\ nonce # NoNonce
        /\ \A n \in account..nonce : n = nonce \/ n \in account..(nextNonce - 1)
    BY <1>1, <1>3 DEF NoNonce
  <2> HIDE DEF nonce, new
  <2>4. CallInv' /\ call'[s] = new /\ \A x \in Senders \ {s} : call'[x] = call[x]
    BY <1>1, <1>3, <2>1, <2>2, <2>3, CallChanges DEF CallInv
  <2>5. call[s].nonce = NoNonce
    BY <1>1 DEF CallInv
  <2>6. ASSUME UniqueInv PROVE UniqueInv'
    <3>1. \A x \in Senders \ {s} : call[x].stage = "send" => call[x].nonce < nonce /\ call[x].nonce \in Nat
      BY <1>1, <2>3, <2>6 DEF UniqueInv, CallInv, CallRecord
    <3>2. \A x \in Senders \ {s} : call[x].nonce # nonce
      BY <1>1, <2>3, <3>1 DEF CallInv
    <3>3. \A n \in stored \cup unsigned : n < nonce /\ n < nextNonce' /\ n \in Nat
      BY <1>1, <1>3, <2>3, <2>6 DEF UniqueInv, CallInv
    <3>4. \A n \in stored \cup unsigned : \A x \in Senders : call'[x].nonce # n
      BY <1>1, <2>2, <2>4, <2>6, <3>3 DEF UniqueInv
    <3>5. \A x \in Senders : call'[x].stage = "send" => call'[x].nonce < nextNonce'
      BY <1>1, <1>3, <2>2, <2>4, <3>1
    <3>6. \A x, y \in Senders : call'[x].stage = "send" /\ call'[y].nonce = call'[x].nonce => y = x
      BY <2>2, <2>4, <2>6, <3>2 DEF UniqueInv
    <3> QED
      BY <1>1, <3>3, <3>4, <3>5, <3>6 DEF UniqueInv
  <2>7. ASSUME CompleteInv PROVE CompleteInv'
    <3> SUFFICES ASSUME NEW n \in account..nonce
                 PROVE  n \in stored \cup unsigned \/ \E x \in Senders : call'[x].nonce = n
      BY <1>1, <1>3 DEF CompleteInv
    <3>1. CASE n = nonce
      BY <2>2, <2>4, <3>1
    <3>2. CASE n \in account..(nextNonce - 1)
      <4>1. n # NoNonce
        BY <1>1 DEF NoNonce
      <4>2. ASSUME NEW x \in Senders, call[x].nonce = n PROVE call'[x].nonce = n
        BY <2>4, <2>5, <4>1, <4>2
      <4> QED
        BY <2>7, <3>2, <4>2 DEF CompleteInv
    <3> QED
      BY <2>3, <3>1, <3>2
  <2> QED
    BY <1>1, <2>4, <2>6, <2>7 DEF NonceInv
<1> QED
  BY <1>2, <1>3 DEF GetNonce

\* A call that ends with its nonce leaves it among the sent or the unsigned.
LEMMA CallEnds ==
    ASSUME NonceInv, NEW s \in Senders, call[s].stage = "send", call' = [call EXCEPT ![s] = Idle],
           stored' \cup unsigned' = stored \cup unsigned \cup {call[s].nonce},
           UNCHANGED <<nextNonce, account, overlapped>>
    PROVE  NonceInv'
<1>1. CallInv /\ call[s].nonce \in Nat
  BY DEF NonceInv, CallInv, CallRecord
<1>2. CallInv' /\ call'[s] = Idle /\ \A x \in Senders \ {s} : call'[x] = call[x]
  BY <1>1, IdleCall, CallChanges DEF CallInv
<1>3. UniqueInv => UniqueInv'
  BY <1>1, <1>2, IdleCall DEF UniqueInv, CallInv, NoNonce
<1>4. CompleteInv => CompleteInv'
  BY <1>2 DEF CompleteInv
<1> QED
  BY <1>2, <1>3, <1>4 DEF NonceInv

\* A duplicate is refused.  Unless a later nonce is in use, the one that is taken
\* back is that of the refused transaction, the last one.
LEMMA RefuseDuplicateStep ==
    ASSUME NonceInv, NEW s \in Senders, RefuseDuplicate(s)
    PROVE  NonceInv'
<1>1. /\ CallInv /\ call[s].stage = "send" /\ call[s].nonce \in Nat /\ nextNonce \in Int
      /\ call' = [call EXCEPT ![s] = Idle] /\ nextNonce' = nextNonce - 1
      /\ overlapped' = (overlapped \/ call[s].nonce # nextNonce - 1)
      /\ UNCHANGED <<stored, account, unsigned>>
  BY DEF NonceInv, RefuseDuplicate, ReturnError, networkVars, CallInv, CallRecord
<1>2. CallInv' /\ call'[s] = Idle /\ \A x \in Senders \ {s} : call'[x] = call[x]
  BY <1>1, IdleCall, CallChanges DEF CallInv
<1>3. ASSUME ~ overlapped', UniqueInv PROVE UniqueInv'
  <2>1. call[s].nonce = nextNonce - 1
    BY <1>1, <1>3
  <2>2. \A n \in stored \cup unsigned : n < nextNonce - 1
    BY <1>1, <1>3, <2>1 DEF UniqueInv, CallInv
  <2>3. \A n \in stored \cup unsigned : \A x \in Senders : call'[x].nonce # n
    BY <1>1, <1>2, <1>3, IdleCall DEF UniqueInv, CallInv, NoNonce
  <2>4. ASSUME NEW x \in Senders, call'[x].stage = "send"
        PROVE  call'[x].nonce < nextNonce - 1 /\ \A y \in Senders : call'[y].nonce = call'[x].nonce => y = x
    <3>1. x # s /\ call'[x] = call[x] /\ call[x].stage = "send"
      BY <1>2, <2>4, IdleCall
    <3>2. call[x].nonce \in Nat /\ call[x].nonce < nextNonce /\ call[x].nonce # call[s].nonce
      BY <1>1, <1>3, <3>1 DEF UniqueInv, CallInv, CallRecord
    <3>3. call[x].nonce # NoNonce
      BY <3>2 DEF NoNonce
    <3> QED
      BY <1>1, <1>2, <1>3, <2>1, <3>1, <3>2, <3>3, IdleCall DEF UniqueInv
  <2> QED
    BY <1>1, <2>2, <2>3, <2>4 DEF UniqueInv
<1>4. ASSUME ~ overlapped', CompleteInv PROVE CompleteInv'
  <2> SUFFICES ASSUME NEW n \in account..(nextNonce - 2)
               PROVE  n \in stored \cup unsigned \/ \E x \in Senders : call'[x].nonce = n
    BY <1>1 DEF CompleteInv, CallInv
  <2>1. account \in Nat /\ nextNonce \in Int /\ call[s].nonce = nextNonce - 1
    <3>1. account \in Nat
      BY <1>1 DEF CallInv
    <3> QED
      BY <1>1, <1>4, <3>1
  <2>2. n \in account..(nextNonce - 1) /\ n # nextNonce - 1
    BY <2>1
  <2>3. ASSUME NEW x \in Senders, call[x].nonce = n PROVE call'[x].nonce = n
    BY <1>2, <2>1, <2>2, <2>3
  <2> QED
    BY <1>4, <2>2, <2>3 DEF CompleteInv
<1> QED
  BY <1>1, <1>2, <1>3, <1>4 DEF NonceInv

\* The handler and the network drop only what the account has used up.
LEMMA NetworkStep ==
    ASSUME NonceInv, Resend \/ Include \/ LoseTransaction
    PROVE  NonceInv'
<1>1. /\ CallInv /\ UNCHANGED <<call, nextNonce, unsigned, overlapped>>
      /\ account \in Nat /\ nextNonce \in Int
  BY DEF Resend, Include, LoseTransaction, handlerVars, historyVars, NonceInv, CallInv
<1>2. /\ account' \in Nat /\ account' >= account /\ stored' \subseteq stored
      /\ \A n \in stored : n >= account' => n \in stored'
  <2>1. CASE Resend
    BY <1>1, <2>1 DEF Resend
  <2>2. CASE Include
    BY <1>1, <2>2 DEF Include, handlerVars
  <2>3. CASE LoseTransaction
    BY <1>1, <2>3 DEF LoseTransaction, handlerVars
  <2> QED
    BY <2>1, <2>2, <2>3
<1>3. CallInv'
  BY <1>1, <1>2 DEF CallInv
<1>4. UniqueInv => UniqueInv'
  BY <1>1, <1>2 DEF UniqueInv
<1>5. ASSUME CompleteInv PROVE CompleteInv'
  <2> SUFFICES ASSUME NEW n \in account'..(nextNonce - 1)
               PROVE  n \in stored' \cup unsigned \/ \E x \in Senders : call[x].nonce = n
    BY <1>1 DEF CompleteInv
  <2>1. n \in account..(nextNonce - 1) /\ n >= account'
    BY <1>1, <1>2
  <2> QED
    BY <1>2, <1>5, <2>1 DEF CompleteInv
<1> QED
  BY <1>1, <1>3, <1>4, <1>5 DEF NonceInv

\* A process that ends forgets the nonces with the rest.
NothingInMemory ==
    /\ call = [s \in Senders |-> Idle] /\ nextNonce = 0 /\ account \in Nat
    /\ stored = {} /\ unsigned = {} /\ overlapped = FALSE

LEMMA NothingHeld == NothingInMemory => NonceInv
<1> SUFFICES ASSUME NothingInMemory PROVE NonceInv
  OBVIOUS
<1>1. call \in [Senders -> CallRecord]
  BY IdleCall DEF NothingInMemory
<1>2. \A s \in Senders : call[s].stage # "send" /\ call[s].nonce = NoNonce
  BY IdleCall DEF NothingInMemory
<1>3. nextNonce \in Int /\ account \in Nat /\ stored \subseteq Nat /\ unsigned \subseteq Nat
  BY DEF NothingInMemory
<1>4. overlapped \in BOOLEAN
  BY DEF NothingInMemory
<1>5. CallInv
  BY <1>1, <1>2, <1>3, <1>4 DEF CallInv
<1>6. UniqueInv
  BY <1>2 DEF UniqueInv, NothingInMemory
<1>7. account..(nextNonce - 1) = {}
  BY DEF NothingInMemory
<1> QED
  BY <1>5, <1>6, <1>7 DEF NonceInv, CompleteInv

LEMMA ForgetStep == ASSUME NonceInv, Forget PROVE NonceInv'
<1>1. NothingInMemory'
  BY DEF Forget, networkVars, NonceInv, CallInv, NothingInMemory
<1> QED
  BY <1>1, NothingHeld, PTL

\* Every step of the process keeps the nonces without a gap.
LEMMA NextNonceInv == NonceInv /\ [Next]_vars => NonceInv'
<1> SUFFICES ASSUME NonceInv, [Next]_vars PROVE NonceInv'
  OBVIOUS
<1>1. CASE UNCHANGED txVars
  BY <1>1 DEF txVars, NonceInv, CallInv, UniqueInv, CompleteInv
<1>2. ASSUME NEW s \in Senders, Call(s) PROVE NonceInv'
  BY <1>2, CallWithoutNonce DEF Call
<1>3. ASSUME NEW s \in Senders, Step(s) PROVE NonceInv'
  <2>1. CASE GetNetworkConfig(s)
    BY <2>1, CallWithoutNonce DEF GetNetworkConfig
  <2>2. CASE SignFails(s)
    BY <2>2, CallEnds DEF SignFails, ReturnError, handlerVars, networkVars
  <2>3. CASE SendTransaction(s)
    BY <2>3, CallEnds DEF SendTransaction, historyVars
  <2> QED
    BY <1>3, <2>1, <2>2, <2>3, GetNonceStep, RefuseDuplicateStep DEF Step
<1> QED
  BY <1>1, <1>2, <1>3, NetworkStep, ForgetStep
  DEF Next, vars, LifecycleStep, StateMachineCalls, CallGoesOn, ClientResends, Network

\* Whatever calls and steps fail, no nonce is handed out and then forgotten or
\* used twice, but for those of transactions that could not be built or signed,
\* as long as no duplicate is refused while a later nonce is in use.
THEOREM NoNonceIsForgotten == Spec => []NoNonceGap
<1>1. Init => NonceInv
  BY NothingHeld DEF Init, TxInit, NothingInMemory
<1>2. NonceInv => NoNonceGap
  <2> SUFFICES ASSUME NonceInv, ~ overlapped, NEW n \in account..(nextNonce - 1)
               PROVE  IF n \in stored \cup unsigned
                      THEN Holders(n) = {} ELSE \E s \in Senders : Holders(n) = {s}
    BY DEF NoNonceGap
  <2>1. CallInv /\ UniqueInv /\ CompleteInv /\ n # NoNonce
    BY DEF NonceInv, CallInv, NoNonce
  <2>2. CASE n \in stored \cup unsigned
    BY <2>1, <2>2 DEF UniqueInv, Holders
  <2>3. CASE n \notin stored \cup unsigned
    <3>1. PICK s \in Senders : call[s].nonce = n
      BY <2>1, <2>3 DEF CompleteInv
    <3>2. call[s].stage = "send"
      BY <2>1, <3>1 DEF CallInv
    <3>3. Holders(n) = {s}
      BY <2>1, <3>1, <3>2 DEF UniqueInv, Holders
    <3> QED
      BY <2>3, <3>3
  <2> QED
    BY <2>2, <2>3
<1> QED
  BY <1>1, <1>2, NextNonceInv, PTL DEF Spec

--------------------------------------------------------------------------------
(***************************************************************************)
(* The life of the process.                                                *)
(***************************************************************************)
\* There are enough components, and the one whose creation starts the list of
\* what is polled comes early enough.
LEMMA CreationOrderFacts ==
    /\ program = "relayer" => Len(CreationOrder) = 11 /\ CreationOrder[4] = "elrondRoles"
    /\ program = "priceFeeder" =>
          /\ Len(CreationOrder) = 3
          /\ CreationOrder[1] = "priceFetchers" /\ CreationOrder[2] = "txNonceHandler"
          /\ CreationOrder[3] = "priceNotifier"
  BY DEF CreationOrder, NetMessenger, BridgeComponents, FeederComponents

\* What is appended to a list is in it, and so is what was in it.
LEMMA AppendIfFacts ==
    ASSUME NEW S, NEW s \in Seq(S), NEW c, NEW t, t = IF c \in S THEN Append(s, c) ELSE s
    PROVE  /\ t \in Seq(S) /\ Len(s) <= Len(t)
           /\ \A i \in 1..Len(s) : i \in 1..Len(t) /\ t[i] = s[i]
           /\ \A i \in 1..Len(t) : i \in 1..Len(s) \/ (c \in S /\ t[i] = c)
           /\ c \in S => Len(t) \in 1..Len(t) /\ t[Len(t)] = c
<1>1. CASE c \in S
  <2>1. t = Append(s, c)
    BY <1>1
  <2> QED
    BY <1>1, <2>1
<1>2. CASE c \notin S
  BY <1>2
<1> QED
  BY <1>1, <1>2

\* Polling and closing are for the components alone.
LEMMA ComponentSets ==
    /\ Polled \subseteq Closable /\ StateMachines \subseteq Polled
    /\ RunsAtOnce \subseteq NeverClosed \cup Closable
    /\ RunsAtOnce \cap StateMachines = {}
    /\ (NeverClosed \cup Closable) \cap {"sourceLimiterReset", "httpServer"} = {}
  BY DEF Polled, Closable, StateMachines, RunsAtOnce, NeverClosed

\* A step that changes only where main is, with what depends on it.
LEMMA MainMoves ==
    ASSUME LifecycleInv, UNCHANGED <<startVars, listVars>>, running' \subseteq running,
           index' \in Nat, program = "priceFeeder" => main' \in FeederPlaces
    PROVE  ListsInv' /\ CreationOrder' = CreationOrder
  BY DEF LifecycleInv, ListsInv, ToClose, startVars, listVars, CreationOrder

\* A component is created.
LEMMA CreateComponentStep == ASSUME LifecycleInv, CreateComponent PROVE LifecycleInv'
<1>0. ListsInv /\ PlaceInv /\ NoStepBeforeJoin
  BY DEF LifecycleInv
<1> PICK c : c = CreationOrder[made + 1]
  OBVIOUS
<1>1. /\ main = "creating" /\ made' = made + 1
      /\ closables' = IF c \in Closable THEN Append(closables, c) ELSE closables
      /\ pollingHandlers' = IF c \in Polled THEN Append(pollingHandlers, c) ELSE pollingHandlers
      /\ running' = running \cup ({c} \cap RunsAtOnce)
      /\ main' = IF made' < Len(CreationOrder) THEN "creating"
                 ELSE IF program = "relayer" THEN "webServer" ELSE "polling"
      /\ UNCHANGED <<startVars, index, topics, joined, join, failed>>
  BY DEF CreateComponent, AppendIf
<1>2. program' = program /\ configs' = configs /\ CreationOrder' = CreationOrder
  BY <1>1 DEF startVars, CreationOrder
<1>3. /\ made \in Nat /\ made < Len(CreationOrder) /\ index = 1
      /\ program \in {"relayer", "priceFeeder"}
      /\ closables \in Seq(Closable) /\ pollingHandlers \in Seq(Polled)
  BY <1>0, <1>1 DEF ListsInv, PlaceInv
<1>4. program = "priceFeeder" => c \in {"priceFetchers", "txNonceHandler", "priceNotifier"}
  <2> SUFFICES ASSUME program = "priceFeeder"
               PROVE  c \in {"priceFetchers", "txNonceHandler", "priceNotifier"}
    OBVIOUS
  <2>1. Len(CreationOrder) = 3
    BY CreationOrderFacts
  <2>2. made = 0 \/ made = 1 \/ made = 2
    BY <1>3, <2>1
  <2> QED
    BY <2>2, CreationOrderFacts
<1>5. made' = 4 /\ program = "relayer" => c \in Polled
  BY <1>1, CreationOrderFacts DEF Polled
<1>6. made' = 3 /\ program = "priceFeeder" => c \in Polled
  BY <1>1, CreationOrderFacts DEF Polled
<1>7. /\ closables' \in Seq(Closable) /\ Len(closables) <= Len(closables')
      /\ \A i \in 1..Len(closables) : i \in 1..Len(closables') /\ closables'[i] = closables[i]
      /\ c \in Closable => Len(closables') \in 1..Len(closables') /\ closables'[Len(closables')] = c
  BY <1>1, <1>3, AppendIfFacts
<1>8. /\ pollingHandlers' \in Seq(Polled) /\ Len(pollingHandlers) <= Len(pollingHandlers')
      /\ \A i \in 1..Len(pollingHandlers) : pollingHandlers'[i] = pollingHandlers[i]
      /\ \A i \in 1..Len(pollingHandlers') :
            i \in 1..Len(pollingHandlers) \/ (c \in Polled /\ pollingHandlers'[i] = c)
      /\ c \in Polled => Len(pollingHandlers') \in 1..Len(pollingHandlers')
  BY <1>1, <1>3, AppendIfFacts
<1>9. /\ \A x : ToClose(x, 1) => ToClose(x, 1)'
      /\ c \in Closable => ToClose(c, 1)'
  BY <1>7 DEF ToClose
<1>10. ListsInv'
  <2>1. ASSUME NEW i \in 1..Len(pollingHandlers'), NEW x, x = pollingHandlers'[i]
        PROVE  ToClose(x, 1)' /\ (program = "priceFeeder" => x = "priceNotifier")
    <3>1. CASE i \in 1..Len(pollingHandlers)
      BY <1>0, <1>8, <1>9, <2>1, <3>1 DEF ListsInv
    <3>2. CASE c \in Polled /\ x = c
      <4>1. program = "priceFeeder" => c = "priceNotifier"
        BY <1>4, <3>2 DEF Polled, StateMachines
      <4> QED
        BY <1>9, <3>2, <4>1, ComponentSets
    <3> QED
      BY <1>8, <2>1, <3>1, <3>2
  <2>2. \A x \in running' \cap Closable : ToClose(x, 1)'
    BY <1>0, <1>1, <1>9 DEF ListsInv
  <2>3. /\ running' \subseteq NeverClosed \cup Closable \cup {"sourceLimiterReset", "httpServer"}
        /\ program = "priceFeeder" =>
              running' \cap {"sourceLimiterReset", "httpServer"} = {} /\ main' \in FeederPlaces
    BY <1>0, <1>1, ComponentSets DEF ListsInv, FeederPlaces
  <2> QED
    BY <1>1, <1>2, <1>3, <1>7, <1>8, <2>1, <2>2, <2>3 DEF ListsInv
<1>11. PlaceInv'
  <2>1. made' >= (IF program = "relayer" THEN 4 ELSE 3) => Len(pollingHandlers') >= 1
    <3>0. Len(pollingHandlers) \in Nat /\ Len(pollingHandlers') \in Nat
      BY <1>3, <1>8
    <3>1. CASE made >= (IF program = "relayer" THEN 4 ELSE 3)
      BY <1>0, <1>1, <1>8, <3>0, <3>1 DEF PlaceInv
    <3>2. CASE made' = (IF program = "relayer" THEN 4 ELSE 3)
      BY <1>3, <1>5, <1>6, <1>8, <3>0, <3>2
    <3> QED
      BY <1>1, <1>3, <3>1, <3>2
  <2>2. CASE made' < Len(CreationOrder)
    BY <1>1, <1>2, <1>3, <2>1, <2>2 DEF PlaceInv, PlacesBefore, PlacesAfter
  <2>3. CASE ~ (made' < Len(CreationOrder)) /\ program = "relayer"
    <3>0. Len(CreationOrder) = 11
      BY <2>3, CreationOrderFacts
    <3>1. made' >= 4 /\ main' = "webServer"
      BY <1>1, <1>3, <2>3, <3>0
    <3>2. Len(pollingHandlers') >= 1
      BY <2>1, <2>3, <3>1
    <3> QED
      BY <1>1, <1>3, <3>1, <3>2 DEF PlaceInv, PlacesBefore, PlacesAfter
  <2>4. CASE ~ (made' < Len(CreationOrder)) /\ program = "priceFeeder"
    <3>0. Len(CreationOrder) = 3
      BY <2>4, CreationOrderFacts
    <3>1. made' >= 3 /\ main' = "polling"
      BY <1>1, <1>3, <2>4, <3>0
    <3>2. Len(pollingHandlers') >= 1 /\ Len(pollingHandlers') \in Nat
      BY <1>8, <2>1, <2>4, <3>1
    <3> QED
      BY <1>1, <1>2, <1>3, <2>4, <3>1, <3>2 DEF PlaceInv, PlacesBefore, PlacesAfter
  <2> QED
    BY <1>3, <2>2, <2>3, <2>4
<1>12. ClosablesStopped'
  BY <1>1 DEF ClosablesStopped
<1>13. NoStepBeforeJoin'
  BY <1>0, <1>1, ComponentSets DEF NoStepBeforeJoin
<1> QED
  BY <1>10, <1>11, <1>12, <1>13 DEF LifecycleInv

\* The web server is started, which only the relayer does.
LEMMA WebServerStep ==
    ASSUME LifecycleInv,
           \/ loadConfig \/ StartWebServer \/ StartHttpServer \/ createMiddlewareLimiters
           \/ SpawnHttpServer \/ Bootstrap \/ RegisterOnTopics \/ BroadcastJoinTopic
    PROVE  LifecycleInv'
<1>0. ListsInv /\ PlaceInv /\ NoStepBeforeJoin
  BY DEF LifecycleInv
<1>1. /\ UNCHANGED <<startVars, listVars, index, join, failed>>
      /\ running' \subseteq running \cup {"sourceLimiterReset", "httpServer"}
      /\ running \subseteq running'
      /\ (topics => topics') /\ (joined => joined')
  BY DEF loadConfig, StartWebServer, StartHttpServer, createMiddlewareLimiters,
         SpawnHttpServer, Bootstrap, RegisterOnTopics, BroadcastJoinTopic
<1>2. \/ main = "starting" /\ main' = "creating" /\ running' = running
      \/ main \in PlacesBefore /\ main' \in PlacesBefore
      \/ main = "register" /\ main' = "joinTopic" /\ topics'
      \/ main = "joinTopic" /\ main' = "polling" /\ topics' = topics /\ joined'
  BY DEF loadConfig, StartWebServer, StartHttpServer, createMiddlewareLimiters,
         SpawnHttpServer, Bootstrap, RegisterOnTopics, BroadcastJoinTopic, PlacesBefore
<1>3. CreationOrder' = CreationOrder /\ program' = program
  BY <1>1 DEF startVars, CreationOrder
<1>4. program = "priceFeeder" => main = "starting" /\ main' = "creating" /\ running' = running
  BY <1>0, <1>2 DEF ListsInv, FeederPlaces, PlacesBefore
<1>5. ListsInv'
  <2>1. \A x : ToClose(x, 1) => ToClose(x, 1)'
    BY <1>1 DEF ToClose, listVars
  <2>2. running' \cap Closable \subseteq running
    BY <1>1, ComponentSets
  <2> QED
    BY <1>0, <1>1, <1>3, <1>4, <2>1, <2>2 DEF ListsInv, listVars, FeederPlaces
<1>6. PlaceInv'
  <2>1. Len(CreationOrder) >= 3 /\ Len(CreationOrder) \in Nat
    BY <1>0, CreationOrderFacts DEF ListsInv
  <2>2. index' = index /\ made' = made /\ pollingHandlers' = pollingHandlers
    BY <1>1 DEF listVars
  <2>3. CASE main = "starting" /\ main' = "creating"
    BY <1>0, <1>3, <2>1, <2>2, <2>3 DEF PlaceInv, PlacesBefore, PlacesAfter
  <2>4. CASE main \in PlacesBefore /\ main' \in PlacesBefore
    BY <1>0, <1>3, <2>2, <2>4 DEF PlaceInv, PlacesBefore, PlacesAfter
  <2>5. CASE main = "register" /\ main' = "joinTopic" /\ topics'
    BY <1>0, <1>3, <2>2, <2>5 DEF PlaceInv, PlacesBefore, PlacesAfter
  <2>6. CASE main = "joinTopic" /\ main' = "polling" /\ topics' = topics /\ joined'
    <3>1. Len(pollingHandlers) \in Nat
      BY <1>0 DEF ListsInv
    <3> QED
      BY <1>0, <1>3, <2>2, <2>6, <3>1 DEF PlaceInv, PlacesBefore, PlacesAfter
  <2> QED
    BY <1>2, <2>3, <2>4, <2>5, <2>6
<1>7. ClosablesStopped'
  BY <1>2 DEF ClosablesStopped, PlacesBefore
<1>8. NoStepBeforeJoin'
  BY <1>0, <1>1, ComponentSets DEF NoStepBeforeJoin
<1> QED
  BY <1>5, <1>6, <1>7, <1>8 DEF LifecycleInv

\* A polling handler is started.
LEMMA PollingStep == ASSUME LifecycleInv, startPollingHandlers PROVE LifecycleInv'
<1>0. ListsInv /\ PlaceInv /\ NoStepBeforeJoin
  BY DEF LifecycleInv
<1> PICK c : c = pollingHandlers[index]
  OBVIOUS
<1>1. /\ main = "polling" /\ running' = running \cup {c} /\ index' = index + 1
      /\ main' = IF index < Len(pollingHandlers) THEN "polling"
                 ELSE IF program = "relayer" THEN "spawn" ELSE "waiting"
      /\ UNCHANGED <<startVars, listVars, topics, joined, join, failed>>
  BY DEF startPollingHandlers
<1>2. CreationOrder' = CreationOrder /\ program' = program
  BY <1>1 DEF startVars, CreationOrder
<1>3. /\ index \in 1..Len(pollingHandlers) /\ index \in Nat /\ Len(pollingHandlers) \in Nat
      /\ pollingHandlers \in Seq(Polled)
  BY <1>0, <1>1 DEF PlaceInv, ListsInv
<1>4. /\ c \in Polled /\ ToClose(c, 1)
      /\ program = "priceFeeder" => c = "priceNotifier"
  BY <1>0, <1>3 DEF ListsInv
<1>5. ListsInv'
  <2>1. \A x : ToClose(x, 1) => ToClose(x, 1)'
    BY <1>1 DEF ToClose, listVars
  <2>2. c \notin {"sourceLimiterReset", "httpServer"} /\ c \in Closable
    BY <1>4, ComponentSets
  <2>3. main' \in {"polling", "spawn", "waiting"} /\ (program = "priceFeeder" => main' \in FeederPlaces)
    BY <1>1 DEF FeederPlaces
  <2> QED
    BY <1>0, <1>1, <1>2, <1>3, <1>4, <2>1, <2>2, <2>3 DEF ListsInv, listVars
<1>6. PlaceInv'
  <2>1. made' = made /\ pollingHandlers' = pollingHandlers
    BY <1>1 DEF listVars
  <2>2. CASE index < Len(pollingHandlers)
    BY <1>0, <1>1, <1>2, <1>3, <2>1, <2>2 DEF PlaceInv, PlacesBefore, PlacesAfter
  <2>3. CASE ~ (index < Len(pollingHandlers))
    BY <1>1, <2>3 DEF PlaceInv, PlacesBefore, PlacesAfter
  <2> QED
    BY <2>2, <2>3
<1>7. ClosablesStopped'
  BY <1>1 DEF ClosablesStopped
<1>8. NoStepBeforeJoin'
  <2>1. CASE program = "relayer"
    BY <1>0, <1>1, <2>1 DEF PlaceInv, NoStepBeforeJoin
  <2>2. CASE program = "priceFeeder"
    BY <1>0, <1>1, <1>4, <2>2 DEF NoStepBeforeJoin, StateMachines
  <2> QED
    BY <1>0, <2>1, <2>2 DEF ListsInv
<1> QED
  BY <1>5, <1>6, <1>7, <1>8 DEF LifecycleInv

\* The server cannot listen, or the goroutine of the join message begins.
LEMMA BackgroundStep ==
    ASSUME LifecycleInv, UNCHANGED <<startVars, listVars, main, index, topics, joined, failed>>,
           running' \subseteq running
    PROVE  LifecycleInv'
<1>0. ListsInv /\ PlaceInv
  BY DEF LifecycleInv
<1>1. ListsInv' /\ CreationOrder' = CreationOrder
  BY <1>0, MainMoves DEF ListsInv
<1>2. \A x, from : ToClose(x, from) => ToClose(x, from)'
  BY DEF ToClose, listVars
<1>3. \A c \in running' \cap Closable : main = "closers" => c \in failed \/ ToClose(c, index)'
  BY <1>0, <1>2 DEF PlaceInv, ToClose, listVars
<1>4. PlaceInv'
  BY <1>0, <1>1, <1>3 DEF PlaceInv, listVars, startVars
<1>5. ClosablesStopped' /\ NoStepBeforeJoin'
  BY DEF LifecycleInv, ClosablesStopped, NoStepBeforeJoin
<1> QED
  BY <1>1, <1>4, <1>5 DEF LifecycleInv

\* From the end of Start to the first component that is closed.
LEMMA SignalStep ==
    ASSUME LifecycleInv, SpawnJoinLoop \/ Signal \/ SignalFeeder \/ CancelJoinLoop
    PROVE  LifecycleInv'
<1>0. ListsInv /\ PlaceInv
  BY DEF LifecycleInv
<1>1. UNCHANGED <<startVars, listVars, running, topics, joined, failed>>
  BY DEF SpawnJoinLoop, Signal, SignalFeeder, CancelJoinLoop
<1>2. \/ main' = "waiting" /\ main = "spawn" /\ index' = index
      \/ main' = "closing" /\ index' = 1 /\ program = "relayer"
      \/ main' = "closers" /\ index' = 1
  BY <1>0 DEF SpawnJoinLoop, Signal, SignalFeeder, CancelJoinLoop, PlaceInv
<1>3. index' \in Nat /\ (program = "priceFeeder" => main' \in FeederPlaces)
  BY <1>0, <1>2 DEF ListsInv, FeederPlaces
<1>4. ListsInv' /\ CreationOrder' = CreationOrder
  BY <1>1, <1>3, MainMoves
<1>5. main' = "closers" => \A c \in running' \cap Closable : ToClose(c, index)'
  BY <1>0, <1>1, <1>2 DEF ListsInv, ToClose, listVars
<1>6. PlaceInv'
  BY <1>0, <1>2, <1>5 DEF PlaceInv, PlacesBefore, PlacesAfter
<1>7. ClosablesStopped' /\ NoStepBeforeJoin'
  BY <1>1, <1>2 DEF LifecycleInv, ClosablesStopped, NoStepBeforeJoin
<1> QED
  BY <1>4, <1>6, <1>7 DEF LifecycleInv

\* A component is closed, or its Close fails: the others are still to come.
LEMMA CloseComponentStep == ASSUME LifecycleInv, CloseComponent PROVE LifecycleInv'
<1>0. ListsInv /\ PlaceInv /\ index \in Nat
  BY DEF LifecycleInv, ListsInv
<1>1. /\ main = "closers" /\ UNCHANGED <<startVars, listVars, main, topics, joined, join>>
      /\ index' = index + 1
      /\ \/ running' = running \ {closables[index]} /\ UNCHANGED failed
         \/ failed' = failed \cup {closables[index]} /\ UNCHANGED running
  BY DEF CloseComponent, AfterError
<1>2. ListsInv' /\ CreationOrder' = CreationOrder
  <2>1. index' \in Nat /\ (program = "priceFeeder" => main' \in FeederPlaces)
    BY <1>0, <1>1 DEF FeederPlaces
  <2>2. running' \subseteq running
    BY <1>1
  <2> QED
    BY <1>1, <2>1, <2>2, MainMoves
<1>3. ASSUME NEW c \in running' \cap Closable PROVE c \in failed' \/ ToClose(c, index)'
  <2>1. c \in failed \/ ToClose(c, index)
    BY <1>0, <1>1, <1>3 DEF PlaceInv
  <2>2. CASE c \in failed
    BY <1>1, <2>2
  <2>3. CASE ToClose(c, index)
    <3>1. PICK j \in index..Len(closables) : closables[j] = c
      BY <2>3 DEF ToClose
    <3>2. CASE j = index
      BY <1>1, <1>3, <3>1, <3>2
    <3>3. CASE j # index
      <4>1. Len(closables) \in Nat /\ closables' = closables
        BY <1>0, <1>1 DEF ListsInv, listVars
      <4>2. j \in (index + 1)..Len(closables)
        BY <1>0, <3>1, <3>3, <4>1
      <4> QED
        BY <1>1, <3>1, <4>1, <4>2 DEF ToClose
    <3> QED
      BY <3>2, <3>3
  <2> QED
    BY <2>1, <2>2, <2>3
<1>4. PlaceInv'
  BY <1>1, <1>3 DEF PlaceInv, PlacesBefore, PlacesAfter
<1>5. ClosablesStopped' /\ NoStepBeforeJoin'
  BY <1>1 DEF LifecycleInv, ClosablesStopped, NoStepBeforeJoin
<1> QED
  BY <1>2, <1>4, <1>5 DEF LifecycleInv

\* The list is at its end.
LEMMA CloseReturnsStep == ASSUME LifecycleInv, CloseReturns PROVE LifecycleInv'
<1>0. ListsInv /\ PlaceInv
  BY DEF LifecycleInv
<1>1. /\ main = "closers" /\ index > Len(closables)
      /\ main' = IF program = "relayer" THEN "closed" ELSE "webServerClosed"
      /\ UNCHANGED <<startVars, listVars, index, running, topics, joined, join, failed>>
  BY DEF CloseReturns
<1>2. ListsInv' /\ CreationOrder' = CreationOrder
  <2>1. index' \in Nat /\ (program = "priceFeeder" => main' \in FeederPlaces)
    BY <1>0, <1>1 DEF ListsInv, FeederPlaces
  <2> QED
    BY <1>1, <2>1, MainMoves
<1>3. PlaceInv'
  BY <1>1 DEF PlaceInv, PlacesBefore, PlacesAfter
<1>4. running \cap Closable \subseteq failed
  <2>1. \A c : ~ ToClose(c, index)
    <3>1. index \in Nat /\ Len(closables) \in Nat
      BY <1>0 DEF ListsInv
    <3> QED
      BY <1>1, <3>1 DEF ToClose
  <2> QED
    BY <1>0, <1>1, <2>1 DEF PlaceInv
<1>5. ClosablesStopped'
  BY <1>1, <1>4 DEF ClosablesStopped
<1>6. NoStepBeforeJoin'
  BY <1>1 DEF LifecycleInv, NoStepBeforeJoin
<1> QED
  BY <1>2, <1>3, <1>5, <1>6 DEF LifecycleInv

\* The web server is closed, or its shutdown times out.
LEMMA CloseWebServerStep == ASSUME LifecycleInv, CloseWebServer PROVE LifecycleInv'
<1>0. ListsInv /\ PlaceInv /\ ClosablesStopped
  BY DEF LifecycleInv
<1>1. /\ main = "closed" /\ main' = "webServerClosed"
      /\ UNCHANGED <<startVars, listVars, index, topics, joined, join>>
      /\ running' \subseteq running /\ failed \subseteq failed' /\ "sourceLimiterReset" \notin running'
      /\ "httpServer" \in running' => "httpServer" \in failed'
  BY DEF CloseWebServer
<1>2. ListsInv' /\ CreationOrder' = CreationOrder
  <2>1. index' \in Nat /\ (program = "priceFeeder" => main' \in FeederPlaces)
    BY <1>0, <1>1 DEF ListsInv, FeederPlaces
  <2> QED
    BY <1>1, <2>1, MainMoves
<1>3. PlaceInv'
  BY <1>1 DEF PlaceInv, PlacesBefore, PlacesAfter
<1>4. ClosablesStopped'
  BY <1>0, <1>1 DEF ListsInv, ClosablesStopped
<1>5. NoStepBeforeJoin'
  BY <1>1 DEF LifecycleInv, NoStepBeforeJoin
<1> QED
  BY <1>2, <1>3, <1>4, <1>5 DEF LifecycleInv

\* The process ends.
LEMMA ExitStep == ASSUME LifecycleInv, Exit PROVE LifecycleInv'
<1>1. /\ main' = "exited" /\ running' = {}
      /\ UNCHANGED <<startVars, listVars, index, topics, joined, failed>>
  BY DEF Exit
<1>2. ListsInv'
  <2>1. index' \in Nat /\ (program = "priceFeeder" => main' \in FeederPlaces)
    BY <1>1 DEF LifecycleInv, ListsInv, FeederPlaces
  <2> QED
    BY <1>1, <2>1, MainMoves
<1>3. PlaceInv' /\ ClosablesStopped' /\ NoStepBeforeJoin'
  BY <1>1 DEF PlaceInv, PlacesBefore, PlacesAfter, ClosablesStopped, NoStepBeforeJoin
<1> QED
  BY <1>2, <1>3 DEF LifecycleInv

\* A process that starts again has forgotten its lists.
LEMMA RestartStep == ASSUME LifecycleInv, Restart PROVE LifecycleInv'
<1>1. /\ main' = "starting" /\ made' = 0 /\ index' = 1
      /\ closables' = << >> /\ pollingHandlers' = << >>
      /\ running' = {} /\ program' = program /\ program \in {"relayer", "priceFeeder"}
  BY DEF Restart, LifecycleInv, PlaceInv, ListsInv
<1>2. ListsInv'
  BY <1>1 DEF ListsInv, FeederPlaces
<1>3. PlaceInv' /\ ClosablesStopped' /\ NoStepBeforeJoin'
  BY <1>1 DEF PlaceInv, PlacesBefore, PlacesAfter, ClosablesStopped, NoStepBeforeJoin
<1> QED
  BY <1>2, <1>3 DEF LifecycleInv

\* A process starts with nothing.
LEMMA InitLifecycleInv == Init => LifecycleInv
<1> SUFFICES ASSUME Init PROVE LifecycleInv
  OBVIOUS
<1>1. ListsInv
  BY DEF Init, LifecycleInit, ListsInv, FeederPlaces
<1>2. PlaceInv /\ ClosablesStopped /\ NoStepBeforeJoin
  BY DEF Init, LifecycleInit, PlaceInv, PlacesBefore, PlacesAfter, ClosablesStopped, NoStepBeforeJoin
<1> QED
  BY <1>1, <1>2 DEF LifecycleInv

\* Every step keeps the invariant of the process.
LEMMA NextLifecycleInv == LifecycleInv /\ [Next]_vars => LifecycleInv'
<1> SUFFICES ASSUME LifecycleInv, [Next]_vars PROVE LifecycleInv'
  OBVIOUS
<1>1. CASE UNCHANGED lifecycleVars
  BY <1>1, BackgroundStep DEF lifecycleVars, startVars, listVars
<1>2. CASE ListenFails \/ BeginJoinLoop
  <2>1. UNCHANGED <<startVars, listVars, main, index, topics, joined, failed>>
        /\ running' \subseteq running
    BY <1>2 DEF ListenFails, BeginJoinLoop
  <2> QED
    BY <2>1, BackgroundStep
<1>3. CASE Fails \/ Return
  BY <1>3, ExitStep DEF Fails, Return
<1>4. LifecycleNext => LifecycleInv'
  BY <1>2, <1>3, RestartStep, CreateComponentStep, WebServerStep, PollingStep, SignalStep,
     CloseComponentStep, CloseReturnsStep, CloseWebServerStep
  DEF LifecycleNext
<1> QED
  BY <1>1, <1>4
  DEF Next, vars, LifecycleStep, StateMachineCalls, CallGoesOn, ClientResends, Network

\* The process is where its lists say in every behaviour.
THEOREM Invariance == Spec => []LifecycleInv
  BY InitLifecycleInv, NextLifecycleInv, PTL DEF Spec

\* When Close has returned, all that was to be closed is closed or has failed to
\* close by itself, whatever fails between the start and the end of the process.
THEOREM ClosablesAreStopped == Spec => []ClosablesStopped
<1>1. LifecycleInv => ClosablesStopped
  BY DEF LifecycleInv
<1> QED
  BY <1>1, Invariance, PTL

\* No state machine runs before the broadcaster is registered on its topics and
\* has broadcast its join message.
THEOREM JoinComesFirst == Spec => []NoStepBeforeJoin
<1>1. LifecycleInv => NoStepBeforeJoin
  BY DEF LifecycleInv
<1> QED
  BY <1>1, Invariance, PTL
================================================================================
