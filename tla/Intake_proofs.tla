----------------------------- MODULE Intake_proofs -----------------------------
(***************************************************************************)
(* What passes the checks of ProcessReceivedMessage, for any number of     *)
(* relayers, goroutines, messages, changes of the lists and restarts.      *)
(***************************************************************************)
EXTENDS Intake, TLAPS

\* The checks follow each other.
LEMMA ChecksInOrder ==
    /\ Checks["received"] = "IsWhitelisted"
    /\ Checks["IsWhitelisted"] = "processNonce"
    /\ Checks["processNonce"] = "VerifyEthSignature"
  BY DEF Checks

\* What a goroutine holds.
LEMMA HeldType ==
    ASSUME TypeInv, NEW h \in Handlers, NEW at, at # "nothing", At(h, at)
    PROVE  /\ handling[h] = [at |-> at, msg |-> handling[h].msg]
           /\ handling[h].msg \in Message
           /\ handling[h].msg.key \in Relayers
           /\ handling[h].msg.nonce \in 1..MaxNonce /\ handling[h].msg.nonce \in Nat
<1>1. handling[h] \in HandlingType
  BY DEF TypeInv
<1>2. handling[h] # Nothing
  BY DEF At, Nothing
<1> QED
  BY <1>1, <1>2, IntakeAssumption DEF HandlingType, At, Message

\* A goroutine that drops its message or takes it to the next check.
LEMMA Moved ==
    ASSUME TypeInv, NEW h \in Handlers, NEW from, from # "nothing", At(h, from),
           NEW to \in {"IsWhitelisted", "processNonce", "VerifyEthSignature"},
           Drop(h) \/ Goto(h, to)
    PROVE  /\ handling' \in [Handlers -> HandlingType]
           /\ \A h2 \in Handlers : h2 # h => handling'[h2] = handling[h2]
           /\ handling'[h].at \in {"nothing", to}
           /\ handling'[h].at = to => handling'[h].msg = handling[h].msg
           /\ Drop(h) => handling'[h].at = "nothing"
<1>1. handling \in [Handlers -> HandlingType]
  BY DEF TypeInv
<1>2. handling[h] = [at |-> from, msg |-> handling[h].msg] /\ handling[h].msg \in Message
  BY HeldType
<1>3. CASE Drop(h)
  BY <1>1, <1>3 DEF Drop, Nothing, HandlingType
<1>4. CASE Goto(h, to) /\ ~ Drop(h)
  <2>1. handling' = [handling EXCEPT ![h] = [handling[h] EXCEPT !.at = to]]
    BY <1>4 DEF Goto
  <2>2. [handling[h] EXCEPT !.at = to] = [at |-> to, msg |-> handling[h].msg]
    BY <1>2
  <2>3. handling'[h] = [at |-> to, msg |-> handling[h].msg]
    BY <1>1, <2>1, <2>2
  <2>4. [at |-> to, msg |-> handling[h].msg] \in HandlingType
    BY <1>2 DEF HandlingType
  <2>5. handling' \in [Handlers -> HandlingType]
    BY <1>1, <2>1, <2>2, <2>4
  <2> QED
    BY <1>1, <1>4, <2>1, <2>3, <2>5
<1> QED
  BY <1>3, <1>4

--------------------------------------------------------------------------------
(***************************************************************************)
(* The steps of the lists.                                                 *)
(***************************************************************************)
\* The polling of Ethereum's list and its changes keep what holds of the lists.
LEMMA RolesStep ==
    ASSUME RolesInv, Execute \/ ChangeRelayers \/ RestartRoles
    PROVE  RolesInv' /\ everListed \subseteq everListed'
<1> USE DEF RolesInv, contractVars, providerVars
<1>1. CASE GetRelayers
  BY <1>1 DEF GetRelayers
<1>2. CASE LockAndClear
  BY <1>2 DEF LockAndClear, Cleared
<1>3. CASE AddResult
  BY <1>3 DEF AddResult
<1>4. CASE Unlock
  BY <1>4 DEF Unlock
<1>5. CASE ChangeRelayers
  BY <1>5 DEF ChangeRelayers
<1>6. CASE RestartRoles
  BY <1>6 DEF RestartRoles
<1> QED
  BY <1>1, <1>2, <1>3, <1>4, <1>5, <1>6 DEF Execute

\* Steps that handle no message: the histories of the lists only grow.
LEMMA ListsStep ==
    ASSUME IndInv, UNCHANGED <<handling, nonces, notified, wronglyRefused>>,
           RolesInv', everListed \subseteq everListed', everStaked \subseteq everStaked',
           staked' \cup elrondList' \subseteq everStaked',
           stakedResults' # NoResults => stakedResults' \subseteq everStaked'
    PROVE  IndInv'
<1>1. TypeInv' /\ StakedInv'
  BY DEF IndInv, TypeInv, StakedInv, At
<1>2. OnceInv'
  BY DEF IndInv, OnceInv, At
<1>3. NoSpuriousRefusal' /\ NoncesOfRelayersOnly' /\ ClientsGetRelayersOnly'
  BY DEF IndInv, NoSpuriousRefusal, NoncesOfRelayersOnly, ClientsGetRelayersOnly
<1> QED
  BY <1>1, <1>2, <1>3 DEF IndInv

\* What holds of the lists holds when they do not change.
LEMMA RolesUnchanged ==
    ASSUME RolesInv, UNCHANGED rolesVars
    PROVE  RolesInv' /\ everListed' = everListed
  BY DEF RolesInv, rolesVars

--------------------------------------------------------------------------------
(***************************************************************************)
(* The checks of a message.                                                *)
(***************************************************************************)
\* A goroutine takes a message.
LEMMA PreProcessStep ==
    ASSUME IndInv, NEW h \in Handlers, preProcessMessage(h)
    PROVE  IndInv'
<1>1. /\ handling[h] = Nothing
      /\ UNCHANGED <<rolesVars, elrondVars, nonces, denied, notified, wronglyRefused, faults>>
  BY DEF preProcessMessage
<1>2. PICK m \in Message :
         handling' = [handling EXCEPT ![h] = [at |-> "IsWhitelisted", msg |-> m]]
  BY ChecksInOrder DEF preProcessMessage
<1>3. handling \in [Handlers -> HandlingType]
  BY DEF IndInv, TypeInv
<1>4. TypeInv'
  BY <1>1, <1>2, <1>3 DEF IndInv, TypeInv, HandlingType
<1>5. /\ handling'[h].at = "IsWhitelisted"
      /\ \A h2 \in Handlers : h2 # h => handling'[h2] = handling[h2]
  BY <1>2, <1>3
<1>6. StakedInv'
  BY <1>1, <1>5 DEF IndInv, StakedInv, At, elrondVars
<1>7. RolesInv' /\ everListed' = everListed /\ everStaked' = everStaked
  BY <1>1, RolesUnchanged DEF IndInv, elrondVars
<1>8. OnceInv'
  BY <1>1, <1>5, <1>7 DEF IndInv, OnceInv, At
<1>9. NoSpuriousRefusal' /\ NoncesOfRelayersOnly' /\ ClientsGetRelayersOnly'
  BY <1>1, <1>7 DEF IndInv, NoSpuriousRefusal, NoncesOfRelayersOnly, ClientsGetRelayersOnly
<1> QED
  BY <1>4, <1>6, <1>7, <1>8, <1>9 DEF IndInv

\* Only who is on the list of Elrond passes.
LEMMA IsWhitelistedStep ==
    ASSUME IndInv, NEW h \in Handlers, IsWhitelisted(h)
    PROVE  IndInv'
<1>1. /\ At(h, "IsWhitelisted")
      /\ UNCHANGED <<rolesVars, elrondVars, nonces, denied, notified, wronglyRefused, faults>>
  BY DEF IsWhitelisted, At
<1>2. \/ Drop(h)
      \/ Goto(h, "processNonce") /\ handling[h].msg.key \in elrondList
  BY ChecksInOrder DEF IsWhitelisted
<1>3. TypeInv
  BY DEF IndInv
<1>4. /\ handling' \in [Handlers -> HandlingType]
      /\ \A h2 \in Handlers : h2 # h => handling'[h2] = handling[h2]
      /\ handling'[h].at \in {"nothing", "processNonce"}
      /\ handling'[h].at = "processNonce" => handling'[h].msg = handling[h].msg
      /\ Drop(h) => handling'[h].at = "nothing"
  BY <1>1, <1>2, <1>3, Moved
<1>5. TypeInv'
  BY <1>1, <1>3, <1>4 DEF TypeInv
<1>6. RolesInv' /\ everListed' = everListed /\ everStaked' = everStaked
  BY <1>1, RolesUnchanged DEF IndInv, elrondVars
<1>7. StakedInv'
  <2>1. handling'[h].at = "processNonce" => handling'[h].msg.key \in everStaked
    BY <1>2, <1>4 DEF IndInv, StakedInv
  <2> QED
    BY <1>1, <1>4, <2>1 DEF IndInv, StakedInv, At, elrondVars
<1>8. OnceInv'
  BY <1>1, <1>4, <1>6 DEF IndInv, OnceInv, At
<1>9. NoSpuriousRefusal' /\ NoncesOfRelayersOnly' /\ ClientsGetRelayersOnly'
  BY <1>1, <1>6 DEF IndInv, NoSpuriousRefusal, NoncesOfRelayersOnly, ClientsGetRelayersOnly
<1> QED
  BY <1>5, <1>6, <1>7, <1>8, <1>9 DEF IndInv

\* A newer nonce is recorded: nobody holds or was given a message with it.
LEMMA ProcessNonceStep ==
    ASSUME IndInv, NEW h \in Handlers, processNonce(h)
    PROVE  IndInv'
<1>0. TypeInv /\ nonces \in [Relayers -> Nat]
  BY DEF IndInv, TypeInv
<1>1. /\ At(h, "processNonce")
      /\ UNCHANGED <<rolesVars, elrondVars, denied, notified, wronglyRefused>>
  BY DEF processNonce, At
<1> DEFINE m == handling[h].msg
<1>2. m.key \in Relayers /\ m.nonce \in 1..MaxNonce /\ m.nonce \in Nat
  BY <1>0, <1>1, HeldType
<1>3. m.key \in everStaked
  BY <1>1 DEF IndInv, StakedInv
<1>4. \/ Drop(h) /\ UNCHANGED nonces
      \/ /\ nonces[m.key] < m.nonce
         /\ nonces' = [nonces EXCEPT ![m.key] = m.nonce]
         /\ Drop(h) \/ Goto(h, "VerifyEthSignature")
  <2>1. m.topic = "join" \/ m.topic = "sign"
    BY <1>0, <1>1, HeldType DEF Message
  <2>2. canProcessMessage(h) => Drop(h) \/ Goto(h, "VerifyEthSignature")
    BY <2>1, ChecksInOrder DEF canProcessMessage
  <2> QED
    BY <2>2 DEF processNonce, IsNewer
<1>5. /\ handling' \in [Handlers -> HandlingType]
      /\ \A h2 \in Handlers : h2 # h => handling'[h2] = handling[h2]
      /\ handling'[h].at \in {"nothing", "VerifyEthSignature"}
      /\ handling'[h].at = "VerifyEthSignature" => handling'[h].msg = m
      /\ Drop(h) => handling'[h].at = "nothing"
  BY <1>0, <1>1, <1>4, Moved
<1> HIDE DEF m
<1>6. /\ nonces' \in [Relayers -> Nat]
      /\ \A r \in Relayers : nonces[r] <= nonces'[r]
      /\ \A r \in Relayers : nonces'[r] > 0 => nonces[r] > 0 \/ r = m.key
      /\ handling'[h].at = "VerifyEthSignature" =>
            nonces[m.key] < m.nonce /\ nonces'[m.key] = m.nonce
  BY <1>0, <1>2, <1>4, <1>5
<1>7. TypeInv'
  BY <1>0, <1>1, <1>5, <1>6 DEF TypeInv
<1>8. RolesInv' /\ everListed' = everListed /\ everStaked' = everStaked
  BY <1>1, RolesUnchanged DEF IndInv, elrondVars
<1>9. StakedInv'
  BY <1>1, <1>5 DEF IndInv, StakedInv, At, elrondVars
<1>10. OnceInv'
  <2>1. ASSUME NEW r \in Relayers, NEW n \in 1..MaxNonce, notified'[r][n] > 0
        PROVE  n <= nonces'[r] /\ r \in everListed'
    <3>1. n <= nonces[r] /\ r \in everListed
      BY <1>1, <2>1 DEF IndInv, OnceInv
    <3>2. n \in Nat /\ nonces[r] \in Nat /\ nonces'[r] \in Nat
      BY <1>0, <1>6, IntakeAssumption
    <3> QED
      BY <1>6, <1>8, <3>1, <3>2
  <2>2. ASSUME NEW g \in Handlers, At(g, "VerifyEthSignature"), NEW x, x = handling[g].msg
        PROVE  /\ x.key \in Relayers /\ x.nonce \in Nat /\ x.nonce <= nonces[x.key]
               /\ x.nonce <= nonces'[x.key]
               /\ notified[x.key][x.nonce] = 0
    <3>1. x.key \in Relayers /\ x.nonce \in Nat
      BY <1>0, <2>2, HeldType
    <3>2. x.nonce <= nonces[x.key] /\ notified[x.key][x.nonce] = 0
      BY <2>2 DEF IndInv, OnceInv
    <3>3. nonces[x.key] \in Nat /\ nonces'[x.key] \in Nat /\ nonces[x.key] <= nonces'[x.key]
      BY <1>0, <1>6, <3>1
    <3> QED
      BY <3>1, <3>2, <3>3
  <2>3. ASSUME At(h, "VerifyEthSignature")', NEW g \in Handlers, g # h,
               At(g, "VerifyEthSignature")
        PROVE  handling[g].msg.key # m.key \/ handling[g].msg.nonce # m.nonce
    <3>1. nonces[m.key] < m.nonce /\ nonces[m.key] \in Nat
      BY <1>0, <1>2, <1>6, <2>3 DEF At
    <3>2. handling[g].msg.nonce <= nonces[handling[g].msg.key] /\ handling[g].msg.nonce \in Nat
      BY <2>2, <2>3
    <3> QED
      BY <1>2, <3>1, <3>2
  <2>4. At(h, "VerifyEthSignature")' =>
           m.nonce <= nonces'[m.key] /\ notified'[m.key][m.nonce] = 0
    <3> SUFFICES ASSUME At(h, "VerifyEthSignature")'
                 PROVE  m.nonce <= nonces'[m.key] /\ notified'[m.key][m.nonce] = 0
      OBVIOUS
    <3>1. nonces[m.key] < m.nonce /\ nonces[m.key] \in Nat /\ nonces'[m.key] = m.nonce
      BY <1>0, <1>2, <1>6 DEF At
    <3>2. notified[m.key][m.nonce] \in Nat
      BY <1>0, <1>2 DEF TypeInv
    <3>3. ~ (notified[m.key][m.nonce] > 0)
      BY <1>2, <3>1 DEF IndInv, OnceInv
    <3> QED
      BY <1>1, <1>2, <3>1, <3>2, <3>3
  <2>5. ASSUME NEW g \in Handlers, At(g, "VerifyEthSignature")', NEW x, x = handling'[g].msg
        PROVE  /\ x.nonce <= nonces'[x.key] /\ notified'[x.key][x.nonce] = 0
               /\ \A h2 \in Handlers : At(h2, "VerifyEthSignature")' /\ h2 # g =>
                     handling'[h2].msg.key # x.key \/ handling'[h2].msg.nonce # x.nonce
    <3>1. CASE g = h
      <4>1. x = m
        BY <1>5, <2>5, <3>1 DEF At
      <4> QED
        BY <1>5, <2>3, <2>4, <2>5, <3>1, <4>1 DEF At
    <3>2. CASE g # h
      <4>1. handling'[g] = handling[g] /\ At(g, "VerifyEthSignature") /\ x = handling[g].msg
        BY <1>5, <2>5, <3>2 DEF At
      <4>2. x.nonce <= nonces'[x.key] /\ notified'[x.key][x.nonce] = 0
        BY <1>1, <2>2, <4>1
      <4>3. ASSUME NEW h2 \in Handlers, At(h2, "VerifyEthSignature")', h2 # g
            PROVE  handling'[h2].msg.key # x.key \/ handling'[h2].msg.nonce # x.nonce
        <5>1. CASE h2 = h
          BY <1>5, <2>3, <3>2, <4>1, <4>3, <5>1 DEF At
        <5>2. CASE h2 # h
          <6>1. handling'[h2] = handling[h2] /\ At(h2, "VerifyEthSignature")
            BY <1>5, <4>3, <5>2 DEF At
          <6> QED
            BY <4>1, <4>3, <6>1 DEF IndInv, OnceInv
        <5> QED
          BY <5>1, <5>2
      <4> QED
        BY <4>2, <4>3
    <3> QED
      BY <3>1, <3>2
  <2> QED
    BY <2>1, <2>5 DEF OnceInv
<1>11. NoncesOfRelayersOnly'
  BY <1>3, <1>6, <1>8 DEF IndInv, NoncesOfRelayersOnly
<1>12. NoSpuriousRefusal' /\ ClientsGetRelayersOnly'
  BY <1>1, <1>8 DEF IndInv, NoSpuriousRefusal, ClientsGetRelayersOnly
<1> QED
  BY <1>7, <1>8, <1>9, <1>10, <1>11, <1>12 DEF IndInv

\* The signer is looked up while the map is not being filled; the clients get the
\* message from the only goroutine that holds it.
LEMMA VerifyEthSignatureStep ==
    ASSUME IndInv, NEW h \in Handlers, VerifyEthSignature(h)
    PROVE  IndInv'
<1>0. TypeInv /\ notified \in [Relayers -> [1..MaxNonce -> Nat]] /\ nonces \in [Relayers -> Nat]
  BY DEF IndInv, TypeInv
<1>1. /\ At(h, "VerifyEthSignature") /\ RLock /\ Drop(h)
      /\ UNCHANGED <<rolesVars, elrondVars, nonces, denied, faults>>
  BY DEF VerifyEthSignature, At
<1> DEFINE m == handling[h].msg
<1>2. m.key \in Relayers /\ m.nonce \in 1..MaxNonce /\ m.nonce \in Nat
  BY <1>0, <1>1, HeldType
<1>3. \/ /\ isWhitelisted(m.key)
         /\ notified' = [notified EXCEPT ![m.key][m.nonce] = @ + 1]
         /\ UNCHANGED wronglyRefused
      \/ /\ ~ isWhitelisted(m.key)
         /\ wronglyRefused' = wronglyRefused \cup {s \in alwaysListed : fetched /\ s = m.key}
         /\ UNCHANGED notified
  BY DEF VerifyEthSignature
<1>4. m.nonce <= nonces[m.key] /\ notified[m.key][m.nonce] = 0
  BY <1>1 DEF IndInv, OnceInv
<1>5. /\ handling' \in [Handlers -> HandlingType]
      /\ \A h2 \in Handlers : h2 # h => handling'[h2] = handling[h2]
      /\ handling'[h].at = "nothing"
  BY <1>0, <1>1, Moved
<1>6. \A h2 \in Handlers : At(h2, "VerifyEthSignature") /\ h2 # h =>
         handling[h2].msg.key # m.key \/ handling[h2].msg.nonce # m.nonce
  BY <1>1 DEF IndInv, OnceInv
<1> HIDE DEF m
<1>7. RolesInv' /\ everListed' = everListed /\ everStaked' = everStaked
  BY <1>1, RolesUnchanged DEF IndInv, elrondVars
<1>8. NoSpuriousRefusal'
  <2>1. CASE UNCHANGED wronglyRefused
    BY <2>1 DEF IndInv, NoSpuriousRefusal
  <2>2. CASE /\ ~ isWhitelisted(m.key)
             /\ wronglyRefused' = wronglyRefused \cup {s \in alwaysListed : fetched /\ s = m.key}
    <3>1. fetched => alwaysListed \subseteq whitelisted
      BY <1>1 DEF IndInv, RolesInv, RLock
    <3>2. \A s \in alwaysListed : ~ (fetched /\ s = m.key)
      BY <2>2, <3>1 DEF isWhitelisted
    <3> QED
      BY <2>2, <3>2 DEF IndInv, NoSpuriousRefusal
  <2> QED
    BY <1>3, <2>1, <2>2
<1>9. /\ notified' \in [Relayers -> [1..MaxNonce -> Nat]]
      /\ \A r \in Relayers, n \in 1..MaxNonce :
            \/ notified'[r][n] = notified[r][n]
            \/ r = m.key /\ n = m.nonce /\ notified'[r][n] = 1 /\ isWhitelisted(r)
  <2>1. CASE UNCHANGED notified
    BY <1>0, <2>1
  <2>2. CASE /\ isWhitelisted(m.key)
             /\ notified' = [notified EXCEPT ![m.key][m.nonce] = @ + 1]
    <3>1. notified' = [notified EXCEPT ![m.key] = [notified[m.key] EXCEPT ![m.nonce] = 1]]
      BY <1>0, <1>2, <1>4, <2>2
    <3>2. [notified[m.key] EXCEPT ![m.nonce] = 1] \in [1..MaxNonce -> Nat]
      BY <1>0, <1>2
    <3>3. notified' \in [Relayers -> [1..MaxNonce -> Nat]]
      BY <1>0, <1>2, <3>1, <3>2
    <3>4. ASSUME NEW r \in Relayers, NEW n \in 1..MaxNonce
          PROVE  \/ notified'[r][n] = notified[r][n]
                 \/ r = m.key /\ n = m.nonce /\ notified'[r][n] = 1 /\ isWhitelisted(r)
      <4>1. CASE r # m.key
        BY <1>0, <3>1, <4>1
      <4>2. CASE r = m.key
        <5>1. notified'[r] = [notified[r] EXCEPT ![m.nonce] = 1]
          BY <1>0, <3>1, <4>2
        <5> QED
          BY <1>0, <2>2, <4>2, <5>1
      <4> QED
        BY <4>1, <4>2
    <3> QED
      BY <3>3, <3>4
  <2> QED
    BY <1>3, <2>1, <2>2
<1>10. TypeInv' /\ StakedInv' /\ NoncesOfRelayersOnly'
  BY <1>0, <1>1, <1>5, <1>9
  DEF IndInv, TypeInv, StakedInv, NoncesOfRelayersOnly, At, elrondVars
<1>11. m.key \in everStaked /\ (isWhitelisted(m.key) => m.key \in everListed)
  <2>1. nonces[m.key] > 0
    BY <1>0, <1>2, <1>4
  <2> QED
    BY <1>2, <2>1 DEF IndInv, NoncesOfRelayersOnly, RolesInv, isWhitelisted
<1>12. ClientsGetRelayersOnly'
  <2> SUFFICES ASSUME NEW r \in Relayers, NEW n \in 1..MaxNonce
               PROVE  /\ notified'[r][n] > 0 => r \in everStaked \cap everListed
                      /\ notified'[r][n] <= 1
    BY <1>7 DEF ClientsGetRelayersOnly
  <2>1. CASE notified'[r][n] = notified[r][n]
    BY <2>1 DEF IndInv, ClientsGetRelayersOnly
  <2>2. CASE r = m.key /\ notified'[r][n] = 1 /\ isWhitelisted(r)
    BY <1>11, <2>2
  <2> QED
    BY <1>9, <2>1, <2>2
<1>13. OnceInv'
  <2>1. ASSUME NEW r \in Relayers, NEW n \in 1..MaxNonce, notified'[r][n] > 0
        PROVE  n <= nonces'[r] /\ r \in everListed'
    <3>1. CASE notified'[r][n] = notified[r][n]
      BY <1>1, <1>7, <2>1, <3>1 DEF IndInv, OnceInv
    <3>2. CASE r = m.key /\ n = m.nonce /\ isWhitelisted(r)
      BY <1>1, <1>4, <1>7, <1>11, <3>2
    <3> QED
      BY <1>9, <3>1, <3>2
  <2>2. ASSUME NEW g \in Handlers, At(g, "VerifyEthSignature")', NEW x, x = handling'[g].msg
        PROVE  /\ x.nonce <= nonces'[x.key] /\ notified'[x.key][x.nonce] = 0
               /\ \A h2 \in Handlers : At(h2, "VerifyEthSignature")' /\ h2 # g =>
                     handling'[h2].msg.key # x.key \/ handling'[h2].msg.nonce # x.nonce
    <3>1. g # h /\ At(g, "VerifyEthSignature") /\ x = handling[g].msg
      BY <1>5, <2>2 DEF At
    <3>2. x.key \in Relayers /\ x.nonce \in 1..MaxNonce
      BY <1>0, <3>1, HeldType
    <3>3. x.nonce <= nonces[x.key] /\ notified[x.key][x.nonce] = 0
      BY <3>1 DEF IndInv, OnceInv
    <3>4. x.key # m.key \/ x.nonce # m.nonce
      BY <1>6, <3>1
    <3>5. notified'[x.key][x.nonce] = notified[x.key][x.nonce]
      BY <1>9, <3>2, <3>4
    <3>6. ASSUME NEW h2 \in Handlers, At(h2, "VerifyEthSignature")', h2 # g
          PROVE  handling'[h2].msg.key # x.key \/ handling'[h2].msg.nonce # x.nonce
      <4>1. handling'[h2] = handling[h2] /\ At(h2, "VerifyEthSignature")
        BY <1>5, <3>6 DEF At
      <4> QED
        BY <3>1, <3>6, <4>1 DEF IndInv, OnceInv
    <3> QED
      BY <1>1, <3>3, <3>5, <3>6
  <2> QED
    BY <2>1, <2>2 DEF OnceInv
<1> QED
  BY <1>7, <1>8, <1>10, <1>12, <1>13 DEF IndInv

--------------------------------------------------------------------------------
\* Nothing is held and nobody is on a list of the process at first.
LEMMA InitIndInv == Init => IndInv
<1> SUFFICES ASSUME Init PROVE IndInv
  OBVIOUS
<1>1. RolesInv
  BY DEF Init, RolesInit, RolesInv
<1>2. StakedInv /\ NoSpuriousRefusal /\ NoncesOfRelayersOnly
  BY DEF Init, StakedInv, NoSpuriousRefusal, NoncesOfRelayersOnly, At, Nothing
<1>3. TypeInv
  BY DEF Init, TypeInv, HandlingType, NeverNotified
<1>4. OnceInv /\ ClientsGetRelayersOnly
  BY DEF Init, OnceInv, ClientsGetRelayersOnly, NeverNotified, At, Nothing
<1> QED
  BY <1>1, <1>2, <1>3, <1>4 DEF IndInv

\* A restart leaves nothing behind.
LEMMA RestartStep == ASSUME IndInv, Restart PROVE IndInv'
<1>1. RolesInv' /\ everListed \subseteq everListed'
  BY RolesStep DEF IndInv, Restart
<1>2. StakedInv' /\ NoSpuriousRefusal' /\ NoncesOfRelayersOnly'
  BY DEF Restart, IndInv, StakedInv, NoSpuriousRefusal, NoncesOfRelayersOnly, At, Nothing
<1>3. TypeInv'
  BY DEF Restart, TypeInv, HandlingType, NeverNotified
<1>4. OnceInv' /\ ClientsGetRelayersOnly'
  BY DEF Restart, OnceInv, ClientsGetRelayersOnly, NeverNotified, At, Nothing
<1> QED
  BY <1>1, <1>2, <1>3, <1>4 DEF IndInv

\* Every step keeps the invariant.
LEMMA NextIndInv == IndInv /\ [Next]_vars => IndInv'
<1> SUFFICES ASSUME IndInv, [Next]_vars PROVE IndInv'
  OBVIOUS
<1>0. RolesInv /\ StakedInv
  BY DEF IndInv
<1>1. ASSUME NEW h \in Handlers, Handle(h) PROVE IndInv'
  BY <1>1, PreProcessStep, IsWhitelistedStep, ProcessNonceStep, VerifyEthSignatureStep DEF Handle
<1>2. CASE refuseMessage \/ Forgive \/ UNCHANGED vars
  <2>1. UNCHANGED <<rolesVars, elrondVars, handling, nonces, notified, wronglyRefused>>
    BY <1>2 DEF refuseMessage, Forgive, vars, intakeVars
  <2>2. RolesInv' /\ everListed' = everListed
    BY <1>0, <2>1, RolesUnchanged
  <2> QED
    BY <1>0, <2>1, <2>2, ListsStep DEF StakedInv, elrondVars
<1>3. CASE PollEthereum \/ ChangeEthereum
  <2>1. UNCHANGED <<elrondVars, intakeVars>> /\ (Execute \/ ChangeRelayers)
    BY <1>3 DEF PollEthereum, ChangeEthereum
  <2>2. RolesInv' /\ everListed \subseteq everListed'
    BY <1>0, <2>1, RolesStep
  <2> QED
    BY <1>0, <2>1, <2>2, ListsStep DEF StakedInv, elrondVars, intakeVars
<1>4. CASE PollElrond
  <2>1. UNCHANGED <<rolesVars, staked, everStaked, intakeVars>>
    BY <1>4 DEF PollElrond
  <2>2. RolesInv' /\ everListed' = everListed
    BY <1>0, <2>1, RolesUnchanged
  <2>3. /\ staked' \cup elrondList' \subseteq everStaked'
        /\ stakedResults' # NoResults => stakedResults' \subseteq everStaked'
    BY <1>0, <1>4 DEF PollElrond, StakedInv
  <2> QED
    BY <2>1, <2>2, <2>3, ListsStep DEF intakeVars
<1>5. CASE ChangeStaked
  <2>1. UNCHANGED <<relayers, alwaysListed, everListed, providerVars, intakeVars>>
    BY <1>5 DEF ChangeStaked
  <2>2. RolesInv' /\ everListed' = everListed
    BY <1>0, <2>1 DEF RolesInv, providerVars
  <2>3. /\ everStaked \subseteq everStaked'
        /\ staked' \cup elrondList' \subseteq everStaked'
        /\ stakedResults' # NoResults => stakedResults' \subseteq everStaked'
    BY <1>0, <1>5 DEF ChangeStaked, StakedInv
  <2> QED
    BY <2>1, <2>2, <2>3, ListsStep DEF intakeVars
<1> QED
  BY <1>1, <1>2, <1>3, <1>4, <1>5, RestartStep DEF Next

\* The lists, the goroutines and the nonces fit together in every behaviour.
THEOREM Invariance == Spec => []IndInv
  BY InitIndInv, NextIndInv, PTL DEF Spec

\* While ethereumRoleProvider empties and fills its map, VerifyEthSignature
\* refuses nobody who has been on the contract's list since ever.
THEOREM NobodyRefusedSpuriously == Spec => []NoSpuriousRefusal
<1>1. IndInv => NoSpuriousRefusal
  BY DEF IndInv
<1> QED
  BY <1>1, Invariance, PTL

\* The map of the nonce filter grows with the contract's list, not with the keys
\* that send messages.
THEOREM FilterHoldsRelayersOnly == Spec => []NoncesOfRelayersOnly
<1>1. IndInv => NoncesOfRelayersOnly
  BY DEF IndInv
<1> QED
  BY <1>1, Invariance, PTL

\* However many goroutines handle copies of a message while both whitelists
\* change, the clients get it at most once between two starts, and only from who
\* was a relayer on both chains.
THEOREM ClientsGetRelayersOnce == Spec => []ClientsGetRelayersOnly
<1>1. IndInv => ClientsGetRelayersOnly
  BY DEF IndInv
<1> QED
  BY <1>1, Invariance, PTL
================================================================================
