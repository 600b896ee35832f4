--------------------------- MODULE Broadcaster_proofs ---------------------------
(***************************************************************************)
(* The nonce filter of the broadcaster lets every message pass once, for   *)
(* any number of relayers, messages and faults.                            *)
(***************************************************************************)
EXTENDS Broadcaster, TLAPS

\* A new message is one above all that its sender made.
LEMMA CreateMessageType ==
    ASSUME TypeOK, NEW r \in Relayers, NEW payload \in Payload
    PROVE  /\ createMessage(r, payload) \in SignedMessage
           /\ createMessage(r, payload).nonce = counter[r] + 1
           /\ createMessage(r, payload).pk = r
  BY DEF TypeOK, createMessage, SignedMessage

\* A broadcast keeps what holds of the packets, the counters and the nonces.
LEMMA BroadcastMessageStep ==
    ASSUME IndInv, NEW r \in Relayers, NEW payload \in Payload,
           broadcastMessage(r, createMessage(r, payload)),
           running' \subseteq Relayers, UNCHANGED nonces
    PROVE  /\ net' \subseteq Packet
           /\ counter' \in [Relayers -> Nat]
           /\ \A p \in net' : p.msg.nonce <= counter'[p.msg.pk]
           /\ \A q, x \in Relayers : nonces'[q][x] <= counter'[x]
  <1> DEFINE m == createMessage(r, payload)
             new == {[to |-> q, peer |-> r, msg |-> m] : q \in running'}
  <1>1. m \in SignedMessage /\ m.nonce = counter[r] + 1 /\ m.pk = r
    BY CreateMessageType DEF IndInv
  <1>2. counter \in [Relayers -> Nat]
    BY DEF IndInv, TypeOK
  <1>3. counter' = [counter EXCEPT ![r] = m.nonce] /\ net' = net \cup new
    BY DEF broadcastMessage
  <1> HIDE DEF m
  <1>4. counter' \in [Relayers -> Nat] /\ \A x \in Relayers : counter[x] <= counter'[x]
    BY <1>1, <1>2, <1>3
  <1>5. new \subseteq Packet /\ \A p \in new : p.msg = m
    BY <1>1 DEF Packet
  <1> HIDE DEF new
  <1>6. net' \subseteq Packet
    BY <1>3, <1>5 DEF IndInv, TypeOK
  <1>7. \A p \in net' : p.msg.nonce <= counter'[p.msg.pk]
    <2> SUFFICES ASSUME NEW p \in net' PROVE p.msg.nonce <= counter'[p.msg.pk]
      OBVIOUS
    <2>1. CASE p \in net
      <3>1. p.msg.nonce <= counter[p.msg.pk] /\ p.msg.pk \in Relayers /\ p.msg.nonce \in Nat
        BY <2>1 DEF IndInv, TypeOK, Packet, SignedMessage
      <3> QED
        BY <3>1, <1>2, <1>4
    <2>2. CASE p \in new
      BY <2>2, <1>1, <1>2, <1>3, <1>5
    <2> QED
      BY <2>1, <2>2, <1>3
  <1>8. \A q, x \in Relayers : nonces'[q][x] <= counter'[x]
    BY <1>2, <1>4 DEF IndInv, TypeOK
  <1> QED
    BY <1>4, <1>6, <1>7, <1>8

\* The initial state has nothing under way and nothing recorded.
LEMMA InitIndInv == Init => IndInv
  BY ConstantsAssumption
  DEF Init, IndInv, TypeOK, NoReplay, NoMessage, Packet

\* Every step keeps the inductive invariant.
LEMMA NextIndInv == IndInv /\ [Next]_vars => IndInv'
  <1> SUFFICES ASSUME IndInv, [Next]_vars PROVE IndInv'
    OBVIOUS
  <1> USE DEF Fault
  <1>1. ASSUME NEW r \in Relayers, NEW hash \in Hashes, BroadcastSignature(r, hash)
        PROVE  IndInv'
    <2>1. hash \in Payload
      BY DEF Payload
    <2>2. /\ net' \subseteq Packet
          /\ counter' \in [Relayers -> Nat]
          /\ \A p \in net' : p.msg.nonce <= counter'[p.msg.pk]
          /\ \A q, x \in Relayers : nonces'[q][x] <= counter'[x]
      BY <1>1, <2>1, BroadcastMessageStep DEF BroadcastSignature, IndInv, TypeOK
    <2>3. latest' \in [Relayers -> LastSignature \cup {NoMessage}]
      <3>1. Ready \subseteq Relayers
        BY DEF Ready, IndInv, TypeOK
      <3> QED
        BY <1>1, <2>1, <3>1, CreateMessageType DEF BroadcastSignature, IndInv, TypeOK, LastSignature
    <2> QED
      BY <1>1, <2>2, <2>3 DEF BroadcastSignature, IndInv, TypeOK, NoReplay, Seen
  <1>2. ASSUME NEW r \in Relayers, Start(r) \/ BroadcastJoinTopic(r) PROVE IndInv'
    <2>1. Join \in Payload
      BY DEF Payload
    <2>2. /\ broadcastMessage(r, createMessage(r, Join))
          /\ running' \subseteq Relayers
          /\ UNCHANGED <<nonces, accepted, signedMessages, whitelists, latest, notified, faults>>
      BY <1>2 DEF Start, BroadcastJoinTopic, IndInv, TypeOK
    <2>3. /\ net' \subseteq Packet
          /\ counter' \in [Relayers -> Nat]
          /\ \A p \in net' : p.msg.nonce <= counter'[p.msg.pk]
          /\ \A q, x \in Relayers : nonces'[q][x] <= counter'[x]
      BY <2>1, <2>2, BroadcastMessageStep
    <2> QED
      BY <2>2, <2>3 DEF IndInv, TypeOK, NoReplay, Seen
  <1>3. ASSUME NEW r \in Relayers, ProcessReceivedMessage(r) PROVE IndInv'
    <2>1. PICK p \in net :
             /\ net' = net \ {p}
             /\ \/ UNCHANGED <<nonces, accepted, faults>>
                \/ /\ IsNewer(r, p.msg)
                   /\ processNonce(r, p.msg)
                   /\ \/ Fault /\ UNCHANGED accepted
                      \/ /\ accepted' = [accepted EXCEPT ![r] = @ \cup {p}]
                         /\ UNCHANGED faults
      BY <1>3 DEF ProcessReceivedMessage
    <2>2. UNCHANGED <<counter, signedMessages, running, whitelists, latest, notified>>
      BY <1>3 DEF ProcessReceivedMessage
    <2>3. /\ p \in Packet /\ p.msg.pk \in Relayers /\ p.msg.nonce \in Nat
          /\ p.msg.nonce <= counter[p.msg.pk]
      BY DEF IndInv, TypeOK, Packet, SignedMessage
    <2>4. CASE UNCHANGED <<nonces, accepted, faults>>
      BY <2>1, <2>2, <2>4 DEF IndInv, TypeOK, NoReplay, Seen
    <2>5. CASE /\ IsNewer(r, p.msg)
               /\ processNonce(r, p.msg)
               /\ \/ Fault /\ UNCHANGED accepted
                  \/ /\ accepted' = [accepted EXCEPT ![r] = @ \cup {p}]
                     /\ UNCHANGED faults
      <3>1. nonces[r][p.msg.pk] < p.msg.nonce
        BY <2>5 DEF IsNewer
      <3>2. nonces' = [nonces EXCEPT ![r] = [nonces[r] EXCEPT ![p.msg.pk] = p.msg.nonce]]
        BY <2>5 DEF processNonce
      <3>3. nonces \in [Relayers -> [Relayers -> Nat]] /\ counter \in [Relayers -> Nat]
        BY DEF IndInv, TypeOK
      <3>4. /\ nonces' \in [Relayers -> [Relayers -> Nat]]
            /\ \A q, x \in Relayers : nonces[q][x] <= nonces'[q][x] /\ nonces'[q][x] <= counter'[x]
            /\ nonces'[r][p.msg.pk] = p.msg.nonce
        BY <3>1, <3>2, <3>3, <2>2, <2>3 DEF IndInv, TypeOK
      <3>5. /\ accepted' \in [Relayers -> SUBSET Packet]
            /\ \A q \in Relayers : \A x \in accepted'[q] :
                  x \in accepted[q] \/ (q = r /\ x = p)
            /\ faults' \in 0..MaxFaults
        BY <2>3, <2>5, ConstantsAssumption DEF IndInv, TypeOK
      <3>6. TypeOK'
        BY <2>1, <2>2, <3>4, <3>5 DEF IndInv, TypeOK
      <3>7. \A q \in Relayers : \A m \in SignedMessage : Seen(q, m) => Seen(q, m)'
        BY <3>3, <3>4 DEF Seen, SignedMessage
      <3>8. \A q \in Relayers :
               /\ \A x \in accepted'[q] : Seen(q, x.msg)'
               /\ \A m \in (notified[q] \cup signedMessages[q])' : Seen(q, m)'
        <4>1. Seen(r, p.msg)'
          BY <3>4, <2>3 DEF Seen
        <4>2. \A q \in Relayers : \A x \in accepted[q] : x.msg \in SignedMessage /\ Seen(q, x.msg)
          BY DEF IndInv, TypeOK, Packet
        <4>3. \A q \in Relayers : \A m \in notified[q] \cup signedMessages[q] :
                 m \in SignedMessage /\ Seen(q, m)
          BY DEF IndInv, TypeOK
        <4> QED
          BY <4>1, <4>2, <4>3, <3>5, <3>7, <2>2
      <3>9. NoReplay'
        <4>1. ~ Seen(r, p.msg)
          BY <3>1, <3>3, <2>3 DEF Seen
        <4>2. p.msg \notin notified[r] /\ \A x \in accepted[r] : x.msg # p.msg
          BY <4>1 DEF IndInv
        <4> QED
          BY <4>2, <3>5, <2>2 DEF IndInv, NoReplay
      <3>10. \A x \in net' : x.msg.nonce <= counter'[x.msg.pk]
        BY <2>1, <2>2 DEF IndInv
      <3> QED
        BY <3>6, <3>8, <3>9, <3>10 DEF IndInv
    <2> QED
      BY <2>1, <2>4, <2>5
  <1>4. ASSUME NEW r \in Relayers, processJoinMessage(r) PROVE IndInv'
    <2>1. PICK p \in accepted[r] :
             /\ accepted' = [accepted EXCEPT ![r] = @ \ {p}]
             /\ net' = net \cup {[to |-> p.peer, peer |-> r, msg |-> m] : m \in signedMessages[r]}
      BY <1>4 DEF processJoinMessage
    <2>2. UNCHANGED <<counter, nonces, signedMessages, running, whitelists, latest, notified, faults>>
      BY <1>4 DEF processJoinMessage
    <2>3. p.peer \in Relayers
      BY DEF IndInv, TypeOK, Packet
    <2>4. net' \subseteq Packet
      BY <2>1, <2>3 DEF IndInv, TypeOK, Packet
    <2>5. \A m \in signedMessages[r] : m.nonce <= counter[m.pk]
      <3> SUFFICES ASSUME NEW m \in signedMessages[r] PROVE m.nonce <= counter[m.pk]
        OBVIOUS
      <3>1. m.pk \in Relayers /\ m.nonce \in Nat /\ m.nonce <= nonces[r][m.pk]
        BY DEF IndInv, TypeOK, SignedMessage, Seen
      <3>2. /\ nonces[r][m.pk] <= counter[m.pk]
            /\ nonces[r][m.pk] \in Nat /\ counter[m.pk] \in Nat
        BY <3>1 DEF IndInv, TypeOK
      <3> QED
        BY <3>1, <3>2
    <2>6. \A x \in net' : x.msg.nonce <= counter'[x.msg.pk]
      BY <2>1, <2>2, <2>5 DEF IndInv
    <2>7. /\ accepted' \in [Relayers -> SUBSET Packet]
          /\ \A q \in Relayers : accepted'[q] \subseteq accepted[q]
      BY <2>1 DEF IndInv, TypeOK
    <2> QED
      BY <2>2, <2>4, <2>6, <2>7 DEF IndInv, TypeOK, NoReplay, Seen
  <1>5. ASSUME NEW r \in Relayers, processSignMessage(r) PROVE IndInv'
    <2>1. PICK p \in accepted[r] :
             /\ accepted' = [accepted EXCEPT ![r] = @ \ {p}]
             /\ \/ UNCHANGED <<signedMessages, notified>>
                \/ /\ ProcessNewMessage(r, p.msg)
                   /\ notified' = [notified EXCEPT ![r] = @ \cup {p.msg}]
      BY <1>5 DEF processSignMessage
    <2>2. UNCHANGED <<net, counter, nonces, running, whitelists, latest, faults>>
      BY <1>5 DEF processSignMessage
    <2>3. p.msg \in SignedMessage /\ Seen(r, p.msg)
      BY DEF IndInv, TypeOK, Packet
    <2>4. /\ accepted' \in [Relayers -> SUBSET Packet]
          /\ \A q \in Relayers : \A x \in accepted'[q] :
                x \in accepted[q] /\ (q = r => x # p)
      BY <2>1 DEF IndInv, TypeOK
    <2>5. /\ notified' \in [Relayers -> SUBSET SignedMessage]
          /\ \A q \in Relayers : \A m \in notified'[q] :
                m \in notified[q] \/ (q = r /\ m = p.msg)
      BY <2>1, <2>3 DEF IndInv, TypeOK
    <2>6. /\ signedMessages' \in [Relayers -> SUBSET SignedMessage]
          /\ \A q \in Relayers : \A m \in signedMessages'[q] :
                m \in signedMessages[q] \/ (q = r /\ m = p.msg)
      BY <2>1, <2>3 DEF IndInv, TypeOK, ProcessNewMessage
    <2>7. TypeOK'
      BY <2>2, <2>4, <2>5, <2>6 DEF IndInv, TypeOK
    <2>8. NoReplay'
      BY <2>4, <2>5 DEF IndInv, NoReplay
    <2> QED
      BY <2>2, <2>3, <2>4, <2>5, <2>6, <2>7, <2>8 DEF IndInv, Seen
  <1>6. ASSUME NEW r \in Relayers, ClearStoredSignatures(r) PROVE IndInv'
    BY <1>6 DEF ClearStoredSignatures, IndInv, TypeOK, NoReplay, Seen
  <1>7. ASSUME NEW r \in Relayers, Stop(r) PROVE IndInv'
    <2>1. /\ nonces' = [nonces EXCEPT ![r] = [q \in Relayers |-> 0]]
          /\ accepted' = [accepted EXCEPT ![r] = {}]
          /\ signedMessages' = [signedMessages EXCEPT ![r] = {}]
          /\ notified' = [notified EXCEPT ![r] = {}]
          /\ whitelists' = [whitelists EXCEPT ![r] = {}]
          /\ net' \subseteq net /\ running' \subseteq running
          /\ UNCHANGED <<counter, latest>>
          /\ faults' \in 0..MaxFaults
      BY <1>7, ConstantsAssumption DEF Stop, IndInv, TypeOK
    <2>2. TypeOK'
      <3>1. nonces' \in [Relayers -> [Relayers -> Nat]]
        BY <2>1 DEF IndInv, TypeOK
      <3>2. \A q, x \in Relayers : nonces'[q][x] <= counter'[x]
        BY <2>1 DEF IndInv, TypeOK
      <3> QED
        BY <2>1, <3>1, <3>2 DEF IndInv, TypeOK
    <2> QED
      BY <2>1, <2>2 DEF IndInv, TypeOK, NoReplay, Seen
  <1>8. ASSUME NEW r \in Relayers, NEW m \in notified[r], Repeat(m) PROVE IndInv'
    <2>1. /\ m \in SignedMessage /\ m.pk \in Relayers /\ m.nonce \in Nat
          /\ m.nonce <= nonces[r][m.pk]
      BY DEF IndInv, TypeOK, SignedMessage, Seen
    <2>2. /\ nonces[r][m.pk] <= counter[m.pk]
          /\ nonces[r][m.pk] \in Nat /\ counter[m.pk] \in Nat
      BY <2>1 DEF IndInv, TypeOK
    <2>3. PICK x, q \in running : net' = net \cup {[to |-> x, peer |-> q, msg |-> m]}
      BY <1>8 DEF Repeat
    <2>4. x \in Relayers /\ q \in Relayers
      BY DEF IndInv, TypeOK
    <2>5. net' \subseteq Packet /\ \A p \in net' : p.msg.nonce <= counter[p.msg.pk]
      BY <2>1, <2>2, <2>3, <2>4 DEF IndInv, TypeOK, Packet
    <2>6. faults' \in 0..MaxFaults
      BY <1>8, ConstantsAssumption DEF Repeat, IndInv, TypeOK
    <2> QED
      BY <1>8, <2>5, <2>6 DEF Repeat, IndInv, TypeOK, NoReplay, Seen
  <1>9. ASSUME LosePacket PROVE IndInv'
    <2>1. faults' \in 0..MaxFaults
      BY <1>9, ConstantsAssumption DEF LosePacket, IndInv, TypeOK
    <2> QED
      BY <1>9, <2>1 DEF LosePacket, IndInv, TypeOK, NoReplay, Seen
  <1>10. ASSUME NEW r \in Relayers, NEW chain \in Chains, fetchWhitelist(r, chain) PROVE IndInv'
    BY <1>10 DEF fetchWhitelist, IndInv, TypeOK, NoReplay, Seen
  <1>11. CASE UNCHANGED vars
    BY <1>11 DEF vars, IndInv, TypeOK, NoReplay, Seen
  <1> QED
    BY <1>1, <1>2, <1>3, <1>4, <1>5, <1>6, <1>7, <1>8, <1>9, <1>10, <1>11 DEF Next

\* The nonce filter's invariant holds in every behaviour.
THEOREM Invariance == Spec => []IndInv
  <1> QED
    BY InitIndInv, NextIndInv, PTL DEF Spec

\* The variables of the broadcasters keep their types, and nobody records a
\* nonce that its sender has not used.
THEOREM TypeCorrect == Spec => []TypeOK
  <1>1. IndInv => TypeOK
    BY DEF IndInv
  <1> QED
    BY Invariance, <1>1, PTL

\* No broadcaster gives its clients the same message twice between two starts:
\* the comparison of nonces in processNonce stops every repetition.
THEOREM MessagesAreNotReplayed == Spec => []NoReplay
  <1>1. IndInv => NoReplay
    BY DEF IndInv
  <1> QED
    BY Invariance, <1>1, PTL

--------------------------------------------------------------------------------
(***************************************************************************)
(* The last signature of a relayer is delivered.                           *)
(***************************************************************************)
\* Who was to get a signature knows that there is one.
LEMMA LatestType ==
    ASSUME TypeOK, NEW q \in Relayers
    PROVE  /\ latest[q] # NoMessage => /\ latest[q].msg \in SignedMessage
                                       /\ latest[q].audience \subseteq Relayers
           /\ latest[q] = NoMessage => latest[q].audience = {}
<1>1. latest[q] \in LastSignature \/ latest[q] = NoMessage
  BY DEF TypeOK
<1> QED
  BY <1>1 DEF LastSignature, NoMessage

\* A message with a nonce that its sender has used.
Used(m) == m \in SignedMessage /\ m.nonce <= counter[m.pk]

\* So have those that are under way, accepted, handled or stored.
LEMMA MessagesUsed ==
    ASSUME IndInv
    PROVE  /\ \A p \in net : Used(p.msg)
           /\ \A r \in Relayers :
                 /\ \A p \in accepted[r] : Used(p.msg)
                 /\ \A m \in notified[r] \cup signedMessages[r] : Used(m)
<1>1. ASSUME NEW r \in Relayers, NEW m \in SignedMessage, Seen(r, m) PROVE Used(m)
  <2>1. m.pk \in Relayers /\ m.nonce \in Nat /\ m.nonce <= nonces[r][m.pk]
    BY <1>1 DEF Seen, SignedMessage
  <2>2. /\ nonces[r][m.pk] <= counter[m.pk]
        /\ nonces[r][m.pk] \in Nat /\ counter[m.pk] \in Nat
    BY <2>1 DEF IndInv, TypeOK
  <2> QED
    BY <1>1, <2>1, <2>2 DEF Used
<1>2. \A p \in net : Used(p.msg)
  BY DEF IndInv, TypeOK, Packet, Used
<1>3. ASSUME NEW r \in Relayers
      PROVE  /\ \A p \in accepted[r] : Used(p.msg)
             /\ \A m \in notified[r] \cup signedMessages[r] : Used(m)
  <2>1. \A p \in accepted[r] : p.msg \in SignedMessage /\ Seen(r, p.msg)
    BY DEF IndInv, TypeOK, Packet
  <2>2. \A m \in notified[r] \cup signedMessages[r] : m \in SignedMessage /\ Seen(r, m)
    BY DEF IndInv, TypeOK
  <2> QED
    BY <1>1, <2>1, <2>2
<1> QED
  BY <1>2, <1>3

\* A relayer keeps its lists as long as nothing fails.
LEMMA NextAudienceInv ==
    ASSUME TypeOK, AudienceInv, [Next]_vars
    PROVE  AudienceInv'
<1>1. ASSUME NEW r \in Relayers, NEW hash \in Hashes, BroadcastSignature(r, hash)
      PROVE  AudienceInv'
  <2> DEFINE m == createMessage(r, hash)
  <2>1. /\ latest' = [latest EXCEPT ![r] = [msg |-> m, audience |-> Ready]]
        /\ UNCHANGED <<whitelists, faults>>
    BY <1>1 DEF BroadcastSignature
  <2> HIDE DEF m
  <2> SUFFICES ASSUME faults = 0, NEW q \in Relayers, NEW x \in latest'[q].audience
               PROVE  whitelists[x] = Chains
    BY <2>1 DEF AudienceInv
  <2>2. CASE q = r
    BY <2>1, <2>2 DEF Ready, TypeOK
  <2>3. CASE q # r
    BY <2>1, <2>3 DEF AudienceInv, TypeOK
  <2> QED
    BY <2>2, <2>3
<1>2. ASSUME NEW r \in Relayers, NEW chain \in Chains, fetchWhitelist(r, chain)
      PROVE  AudienceInv'
  <2>1. /\ UNCHANGED <<latest, faults>>
        /\ \A x \in Relayers : whitelists[x] \subseteq whitelists'[x] /\ whitelists'[x] \subseteq Chains
    BY <1>2 DEF fetchWhitelist, TypeOK
  <2>2. \A q \in Relayers : latest[q].audience \subseteq Relayers
    BY LatestType
  <2> QED
    BY <2>1, <2>2 DEF AudienceInv
<1>3. ASSUME NEW r \in Relayers, Stop(r) PROVE AudienceInv'
  BY <1>3 DEF Stop, Fault, AudienceInv, TypeOK
<1>4. CASE UNCHANGED <<whitelists, latest>> /\ (faults' = 0 => faults = 0)
  BY <1>4 DEF AudienceInv
<1>5. Fault => (faults' = 0 => faults = 0)
  BY DEF Fault, TypeOK
<1> QED
  BY <1>1, <1>2, <1>3, <1>4, <1>5
  DEF Next, vars, Start, BroadcastJoinTopic, ProcessReceivedMessage, processJoinMessage,
      processSignMessage, ClearStoredSignatures, Repeat, LosePacket

\* DeliveryInv with a name for the signature.
LEMMA DeliveryUnfolded ==
    ASSUME TypeOK, DeliveryInv, faults = 0,
           NEW q \in Relayers, latest[q] # NoMessage, NEW r \in latest[q].audience,
           NEW s, s = latest[q].msg
    PROVE  Delivered(q, s, r)
  BY DEF DeliveryInv

\* What has to be shown of the next state, with a name for the signature.
LEMMA DeliveryFolded ==
    ASSUME TypeOK', LatestInv', MessagesInv',
           ASSUME faults' = 0, NEW q \in Relayers, latest'[q] # NoMessage,
                  NEW r \in latest'[q].audience, r \in Relayers, NEW s, s = latest'[q].msg
           PROVE  Delivered(q, s, r)'
    PROVE  DeliveryInv'
<1> SUFFICES ASSUME faults' = 0, NEW q \in Relayers, NEW r \in latest'[q].audience
             PROVE  Delivered(q, latest[q].msg, r)'
  BY DEF DeliveryInv
<1>1. latest'[q] # NoMessage /\ r \in Relayers
  <2>1. latest'[q] \in LastSignature \/ latest'[q] = NoMessage
    BY DEF TypeOK
  <2> QED
    BY <2>1 DEF LastSignature, NoMessage
<1>2. \A s : s = latest'[q].msg => Delivered(q, s, r)'
  BY <1>1
<1> QED
  BY <1>2 DEF Delivered, Taken, Reached, OnItsWay

\* A broadcast: the new message is above all others of its sender.
LEMMA BroadcastDelivery ==
    ASSUME IndInv, TypeOK', DeliveryInv, NEW r \in Relayers, NEW payload \in Payload,
           NEW m, m = createMessage(r, payload), NEW ready, ready \subseteq running',
           broadcastMessage(r, m), running' \subseteq Relayers,
           UNCHANGED <<nonces, accepted, signedMessages, notified, faults>>,
           \/ payload = Join /\ latest' = latest
           \/ payload # Join /\ latest' = [latest EXCEPT ![r] = [msg |-> m, audience |-> ready]]
    PROVE  DeliveryInv'
<1> DEFINE new == {[to |-> q, peer |-> r, msg |-> m] : q \in running'}
<1>0. TypeOK /\ LatestInv /\ MessagesInv
  BY DEF IndInv, DeliveryInv
<1>1. m \in SignedMessage /\ m.nonce = counter[r] + 1 /\ m.pk = r /\ m.payload = payload
  BY <1>0, CreateMessageType DEF createMessage
<1>2. /\ counter \in [Relayers -> Nat] /\ counter' = [counter EXCEPT ![r] = m.nonce]
      /\ net' = net \cup new
  BY <1>0 DEF broadcastMessage, TypeOK
<1>3. /\ counter'[r] = counter[r] + 1 /\ counter[r] \in Nat
      /\ \A q \in Relayers \ {r} : counter'[q] = counter[q] /\ latest'[q] = latest[q]
  BY <1>0, <1>1, <1>2 DEF TypeOK
<1>4. /\ payload = Join => latest'[r] = latest[r]
      /\ payload # Join => /\ latest'[r].msg = m /\ latest'[r].audience = ready
                           /\ latest'[r] # NoMessage
  <2>1. [msg |-> m, audience |-> ready] # NoMessage
    BY DEF NoMessage
  <2> QED
    BY <1>0, <2>1 DEF TypeOK
<1>5. \A p \in new : p.msg = m /\ p.peer = r /\ p.to \in running'
  OBVIOUS
<1>6. \A q \in running' : [to |-> q, peer |-> r, msg |-> m] \in new
  OBVIOUS
<1> HIDE DEF new
<1>7. LatestInv'
  <2> SUFFICES ASSUME NEW q \in Relayers, latest'[q] # NoMessage
               PROVE  latest'[q].msg.pk = q /\ latest'[q].msg.payload # Join
                      /\ latest'[q].msg.nonce \in 1..counter'[q]
    BY DEF LatestInv
  <2>1. CASE q = r /\ payload # Join
    BY <1>1, <1>3, <1>4, <2>1
  <2>2. CASE ~ (q = r /\ payload # Join)
    <3>1. latest'[q] = latest[q]
      BY <1>3, <1>4, <2>2
    <3>2. latest[q].msg.pk = q /\ latest[q].msg.payload # Join
          /\ latest[q].msg.nonce \in 1..counter[q]
      BY <1>0, <3>1 DEF LatestInv
    <3>3. counter[q] \in Nat /\ counter'[q] \in Nat /\ counter[q] <= counter'[q]
      BY <1>2, <1>3
    <3> QED
      BY <3>1, <3>2, <3>3
  <2> QED
    BY <2>1, <2>2
<1>8. ASSUME NEW x, Used(x), MessageInv(x) PROVE MessageInv(x)'
  <2>1. x.pk \in Relayers /\ x.nonce \in Nat /\ x.nonce <= counter[x.pk]
    BY <1>8 DEF Used, SignedMessage
  <2>2. CASE x.pk = r /\ payload # Join
    <3>1. latest'[x.pk] # NoMessage /\ x.nonce < latest'[x.pk].msg.nonce
      BY <1>1, <1>3, <1>4, <2>1, <2>2
    <3>2. latest'[x.pk].msg.nonce \in Nat
      BY <1>1, <1>3, <1>4, <2>2
    <3> QED
      BY <2>1, <3>1, <3>2 DEF MessageInv, IsLatest
  <2>3. CASE ~ (x.pk = r /\ payload # Join)
    <3>1. latest'[x.pk] = latest[x.pk]
      BY <1>3, <1>4, <2>1, <2>3
    <3> QED
      BY <1>8, <3>1 DEF MessageInv, IsLatest
  <2> QED
    BY <2>2, <2>3
<1>9. MessageInv(m)'
  <2>1. CASE payload # Join
    BY <1>1, <1>3, <1>4, <2>1 DEF MessageInv, IsLatest
  <2>2. CASE payload = Join
    <3>1. latest'[r] # NoMessage => latest'[r].msg.nonce <= counter[r]
                                    /\ latest'[r].msg.nonce \in Nat
      BY <1>0, <1>3, <1>4, <2>2 DEF LatestInv
    <3>2. ~ IsLatest(m)'
      BY <1>1, <1>3, <3>1 DEF IsLatest
    <3> QED
      BY <1>1, <2>2, <3>2 DEF MessageInv
  <2> QED
    BY <2>1, <2>2
<1>10. MessagesInv'
  <2>1. \A p \in net' : MessageInv(p.msg)' /\ (p.msg.payload = Join => p.peer = p.msg.pk)
    <3> SUFFICES ASSUME NEW p \in net'
                 PROVE  MessageInv(p.msg)' /\ (p.msg.payload = Join => p.peer = p.msg.pk)
      OBVIOUS
    <3>1. CASE p \in net
      BY <1>0, <1>8, <3>1, MessagesUsed DEF MessagesInv
    <3>2. CASE p \in new
      BY <1>1, <1>5, <1>9, <3>2
    <3> QED
      BY <1>2, <3>1, <3>2
  <2>2. ASSUME NEW q \in Relayers
        PROVE  /\ \A p \in accepted'[q] : MessageInv(p.msg)'
               /\ \A x \in (notified[q] \cup signedMessages[q])' :
                     x.payload # Join /\ MessageInv(x)'
    BY <1>0, <1>8, MessagesUsed DEF MessagesInv
  <2> QED
    BY <2>1, <2>2 DEF MessagesInv
<1>11. ASSUME faults' = 0, NEW q \in Relayers, latest'[q] # NoMessage,
              NEW x \in latest'[q].audience, x \in Relayers, NEW s, s = latest'[q].msg
       PROVE  Delivered(q, s, x)'
  <2>1. CASE q = r /\ payload # Join
    <3>1. s = m /\ x \in running'
      BY <1>4, <1>11, <2>1
    <3>2. [to |-> x, peer |-> q, msg |-> s] \in net'
      BY <1>2, <1>6, <2>1, <3>1
    <3>3. nonces'[x][q] < s.nonce /\ nonces'[x][q] \in Nat
      BY <1>0, <1>1, <1>3, <1>11, <2>1, <3>1 DEF TypeOK
    <3>4. Reached(s, x)'
      BY <3>2 DEF Reached, OnItsWay
    <3> QED
      BY <1>1, <1>3, <3>1, <3>2, <3>3, <3>4 DEF Delivered
  <2>2. CASE ~ (q = r /\ payload # Join)
    <3>1. latest'[q] = latest[q] /\ x \in latest[q].audience /\ s = latest[q].msg
      BY <1>3, <1>4, <1>11, <2>2
    <3>2. Delivered(q, s, x)
      BY <1>0, <1>11, <3>1, DeliveryUnfolded
    <3>3. s.nonce \in Nat /\ s.nonce <= counter[q] /\ counter[q] \in Nat
      BY <1>0, <1>2, <1>11, <3>1 DEF LatestInv
    <3>4. s.nonce = counter'[q] => s.nonce = counter[q]
      BY <1>3, <3>3
    <3>5. Reached(s, x) => Reached(s, x)'
      BY <1>2 DEF Reached, OnItsWay
    <3>6. (Taken(s, x) => Taken(s, x)') /\ UNCHANGED nonces
      BY DEF Taken
    <3> QED
      BY <1>2, <3>2, <3>4, <3>5, <3>6 DEF Delivered
  <2> QED
    BY <2>1, <2>2
<1> QED
  BY <1>7, <1>10, <1>11, DeliveryFolded

\* Steps that create no message: what the invariant says of messages is about
\* those there were.
LEMMA NoNewMessage ==
    ASSUME DeliveryInv, UNCHANGED <<counter, latest>>,
           \A p \in net' : MessageInv(p.msg) /\ (p.msg.payload = Join => p.peer = p.msg.pk),
           \A r \in Relayers :
              /\ \A p \in accepted'[r] : MessageInv(p.msg)
              /\ \A m \in (notified[r] \cup signedMessages[r])' : m.payload # Join /\ MessageInv(m)
    PROVE  LatestInv' /\ MessagesInv'
<1>1. \A m : MessageInv(m) => MessageInv(m)'
  BY DEF MessageInv, IsLatest
<1> QED
  BY <1>1 DEF DeliveryInv, LatestInv, MessagesInv

\* A message is received.  The last signature is refused by nobody who has yet
\* to take it, and what would outdate it has to wait.
LEMMA ReceiveDelivery ==
    ASSUME IndInv, TypeOK', AudienceInv, DeliveryInv, NEW r \in Relayers, ProcessReceivedMessage(r)
    PROVE  DeliveryInv'
<1>0. TypeOK /\ LatestInv /\ MessagesInv
  BY DEF IndInv, DeliveryInv
<1>1. PICK p \in net :
         /\ p.to = r
         /\ p.peer \in Orderly => ~ Overtakes(p)
         /\ net' = net \ {p}
         /\ \/ ~ (IsWhitelisted(r) /\ IsNewer(r, p.msg)) /\ UNCHANGED <<nonces, accepted, faults>>
            \/ /\ IsWhitelisted(r) /\ IsNewer(r, p.msg)
               /\ processNonce(r, p.msg)
               /\ \/ Fault /\ UNCHANGED accepted
                  \/ /\ accepted' = [accepted EXCEPT ![r] = @ \cup {p}]
                     /\ UNCHANGED faults
  BY DEF ProcessReceivedMessage
<1>2. UNCHANGED <<counter, signedMessages, running, whitelists, latest, notified>>
  BY DEF ProcessReceivedMessage
<1>3. /\ p.msg.pk \in Relayers /\ p.msg.nonce \in Nat /\ p.msg.payload \in Payload
      /\ MessageInv(p.msg) /\ (p.msg.payload = Join => p.peer = p.msg.pk)
  BY <1>0 DEF TypeOK, Packet, SignedMessage, MessagesInv
<1>4. \A x \in Relayers : /\ \A k \in accepted'[x] : k \in accepted[x] \/ k = p
                          /\ accepted[x] \subseteq accepted'[x]
                          /\ x # r => accepted'[x] = accepted[x]
  BY <1>0, <1>1 DEF TypeOK
<1>5. LatestInv' /\ MessagesInv'
  <2>1. \A k \in net' : MessageInv(k.msg) /\ (k.msg.payload = Join => k.peer = k.msg.pk)
    BY <1>0, <1>1 DEF MessagesInv
  <2>2. ASSUME NEW x \in Relayers
        PROVE  /\ \A k \in accepted'[x] : MessageInv(k.msg)
               /\ \A m \in (notified[x] \cup signedMessages[x])' : m.payload # Join /\ MessageInv(m)
    BY <1>0, <1>2, <1>3, <1>4 DEF MessagesInv
  <2> QED
    BY <1>2, <2>1, <2>2, NoNewMessage
<1>6. ASSUME faults' = 0, NEW q \in Relayers, latest'[q] # NoMessage,
             NEW x \in latest'[q].audience, x \in Relayers, NEW s, s = latest'[q].msg
      PROVE  Delivered(q, s, x)'
  <2>0. latest[q] # NoMessage /\ x \in latest[q].audience /\ s = latest[q].msg
    BY <1>2, <1>6
  <2>1. /\ s.pk = q /\ s.payload # Join /\ s.nonce \in Nat /\ s.nonce <= counter[q]
        /\ counter[q] \in Nat
    BY <1>0, <2>0 DEF LatestInv, TypeOK
  <2>2. faults = 0 /\ ~ Fault
    BY <1>0, <1>1, <1>6 DEF Fault, TypeOK
  <2>3. Delivered(q, s, x)
    BY <1>0, <1>6, <2>0, <2>2, DeliveryUnfolded
  <2>4. Taken(s, x) => Taken(s, x)'
    BY <1>2, <1>4, <1>6 DEF Taken
  <2>5. Taken(s, x)' => Reached(s, x)'
    BY DEF Taken, Reached, OnItsWay
  <2>6. p.msg # s \/ x # r => (Reached(s, x) => Reached(s, x)')
    BY <1>1, <1>2, <1>4, <1>6 DEF Reached, OnItsWay
  <2>7. nonces[x][q] \in Nat /\ nonces[x][q] <= counter[q]
    BY <1>0, <1>6 DEF TypeOK
  <2> DEFINE packet == [to |-> x, peer |-> q, msg |-> s]
  <2>8. packet.to = x /\ packet.peer = q /\ packet.msg = s
    OBVIOUS
  <2> HIDE DEF packet
  <2>9. CASE x # r
    <3>1. nonces'[x][q] = nonces[x][q]
      BY <1>0, <1>1, <1>6, <2>9 DEF TypeOK, processNonce
    <3>2. packet \in net => packet \in net'
      BY <1>1, <2>8, <2>9
    <3> QED
      BY <1>2, <2>3, <2>4, <2>6, <2>9, <3>1, <3>2 DEF Delivered, packet
  <2>10. CASE x = r /\ ~ IsNewer(r, p.msg)
    <3>1. nonces' = nonces /\ accepted' = accepted
      BY <1>1, <2>10
    <3>2. p.msg.nonce <= nonces[r][p.msg.pk]
      BY <1>0, <1>3, <2>10 DEF IsNewer, TypeOK
    <3>3. CASE p.msg # s
      <4>1. packet \in net => packet \in net'
        BY <1>1, <2>8, <3>3
      <4> QED
        BY <1>2, <2>3, <2>4, <2>6, <3>1, <3>3, <4>1 DEF Delivered, packet
    <3>4. CASE p.msg = s
      <4>1. s.nonce <= nonces[x][q]
        BY <2>1, <2>10, <3>2, <3>4
      <4>2. s.nonce = counter[q] => nonces[x][q] = s.nonce
        BY <2>1, <2>7, <4>1
      <4>3. s.nonce = counter[q] => Taken(s, x)
        BY <2>3, <4>2 DEF Delivered
      <4>4. q \in Orderly => Taken(s, x)
        BY <2>1, <2>3, <2>7, <4>1 DEF Delivered
      <4> QED
        BY <1>2, <2>3, <2>4, <2>5, <3>1, <4>3, <4>4 DEF Delivered
    <3> QED
      BY <3>3, <3>4
  <2>11. CASE x = r /\ IsNewer(r, p.msg)
    <3>0. IsWhitelisted(r)
      BY <2>0, <2>2, <2>11 DEF AudienceInv, IsWhitelisted, Chains
    <3>1. /\ nonces' = [nonces EXCEPT ![r] = [nonces[r] EXCEPT ![p.msg.pk] = p.msg.nonce]]
          /\ accepted' = [accepted EXCEPT ![r] = @ \cup {p}]
      BY <1>1, <2>2, <2>11, <3>0 DEF processNonce
    <3>2. /\ p \in accepted'[x]
          /\ nonces'[x][p.msg.pk] = p.msg.nonce
          /\ p.msg.pk # q => nonces'[x][q] = nonces[x][q]
      BY <1>0, <1>3, <1>6, <2>11, <3>1 DEF TypeOK
    <3>3. CASE p.msg = s
      <4>1. Taken(s, x)'
        BY <1>1, <2>11, <3>2, <3>3 DEF Taken
      <4> QED
        BY <2>5, <4>1 DEF Delivered
    <3>4. CASE p.msg # s /\ p.msg.pk # q
      <4>1. packet \in net => packet \in net'
        BY <1>1, <2>8, <3>4
      <4> QED
        BY <1>2, <2>3, <2>4, <2>6, <3>2, <3>4, <4>1 DEF Delivered, packet
    <3>5. CASE p.msg # s /\ p.msg.pk = q
      <4>1. p.msg.nonce # s.nonce
        BY <1>3, <2>0, <3>5 DEF MessageInv, IsLatest
      <4>2. packet \in net => packet \in net'
        BY <1>1, <2>8, <3>5
      <4>3. ASSUME q \in Orderly, ~ Taken(s, x)
            PROVE  packet \in net /\ p.msg.nonce < s.nonce
        <5>1. packet \in net
          BY <2>3, <4>3 DEF Delivered, packet
        <5>2. ASSUME p.msg.nonce > s.nonce PROVE FALSE
          <6>1. p.msg.payload = Join
            BY <1>3, <2>0, <2>1, <3>5, <5>2 DEF MessageInv
          <6>2. p.peer = q
            BY <1>3, <3>5, <6>1
          <6>3. Overtakes(p)
            BY <1>1, <2>1, <2>8, <2>11, <3>5, <5>1, <5>2, <6>2 DEF Overtakes
          <6> QED
            BY <1>1, <4>3, <6>2, <6>3
        <5> QED
          BY <1>3, <2>1, <4>1, <5>1, <5>2
      <4>4. q \in Orderly => Taken(s, x)' \/ (nonces'[x][q] < s.nonce /\ packet \in net')
        BY <2>4, <3>2, <3>5, <4>2, <4>3
      <4>5. s.nonce = counter[q] => Reached(s, x)'
        BY <2>3, <2>6, <3>5 DEF Delivered
      <4> QED
        BY <1>2, <3>2, <3>5, <4>1, <4>4, <4>5 DEF Delivered, packet
    <3> QED
      BY <3>3, <3>4, <3>5
  <2> QED
    BY <2>9, <2>10, <2>11
<1> QED
  BY <1>5, <1>6, DeliveryFolded

\* A step that refuses nothing and drops nothing keeps every delivery.
LEMMA QuietDelivery ==
    ASSUME TypeOK, TypeOK', AudienceInv, DeliveryInv, LatestInv', MessagesInv',
           UNCHANGED <<counter, nonces, latest>>, faults' = 0 => faults = 0 /\ net \subseteq net',
           ASSUME faults' = 0, NEW r \in Relayers, whitelists[r] = Chains,
                  NEW m, m.payload # Join, Taken(m, r)
           PROVE  Taken(m, r)'
    PROVE  DeliveryInv'
<1>1. ASSUME faults' = 0, NEW q \in Relayers, latest'[q] # NoMessage,
             NEW x \in latest'[q].audience, x \in Relayers, NEW s, s = latest'[q].msg
      PROVE  Delivered(q, s, x)'
  <2>1. Delivered(q, s, x) /\ s.payload # Join
    BY <1>1, DeliveryUnfolded DEF DeliveryInv, LatestInv
  <2>2. Taken(s, x) => Taken(s, x)'
    <3>1. whitelists[x] = Chains
      BY <1>1 DEF AudienceInv
    <3> QED
      BY <1>1, <2>1, <3>1
  <2>3. Taken(s, x)' => Reached(s, x)'
    BY DEF Taken, Reached, OnItsWay
  <2>4. Reached(s, x) => Taken(s, x) \/ \E p \in net : p.to = x /\ p.msg = s
    BY DEF Taken, Reached, OnItsWay
  <2>5. (\E p \in net : p.to = x /\ p.msg = s) => Reached(s, x)'
    BY <1>1 DEF Reached, OnItsWay
  <2> QED
    BY <1>1, <2>1, <2>2, <2>3, <2>4, <2>5 DEF Delivered
<1> QED
  BY <1>1, DeliveryFolded

\* The answer to a join message brings stored signatures under way again.
LEMMA JoinDelivery ==
    ASSUME IndInv, TypeOK', AudienceInv, DeliveryInv, NEW r \in Relayers, processJoinMessage(r)
    PROVE  DeliveryInv'
<1>0. TypeOK /\ LatestInv /\ MessagesInv
  BY DEF IndInv, DeliveryInv
<1>1. PICK p \in accepted[r] :
         /\ p.msg.payload = Join
         /\ accepted' = [accepted EXCEPT ![r] = @ \ {p}]
         /\ net' = net \cup {[to |-> p.peer, peer |-> r, msg |-> m] : m \in signedMessages[r]}
  BY DEF processJoinMessage
<1>2. UNCHANGED <<counter, nonces, signedMessages, running, whitelists, latest, notified, faults>>
  BY DEF processJoinMessage
<1>3. \A q \in Relayers : /\ accepted'[q] \subseteq accepted[q]
                          /\ \A k \in accepted[q] : k # p => k \in accepted'[q]
  BY <1>0, <1>1 DEF TypeOK
<1>4. LatestInv' /\ MessagesInv'
  <2>1. \A k \in net' : MessageInv(k.msg) /\ (k.msg.payload = Join => k.peer = k.msg.pk)
    BY <1>0, <1>1 DEF MessagesInv
  <2>2. ASSUME NEW q \in Relayers
        PROVE  /\ \A k \in accepted'[q] : MessageInv(k.msg)
               /\ \A m \in (notified[q] \cup signedMessages[q])' : m.payload # Join /\ MessageInv(m)
    BY <1>0, <1>2, <1>3 DEF MessagesInv
  <2> QED
    BY <1>2, <2>1, <2>2, NoNewMessage
<1>5. ASSUME NEW q \in Relayers, NEW m, m.payload # Join, Taken(m, q)
      PROVE  Taken(m, q)'
  BY <1>1, <1>2, <1>3, <1>5 DEF Taken
<1> QED
  BY <1>0, <1>1, <1>2, <1>4, <1>5, QuietDelivery

\* A signature that was accepted is handed to the client.
LEMMA SignDelivery ==
    ASSUME IndInv, TypeOK', AudienceInv, DeliveryInv, NEW r \in Relayers, processSignMessage(r)
    PROVE  DeliveryInv'
<1>0. TypeOK /\ LatestInv /\ MessagesInv
  BY DEF IndInv, DeliveryInv
<1>1. PICK p \in accepted[r] :
         /\ p.msg.payload # Join
         /\ accepted' = [accepted EXCEPT ![r] = @ \ {p}]
         /\ \/ ~ VerifyEthSignature(r) /\ UNCHANGED <<signedMessages, notified>>
            \/ /\ ProcessNewMessage(r, p.msg)
               /\ notified' = [notified EXCEPT ![r] = @ \cup {p.msg}]
  BY DEF processSignMessage
<1>2. UNCHANGED <<net, counter, nonces, running, whitelists, latest, faults>>
  BY DEF processSignMessage
<1>3. \A q \in Relayers : /\ accepted'[q] \subseteq accepted[q]
                          /\ notified[q] \subseteq notified'[q]
                          /\ \A m \in notified'[q] : m \in notified[q] \/ m = p.msg
                          /\ \A m \in signedMessages'[q] : m \in signedMessages[q] \/ m = p.msg
                          /\ \A k \in accepted[q] : k \in accepted'[q] \/ (q = r /\ k = p)
  BY <1>0, <1>1 DEF TypeOK, ProcessNewMessage
<1>4. whitelists[r] = Chains => p.msg \in notified'[r]
  BY <1>0, <1>1 DEF TypeOK, VerifyEthSignature, Chains
<1>5. LatestInv' /\ MessagesInv'
  <2>1. \A k \in net' : MessageInv(k.msg) /\ (k.msg.payload = Join => k.peer = k.msg.pk)
    BY <1>0, <1>2 DEF MessagesInv
  <2>2. ASSUME NEW q \in Relayers
        PROVE  /\ \A k \in accepted'[q] : MessageInv(k.msg)
               /\ \A m \in (notified[q] \cup signedMessages[q])' : m.payload # Join /\ MessageInv(m)
    BY <1>0, <1>1, <1>3 DEF MessagesInv
  <2> QED
    BY <1>2, <2>1, <2>2, NoNewMessage
<1>6. ASSUME NEW q \in Relayers, whitelists[q] = Chains, NEW m, m.payload # Join, Taken(m, q)
      PROVE  Taken(m, q)'
  BY <1>3, <1>4, <1>6 DEF Taken
<1> QED
  BY <1>0, <1>2, <1>5, <1>6, QuietDelivery

\* Steps that lose something count as a fault, or lose stored signatures only.
LEMMA LossDelivery ==
    ASSUME TypeOK, TypeOK', AudienceInv, DeliveryInv, UNCHANGED <<counter, latest>>,
           \A p \in net' : \/ p \in net
                           \/ \E q \in Relayers : p.msg \in notified[q],
           \A r \in Relayers : /\ accepted'[r] \subseteq accepted[r]
                               /\ notified'[r] \subseteq notified[r]
                               /\ signedMessages'[r] \subseteq signedMessages[r],
           \/ faults' # 0
           \/ UNCHANGED <<net, nonces, accepted, notified, faults>>
    PROVE  DeliveryInv'
<1>0. LatestInv /\ MessagesInv
  BY DEF DeliveryInv
<1>1. LatestInv' /\ MessagesInv'
  <2>1. \A k \in net' : MessageInv(k.msg) /\ (k.msg.payload = Join => k.peer = k.msg.pk)
    BY <1>0 DEF MessagesInv
  <2>2. ASSUME NEW q \in Relayers
        PROVE  /\ \A k \in accepted'[q] : MessageInv(k.msg)
               /\ \A m \in (notified[q] \cup signedMessages[q])' : m.payload # Join /\ MessageInv(m)
    BY <1>0 DEF MessagesInv
  <2> QED
    BY <2>1, <2>2, NoNewMessage
<1>2. CASE faults' # 0
  BY <1>1, <1>2 DEF DeliveryInv
<1>3. CASE UNCHANGED <<net, nonces, accepted, notified, faults>>
  <2>1. ASSUME NEW q \in Relayers, NEW m, Taken(m, q) PROVE Taken(m, q)'
    BY <1>3, <2>1 DEF Taken
  <2> QED
    BY <1>1, <1>3, <2>1, QuietDelivery
<1> QED
  BY <1>2, <1>3

\* Nothing was sent in the initial state.
LEMMA InitDeliveryInv == Init => DeliveryInv
  BY DEF Init, DeliveryInv, LatestInv, MessagesInv, NoMessage

\* Every step keeps what was delivered or is on its way.
LEMMA NextDeliveryInv ==
    ASSUME IndInv, IndInv', AudienceInv, DeliveryInv, [Next]_vars
    PROVE  DeliveryInv'
<1>0. TypeOK /\ TypeOK' /\ Join \in Payload /\ Hashes \subseteq Payload
  BY DEF IndInv, Payload
<1>1. ASSUME NEW r \in Relayers, NEW hash \in Hashes, BroadcastSignature(r, hash)
      PROVE  DeliveryInv'
  <2>1. hash # Join
    BY ConstantsAssumption
  <2>2. running' \subseteq Relayers /\ Ready \subseteq running'
    BY <1>0, <1>1 DEF BroadcastSignature, TypeOK, Ready
  <2>3. \A m : m = createMessage(r, hash) =>
           /\ broadcastMessage(r, m)
           /\ latest' = [latest EXCEPT ![r] = [msg |-> m, audience |-> Ready]]
    BY <1>1 DEF BroadcastSignature
  <2>4. UNCHANGED <<nonces, accepted, signedMessages, whitelists, notified, faults>>
    BY <1>1 DEF BroadcastSignature
  <2> QED
    BY <1>0, <2>1, <2>2, <2>3, <2>4, BroadcastDelivery
<1>2. ASSUME NEW r \in Relayers, Start(r) \/ BroadcastJoinTopic(r) PROVE DeliveryInv'
  <2>1. running' \subseteq Relayers
    BY <1>0 DEF TypeOK
  <2>2. \A m : m = createMessage(r, Join) => broadcastMessage(r, m)
    BY <1>2 DEF Start, BroadcastJoinTopic
  <2>3. UNCHANGED <<nonces, accepted, signedMessages, whitelists, latest, notified, faults>>
    BY <1>2 DEF Start, BroadcastJoinTopic
  <2> QED
    BY <1>0, <2>1, <2>2, <2>3, BroadcastDelivery
<1>3. ASSUME NEW r \in Relayers,
             ProcessReceivedMessage(r) \/ processJoinMessage(r) \/ processSignMessage(r)
      PROVE  DeliveryInv'
  BY <1>0, <1>3, ReceiveDelivery, JoinDelivery, SignDelivery
<1>4. ASSUME NEW r \in Relayers, ClearStoredSignatures(r) PROVE DeliveryInv'
  <2>1. /\ UNCHANGED <<net, counter, nonces, accepted, running, whitelists, latest, notified, faults>>
        /\ \A q \in Relayers : signedMessages'[q] \subseteq signedMessages[q]
    BY <1>0, <1>4 DEF ClearStoredSignatures, TypeOK
  <2> QED
    BY <1>0, <2>1, LossDelivery
<1>5. ASSUME NEW r \in Relayers, Stop(r) PROVE DeliveryInv'
  <2>1. /\ UNCHANGED <<counter, latest>> /\ faults' # 0 /\ net' \subseteq net
        /\ \A q \in Relayers : /\ accepted'[q] \subseteq accepted[q]
                               /\ notified'[q] \subseteq notified[q]
                               /\ signedMessages'[q] \subseteq signedMessages[q]
    BY <1>0, <1>5 DEF Stop, Fault, TypeOK
  <2> QED
    BY <1>0, <2>1, LossDelivery
<1>6. ASSUME NEW r \in Relayers, NEW m \in notified[r], Repeat(m) PROVE DeliveryInv'
  <2>1. /\ UNCHANGED <<counter, nonces, accepted, signedMessages, running, whitelists, latest, notified>>
        /\ faults' # 0
    BY <1>0, <1>6 DEF Repeat, Fault, TypeOK
  <2>2. \A p \in net' : p \in net \/ \E q \in Relayers : p.msg \in notified[q]
    BY <1>6 DEF Repeat
  <2> QED
    BY <1>0, <2>1, <2>2, LossDelivery
<1>7. ASSUME LosePacket PROVE DeliveryInv'
  <2>1. /\ UNCHANGED <<counter, nonces, accepted, signedMessages, running, whitelists, latest, notified>>
        /\ faults' # 0 /\ net' \subseteq net
    BY <1>0, <1>7 DEF LosePacket, Fault, TypeOK
  <2> QED
    BY <1>0, <2>1, LossDelivery
<1>8. ASSUME NEW r \in Relayers, NEW chain \in Chains, fetchWhitelist(r, chain)
      PROVE  DeliveryInv'
  BY <1>0, <1>8, LossDelivery DEF fetchWhitelist
<1>9. CASE UNCHANGED vars
  BY <1>0, <1>9, LossDelivery DEF vars
<1> QED
  BY <1>1, <1>2, <1>3, <1>4, <1>5, <1>6, <1>7, <1>8, <1>9 DEF Next

\* Who had both lists when a signature was sent has them still, if nothing failed.
THEOREM AudienceKeepsLists == Spec => []AudienceInv
<1>1. Init => AudienceInv
  BY DEF Init, AudienceInv, NoMessage
<1>2. TypeOK /\ AudienceInv /\ [Next]_vars => AudienceInv'
  BY NextAudienceInv
<1> QED
  BY TypeCorrect, <1>1, <1>2, PTL DEF Spec

\* Who was to get the last signature of a relayer has it or will get it.
THEOREM Deliveries == Spec => []DeliveryInv
<1>1. IndInv /\ IndInv' /\ AudienceInv /\ DeliveryInv /\ [Next]_vars => DeliveryInv'
  BY NextDeliveryInv
<1> QED
  BY Invariance, AudienceKeepsLists, InitDeliveryInv, <1>1, PTL DEF Spec

\* Without faults a relayer that has both lists never refuses a signature that is
\* its sender's newest message, whatever the order in which packets come and
\* however the two stages of its handling interleave.
THEOREM NewestIsDelivered == Spec => []NewestMessageReachesAll
<1>1. DeliveryInv => NewestMessageReachesAll
  BY DEF DeliveryInv, Delivered, NewestMessageReachesAll
<1> QED
  BY Deliveries, <1>1, PTL

\* If a sender's broadcasts keep their order, its last signature reaches all who
\* had both lists, although join messages of the sender follow it and peers answer
\* joins with what they store.
THEOREM LatestSignatureIsDelivered == Spec => []LatestSignatureReachesAll
<1>1. ASSUME DeliveryInv, faults = 0, NEW q \in Orderly, NEW r \in latest[q].audience
      PROVE  Reached(latest[q].msg, r)
  <2>1. q \in Relayers
    BY ConstantsAssumption
  <2>2. Delivered(q, latest[q].msg, r)
    BY <1>1, <2>1 DEF DeliveryInv
  <2>3. ASSUME NEW m, [to |-> r, peer |-> q, msg |-> m] \in net PROVE OnItsWay(m, r)
    BY <2>3 DEF OnItsWay
  <2>4. ASSUME NEW m, Taken(m, r) PROVE Reached(m, r)
    BY <2>4 DEF Taken, Reached, OnItsWay
  <2> QED
    BY <1>1, <2>2, <2>3, <2>4 DEF Delivered, Reached
<1>2. DeliveryInv => LatestSignatureReachesAll
  BY <1>1 DEF LatestSignatureReachesAll
<1> QED
  BY Deliveries, <1>2, PTL
================================================================================
