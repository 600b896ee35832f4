------------------------------ MODULE Broadcaster ------------------------------
(***************************************************************************)
(* The peer-to-peer layer that carries the relayers' Ethereum signatures:  *)
(* p2p/broadcaster.go with its message handler and its nonce filter, and   *)
(* the signatures holder that is its broadcast client.  Relayers are       *)
(* honest: a message of anyone else is refused before it changes anything. *)
(* A relayer knows who the relayers are from two lists, one kept by each   *)
(* chain, which are empty from its start until they are first fetched: it  *)
(* refuses the relayers too until then.                                    *)
(*                                                                         *)
(* A relayer handles a received message in two stages, and the goroutines  *)
(* that do so for different messages interleave: the nonce filter and the  *)
(* antiflood checks first, the topic's handler afterwards.                 *)
(***************************************************************************)
EXTENDS Integers, Functions

CONSTANTS
    Relayers,
    Hashes,         \* the message hashes that are signed
    Orderly,        \* the relayers whose broadcasts keep their order
    MaxEvents,      \* bound: messages created by all relayers, and faults
    MaxFaults       \* bound: lost or repeated messages, drops, restarts

Join == "join topic"

\* Each chain has a list of relayers: Elrond's of the public keys that sign
\* messages, Ethereum's of the addresses that sign transfers.
Chains == {"Elrond", "Ethereum"}

ASSUME ConstantsAssumption ==
    /\ Join \notin Hashes
    /\ Orderly \subseteq Relayers
    /\ MaxEvents \in Nat /\ MaxFaults \in Nat

VARIABLES
    net,            \* packets on their way
    counter,        \* per relayer the nonce of the last message it created
    nonces,         \* per relayer the last nonce accepted from each public key
    accepted,       \* messages past the filter, handed to the topic's handler
    signedMessages, \* what the signatures holder stores
    running,        \* the relayers that are registered on the topics
    whitelists,     \* per relayer the chains whose list it has fetched since
    latest,         \* history: each relayer's last signature and who was ready
    notified,       \* history: what the client was given since the start
    faults

vars == <<net, counter, nonces, accepted, signedMessages, running, whitelists, latest, notified, faults>>

--------------------------------------------------------------------------------
\* A SignedMessage.  The payload of a signature is the pair of the relayer's
\* Ethereum signature and the hash it signs, which the hash tells apart.
Payload == Hashes \cup {Join}
SignedMessage == [pk : Relayers, payload : Payload, nonce : Nat]

\* A packet; peer is the relayer that sent it, not always the one that made
\* the message in it.
Packet == [to : Relayers, peer : Relayers, msg : SignedMessage]

UniqueID(m) == <<m.pk, m.payload>>

LastSignature == [msg : SignedMessage, audience : SUBSET Relayers]
NoMessage == [audience |-> {}]

Init ==
    /\ net = {}
    /\ counter = [r \in Relayers |-> 0]
    /\ nonces = [r \in Relayers |-> [q \in Relayers |-> 0]]
    /\ accepted = [r \in Relayers |-> {}]
    /\ signedMessages = [r \in Relayers |-> {}]
    /\ running = {}
    /\ whitelists = [r \in Relayers |-> {}]
    /\ latest = [r \in Relayers |-> NoMessage]
    /\ notified = [r \in Relayers |-> {}]
    /\ faults = 0

\* The relayers that know the others: they have both lists.
Ready == {r \in running : whitelists[r] = Chains}

WithinBound == SumFunction(counter) + faults < MaxEvents

Fault == WithinBound /\ faults < MaxFaults /\ faults' = faults + 1

--------------------------------------------------------------------------------
(***************************************************************************)
(* Sending.                                                                *)
(***************************************************************************)
createMessage(r, payload) == [pk |-> r, payload |-> payload, nonce |-> counter[r] + 1]

\* Every running relayer gets what is broadcast, the sender too.
broadcastMessage(r, m) ==
    /\ WithinBound
    /\ counter' = [counter EXCEPT ![r] = m.nonce]
    /\ net' = net \cup {[to |-> q, peer |-> r, msg |-> m] : q \in running'}

BroadcastSignature(r, hash) ==
    /\ r \in running
    /\ UNCHANGED running
    /\ broadcastMessage(r, createMessage(r, hash))
    /\ latest' = [latest EXCEPT ![r] = [msg |-> createMessage(r, hash), audience |-> Ready]]
    /\ UNCHANGED <<nonces, accepted, signedMessages, whitelists, notified, faults>>

\* The retries loop announces the relayer again and again.
BroadcastJoinTopic(r) ==
    /\ r \in running
    /\ UNCHANGED running
    /\ broadcastMessage(r, createMessage(r, Join))
    /\ UNCHANGED <<nonces, accepted, signedMessages, whitelists, latest, notified, faults>>

\* A relayer starts: it registers on the topics and announces itself.
Start(r) ==
    /\ r \notin running
    /\ running' = running \cup {r}
    /\ broadcastMessage(r, createMessage(r, Join))
    /\ UNCHANGED <<nonces, accepted, signedMessages, whitelists, latest, notified, faults>>

\* The polling handler of a role provider fetches the list for the first time,
\* some time after the relayer registered.
fetchWhitelist(r, chain) ==
    /\ r \in running
    /\ chain \notin whitelists[r]
    /\ whitelists' = [whitelists EXCEPT ![r] = @ \cup {chain}]
    /\ UNCHANGED <<net, counter, nonces, accepted, signedMessages, running, latest, notified, faults>>

--------------------------------------------------------------------------------
(***************************************************************************)
(* Receiving.                                                              *)
(***************************************************************************)
\* A packet has to wait for what its sender broadcast earlier.
Overtakes(p) ==
    /\ p.peer = p.msg.pk
    /\ \E p2 \in net : /\ p2.to = p.to /\ p2.peer = p.peer /\ p2.msg.pk = p.msg.pk
                       /\ p2.msg.nonce < p.msg.nonce

\* The public key of a relayer is in Elrond's list once that is fetched.
IsWhitelisted(r) == "Elrond" \in whitelists[r]

\* Only a nonce above the last one is accepted.
M_IsNewer(r, m) == nonces[r][m.pk] <= m.nonce
IsNewer(r, m) == nonces[r][m.pk] < m.nonce

\* The nonce is recorded before the antiflood checks, which may still drop
\* the message.
M_processNonce(r, m) == nonces' = [nonces EXCEPT ![r][m.pk] = m.nonce + 1]
processNonce(r, m) == nonces' = [nonces EXCEPT ![r][m.pk] = m.nonce]

ProcessReceivedMessage(r) ==
    \E p \in net :
        /\ p.to = r
        /\ p.peer \in Orderly => ~ Overtakes(p)
        /\ net' = net \ {p}
        /\ \/ ~ (IsWhitelisted(r) /\ IsNewer(r, p.msg)) /\ UNCHANGED <<nonces, accepted, faults>>
           \/ /\ IsWhitelisted(r) /\ IsNewer(r, p.msg)
              /\ processNonce(r, p.msg)
              /\ \/ Fault /\ UNCHANGED accepted
                 \/ /\ accepted' = [accepted EXCEPT ![r] = @ \cup {p}]
                    /\ UNCHANGED faults
        /\ UNCHANGED <<counter, signedMessages, running, whitelists, latest, notified>>

\* A join is answered to the peer with the stored messages as they are.
processJoinMessage(r) ==
    \E p \in accepted[r] :
        /\ p.msg.payload = Join
        /\ accepted' = [accepted EXCEPT ![r] = @ \ {p}]
        /\ net' = net \cup {[to |-> p.peer, peer |-> r, msg |-> m] : m \in signedMessages[r]}
        /\ UNCHANGED <<counter, nonces, signedMessages, running, whitelists, latest, notified, faults>>

\* The client stores one message for each unique ID, the one handled last.
ProcessNewMessage(r, m) ==
    signedMessages' = [signedMessages EXCEPT ![r] =
                          {x \in @ : UniqueID(x) # UniqueID(m)} \cup {m}]

\* The signer of a signature is looked up in Ethereum's list.
VerifyEthSignature(r) == "Ethereum" \in whitelists[r]

\* A signature that cannot be verified is dropped, with its nonce recorded.
processSignMessage(r) ==
    \E p \in accepted[r] :
        /\ p.msg.payload # Join
        /\ accepted' = [accepted EXCEPT ![r] = @ \ {p}]
        /\ \/ ~ VerifyEthSignature(r) /\ UNCHANGED <<signedMessages, notified>>
           \/ /\ VerifyEthSignature(r)
              /\ ProcessNewMessage(r, p.msg)
              /\ notified' = [notified EXCEPT ![r] = @ \cup {p.msg}]
        /\ UNCHANGED <<net, counter, nonces, running, whitelists, latest, faults>>

\* Called by the sixth step of the Elrond -> Ethereum state machine.
ClearStoredSignatures(r) ==
    /\ signedMessages[r] # {}
    /\ signedMessages' = [signedMessages EXCEPT ![r] = {}]
    /\ UNCHANGED <<net, counter, nonces, accepted, running, whitelists, latest, notified, faults>>

--------------------------------------------------------------------------------
(***************************************************************************)
(* Faults.                                                                 *)
(***************************************************************************)
LosePacket ==
    /\ Fault
    /\ \E p \in net : net' = net \ {p}
    /\ UNCHANGED <<counter, nonces, accepted, signedMessages, running, whitelists, latest, notified>>

\* A message comes once more, through another peer or much later.
Repeat(m) ==
    /\ Fault
    /\ \E r, q \in running : net' = net \cup {[to |-> r, peer |-> q, msg |-> m]}
    /\ UNCHANGED <<counter, nonces, accepted, signedMessages, running, whitelists, latest, notified>>

\* The nonces, the signatures and the lists are lost.  The next counter starts from the
\* clock in nanoseconds, above every nonce used before.
Stop(r) ==
    /\ r \in running
    /\ Fault
    /\ running' = running \ {r}
    /\ whitelists' = [whitelists EXCEPT ![r] = {}]
    /\ nonces' = [nonces EXCEPT ![r] = [q \in Relayers |-> 0]]
    /\ accepted' = [accepted EXCEPT ![r] = {}]
    /\ signedMessages' = [signedMessages EXCEPT ![r] = {}]
    /\ notified' = [notified EXCEPT ![r] = {}]
    /\ net' = {p \in net : p.to # r}
    /\ UNCHANGED <<counter, latest>>

--------------------------------------------------------------------------------
Next ==
    \/ \E r \in Relayers :
          \/ \E hash \in Hashes : BroadcastSignature(r, hash)
          \/ Start(r) \/ BroadcastJoinTopic(r)
          \/ \E chain \in Chains : fetchWhitelist(r, chain)
          \/ ProcessReceivedMessage(r) \/ processJoinMessage(r) \/ processSignMessage(r)
          \/ ClearStoredSignatures(r) \/ Stop(r)
          \/ \E m \in notified[r] : Repeat(m)
    \/ LosePacket

Spec == Init /\ [][Next]_vars

--------------------------------------------------------------------------------
(***************************************************************************)
(* Properties.                                                             *)
(***************************************************************************)
\* Every variable keeps its type, and a relayer accepts no nonce that the
\* sender has not reached.
TypeOK ==
    /\ net \subseteq Packet
    /\ counter \in [Relayers -> Nat]
    /\ nonces \in [Relayers -> [Relayers -> Nat]]
    /\ accepted \in [Relayers -> SUBSET Packet]
    /\ signedMessages \in [Relayers -> SUBSET SignedMessage]
    /\ running \subseteq Relayers
    /\ whitelists \in [Relayers -> SUBSET Chains]
    /\ latest \in [Relayers -> LastSignature \cup {NoMessage}]
    /\ notified \in [Relayers -> SUBSET SignedMessage]
    /\ faults \in 0..MaxFaults
    /\ \A r, q \in Relayers : nonces[r][q] <= counter[q]

\* A message is given to the clients once: however often and by whomever it
\* is sent again, and although it is only handled some time after its nonce
\* was compared, what waits to be handled was not handled before.
NoReplay ==
    \A r \in Relayers : \A p, p2 \in accepted[r] :
        /\ p.msg \notin notified[r]
        /\ p.msg = p2.msg => p = p2

\* The inductive invariant behind NoReplay: a message that a relayer let pass
\* has a nonce that it recorded, and no message has a nonce that its sender
\* has yet to use.
Seen(r, m) == m.nonce <= nonces[r][m.pk]

IndInv ==
    /\ TypeOK
    /\ NoReplay
    /\ \A p \in net : p.msg.nonce <= counter[p.msg.pk]
    /\ \A r \in Relayers :
          /\ \A p \in accepted[r] : Seen(r, p.msg)
          /\ \A m \in notified[r] \cup signedMessages[r] : Seen(r, m)

\* It waits for the topic's handler or was handled.
Taken(m, r) == m \in notified[r] \/ \E p \in accepted[r] : p.to = r /\ p.msg = m

OnItsWay(m, r) == \E p \in net \cup accepted[r] : p.to = r /\ p.msg = m

Reached(m, r) == OnItsWay(m, r) \/ m \in notified[r]

\* In whatever order messages come, the last message of a relayer is refused
\* by nobody who knows the relayers: if it is a signature, it reaches the client
\* of every relayer that had both lists when it was sent.  (Who was registered
\* and had yet to fetch one of them may refuse it, or record its nonce and then
\* fail to verify it.)
NewestMessageReachesAll ==
    faults = 0 =>
        \A q \in Relayers : \A r \in latest[q].audience :
            latest[q].msg.nonce = counter[q] => Reached(latest[q].msg, r)

\* When a relayer's broadcasts keep their order, its join messages are no
\* danger to its signatures either: the last signature of a relayer reaches
\* every client whose relayer had both lists when it was sent, although peers
\* send stored messages out of order.
LatestSignatureReachesAll ==
    faults = 0 =>
        \A q \in Orderly : \A r \in latest[q].audience : Reached(latest[q].msg, r)

\* Without faults nobody loses its lists.
AudienceInv ==
    faults = 0 =>
        \A q \in Relayers : \A r \in latest[q].audience : whitelists[r] = Chains

\* The inductive invariant behind the last two: a signature is not above the
\* last one of its sender, only the sender sends its join messages, and who was
\* to get the last signature has taken it or has not recorded its nonce; if the
\* sender's broadcasts keep their order, the packet is then still on its way.
IsLatest(m) == latest[m.pk] # NoMessage /\ m.nonce = latest[m.pk].msg.nonce

MessageInv(m) ==
    /\ m.payload # Join => latest[m.pk] # NoMessage /\ m.nonce <= latest[m.pk].msg.nonce
    /\ IsLatest(m) => m = latest[m.pk].msg

Delivered(q, m, r) ==
    /\ Taken(m, r) \/ nonces[r][q] # m.nonce
    /\ m.nonce = counter[q] => Reached(m, r)
    /\ q \in Orderly =>
          Taken(m, r) \/ (nonces[r][q] < m.nonce /\ [to |-> r, peer |-> q, msg |-> m] \in net)

LatestInv ==
    \A q \in Relayers : latest[q] # NoMessage =>
        LET m == latest[q].msg
        IN  m.pk = q /\ m.payload # Join /\ m.nonce \in 1..counter[q]

MessagesInv ==
    /\ \A p \in net : MessageInv(p.msg) /\ (p.msg.payload = Join => p.peer = p.msg.pk)
    /\ \A r \in Relayers :
          /\ \A p \in accepted[r] : MessageInv(p.msg)
          /\ \A m \in notified[r] \cup signedMessages[r] : m.payload # Join /\ MessageInv(m)

DeliveryInv ==
    /\ LatestInv
    /\ MessagesInv
    /\ faults = 0 =>
          \A q \in Relayers : \A r \in latest[q].audience : Delivered(q, latest[q].msg, r)

\* A relayer that starts late gets the signatures that the others store: one
\* that has not come yet is accepted when a peer answers its join message.
LateJoinerBootstraps ==
    \A r \in running : \A q \in Relayers : \A m \in signedMessages[q] :
        \/ nonces[r][m.pk] <= m.nonce
        \/ \E x \in notified[r] \cup {p.msg : p \in accepted[r]} : UniqueID(x) = UniqueID(m)
================================================================================
