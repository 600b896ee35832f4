--------------------------------- MODULE Intake ---------------------------------
(***************************************************************************)
(* What one relayer does with the messages it receives:                    *)
(* ProcessReceivedMessage of p2p/broadcaster.go, with its message handler, *)
(* nonce filter and peer denial evaluator, and both role providers.  The   *)
(* messenger calls it from goroutines of its own, so that the handling of  *)
(* messages interleaves, check by check, with that of others, with the     *)
(* polling of the lists and with changes of the lists themselves.          *)
(***************************************************************************)
EXTENDS EthereumRoles

CONSTANTS
    Handlers,      \* goroutines that handle a message
    Peers,         \* peers of the network, which pass messages on
    MaxNonce,      \* bound: nonces of the messages
    MaxFaults      \* bound: messages that are malformed or dropped, restarts

ASSUME IntakeAssumption == MaxNonce \in Nat /\ MaxFaults \in Nat

VARIABLES
    staked,        \* the relayers on the list of the Elrond contract
    stakedResults, \* what the Elrond role provider has fetched, or NoResults
    elrondList,    \* its whitelistedAddresses
    everStaked,    \* history: all who have ever been on the contract's list
    handling,      \* of each goroutine: the message and where it is, or Nothing
    nonces,        \* of the nonce filter; 0 when there is no entry
    denied,        \* the peers on the black list
    notified,      \* history: how often the clients were given a signature
    wronglyRefused,\* history: signers refused who had been on the list since ever
    faults

elrondVars == <<staked, stakedResults, elrondList, everStaked>>
intakeVars == <<handling, nonces, denied, notified, wronglyRefused, faults>>
vars == <<rolesVars, elrondVars, intakeVars>>

NoResults == {"none"}
Message == [key : Relayers, nonce : 1..MaxNonce, topic : {"join", "sign"}]
Nothing == [at |-> "nothing"]
NeverNotified == [r \in Relayers |-> [n \in 1..MaxNonce |-> 0]]

\* Relayers are registered with both contracts; the lists differ after a change
\* of one of them.
Init ==
    /\ RolesInit
    /\ staked = relayers /\ everStaked = staked
    /\ stakedResults = NoResults /\ elrondList = {}
    /\ handling = [h \in Handlers |-> Nothing]
    /\ nonces = [r \in Relayers |-> 0]
    /\ denied = {} /\ notified = NeverNotified /\ wronglyRefused = {} /\ faults = 0

Fault == faults < MaxFaults /\ faults' = faults + 1

Goto(h, at) == handling' = [handling EXCEPT ![h].at = at]
Drop(h) == handling' = [handling EXCEPT ![h] = Nothing]

--------------------------------------------------------------------------------
(***************************************************************************)
(* ProcessReceivedMessage.                                                 *)
(***************************************************************************)
IsDenied(peer) == peer \in denied

\* The order of the checks.
M_Checks == [received |-> "processNonce", processNonce |-> "IsWhitelisted",
             IsWhitelisted |-> "VerifyEthSignature"]
Checks == [received |-> "IsWhitelisted", IsWhitelisted |-> "processNonce",
           processNonce |-> "VerifyEthSignature"]

\* A message that can be read, is not too long and has a valid signature.
preProcessMessage(h) ==
    /\ handling[h] = Nothing
    /\ \E m \in Message, peer \in Peers :
          /\ ~ IsDenied(peer)
          /\ handling' = [handling EXCEPT ![h] = [at |-> Checks["received"], msg |-> m]]
    /\ UNCHANGED <<rolesVars, elrondVars, nonces, denied, notified, wronglyRefused, faults>>

\* One that cannot be read or whose signature is wrong: the peer that made it
\* and the one that passed it on are put on the black list.  One that is too
\* long is only dropped.
refuseMessage ==
    /\ Fault
    /\ \E peer, from \in Peers :
          /\ ~ IsDenied(from)
          /\ denied' \in {denied, denied \cup {peer, from}}
    /\ UNCHANGED <<rolesVars, elrondVars, handling, nonces, notified, wronglyRefused>>

IsWhitelisted(h) ==
    /\ handling[h].at = "IsWhitelisted"
    /\ IF handling[h].msg.key \in elrondList THEN Goto(h, Checks["IsWhitelisted"]) ELSE Drop(h)
    /\ UNCHANGED <<rolesVars, elrondVars, nonces, denied, notified, wronglyRefused, faults>>

\* The antiflood checks may drop the message.  A join is answered at once and
\* only a signature is looked at further.
canProcessMessage(h) ==
    \/ Fault /\ Drop(h)
    \/ /\ UNCHANGED faults
       /\ CASE handling[h].msg.topic = "join" -> Drop(h)
            [] handling[h].msg.topic = "sign" -> Goto(h, Checks["processNonce"])

\* A nonce that is not newer than the key's last one is refused.
M_IsNewer(key, nonce) == nonces[key] <= nonce
IsNewer(key, nonce) == nonces[key] < nonce

\* The nonce is recorded before the antiflood checks are made.
processNonce(h) ==
    /\ handling[h].at = "processNonce"
    /\ LET m == handling[h].msg
       IN  \/ /\ ~ IsNewer(m.key, m.nonce)
              /\ Drop(h) /\ UNCHANGED <<nonces, faults>>
           \/ /\ IsNewer(m.key, m.nonce)
              /\ nonces' = [nonces EXCEPT ![m.key] = m.nonce]
              /\ canProcessMessage(h)
    /\ UNCHANGED <<rolesVars, elrondVars, denied, notified, wronglyRefused>>

\* VerifyEthSignature asks for the read lock, then the clients are notified.
VerifyEthSignature(h) ==
    /\ handling[h].at = "VerifyEthSignature"
    /\ RLock
    /\ LET m == handling[h].msg
       IN  \/ /\ isWhitelisted(m.key)
              /\ notified' = [notified EXCEPT ![m.key][m.nonce] = @ + 1]
              /\ UNCHANGED wronglyRefused
           \/ /\ ~ isWhitelisted(m.key)
              /\ wronglyRefused' = wronglyRefused \cup {s \in alwaysListed : fetched /\ s = m.key}
              /\ UNCHANGED notified
    /\ Drop(h)
    /\ UNCHANGED <<rolesVars, elrondVars, nonces, denied, faults>>

Handle(h) ==
    preProcessMessage(h) \/ IsWhitelisted(h) \/ processNonce(h) \/ VerifyEthSignature(h)

--------------------------------------------------------------------------------
(***************************************************************************)
(* The lists and the process.                                              *)
(***************************************************************************)
PollEthereum == Execute /\ UNCHANGED <<elrondVars, intakeVars>>

\* The Elrond role provider exchanges its whole list at once.
PollElrond ==
    /\ \/ stakedResults = NoResults /\ stakedResults' = staked /\ UNCHANGED elrondList
       \/ /\ stakedResults # NoResults
          /\ elrondList' = stakedResults /\ stakedResults' = NoResults
    /\ UNCHANGED <<rolesVars, staked, everStaked, intakeVars>>

ChangeEthereum == ChangeRelayers /\ UNCHANGED <<elrondVars, intakeVars>>

ChangeStaked ==
    /\ changes < MaxChanges
    /\ changes' = changes + 1
    /\ staked' \in SUBSET Relayers
    /\ everStaked' = everStaked \cup staked'
    /\ UNCHANGED <<relayers, alwaysListed, everListed, providerVars, stakedResults, elrondList,
                   intakeVars>>

\* A peer is on the black list for some time only.
Forgive ==
    /\ \E peer \in denied : denied' = denied \ {peer}
    /\ UNCHANGED <<rolesVars, elrondVars, handling, nonces, notified, wronglyRefused, faults>>

Restart ==
    /\ Fault
    /\ RestartRoles
    /\ stakedResults' = NoResults /\ elrondList' = {}
    /\ handling' = [h \in Handlers |-> Nothing]
    /\ nonces' = [r \in Relayers |-> 0]
    /\ denied' = {} /\ notified' = NeverNotified
    /\ UNCHANGED <<staked, everStaked, wronglyRefused>>

Next ==
    \/ \E h \in Handlers : Handle(h)
    \/ refuseMessage \/ Forgive
    \/ PollEthereum \/ PollElrond \/ ChangeEthereum \/ ChangeStaked \/ Restart

\* The polling handlers go on for ever.
Spec == Init /\ [][Next]_vars /\ WF_vars(PollEthereum) /\ WF_vars(PollElrond)

--------------------------------------------------------------------------------
(***************************************************************************)
(* Properties.                                                             *)
(***************************************************************************)
\* While the list is replaced, nobody is refused who was on the old and is on
\* the new one: a signature that is refused is lost, since its nonce is used up.
NoSpuriousRefusal == wronglyRefused = {}

\* The nonce filter has no entry for anyone who was never a relayer: the checks
\* come in the order that keeps its map as small as the contract's list.
NoncesOfRelayersOnly == \A r \in Relayers : nonces[r] > 0 => r \in everStaked

\* A client is given a signature only if its sender was a relayer on Elrond and
\* its signer one on Ethereum, and only once between two starts, although copies
\* of a message are handled side by side and the whitelists change meanwhile.
ClientsGetRelayersOnly ==
    \A r \in Relayers, n \in 1..MaxNonce :
        /\ notified[r][n] > 0 => r \in everStaked \cap everListed
        /\ notified[r][n] <= 1

\* The inductive invariants behind the three.  What a goroutine holds passed the
\* checks that come before its next one; a message whose nonce was accepted is
\* held by one goroutine until the clients have it.
HandlingType ==
    [at : {"IsWhitelisted", "processNonce", "VerifyEthSignature"}, msg : Message] \cup {Nothing}

TypeInv ==
    /\ handling \in [Handlers -> HandlingType]
    /\ nonces \in [Relayers -> Nat]
    /\ notified \in [Relayers -> [1..MaxNonce -> Nat]]

At(h, check) == handling[h].at = check

StakedInv ==
    /\ staked \cup elrondList \subseteq everStaked
    /\ stakedResults # NoResults => stakedResults \subseteq everStaked
    /\ \A h \in Handlers : At(h, "processNonce") => handling[h].msg.key \in everStaked

OnceInv ==
    /\ \A r \in Relayers, n \in 1..MaxNonce :
          notified[r][n] > 0 => n <= nonces[r] /\ r \in everListed
    /\ \A h \in Handlers : At(h, "VerifyEthSignature") =>
          LET m == handling[h].msg
          IN  /\ m.nonce <= nonces[m.key] /\ notified[m.key][m.nonce] = 0
              /\ \A h2 \in Handlers : At(h2, "VerifyEthSignature") /\ h2 # h =>
                    handling[h2].msg.key # m.key \/ handling[h2].msg.nonce # m.nonce

IndInv ==
    /\ RolesInv /\ TypeInv /\ StakedInv /\ OnceInv
    /\ NoSpuriousRefusal /\ NoncesOfRelayersOnly /\ ClientsGetRelayersOnly
================================================================================
