----------------------------- MODULE EthereumRoles -----------------------------
(***************************************************************************)
(* The Ethereum role provider of one relayer                               *)
(* (clients/roleProviders/ethereumRoleProvider.go).  Its polling goroutine *)
(* empties the whitelist and fills it again, address by address, while the *)
(* goroutines of the broadcaster verify the signatures that arrive against *)
(* it.  A lock keeps them apart.                                           *)
(***************************************************************************)
EXTENDS Integers, FiniteSets

CONSTANTS
    Relayers,      \* each stands for its Elrond key, its Ethereum address and its peer
    MaxChanges     \* bound: changes of the contracts' lists

ASSUME RolesAssumption == MaxChanges \in Nat

VARIABLES
    relayers,      \* the list of the contract
    poll,          \* where the polling goroutine is
    results,       \* what GetRelayers has returned and is still to be added
    whitelisted,   \* whitelistedAddresses
    fetched,       \* history: a list was fetched since the start
    alwaysListed,  \* history: all who have always been on the contract's list
    everListed,    \* history: all who have ever been on it
    changes

contractVars == <<relayers, alwaysListed, everListed, changes>>
providerVars == <<poll, results, whitelisted, fetched>>
rolesVars == <<relayers, poll, results, whitelisted, fetched, alwaysListed, everListed, changes>>

RolesInit ==
    /\ relayers \in SUBSET Relayers
    /\ poll = "idle" /\ results = {} /\ whitelisted = {} /\ fetched = FALSE
    /\ alwaysListed = relayers /\ everListed = relayers /\ changes = 0

--------------------------------------------------------------------------------
(***************************************************************************)
(* Execute, called by the polling handler.                                 *)
(***************************************************************************)
GetRelayers ==
    /\ poll = "idle"
    /\ poll' = "processResults" /\ results' = relayers
    /\ UNCHANGED <<contractVars, whitelisted, fetched>>

\* processResults takes the lock and starts from an empty map.
M_Cleared == whitelisted
Cleared == {}

LockAndClear ==
    /\ poll = "processResults"
    /\ poll' = "locked" /\ whitelisted' = Cleared
    /\ UNCHANGED <<contractVars, results, fetched>>

AddResult ==
    /\ poll = "locked"
    /\ \E a \in results :
          whitelisted' = whitelisted \cup {a} /\ results' = results \ {a}
    /\ UNCHANGED <<contractVars, poll, fetched>>

Unlock ==
    /\ poll = "locked" /\ results = {}
    /\ poll' = "idle" /\ fetched' = TRUE
    /\ UNCHANGED <<contractVars, results, whitelisted>>

Execute == GetRelayers \/ LockAndClear \/ AddResult \/ Unlock

\* The read lock can be taken.
M_RLock == TRUE
RLock == poll # "locked"

isWhitelisted(address) == address \in whitelisted

--------------------------------------------------------------------------------
\* The contract's list changes.
ChangeRelayers ==
    /\ changes < MaxChanges
    /\ changes' = changes + 1
    /\ relayers' \in SUBSET Relayers
    /\ alwaysListed' = alwaysListed \cap relayers'
    /\ everListed' = everListed \cup relayers'
    /\ UNCHANGED providerVars

\* The process ends and starts again.
RestartRoles ==
    /\ poll' = "idle" /\ results' = {} /\ whitelisted' = {} /\ fetched' = FALSE
    /\ UNCHANGED contractVars

--------------------------------------------------------------------------------
\* Whoever the provider knows was on the list, and who has always been on it is
\* on its way into the map or in it, unless nothing was fetched yet.
RolesInv ==
    /\ poll \in {"idle", "processResults", "locked"} /\ fetched \in BOOLEAN
    /\ alwaysListed \subseteq relayers
    /\ relayers \cup results \cup whitelisted \subseteq everListed
    /\ poll = "processResults" => alwaysListed \subseteq results
    /\ poll = "locked" => alwaysListed \subseteq results \cup whitelisted
    /\ fetched /\ poll # "locked" => alwaysListed \subseteq whitelisted

\* Whoever leaves the contract's list for good is refused in the end.
RemovedAtLast ==
    \A s \in Relayers : <>[](s \notin relayers) => <>[](s \notin whitelisted)
================================================================================
