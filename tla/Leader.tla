--------------------------------- MODULE Leader ---------------------------------
(***************************************************************************)
(* Who is leader: the Elrond role provider of every relayer                *)
(* (clients/roleProviders/elrondRoleProvider.go), which polls the contract *)
(* for the staked relayers, and the topology handler                       *)
(* (bridges/ethElrond/topology), which computes from that list and from    *)
(* the relayer's own clock whether it is its turn.                         *)
(*                                                                         *)
(* The other modules let any relayer be leader at any time.  This one says *)
(* when relayers do agree.                                                 *)
(***************************************************************************)
EXTENDS Integers, FiniteSets, SequencesExt

CONSTANTS
    Relayers,           \* their addresses, as numbers in the order of their bytes
    IntervalForLeader,  \* IntervalForLeaderInSeconds of the configuration
    Hashes,             \* the values of the hash, uint64
    MaxSkew,            \* bound: how far a clock is ahead
    MaxTime,            \* bound: seconds
    MaxChanges,         \* bound: changes of the contract's list
    MaxFaults           \* bound: failed queries and restarts

\* checkArgs of the topology handler refuses an interval below one second.
ASSUME ConstantsAssumption ==
    /\ Relayers \subseteq Nat /\ Relayers # {} /\ IsFiniteSet(Relayers)
    /\ IntervalForLeader \in Nat \ {0}
    /\ Hashes \subseteq Nat /\ Hashes # {}
    /\ MaxSkew \in Nat /\ MaxTime \in Nat /\ MaxChanges \in Nat /\ MaxFaults \in Nat

VARIABLES
    staked,       \* the contract's list: relayers, and addresses that are no addresses
    whitelisted,  \* whitelistedAddresses of each relayer's role provider
    results,      \* what its query has returned, or NoResults
    time,
    skew,         \* how far each relayer's clock is ahead
    hash,         \* of the seeds: chosen at the start
    lists,        \* history: the lists that the contract ever had
    changes,
    faults

contractVars == <<staked, lists, changes>>
clockVars == <<time, skew, hash>>
vars == <<staked, whitelisted, results, time, skew, hash, lists, changes, faults>>

\* An entry of the contract's list that is not a valid address.
Malformed == -1
NoResults == {-2}
Lists == SUBSET (Relayers \cup {Malformed})
Seeds == 0..((MaxTime + MaxSkew) \div IntervalForLeader)

Init ==
    /\ staked \in {L \in Lists : Malformed \notin L}
    /\ whitelisted = [r \in Relayers |-> {}]
    /\ results = [r \in Relayers |-> NoResults]
    /\ time = 0
    /\ skew \in [Relayers -> 0..MaxSkew]
    /\ hash \in [Seeds -> Hashes]
    /\ lists = {staked} /\ changes = 0 /\ faults = 0

--------------------------------------------------------------------------------
(***************************************************************************)
(* The role provider.                                                      *)
(***************************************************************************)
GetAllStakedRelayers(r) ==
    /\ results[r] = NoResults
    /\ results' = [results EXCEPT ![r] = staked]
    /\ UNCHANGED <<contractVars, whitelisted, clockVars, faults>>

\* The new list is built aside, and given up at the first malformed address.
M_NewList(r) == results[r] \ {Malformed}
NewList(r) == IF Malformed \in results[r] THEN whitelisted[r] ELSE results[r]

processResults(r) ==
    /\ results[r] # NoResults
    /\ whitelisted' = [whitelisted EXCEPT ![r] = NewList(r)]
    /\ results' = [results EXCEPT ![r] = NoResults]
    /\ UNCHANGED <<contractVars, clockVars, faults>>

Execute(r) == GetAllStakedRelayers(r) \/ processResults(r)

--------------------------------------------------------------------------------
(***************************************************************************)
(* The topology handler.                                                   *)
(***************************************************************************)
\* The list as a sequence, in ascending order.
Sorted(list) ==
    CHOOSE keys \in [1..Cardinality(list) -> list] :
        \A i, j \in DOMAIN keys : i < j => keys[i] < keys[j]

M_SortedPublicKeys(r) == IF r = 1 THEN Reverse(Sorted(whitelisted[r])) ELSE Sorted(whitelisted[r])
SortedPublicKeys(r) == Sorted(whitelisted[r])

NowUnix(r) == time + skew[r]

Seed(r) == NowUnix(r) \div IntervalForLeader

randomInt(seed, max) == IF max = 0 THEN 0 ELSE hash[seed] % max

MyTurnAsLeader(r) ==
    LET keys == SortedPublicKeys(r)
    IN  keys # << >> /\ keys[randomInt(Seed(r), Len(keys)) + 1] = r

--------------------------------------------------------------------------------
\* The contract's list changes.
ChangeStaked ==
    /\ changes < MaxChanges
    /\ changes' = changes + 1
    /\ \E L \in Lists : staked' = L /\ lists' = lists \cup {L}
    /\ UNCHANGED <<whitelisted, results, clockVars, faults>>

Tick ==
    /\ time < MaxTime
    /\ time' = time + 1
    /\ UNCHANGED <<contractVars, whitelisted, results, skew, hash, faults>>

\* The query fails and the list stays, or the process starts again without one.
Fault(r) ==
    /\ faults < MaxFaults
    /\ faults' = faults + 1
    /\ whitelisted' \in {whitelisted, [whitelisted EXCEPT ![r] = {}]}
    /\ results' = [results EXCEPT ![r] = NoResults]
    /\ UNCHANGED <<contractVars, clockVars>>

Next ==
    \/ \E r \in Relayers : Execute(r) \/ Fault(r)
    \/ ChangeStaked \/ Tick

\* The polling handler calls Execute for ever.
Fairness == \A r \in Relayers : WF_vars(Execute(r))

Spec == Init /\ [][Next]_vars
FairSpec == Spec /\ Fairness

--------------------------------------------------------------------------------
(***************************************************************************)
(* Properties.                                                             *)
(***************************************************************************)
\* A relayer never uses a list that the contract did not have: not a part of
\* one with a malformed address, and not a mixture of two.
ListsAreSnapshots == \A r \in Relayers : whitelisted[r] \in lists \cup {{}}

\* Relayers that have the same list and whose clocks are in the same interval
\* agree on the leader: never two of them think that it is their turn, and one
\* does unless someone on the list has another list or another interval.
Agree(r, s) == whitelisted[r] = whitelisted[s] /\ Seed(r) = Seed(s)

LeadersDisagreeForAReason ==
    \A r \in Relayers :
        /\ \A s \in Relayers :
              MyTurnAsLeader(r) /\ MyTurnAsLeader(s) /\ Agree(r, s) => r = s
        /\ whitelisted[r] # {} /\ (\A s \in whitelisted[r] : Agree(r, s)) =>
              \E s \in whitelisted[r] : MyTurnAsLeader(s)

\* Once the contract's list stays what it is, and if it is valid, there is
\* exactly one leader in the end, at all times when the clocks are in the same
\* interval.
OneLeaderAtLast ==
    \A L \in (SUBSET Relayers) \ {{}} :
        <>[](staked = L) =>
            <>[]((\A r, s \in Relayers : Seed(r) = Seed(s)) =>
                    Cardinality({r \in Relayers : MyTurnAsLeader(r)}) = 1)

\* The inductive invariant behind the first two: what a query returned was on
\* the contract, and what is used of it are addresses.
TypeInv ==
    /\ lists \subseteq Lists /\ staked \in lists
    /\ whitelisted \in [Relayers -> SUBSET Relayers]
    /\ results \in [Relayers -> lists \cup {NoResults}]
    /\ time \in 0..MaxTime
    /\ skew \in [Relayers -> 0..MaxSkew]
    /\ hash \in [Seeds -> Hashes]

IndInv == TypeInv /\ ListsAreSnapshots
================================================================================
