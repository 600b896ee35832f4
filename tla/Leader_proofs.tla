------------------------------ MODULE Leader_proofs ------------------------------
(***************************************************************************)
(* Proofs about who is leader: relayers use lists that the contract had,   *)
(* and those that have the same list and the same interval agree on one    *)
(* leader, whatever the hash.                                              *)
(***************************************************************************)
EXTENDS Leader, FiniteSetTheorems, NaturalsInduction, WellFoundedInduction, TLAPS

(***************************************************************************)
(* The inductive invariant.                                                *)
(***************************************************************************)
\* The types that a step of Next keeps: NoResults is no list.
LEMMA NoResultsIsNoList == NoResults \notin Lists
<1>1. -2 \notin Relayers \cup {Malformed}
  BY ConstantsAssumption DEF Malformed
<1> QED
  BY <1>1 DEF NoResults, Lists

\* The clock never leaves the seeds that the hash is defined for.
LEMMA InitInv == Init => IndInv
<1> SUFFICES ASSUME Init PROVE IndInv
  OBVIOUS
<1>1. staked \in lists /\ lists \subseteq Lists
  BY DEF Init
<1>2. whitelisted \in [Relayers -> SUBSET Relayers] /\ results \in [Relayers -> lists \cup {NoResults}]
  BY DEF Init
<1>3. time \in 0..MaxTime
  BY ConstantsAssumption DEF Init
<1>4. skew \in [Relayers -> 0..MaxSkew] /\ hash \in [Seeds -> Hashes]
  BY DEF Init
<1>5. ListsAreSnapshots
  BY DEF Init, ListsAreSnapshots
<1> QED
  BY <1>1, <1>2, <1>3, <1>4, <1>5 DEF IndInv, TypeInv

\* A query returns the list that the contract has.
LEMMA QueryInv == IndInv /\ (\E r \in Relayers : GetAllStakedRelayers(r)) => IndInv'
<1> SUFFICES ASSUME IndInv, NEW r \in Relayers, GetAllStakedRelayers(r) PROVE IndInv'
  OBVIOUS
<1> USE DEF contractVars, clockVars
<1>1. results' \in [Relayers -> lists \cup {NoResults}]
  BY DEF GetAllStakedRelayers, IndInv, TypeInv
<1>2. TypeInv'
  BY <1>1 DEF GetAllStakedRelayers, IndInv, TypeInv
<1>3. ListsAreSnapshots'
  BY DEF GetAllStakedRelayers, IndInv, ListsAreSnapshots
<1> QED
  BY <1>2, <1>3 DEF IndInv

\* Only a list of addresses replaces the one in use, and it replaces all of it.
LEMMA ProcessInv == IndInv /\ (\E r \in Relayers : processResults(r)) => IndInv'
<1> SUFFICES ASSUME IndInv, NEW r \in Relayers, processResults(r) PROVE IndInv'
  OBVIOUS
<1> USE DEF contractVars, clockVars
<1>1. results[r] \in lists /\ results[r] \in Lists
  BY DEF processResults, IndInv, TypeInv
<1>2. NewList(r) \in SUBSET Relayers /\ NewList(r) \in lists \cup {{}}
  BY <1>1 DEF NewList, Lists, IndInv, TypeInv, ListsAreSnapshots
<1>3. whitelisted' \in [Relayers -> SUBSET Relayers]
  BY <1>2 DEF processResults, IndInv, TypeInv
<1>4. results' \in [Relayers -> lists \cup {NoResults}]
  BY DEF processResults, IndInv, TypeInv
<1>5. TypeInv'
  BY <1>3, <1>4 DEF processResults, IndInv, TypeInv
<1>6. ListsAreSnapshots'
  <2> SUFFICES ASSUME NEW s \in Relayers PROVE whitelisted'[s] \in lists \cup {{}}
    BY DEF ListsAreSnapshots, processResults
  <2>1. whitelisted'[s] \in {whitelisted[s], NewList(r)}
    BY DEF processResults, IndInv, TypeInv
  <2> QED
    BY <2>1, <1>2 DEF IndInv, ListsAreSnapshots
<1> QED
  BY <1>5, <1>6 DEF IndInv

\* After a fault the list is the one that was there, or none.
LEMMA FaultInv == IndInv /\ (\E r \in Relayers : Fault(r)) => IndInv'
<1> SUFFICES ASSUME IndInv, NEW r \in Relayers, Fault(r) PROVE IndInv'
  OBVIOUS
<1> USE DEF contractVars, clockVars
<1>1. whitelisted' \in [Relayers -> SUBSET Relayers] /\ results' \in [Relayers -> lists \cup {NoResults}]
  BY DEF Fault, IndInv, TypeInv
<1>2. TypeInv'
  BY <1>1 DEF Fault, IndInv, TypeInv
<1>3. \A s \in Relayers : whitelisted'[s] \in {whitelisted[s], {}}
  BY DEF Fault, IndInv, TypeInv
<1>4. ListsAreSnapshots'
  BY <1>3 DEF Fault, IndInv, ListsAreSnapshots
<1> QED
  BY <1>2, <1>4 DEF IndInv

\* The contract's list and the clock are steps of their own.
LEMMA OutsideInv == IndInv /\ (ChangeStaked \/ Tick) => IndInv'
<1> SUFFICES ASSUME IndInv, ChangeStaked \/ Tick PROVE IndInv'
  OBVIOUS
<1> USE DEF contractVars, clockVars
<1>1. CASE ChangeStaked
  <2>1. PICK L \in Lists : staked' = L /\ lists' = lists \cup {L}
    BY <1>1 DEF ChangeStaked
  <2>2. lists' \subseteq Lists /\ staked' \in lists'
    BY <2>1 DEF IndInv, TypeInv
  <2>3. results' \in [Relayers -> lists' \cup {NoResults}]
    BY <1>1, <2>1 DEF ChangeStaked, IndInv, TypeInv
  <2>4. TypeInv'
    BY <1>1, <2>2, <2>3 DEF ChangeStaked, IndInv, TypeInv
  <2>5. ListsAreSnapshots'
    BY <1>1, <2>1 DEF ChangeStaked, IndInv, ListsAreSnapshots
  <2> QED
    BY <2>4, <2>5 DEF IndInv
<1>2. CASE Tick
  <2>1. time' \in 0..MaxTime
    BY <1>2, ConstantsAssumption DEF Tick, IndInv, TypeInv
  <2>2. TypeInv' /\ ListsAreSnapshots'
    BY <1>2, <2>1 DEF Tick, IndInv, TypeInv, ListsAreSnapshots
  <2> QED
    BY <2>2 DEF IndInv
<1> QED
  BY <1>1, <1>2

\* What relayers use of what a query returned are addresses, and the clocks
\* stay within the seeds.
THEOREM Invariance == Spec => []IndInv
<1>1. Init => IndInv
  BY InitInv
<1>2. IndInv /\ [Next]_vars => IndInv'
  <2> SUFFICES ASSUME IndInv, [Next]_vars PROVE IndInv'
    OBVIOUS
  <2>1. CASE \E r \in Relayers : Execute(r)
    BY <2>1, QueryInv, ProcessInv DEF Execute
  <2>2. CASE \E r \in Relayers : Fault(r)
    BY <2>2, FaultInv
  <2>3. CASE ChangeStaked \/ Tick
    BY <2>3, OutsideInv
  <2>4. CASE UNCHANGED vars
    BY <2>4 DEF vars, IndInv, TypeInv, ListsAreSnapshots
  <2> QED
    BY <2>1, <2>2, <2>3, <2>4 DEF Next
<1> QED
  BY <1>1, <1>2, PTL DEF Spec

\* elrondRoleProvider.processResults: no relayer ever uses a list that the
\* contract did not have.
THEOREM ListsWereOnTheContract == Spec => []ListsAreSnapshots
<1>1. IndInv => ListsAreSnapshots
  BY DEF IndInv
<1> QED
  BY <1>1, Invariance, PTL

--------------------------------------------------------------------------------
(***************************************************************************)
(* The sorted list: it exists, and has every relayer of the list once.     *)
(***************************************************************************)
\* Every nonempty set of natural numbers has a least element.
LEMMA LeastNatural ==
    ASSUME NEW S, S \subseteq Nat, S # {}
    PROVE  \E n \in S : \A m \in S : n <= m
<1> DEFINE R == {ss \in Nat \X Nat : ss[1] < ss[2]}
<1>1. IsWellFoundedOn(R, Nat)
  BY NatLessThanWellFounded DEF OpToRel
<1>2. \A m, n \in Nat : m < n => <<m, n>> \in R
  OBVIOUS
<1> HIDE DEF R
<1>3. \E n \in S : \A m \in S : ~ (<<m, n>> \in R)
  BY <1>1, WFMin
<1>4. ASSUME NEW m \in S, NEW n \in S, ~ (<<m, n>> \in R) PROVE n <= m
  BY <1>2, <1>4
<1> QED
  BY <1>3, <1>4

\* The sequences of the elements of a set in ascending order.
Ascending(S) == {e \in [1..Cardinality(S) -> S] :
                    \A i, j \in 1..Cardinality(S) : i < j => e[i] < e[j]}

\* The least element before the others in ascending order.
LEMMA AscendingOneMore ==
    ASSUME NEW S, S \subseteq Nat, IsFiniteSet(S), S # {},
           \A T \in SUBSET S : Cardinality(T) = Cardinality(S) - 1 => Ascending(T) # {}
    PROVE  Ascending(S) # {}
<1>1. PICK m \in S : \A k \in S : m <= k
  BY LeastNatural
<1> DEFINE T == S \ {m}
           n == Cardinality(S)
<1>2. n \in Nat /\ n # 0 /\ Cardinality(T) = n - 1
  BY FS_CardinalityType, FS_EmptySet, FS_RemoveElement
<1>3. PICK e \in Ascending(T) : TRUE
  BY <1>2
<1>4. e \in [1..(n - 1) -> T] /\ \A i, j \in 1..(n - 1) : i < j => e[i] < e[j]
  BY <1>2, <1>3 DEF Ascending
<1> DEFINE f == [i \in 1..n |-> IF i = 1 THEN m ELSE e[i - 1]]
<1> HIDE DEF n
<1>5. \A k \in T : m < k
  BY <1>1
<1>6. \A i \in 1..n : i # 1 => i - 1 \in 1..(n - 1)
  BY <1>2
<1>7. \A i \in 1..n : f[i] \in S
  BY <1>4, <1>6
<1>8. f \in [1..n -> S]
  BY <1>7
<1>9. ASSUME NEW i \in 1..n, NEW j \in 1..n, i < j PROVE f[i] < f[j]
  <2>1. j # 1 /\ j - 1 \in 1..(n - 1) /\ e[j - 1] \in T /\ f[j] = e[j - 1]
    BY <1>2, <1>4, <1>6, <1>9
  <2>2. CASE i = 1
    BY <2>1, <2>2, <1>5
  <2>3. CASE i # 1
    <3>1. i - 1 \in 1..(n - 1) /\ i - 1 < j - 1 /\ f[i] = e[i - 1]
      BY <1>2, <1>6, <1>9, <2>3
    <3> QED
      BY <3>1, <2>1, <1>4
  <2> QED
    BY <2>2, <2>3
<1> HIDE DEF f
<1>10. f \in Ascending(S)
  BY <1>8, <1>9 DEF Ascending, n
<1> QED
  BY <1>10

\* Every finite set of natural numbers can be put in ascending order.
LEMMA AscendingExists ==
    ASSUME NEW S, S \subseteq Nat, IsFiniteSet(S)
    PROVE  Ascending(S) # {}
<1> DEFINE Bad == {T \in SUBSET S : Ascending(T) = {}}
           Sizes == {n \in Nat : \E T \in Bad : Cardinality(T) = n}
<1> SUFFICES ASSUME Bad # {} PROVE FALSE
  OBVIOUS
<1>1. \A T \in SUBSET S : IsFiniteSet(T) /\ Cardinality(T) \in Nat
  BY FS_Subset, FS_CardinalityType
<1>2. Sizes \subseteq Nat /\ Sizes # {}
  BY <1>1
<1>3. PICK n \in Sizes : \A m \in Sizes : n <= m
  BY <1>2, LeastNatural
<1>4. PICK T \in Bad : Cardinality(T) = n
  BY <1>3
<1>5. T # {}
  <2> SUFFICES ASSUME T = {} PROVE FALSE
    OBVIOUS
  <2>1. Cardinality(T) = 0
    BY FS_EmptySet
  <2> DEFINE e == [i \in 1..0 |-> 0]
  <2>2. e \in [1..0 -> T] /\ \A i, j \in 1..0 : i < j => e[i] < e[j]
    OBVIOUS
  <2>3. e \in Ascending(T)
    BY <2>1, <2>2 DEF Ascending
  <2> QED
    BY <2>3, <1>4
<1>6. ASSUME NEW U \in SUBSET T, Cardinality(U) = Cardinality(T) - 1 PROVE Ascending(U) # {}
  <2>1. U \in SUBSET S
    OBVIOUS
  <2>2. Cardinality(U) \notin Sizes
    BY <1>1, <1>3, <1>4, <1>6, <2>1
  <2> QED
    BY <1>1, <2>1, <2>2
<1>7. T \subseteq Nat /\ IsFiniteSet(T)
  BY <1>1
<1>8. Ascending(T) # {}
  BY <1>5, <1>6, <1>7, AscendingOneMore
<1> QED
  BY <1>4, <1>8

\* SortedPublicKeys: the result has all keys of the list, in ascending order.
LEMMA SortedIsAscending ==
    ASSUME NEW S, S \subseteq Nat, IsFiniteSet(S)
    PROVE  Sorted(S) \in Ascending(S)
<1> DEFINE P(keys) == \A i, j \in DOMAIN keys : i < j => keys[i] < keys[j]
<1>1. Sorted(S) = CHOOSE keys \in [1..Cardinality(S) -> S] : P(keys)
  BY DEF Sorted
<1>2. \E keys \in [1..Cardinality(S) -> S] : P(keys)
  BY AscendingExists DEF Ascending
<1>3. Sorted(S) \in [1..Cardinality(S) -> S] /\ P(Sorted(S))
  BY <1>1, <1>2
<1> QED
  BY <1>3 DEF Ascending

--------------------------------------------------------------------------------
(***************************************************************************)
(* The leader.                                                             *)
(***************************************************************************)
\* Of two times the earlier is not in a later interval.
LEMMA DivMonotone ==
    ASSUME NEW x \in Nat, NEW y \in Nat, NEW k \in Nat, k # 0, x <= y
    PROVE  x \div k \in 0..(y \div k)
<1> DEFINE p == x \div k
           q == y \div k
<1>1. p \in Nat /\ q \in Nat
  OBVIOUS
<1>2. x = k * p + (x % k) /\ y = k * q + (y % k)
  OBVIOUS
<1>3. x % k \in 0..(k - 1) /\ y % k \in 0..(k - 1)
  OBVIOUS
<1> HIDE DEF p, q
<1>4. p <= q
  <2> SUFFICES ASSUME q + 1 <= p PROVE FALSE
    BY <1>1
  <2>1. k * (q + 1) <= k * p
    BY <1>1
  <2>2. k * (q + 1) = k * q + k
    BY <1>1
  <2> QED
    BY <1>1, <1>2, <1>3, <2>1, <2>2
<1> QED
  BY <1>1, <1>4 DEF p, q

\* The hash is defined for the interval of every relayer's clock.
LEMMA SeedType == IndInv => \A r \in Relayers : Seed(r) \in Seeds
<1> SUFFICES ASSUME IndInv, NEW r \in Relayers PROVE Seed(r) \in Seeds
  OBVIOUS
<1>1. /\ NowUnix(r) \in Nat /\ MaxTime + MaxSkew \in Nat /\ NowUnix(r) <= MaxTime + MaxSkew
      /\ IntervalForLeader \in Nat /\ IntervalForLeader # 0
  BY ConstantsAssumption DEF IndInv, TypeInv, NowUnix
<1> QED
  BY <1>1, DivMonotone DEF Seed, Seeds

\* A list that is not empty has a key at the index of every seed.
LEMMA LeaderIsOnTheList ==
    ASSUME IndInv, NEW r \in Relayers, whitelisted[r] # {}
    PROVE  /\ SortedPublicKeys(r) # << >>
           /\ SortedPublicKeys(r)[randomInt(Seed(r), Len(SortedPublicKeys(r))) + 1] \in whitelisted[r]
<1>1. PICK S : S = whitelisted[r]
  OBVIOUS
<1>2. S \subseteq Nat /\ IsFiniteSet(S) /\ S # {}
  BY <1>1, ConstantsAssumption, FS_Subset DEF IndInv, TypeInv
<1>3. PICK n : n = Cardinality(S)
  OBVIOUS
<1>4. n \in Nat /\ n # 0
  BY <1>2, <1>3, FS_CardinalityType, FS_EmptySet
<1>5. PICK keys : keys = SortedPublicKeys(r)
  OBVIOUS
<1>6. keys \in [1..n -> S]
  BY <1>1, <1>2, <1>3, <1>5, SortedIsAscending DEF SortedPublicKeys, Ascending
<1>7. keys \in Seq(S) /\ Len(keys) = n
  BY <1>4, <1>6
<1>8. PICK h \in Nat : h = hash[Seed(r)]
  BY SeedType, ConstantsAssumption DEF IndInv, TypeInv
<1>9. randomInt(Seed(r), Len(keys)) = h % n
  BY <1>4, <1>7, <1>8 DEF randomInt
<1>10. (h % n) + 1 \in 1..n
  BY <1>4
<1>11. keys[(h % n) + 1] \in S /\ keys # << >>
  BY <1>4, <1>6, <1>7, <1>10
<1> QED
  BY <1>1, <1>5, <1>9, <1>11

\* Relayers that agree on the list and on the interval compute the same leader.
LEMMA SameLeader ==
    ASSUME NEW r \in Relayers, NEW s \in Relayers, Agree(r, s)
    PROVE  /\ SortedPublicKeys(s) = SortedPublicKeys(r)
           /\ randomInt(Seed(s), Len(SortedPublicKeys(s))) = randomInt(Seed(r), Len(SortedPublicKeys(r)))
<1>1. whitelisted[r] = whitelisted[s] /\ Seed(r) = Seed(s)
  BY DEF Agree
<1>2. SortedPublicKeys(s) = SortedPublicKeys(r)
  BY <1>1 DEF SortedPublicKeys
<1> QED
  BY <1>1, <1>2

\* The invariant decides who is leader, whatever the hash is.
LEMMA OneOfThoseThatAgree == IndInv => LeadersDisagreeForAReason
<1> SUFFICES ASSUME IndInv, NEW r \in Relayers
             PROVE  /\ \A s \in Relayers :
                          MyTurnAsLeader(r) /\ MyTurnAsLeader(s) /\ Agree(r, s) => r = s
                    /\ whitelisted[r] # {} /\ (\A s \in whitelisted[r] : Agree(r, s)) =>
                          \E s \in whitelisted[r] : MyTurnAsLeader(s)
  BY DEF LeadersDisagreeForAReason
<1> DEFINE index(s) == randomInt(Seed(s), Len(SortedPublicKeys(s))) + 1
<1>1. ASSUME NEW s \in Relayers, MyTurnAsLeader(r), MyTurnAsLeader(s), Agree(r, s) PROVE r = s
  <2>1. SortedPublicKeys(r)[index(r)] = r /\ SortedPublicKeys(s)[index(s)] = s
    BY <1>1 DEF MyTurnAsLeader
  <2>2. SortedPublicKeys(s) = SortedPublicKeys(r) /\ index(s) = index(r)
    BY <1>1, SameLeader
  <2> QED
    BY <2>1, <2>2
<1>2. ASSUME whitelisted[r] # {}, \A s \in whitelisted[r] : Agree(r, s)
      PROVE  \E s \in whitelisted[r] : MyTurnAsLeader(s)
  <2>1. PICK s \in whitelisted[r] : s = SortedPublicKeys(r)[index(r)] /\ SortedPublicKeys(r) # << >>
    BY <1>2, LeaderIsOnTheList
  <2>2. s \in Relayers /\ Agree(r, s)
    BY <1>2 DEF IndInv, TypeInv
  <2>3. SortedPublicKeys(s) = SortedPublicKeys(r) /\ index(s) = index(r)
    BY <2>2, SameLeader
  <2>4. MyTurnAsLeader(s)
    BY <2>1, <2>3 DEF MyTurnAsLeader
  <2> QED
    BY <2>4
<1> QED
  BY <1>1, <1>2

\* topologyHandler.MyTurnAsLeader: among relayers with the same list in the
\* same interval there are never two leaders, and there is one when all on the
\* list agree: for every list, every hash and every interval.
THEOREM LeadersAgree == Spec => []LeadersDisagreeForAReason
BY OneOfThoseThatAgree, Invariance, PTL
================================================================================
