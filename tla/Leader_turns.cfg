SPECIFICATION FairSpec
CONSTANTS
    Relayers = {1, 2}
    IntervalForLeader = 2
    Hashes = {0, 1}
    MaxSkew = 1
    MaxTime = 2
    MaxChanges = 1
    MaxFaults = 1
INVARIANTS ListsAreSnapshots LeadersDisagreeForAReason
PROPERTIES OneLeaderAtLast
