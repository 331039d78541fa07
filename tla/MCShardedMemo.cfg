SPECIFICATION Spec
CONSTANTS
    k1 = k1
    k2 = k2
    k3 = k3
    k4 = k4
    k5 = k5
    p = p
    q = q
    r = r
    Callers = {p, q, r}
    Keys = {k1, k2, k3, k4, k5}
    Shards = {1, 2}
    ShardOf <- MCShardOf
    EntriesPerShard = 2
    Value <- MCValue
    Failing = {k5}
    NoResult = NoResult
    Failure = Failure
SYMMETRY Symmetry
INVARIANTS
    OneEntryPerKey
    Bounded
PROPERTIES
    EvictsOnlyForRoom
    ServesTheFunction
