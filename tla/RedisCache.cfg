SPECIFICATION Spec
CONSTANTS
    p1 = p1
    p2 = p2
    c1 = c1
    c2 = c2
    k1 = k1
    k2 = k2
    Instances = {p1, p2}
    Calls = {c1, c2}
    Pod <- MCPod
    Keys = {k1, k2}
    Read = {k1}
    Batches <- MCBatches
    Tagged = {k1, k2}
    L1Ttl = 1
    LockTtl = 2
    MaxPolls = 1
    MaxDelay = 1
    MaxWrites = 2
SYMMETRY Twins
INVARIANTS
    StaleForAWhile
    SetIsSeen
    OneHolder
    PromiseIsAlive
    TaggedKeysAreTracked
