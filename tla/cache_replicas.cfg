CONSTANTS
    t1 = t1
    t2 = t2
    t3 = t3
    near = near
    far = far
    Replicas = {near, far}
    Threads = {t1, t2, t3}
    Home <- TwoReplicas
    Documents = {d1}
    MaxWrites = 2
    MAX_AGE = 2
    NoEntry = NoEntry
SPECIFICATION FairCacheSpec
INVARIANT LocallyBounded
PROPERTY EventuallyFresh
