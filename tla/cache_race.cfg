CONSTANTS
    t1 = t1
    t2 = t2
    t3 = t3
    near = near
    far = far
    Replicas = {near}
    Threads = {t1, t2}
    Home <- OneReplica
    Documents = {d1, d2}
    MaxWrites = 1
    MAX_AGE = 2
    NoEntry = NoEntry
SPECIFICATION CacheSpec
INVARIANT LocallyExact
