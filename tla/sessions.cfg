CONSTANTS
    Requests = {r1, r2, r3}
    Accounts = {u1, u2, u3}
    Username <- MCUsername
    u1 = u1
    u2 = u2
    u3 = u3
    Founders = {u1}
    Tokens = {t0, t1, t2, t3}
    FirstToken = t0
    AccessTtl = 1
    RefreshTtl = 2
    MaxTime = 2
    NoOne = NoOne
    NoToken = NoToken
    Kinds = {"login", "refresh", "logout", "me", "insert_user", "remove_user"}
    Faults = {"crash"}
SYMMETRY Symmetry
SPECIFICATION Spec
INVARIANTS AccountsSound RotationSound
PROPERTY SessionsKept
