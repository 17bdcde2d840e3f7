CONSTANTS
    Requests = {r1, r2}
    Content = {c1, c2}
    Meta = {m1, m2}
    BodyVersions = {9}
    Keep = Keep
    NoDoc = NoDoc
    NoOne = NoOne
    Kinds = {"put", "create", "duplicate", "delete", "record", "recordStep", "history"}
    FirstVersions = {0, 2}
    Faults = {}
SPECIFICATION FairSpec
PROPERTIES HistoryExact EveryRequestAnswered ImplementsHistory
