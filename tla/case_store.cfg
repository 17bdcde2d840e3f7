CONSTANTS
    Requests = {r1, r2, r3}
    Content = {c1, c2}
    Meta = {m1, m2}
    BodyVersions = {9}
    Keep = Keep
    NoDoc = NoDoc
    NoOne = NoOne
    Kinds = {"put", "create", "duplicate", "delete", "record", "recordStep"}
    FirstVersions = {0, 2}
    Faults = {"crash", "io"}
SYMMETRY Symmetry
SPECIFICATION Spec
INVARIANTS TypeOK Isolation SnapshotVersions GapFree
PROPERTIES NoLostUpdate RevisionsImmutable VersionSteps
