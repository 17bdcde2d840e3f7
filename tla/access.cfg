SPECIFICATION MCSpec
CONSTANTS
    Requests = {r1}
    Users = {ada, root}
    Admins = {root}
    Projects = {p, q}
    Ids = {i}
    CopyIds = {copy}
    Kinds <- MCKinds
    MaxDocs = 2
    MaxMoves = 1
    NoProject = NoProject
    NoId = NoId
SYMMETRY ProjectSymmetry
INVARIANT ListedIsReadable
PROPERTIES ServedWithinReach WritesWhereEntitled
CHECK_DEADLOCK FALSE
