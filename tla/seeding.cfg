CONSTANTS
    Commands = {c1, c2}
    Projects = {p1, p2}
    Roles = {editor, owner}
    NoRole = NoRole
    Names = {demo, root}
    Admin = root
    Earlier = earlier
    MaxDeletes = 1
SYMMETRY Symmetry
SPECIFICATION Spec
INVARIANT ReportsHonest
PROPERTY TeardownBounded
