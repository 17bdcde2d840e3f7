CONSTANTS
    Requests = {r1, r2, r3}
    Projects = {p, q}
    Names = {n, m, collection}
    Reserved = {collection}
    Users = {owner}
    Admins = {}
    NoOne = NoOne
    NoUser = NoUser
    NoProject = NoProject
    NoName = NoName
    Kinds = {"createProject", "create", "deleteIn", "delete", "copy", "move", "deleteProject", "grant", "ungrant"}
    Faults = {"crash"}
SYMMETRY Symmetry
VIEW View
SPECIFICATION Spec
PROPERTIES EntriesKept FreshAccessList
