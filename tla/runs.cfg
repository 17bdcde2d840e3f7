CONSTANTS
    Requests = {r1, r2}
    c1 = c1
    c2 = c2
    n1 = n1
    Cases = {c1, c2}
    Projects = {home, other}
    Home = home
    Configs = {k1}
    Defects = {d1, d2}
    Statuses = {"Passed"}
    Notes = {n1}
    Keep = Keep
    Clear = Clear
    Reports <- MCReports
    Bodies <- MCBodies
    MaxElementDepth = 2
    Malformed = Malformed
    MaxVersion = 2
    MaxChanges = 2
    NoRun = NoRun
    NoOne = NoOne
    NoCase = NoCase
    Kinds = {"record", "replace", "remove", "import", "addCase", "addSuite", "linkConfig", "unlinkConfig", "linkDefect", "unlinkDefect", "put", "create", "delete", "editCase", "copyCase", "removeCase", "removeConfig"}
    Faults = {"crash"}
SYMMETRY Symmetry
SPECIFICATION Spec
PROPERTIES ResultsSound PinsSound LinksSound
