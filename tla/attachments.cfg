CONSTANTS
    Requests = {r1, r2, r3}
    MaxSteps = 2
    MaxEdits = 1
    Claims <- MCClaims
    NoOne = NoOne
    NoCase = NoCase
    Kinds = {"upload", "remove", "read", "list", "edit", "delete", "create"}
    Faults = {"crash", "io"}
SYMMETRY Symmetry
SPECIFICATION Spec
PROPERTIES FilesMatchCase UploadsStay
