SPECIFICATION Spec
CONSTANTS
    Slots = {s1, s2}
    Names = {n1, n2}
    Folders = {f1, f2, f3}
    ByFolder = {"goals"}
    ByName = {"files"}
    Lenient = {"goals"}
    Purges <- MCPurges
    MaxAccounts = 3
SYMMETRY AccountSymmetry
INVARIANT AdminRemains
INVARIANT NothingLeftBehind
PROPERTY OnlyConfirmedDataDeleted
