SPECIFICATION Spec
CONSTANTS
    Slots = {s1, s2}
    Users = {u1, u2}
    MaxCodes = 2
    MaxIssues = 2
    WorkersDie = TRUE
SYMMETRY SlotSymmetry
INVARIANT TokensSound
PROPERTY RevocationComplete
