SPECIFICATION ContentPartSpec
CONSTANTS
    Names = {a, b}
    Crcs = {c1, c2}
    MaxDepth = 3
    MaxFiles = 2
    MaxFolders = 3
    small = small
    large = large
    u1 = u1
    u2 = u2
    p1 = p1
    q1 = q1
    p2 = p2
    Slots = {s1, s2}
    Users <- MCUsers
    Paths <- MCPaths
    Owner <- MCOwner
    Contents <- MCContents
    Size <- MCSize
    Quota = 3
    Faults = {"stream"}
SYMMETRY StoreSymmetry
INVARIANT NoStrayTemps
