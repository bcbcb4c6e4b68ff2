SPECIFICATION PartsSpec
CONSTANTS
    None = None
    Requests = {r1, r2}
    Users = {u1, u2}
    Admins = {u2}
    Posts = {p1, p2}
    Quota = 3
    MaxName = 4
    Batches = {2}
    Archives = {{1}}
    MaxOps = 2
    Faults = {"stage", "move", "lease", "delete", "save", "crash"}
    Uploads <- SomeUploads
    Layouts <- SomeLayouts
    Chunk = 2
    ImageBytes = 2
    VideoBytes = 4
    TotalBytes = 6
    BatchPixels = 5
    ImagePixels = 3
    MaxVideos = 1
    MaxLength = 3
    Tolerance = 1
    InputSide = 6
    InputPixels = 36
    InputRate = 3
    Width = 4
    Height = 5
    Rate = 2
    OutputBytes = 4
CONSTRAINT NobodyPassed
CONSTRAINT AdminsOnlyHelp
CONSTRAINT FewLayouts
SYMMETRY LoftSymmetry
INVARIANT MediaIntact
INVARIANT PublicationSound
INVARIANT GalleriesWithinQuota
INVARIANT SpoolBounded
INVARIANT ScanRight
INVARIANT VideosSound
CHECK_DEADLOCK FALSE
