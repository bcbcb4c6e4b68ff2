SPECIFICATION PartsSpec
CONSTANTS
    Workers = {w1, w2}
    Streams = {s1, s2}
    MaxRequests = 3
    MaxErrors = 1
    FileCount = 3
    QueueChunks = 2
    Filters = {1, 2}
    Hits = {1, 2, 3, 4, 5, 6}
    TooLong = {3}
    NotEvenDirect = {}
    Sites <- MCSites
    PageSize = 2
    MaxPages = 2
    Makers = {r1, r2}
INVARIANT ClaimsExclusive
INVARIANT ToldTruly
INVARIANT NoLitter
INVARIANT ArchiveWhole
INVARIANT PagesComplete
INVARIANT ThumbnailFollows
PROPERTY StreamsEnd
PROPERTY ArchiveEnds
CHECK_DEADLOCK FALSE
