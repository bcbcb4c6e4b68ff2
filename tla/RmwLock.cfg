SPECIFICATION FairSpec
CONSTANTS
    Workers = {w1, w2}
    MaxEdits = 2
    TTL = 3
    Interval = 1
    Slack = 1
    Block = 2
    MaxDepth = 2
INVARIANT LeaseCoversSpan
INVARIANT AckMeansExclusive
PROPERTY ImplementsSerialEdits
PROPERTY LocksEnd
