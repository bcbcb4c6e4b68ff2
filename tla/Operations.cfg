SPECIFICATION PartsSpec
CONSTANTS
    Sids = {a, b}
    Threads = {t1, t2}
    MaxSessions = 2
    BufferCap = 2
    MaxOutput = 3
    LastRelease = 3
    Timers <- MCTimers
    Service <- MCService
CONSTRAINT OneTalks
CONSTRAINT LongAlone
CONSTRAINT LastWhenWhole
SYMMETRY Symmetry
INVARIANT OwnTerminal
INVARIANT OutputKept
INVARIANT DeploymentsWhole
