SPECIFICATION PartsSpec
CONSTANTS
    MaxId = 3
    PageSizes = {1}
    StatesRead = {"active"}
    MaxGoals = 3
    MaxWrites = 2
    Attempts = {a1, a2, a3}
    Payloads = {x, y}
    PendingTTL = 2
    CompleteTTL = 3
    Faults = {"refuse", "late refusal", "crash", "slow"}
CONSTRAINT FewWhileRead
INVARIANT GoalsSound
INVARIANT NoCycle
INVARIANT NothingMissed
INVARIANT RetrySound
PROPERTY ClaimsEnd
CHECK_DEADLOCK FALSE
