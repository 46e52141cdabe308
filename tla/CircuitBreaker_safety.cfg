SPECIFICATION FairBreakerSpec
CONSTANTS
    Threshold = 3
    Cooldown = 3
INVARIANTS
    BreakerTypeOK
    OpensAfterStreak
    ProbesAreSpaced
PROPERTIES
    FailsClosed
    Recovers
