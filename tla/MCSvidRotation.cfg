SPECIFICATION FairSpec
CONSTANTS
    k1 = k1
    r1 = r1
    w1 = w1
    None = None
    Callers <- OneCaller
    Readers <- OneReader
    Watchers <- OneWatcher
    TTL = 10
    ClockSkew = 1
    MaxSign = 1
    Backoff = 1
INVARIANTS
    HealthyNeverNear
    ForcedIsFresh
    NoCallerStranded
PROPERTIES
    HealthyIsServed
    RotationRecovers
    StreamGetsSVID
