SPECIFICATION FairSpec
CONSTANTS
    MaxChanges = 2
    MaxStreams = 2
    MaxFailures = 2
INVARIANTS
    NoLostUpdate
    AckMeansApplied
PROPERTIES
    ImplementsConfigSync
    Converges
    ProxyCatchesUp
