SPECIFICATION Spec
CONSTANTS
    Addrs <- MCAddrs
    IDs = {1, 2, 3}
    Ports = {80}
    Protos = {"tcp", "udp"}
    Frames <- MCFrames
    IdentityMaps <- MCIdentityMaps
    PolicyMaps <- MCPolicyMaps
    Faults = {"pull", "room", "copy", "bump", "stamp", "strip"}
CHECK_DEADLOCK FALSE
INVARIANTS
    UnidentifiedNeedsBothOpen
    StampedIsDecoded
    AdmittedArrivesWhole
    KnownSourcesAreStamped
    KernelMatchesReference
