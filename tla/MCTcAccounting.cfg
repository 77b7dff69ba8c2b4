CONSTANTS
    a = a
    b = b
    c1 = c1
    c2 = c2
    noFlow = noFlow
    Addrs = {a, b}
    IDs = {1, 2}
    Ports = {0, 1, 2}
    Protos = {"tcp", "udp"}
    CPUs = {c1, c2}
    Packets <- MCPackets
    Steering <- MCSteering
    NoFlow = noFlow
    IdentityMaps <- MCIdentityMaps
    PolicyMaps <- MCPolicyMaps
    DeniedCap = 2
    SeenCap = 1
    RingSize = 1
    MaxArrivals = 4
SPECIFICATION Spec
INVARIANTS
    TypeOK
    EventsConserved
    DenyCountHonest
    FirstSightBounded
CHECK_DEADLOCK FALSE
