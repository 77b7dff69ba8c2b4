SPECIFICATION BusySpec
CONSTANTS
    c1 = c1
    c2 = c2
    c3 = c3
    u1 = u1
    Conns <- ThreeConns
    Upstreams <- OneUpstream
    Threshold = 2
    ResetAfter = 2
INVARIANTS
    HalfOpenHasProbe
PROPERTIES
    ProbesSpaced
    TripsOnlyOnRun
    NeverOpenForever
