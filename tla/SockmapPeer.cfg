CONSTANTS
    Socks <- MCSocks
    IDs = {1, 2, 3}
    Unknown = 0
    IdentityMaps <- MCIdentityMaps
    PolicyMaps <- MCPolicyMaps
    MaxEntries = 2
    MaxSends <- MCSends
SPECIFICATION Spec
INVARIANT RedirectsReachPeer
CHECK_DEADLOCK FALSE
