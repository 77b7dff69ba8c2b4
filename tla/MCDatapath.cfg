SPECIFICATION Spec
CONSTANTS
    i1 = i1
    i2 = i2
    a1 = a1
    a2 = a2
    a3 = a3
    k1 = k1
    k2 = k2
    Allow = Allow
    Deny = Deny
    None = None
    BadIP = BadIP
    IDs = {i1, i2}
    IPs = {a1, a2, a3}
    Keys = {k1, k2}
    Verdicts = {Allow, Deny}
    Addresses <- OwnAddresses
    SeedPolicies <- FileRules
    SeedIdentities <- FileIdents
    MaxFailures = 1
    MaxRestarts = 1
INVARIANTS
    LiveSetBounded
    AddsBeforeRemoves
    AttributionKept
PROPERTIES
    ImplementsRuleUpdate
