SPECIFICATION FairSpec
CONSTANTS
    i1 = i1
    i2 = i2
    a1 = a1
    a2 = a2
    a3 = a3
    k1 = k1
    k2 = k2
    Allow = Allow
    Deny = Deny
    None = None
    BadIP = BadIP
    IDs = {i1, i2}
    IPs = {a1}
    Keys = {k1}
    Verdicts = {Allow, Deny}
    Addresses <- ReusedAddresses
    SeedPolicies <- EmptyRules
    SeedIdentities <- EmptyIdents
    MaxFailures = 0
    MaxRestarts = 0
PROPERTIES
    AckMeansInstalled
