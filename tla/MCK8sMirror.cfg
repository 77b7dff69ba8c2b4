CHECK_DEADLOCK FALSE
SPECIFICATION FairSpec
CONSTANTS
    web1 = web1
    web2 = web2
    db = db
    None = None
    Pods <- MCPods
    Name <- MCName
    Spiffe <- MCSpiffe
    Objects = {o1, o2}
    Specs <- MCSpecs
    Listed <- MCListed
    MaxChanges = 3
    MaxFailures = 1
INVARIANTS
    RulesOwned
PROPERTIES
    PoliciesMirrored
    PodsKnown
