CONSTANTS
    Maps = {"sentinel", "policy", "identity"}
    Versions = {1, 2, 3}
    Veths = {"v1", "v2"}
    Iface = "eth0"
    UpdateBuffer = 3
SPECIFICATION Spec
INVARIANT NoVethMissed
