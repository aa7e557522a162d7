CONSTANTS
    Clients = {c1}
    Sids = {s1}
    Requests = {r1, r2, r3}
    Grace = 1
    TTL = 3
    KeepMembers = 2
    MaxFamilies = 1
    PurgeMargin = 0
    MaxJti = 4
    MaxTime = 2
    None = None
SYMMETRY Symmetry
CHECK_DEADLOCK FALSE
SPECIFICATION Spec
INVARIANTS SessionsSound ChainLinear NoLateAnswer DeniedEndsFamily
