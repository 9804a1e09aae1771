CONSTANTS
    r1 = r1
    r2 = r2
    v1 = v1
    v2 = v2
    Servers = {v1}
    Requests = {r1}
    KindOf <- MCKindOf
    ServerOf <- MCSameServer
    EnvSources <- MCEnvPihole
    MaxLoops = 3
    MaxLog = 2
    MaxRestarts = 0
SPECIFICATION Spec
INVARIANT CountedOnce
CHECK_DEADLOCK FALSE
