CONSTANTS
    r1 = r1
    r2 = r2
    v1 = v1
    v2 = v2
    Servers = {v1, v2}
    Requests = {r1}
    KindOf <- MCKindOf
    ServerOf <- MCOtherServer
    EnvSources <- MCEnvPihole
    MaxLoops = 3
    MaxLog = 1
    MaxRestarts = 0
SPECIFICATION Spec
INVARIANT EnvSourceCoexists
CHECK_DEADLOCK FALSE
