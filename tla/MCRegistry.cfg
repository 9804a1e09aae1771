CONSTANTS
    r1 = r1
    r2 = r2
    v1 = v1
    v2 = v2
    Servers = {v1, v2}
    Requests = {r1, r2}
    KindOf <- MCKindOf
    ServerOf <- MCTwoServers
    EnvSources <- MCEnvPihole
    MaxLoops = 4
    MaxLog = 2
    MaxRestarts = 2
SPECIFICATION FairSpec
INVARIANTS TypeOK OneLoopPerId ConfiguredRunsUnlessDropped ExactlyOncePerSource
PROPERTY AnsweredIsIngested
CHECK_DEADLOCK FALSE
