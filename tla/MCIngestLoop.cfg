CONSTANTS
    s1 = s1
    s2 = s2
    k1 = k1
    c1 = c1
    d1 = d1
    Sources = {s1, s2}
    Keys = {k1}
    ClientOf <- MCClientOf
    DomainOf <- MCDomainOf
    Chunk = 2
    MaxLog <- MCMaxLog
    MaxPowerLosses = 1
SPECIFICATION FairSpec
INVARIANTS TypeOK ExactlyOnce NoStaleBatch CountedIsVisible AnnouncedWasCounted
PROPERTIES ImplementsPromise EveryQueryCounted
