CONSTANTS
    Clients = {a, b, c}
    Domains = {1}
    Hours = {1, 2}
    HoursPerWeek = 2
    Names = {}
    MaxHops = 3
    MaxCount = 1
SPECIFICATION SnapshotsFairSpec
INVARIANTS TypeOK SnapshotsNeverAhead AliasesPointAtCanonical EveryQueryListedOnce
PROPERTIES FullRunAddsUp SnapshotsCatchUp GroupsMoveWhole
