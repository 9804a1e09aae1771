CONSTANTS
    Clients = {a, b}
    Domains = {1}
    Hours = {1}
    HoursPerWeek = 1
    Names = {}
    MaxHops = 3
    MaxCount = 1
SPECIFICATION SnapshotsSpec
INVARIANT DiffsPerCanonicalDevice
