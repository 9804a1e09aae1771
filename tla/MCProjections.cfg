CONSTANTS
    a = a
    b = b
    Clients <- MCClients
    Domains = {1, 2}
    Hours = {0, 1}
    Names = {}
    MaxHops = 2
    MaxCount = 1
    Releases = {1, 2}
    Entities <- MCEntities
    Blocklist <- MCBlocklist
    LabelsOf <- MCLabelsOf
    Chattiness <- MCChattiness
    ChattinessCap = 8
    EntityCap = 8
    CountryCap = 6
    HourTicks = 2
    HoursPerWeek = 1
    NewDomainLimit = 1
    Instants = {0, 1, 2, 3, 4}
    MaxInt = 7
SYMMETRY MCSymmetry
SPECIFICATION ProjectionsSpec
INVARIANTS
    SubdomainsInherit
    ArcsAddUp
    ClickThroughAddsUp
    ListAgrees
    WindowsAddUp
    NewTrackersComeFirst
PROPERTIES
    TrackerQueryNeverImproves
    MergeHidesNoRisk
