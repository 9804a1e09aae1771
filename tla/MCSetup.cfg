CONSTANTS
    Servers = {"mine", "wrong"}
    Valid = {"mine"}
    Coordinates = {"12", "77"}
    Pairs <- MCPairs
    MaxSubmissions = 2
SPECIFICATION FairSpec
INVARIANTS OnlyReachedIsSaved HomeIsOnePair FailedSavedNothing
PROPERTIES HomeStaysSet SpinnersEnd
