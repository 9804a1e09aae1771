CONSTANTS
    PageSize = 2
    MaxPages = 2
    MaxLog = 6
    MaxTied = 1
    MaxUnread = 1
    MaxUnparsed = 1
SPECIFICATION FairSpec
INVARIANTS CountedOnceUpToCursor
PROPERTIES CommitsAreComplete CursorCatchesUp
