CONSTANTS
    PageSize = 2
    MaxPages = 2
    MaxLog = 5
    MaxTied = 0
    MaxUnread = 0
    MaxUnparsed = 0
SPECIFICATION Spec
INVARIANT NoHistoryLost
