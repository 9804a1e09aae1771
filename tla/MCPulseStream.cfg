CONSTANTS
    Windows = {day, all}
    FirstWindow = all
    Buffer = 1
    MaxRequests = 2
    MaxCommits = 2
    MaxSwitches = 2
SPECIFICATION FairSpec
INVARIANTS PulsesInOrder
PROPERTIES ViewSettles StreamRecovers
