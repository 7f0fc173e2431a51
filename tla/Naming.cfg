CONSTANTS
    Servers = {s1}
    Interval = 2
    MaxLate = 1
    MaxFails = 2
    ChanCap = 1
    MaxSenders = 2
    MaxBreaks = 1
    nothing = nothing
SPECIFICATION FairNamingSpec
INVARIANTS PublishedWhileRefreshed
PROPERTIES  ClientLearnsOfServer NothingLeftAfterClose
