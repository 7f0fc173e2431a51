CONSTANTS
    ReadTimeouts = {0, 5}
    WriteTimeouts = {0, 3}
    ServerTimeouts = {0, 5, 6}
    Interval = 2
    MaxDelay = 1
    MaxHandling = 1
    MaxWait = 6
    nil = nil
SPECIFICATION FairSpec
INVARIANTS HandshakeLosesNothing  HeartbeatsKeepConnection
PROPERTIES ConnectReturns CallEnds
