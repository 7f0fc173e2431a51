CONSTANTS
    Conns = {c1, c2}
    Requests = {r1, r2}
    Oneway = {r2}
    Slow = {r2}
    Capacity = 1
    MaxFills = 1
    nil = nil
SPECIFICATION FairSpec
INVARIANTS OpenIsTracked CloseLeavesAtMostOne TrackedIsLive AdmittedWithinLimit MetersAgree
PROPERTIES ServeReturns ServingEnds NoHeadOfLineBlocking
CHECK_DEADLOCK FALSE
