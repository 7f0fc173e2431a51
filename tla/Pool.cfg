CONSTANTS
    Callers = {u1, u2}
    Servers = {s1}
    Kids = {k1, k2}
    Retries = 2
    nil = nil
SPECIFICATION FairSpec
INVARIANTS NoStrayClient ClosedIsEvicted ServedReturnsNil
PROPERTIES EvictsItsOwnClient EveryCallReturns
CHECK_DEADLOCK FALSE
