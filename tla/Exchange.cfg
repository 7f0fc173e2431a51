CONSTANTS
    a = a
    b = b
    Calls = {a, b}
    Wishes <- MCWishes
    Services <- MCServices
    FirstSeq = 255
    nil = nil
SPECIFICATION Spec
INVARIANTS RequestIntact ResultIsTheMethods  PooledIsBlank
CHECK_DEADLOCK FALSE
