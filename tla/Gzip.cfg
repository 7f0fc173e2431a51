CONSTANTS
    a = a
    b = b
    Calls = {a, b}
    Wishes <- MCWishes
    Services <- MCServices
    FirstSeq = 255
    nil = nil
SPECIFICATION Spec
INVARIANT GzipArgumentsDecode
CHECK_DEADLOCK FALSE
