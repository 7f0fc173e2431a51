CONSTANTS
    Callers = {u1}
    Servers = {s1}
    Kids = {k1, k2, k3}
    Retries = 2
    nil = nil
SPECIFICATION Spec
INVARIANT NilMeansServed
CHECK_DEADLOCK FALSE
