SPECIFICATION Spec
CONSTANTS
    nil = nil
    Calls = {a, h}
    Beats = {h}
    Async = {}
    Cancellable = {a}
    Cached = TRUE
    DoneCap = 2
    MaxSeq = 2
INVARIANT ErrorIsOwnStatus
CHECK_DEADLOCK FALSE
