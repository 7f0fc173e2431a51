SPECIFICATION FairSpec
CONSTANTS
    nil = nil
    Calls = {a, b}
    Beats = {}
    Async = {}
    Cancellable = {a, b}
    Cached = TRUE
    DoneCap = 2
    MaxSeq = 2
 
PROPERTIES NoCallStranded
CHECK_DEADLOCK FALSE
