SPECIFICATION Spec
CONSTANTS
    nil = nil
    Calls = {a, b, h}
    Beats = {h}
    Async = {b}
    Cancellable = {a}
    Cached = FALSE
    DoneCap = 2
    MaxSeq = 3
INVARIANTS NoLostCall NoCallAfterReader ReplyToItsCall
PROPERTIES AnswerIsFinal ImplementsRpc
CHECK_DEADLOCK FALSE
