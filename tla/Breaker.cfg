CONSTANTS
    Users = {c1, c2}
    Threshold = 2
    Window = 2
SPECIFICATION FairBreakerSpec
INVARIANT BoundedOvershoot
PROPERTIES Recovers Heals
