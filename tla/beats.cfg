SPECIFICATION FairSpec
CONSTANTS
    N = 2
    Message = {m1, m2}
    Prefetch = 2
    None = None
    MaxFaults = 2
INVARIANTS
    NoneLost
    OnceUnlessCut
PROPERTIES
    Consumed
    Visited
