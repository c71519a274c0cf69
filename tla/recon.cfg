SPECIFICATION Spec
CONSTANTS
    c1 = c1
    c2 = c2
    r1 = r1
    None = None
    Container <- TwoContainers
    Request <- OneRequest
    MaxBeats = 1
    MaxCalls = 2
    MaxExits = 1
    MaxFaults = 1
CONSTRAINT RequestsForOne
INVARIANTS OnePass LossJustified CleanUnlessFault
