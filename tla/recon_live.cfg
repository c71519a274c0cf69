SPECIFICATION MCSpec
CHECK_DEADLOCK FALSE
CONSTANTS
    c1 = c1
    r1 = r1
    r2 = r2
    l1 = l1
    reconciler = reconciler
    None = None
    Container <- OneContainer
    Request <- TwoRequests
    MaxBeats = 1
    MaxCalls = 2
    MaxExits = 1
    MaxFaults = 1
PROPERTIES AllConverge AllExpiredGo
