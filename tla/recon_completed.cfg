SPECIFICATION Spec
CONSTANTS
    c1 = c1
    c2 = c2
    r1 = r1
    None = None
    Container <- OneContainer
    Request <- NoRequest
    MaxBeats = 1
    MaxCalls = 0
    MaxExits = 1
    MaxFaults = 0
PROPERTIES CompletedStaysDown
