SPECIFICATION Spec
CONSTANTS
    a = a
    r1 = r1
    r2 = r2
    r3 = r3
    Name <- OneName
    Request <- ThreeRequests
    MaxJobs = 5
    MaxFaults = 2
SYMMETRY Symmetry
CONSTRAINT Sizes
CHECK_DEADLOCK FALSE
INVARIANTS NothingStray LabsComplete RowsGoLast
