SPECIFICATION Spec
CONSTANTS
    l1 = l1
    r1 = r1
    r2 = r2
    Reconciler = Reconciler
    Lab <- OneLab
    Life <- AllLives
    Request <- TwoRequests
    MaxJobs = 3
    MaxFaults = 1
SYMMETRY Symmetry
CHECK_DEADLOCK FALSE
INVARIANTS TypeOK NothingStray AnswersHold
