SPECIFICATION Spec
CONSTANTS
    web = web
    Web = Web
    r1 = r1
    r2 = r2
    Reaper = Reaper
    Env <- TwoNames
    Slug <- OneSlug
    SlugOf <- Slugs
    Request <- TwoRequests
    MaxJobs = 4
    MaxFaults = 2
SYMMETRY Symmetry
CONSTRAINT Sizes
CHECK_DEADLOCK FALSE
INVARIANTS NothingStray AnswersHold OneRowPerContainer
PROPERTIES RowsOutliveContainers
