SPECIFICATION MCSpec
CONSTANTS
    c1 = c1
    c2 = c2
    c3 = c3
    r1 = r1
    r2 = r2
    h1 = h1
    h2 = h2
    h3 = h3
    None = None
    Container <- ThreeContainers
    Request <- TwoRequests
    Limit <- SmallLimits
    MaxJobs = 3
    MaxFaults = 1
    Name <- TwoNames
    Project = project
    Proxy = proxy
    MaxPort = 3
    PortLists <- Lists
    Tries = 2
    Host <- ThreeHosts
    HostTotal <- Totals
    HostStatus <- AllUp
    Ask <- AllAsks
    LabLimit <- AllLimits
    MaxLabs = 2
    MaxDeployments = 4
SYMMETRY Symmetry
CHECK_DEADLOCK FALSE
INVARIANTS
    TheOthersTyped
    WholeIsShared
    HandsOutAll
    PortsApart
    LoneSucceeds
    CapacityKept
    Balanced
PROPERTIES
    ScheduledFits
