SPECIFICATION MCSpec
CONSTANTS
    t1 = t1
    t2 = t2
    h1 = h1
    h2 = h2
    u1 = u1
    u2 = u2
    lab = lab
    e1 = e1
    e2 = e2
    e3 = e3
    p1 = p1
    s1 = s1
    s2 = s2
    s3 = s3
    d1 = d1
    None = None
    NoRoute = NoRoute
    Unknown = Unknown
    Thread <- TwoThreads
    Hostname <- TwoHostnames
    Upstream <- TwoUpstreams
    MaxCalls = 4
    MaxCrashes = 1
    Lab <- OneLab
    Env <- AllEnvs
    Project <- OneOfAll
    Service <- AllServices
    LabOf <- AllInLab
    Slug <- AllNames
    SlugOf <- AllSlugs
    Domain <- OneDomain
    MaxPort = 3
    ComposeFile <- AllFiles
    MaxJobs = 5
    MaxFaults = 1
CHECK_DEADLOCK FALSE
INVARIANTS
    LoneRequestRepairs
    AnswersHold
    Reachable
    RoutesLeadHome
PROPERTIES
    SerialImplementsRouteTable
