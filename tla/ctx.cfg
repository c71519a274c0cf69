SPECIFICATION MCSpec
CONSTANTS
    l = l
    i = i
    lo = lo
    ln = ln
    n = n
    n2 = n2
    None = None
    Stuck = {"lab"}
    MaxCommands = 5
    Ip = {l, i}
    CliName = {lo, ln, n, n2}
    Local = l
    LocalName = lo
    LocalNode = ln
    Aliases = {l}
    Given <- OwnNames
    GroupOrder <- Order1
    Kinds = {"local", "lan", "cloud"}
    Faults = {"provision", "bootstrap", "destroy"}
    Name = {}
    Target = {}
    Registrations = {}
    Key = {k}
    Domain = {}
    PathOf <- NoPath
    Durable = TRUE
    Request = {}
    MaxJobs = 0
    MaxFaults = 0
INVARIANTS
    ContextTyped
    DevicesApart
    TornDownAfterSound
    KnownAfterSound
PROPERTIES
    OnlyTheAskedAfterSound
SYMMETRY Twins
CHECK_DEADLOCK FALSE
