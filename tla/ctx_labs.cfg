SPECIFICATION GivenSpec
CONSTANTS
    l = l
    i = i
    lo = lo
    ln = ln
    n = n
    n2 = n2
    None = None
    Stuck = {}
    MaxCommands = 6
    Ip = {l, i}
    CliName = {lo, n}
    Local = l
    LocalName = lo
    LocalNode = None
    Aliases = {}
    Given <- OwnNames
    GroupOrder <- Order1
    Kinds = {"local", "lan"}
    Faults = {}
    Name = {}
    Target = {}
    Registrations = {}
    Key = {k}
    Domain = {}
    PathOf <- NoPath
    Durable = TRUE
    Request = {}
    MaxJobs = 0
    MaxFaults = 0
INVARIANTS
    LabsGone
CHECK_DEADLOCK FALSE
