SPECIFICATION MCSpec
CONSTANTS
    a = a
    ab = ab
    b = b
    path1 = path1
    path2 = path2
    i1 = i1
    i2 = i2
    k1 = k1
    k2 = k2
    t1 = t1
    t2 = t2
    r1 = r1
    r2 = r2
    None = None
    Name = {a, ab, b}
    Ip = {i1, i2}
    Key = {k1, k2}
    Domain = {d}
    Target = {t1, t2}
    PathOf <- Paths
    Durable = TRUE
    Registrations <- Some
    Request = {r1, r2}
    MaxJobs = 3
    MaxFaults = 1
SYMMETRY Symmetry
INVARIANTS
    TypeOK
    Manageable
    WildcardsFollow
CHECK_DEADLOCK FALSE
