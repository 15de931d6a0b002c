SPECIFICATION Scans
CONSTANTS
    p1 = p1
    p2 = p2
    p3 = p3
    q1 = q1
    f = f
    g = g
    Processes = {p1, p2, p3, q1}
    Paths = {f, g}
    PathOf <- MCPathOf
    Window = 0
    Keep = 1
    Threshold = 2
    StartLimit = 2
    EventLimit = 2
    MaxTime = 2
    system = system
    a = a
    b = b
    name = name
    known = known
    other = other
    Pids = {system, a, b}
    System = system
    NoPath = NoPath
    Programs <- MCPrograms
    Records <- MCRecords
    AllowedPaths <- MCAllowed
    Autostart <- MCAutostart
    MaxClock = 2
    MaxUsed = 1
SYMMETRY EitherSymmetry
INVARIANTS
    TypeOK
    PathIsOwn
    CpuIsOwn
    TrackerTypeOK
    RestartingExact
    NotedOnce
PROPERTY StartedSinceScan
CHECK_DEADLOCK FALSE
