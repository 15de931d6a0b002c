SPECIFICATION Spec
CONSTANTS
    system = system
    a = a
    b = b
    name = name
    known = known
    other = other
    Pids = {system, a, b}
    System = system
    NoPath = NoPath
    Programs <- MCPrograms
    Records <- MCRecords
    AllowedPaths <- MCAllowed
    Autostart <- MCAutostart
    MaxClock = 3
    MaxUsed = 0
SYMMETRY Symmetry
INVARIANT KnownParentTrue
