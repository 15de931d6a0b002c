SPECIFICATION Spec
CONSTANTS
    system = system
    procdrift = procdrift
    a = a
    b = b
    Pids = {system, procdrift, a, b}
    Kernel = {system}
    Self = procdrift
    Launcher = system
    Natures <- MCNatures
    MaxClock = 3
    MaxSuspends = 1
SYMMETRY Symmetry
INVARIANTS
    TypeOK
    PausedIsSuspended
    NothingSilentlyLeft
PROPERTIES
    StrikesTheChosen
    SparesTheSystem
    TreeExact
CHECK_DEADLOCK FALSE
