SPECIFICATION Spec
CONSTANTS
    system = system
    procdrift = procdrift
    a = a
    b = b
    Pids = {system, procdrift, a, b}
    Kernel = {system}
    Self = procdrift
    Launcher = system
    Natures <- MCNatures
    MaxClock = 3
    MaxSuspends = 2
SYMMETRY Symmetry
INVARIANT SuspendedIsPaused
CHECK_DEADLOCK FALSE
