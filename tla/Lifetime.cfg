SPECIFICATION Spec
CONSTANTS
    p1 = p1
    p2 = p2
    p3 = p3
    Procs <- Processes
    NoOne = NoOne
    MaxDepth <- Depth
INVARIANTS
    TypeOK
    OneWindow
    StateOutlivesHandlers
PROPERTIES
    KeepsCurrent
    HandedOver
CHECK_DEADLOCK FALSE
