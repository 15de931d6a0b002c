SPECIFICATION Spec
CONSTANTS
    a = a
    b = b
    n1 = n1
    n2 = n2
    NoPath = NoPath
    Exes <- MCExes
    RawPaths <- MCRawPaths
    Normal <- MCNormal
    Registries <- MCRegistries
    Snapshots <- MCSnapshots
    FirstScans <- MCFirstScans
    LaterScans <- MCLaterScans
    MaxRegistryChanges = 1
    Top = 2
    CpuHeavy = 1
    MemoryHeavy = 1
    DiskHeavy = 3
    CpuDelta = 1
    MaxValue = 3
INVARIANT RecordedIsAllowed
CHECK_DEADLOCK FALSE
