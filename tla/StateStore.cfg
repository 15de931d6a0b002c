SPECIFICATION Spec
CONSTANTS
    Instances = {i1, i2}
    p1 = p1
    Paths = {p1}
    NoPath = NoPath
    Absent = Absent
    Torn = Torn
    Foreign = Foreign
    MetadataMayFail = FALSE
    RowSets <- MCRowSets
    LegacyPaths <- MCLegacyPaths
SYMMETRY Symmetry
INVARIANTS
    TypeOK
    DiskWhole
    UnreadableKept
    AskedBeforeWritten
PROPERTIES
    ImplementsRegister

