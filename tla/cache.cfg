\* Any trace of five accesses, and the three transposes at their real sizes.
SPECIFICATION TransposeSpec
CONSTANTS
    INT = 4096
    Addresses = {0, 3, 4, 8}
    TraceLength = 5
    Geometries <- MCGeometries
INVARIANTS Transposed FewMisses
PROPERTY ImplementsLru
CHECK_DEADLOCK FALSE
