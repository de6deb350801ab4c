\* Three lines and four sectors: every fourth distinct sector forces an
\* eviction, and dirty victims are written back and refilled.
CONSTANTS
    NumCache = 3
    s1 = s1
    s2 = s2
    s3 = s3
    s4 = s4
    v1 = v1
    v2 = v2
    Sectors <- MCSectors
    Values <- MCValues
    NoSector = NoSector
SPECIFICATION Spec
SYMMETRY Symmetry
INVARIANT TypeOK
PROPERTY ImplementsSectorStore
INVARIANT UniqueLine
INVARIANT FlushedOnShutdown
\* The system stops after buffer_cache_terminate (power-off).
CHECK_DEADLOCK FALSE
