\* Three lines: the first three distinct sectors should all fit.
CONSTANTS
    NumCache = 3
    s1 = s1
    s2 = s2
    s3 = s3
    s4 = s4
    v1 = v1
    v2 = v2
    Sectors <- MCSectors
    Values <- MCValues
    NoSector = NoSector
SPECIFICATION Spec
PROPERTY NoEvictionWhileFree
CHECK_DEADLOCK FALSE
