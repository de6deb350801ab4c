\* Two files on a 8-sector disk: one file of full length does not fit,
\* so reservations fail in every tier and leave partial allocations.
CONSTANTS
    DIRECT = 1
    INDIRECT = 2
    SectorSize = 2
    NumSectors = 8
    InodeMark = InodeMark
    f1 = f1
    f2 = f2
    Files <- MCFiles
    Lengths <- MCLengths

SPECIFICATION Spec
SYMMETRY Symmetry

INVARIANT TypeOK
INVARIANT NoSharing
INVARIANT NoLeakUntilExhausted
PROPERTY MappingStable
