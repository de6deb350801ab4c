\* The allocator of MC_InodeAllocator.cfg, checked for the free map's own
\* inode at sector 0 staying intact when the disk runs full.
CONSTANTS
    DIRECT = 1
    INDIRECT = 2
    SectorSize = 2
    NumSectors = 8
    InodeMark = InodeMark
    f1 = f1
    f2 = f2
    Files <- MCFiles
    Lengths <- MCLengths

SPECIFICATION Spec
SYMMETRY Symmetry

INVARIANT MetadataIntact
