\* Two threads, two regular files, callers that never overlap two calls on
\* one name (spec 5): open under lock w, unlocked remove and close, fds
\* kept across calls, freed struct inode addresses reused.
CONSTANTS
    t1 = t1
    t2 = t2
    n1 = n1
    n2 = n2
    a1 = a1
    a2 = a2
    a3 = a3
    Threads = {t1, t2}
    Names <- MCFileNames
    IsDir <- MCAllFiles
    Empty <- MCAllFiles
    Addrs = {a1, a2, a3}
    MaxFds = 2
    Contract = TRUE
    NoAddr = NoAddr
    NoThread = NoThread

SPECIFICATION Spec

INVARIANT TypeOK
INVARIANT RefCount
INVARIANT SingleInstance
INVARIANT DeferredRelease
INVARIANT LockHeldInOpen
