\* Two threads and one regular file, with no caller contract: an open (under
\* lock w) and a remove (unlocked) of the same name may overlap, as they can
\* when two user processes share a file system.
CONSTANTS
    t1 = t1
    t2 = t2
    n1 = n1
    n2 = n2
    a1 = a1
    a2 = a2
    a3 = a3
    Threads = {t1, t2}
    Names <- MCOneName
    IsDir <- MCOneFile
    Empty <- MCOneFile
    Addrs = {a1, a2, a3}
    MaxFds = 2
    Contract = FALSE
    NoAddr = NoAddr
    NoThread = NoThread

SPECIFICATION Spec
SYMMETRY Symmetry

INVARIANT DeferredRelease
