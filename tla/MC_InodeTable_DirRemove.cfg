\* One thread, two directories (n1 empty, n2 not), no concurrency at all:
\* the thread opens a directory and removes it, or removes it unopened.
CONSTANTS
    t1 = t1
    t2 = t2
    n1 = n1
    n2 = n2
    a1 = a1
    a2 = a2
    a3 = a3
    Threads = {t1}
    Names <- MCFileNames
    IsDir <- MCDirs
    Empty <- MCEmpty
    Addrs = {a1, a2, a3}
    MaxFds = 2
    Contract = TRUE
    NoAddr = NoAddr
    NoThread = NoThread

SPECIFICATION Spec
SYMMETRY Symmetry

INVARIANT RefCount
