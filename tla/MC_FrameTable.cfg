\* One user process with three pages in two frames (no panic, no deadlock): every fault once both
\* frames are taken evicts through the clock; the process exits and
\* starts again with fresh pages.  For InodeIO, a file of at most four
\* bytes in sectors of two, written with two buffers, and one opener that
\* may deny writes, over every sequence of calls.  For
\* FdTable, one process with room for two fds and numbers up to 5, opening
\* its own program by its name and by another, a directory and a missing
\* name, over files of at most two bytes.
CONSTANTS
    Procs = {p1}
    Addrs = {a1, a2, a3}
    NFrames = 2
    SwapSlots = 3
    NoPage = NoPage
    p1 = p1
    p2 = p2
    a1 = a1
    a2 = a2
    a3 = a3
    SecSize = 2
    MaxLen = 4
    va = va
    vb = vb
    o1 = o1
    Tags = {va, vb}
    Openers = {o1}
    pExe = pExe
    pAlias = pAlias
    pDir = pDir
    pMiss = pMiss
    fExe = fExe
    fDir = fDir
    Paths = {pExe, pAlias, pDir, pMiss}
    NullPath = NullPath
    NoFile = NoFile
    Dirs = {fDir}
    ProcName = pExe
    MaxFds = 2
    MaxNum = 5
SPECIFICATION Spec
INVARIANT TypeOK
INVARIANT IOReadCorrect
INVARIANT FdNumbering
INVARIANT ExeProtected
