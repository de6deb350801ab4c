\* Three threads, each reading, writing or calling SYS_FIBO repeatedly.  A
\* failed ASSERT in lock_release or lock_acquire panics the kernel, after
\* which no thread runs: the model stops there, so deadlock is not checked.
CONSTANTS
    t1 = t1
    t2 = t2
    t3 = t3
    Threads = {t1, t2, t3}
    NoThread = NoThread
    Inputs <- MCInputs
    PhysBaseInt <- MCPhysBaseInt
    q1 = q1
    q2 = q2
    pExe = pExe
    pAlias = pAlias
    pOther = pOther
    pMiss = pMiss
    fExe = fExe
    fOther = fOther
    NullPath = NullPath
    NoFile = NoFile
    NullFile = NullFile
    Transferred = Transferred

SPECIFICATION Spec4
CHECK_DEADLOCK FALSE

INVARIANT TypeOK
INVARIANT Exclusion
INVARIANT FibCorrect
INVARIANT ExeWritable
