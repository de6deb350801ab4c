---------------------------- MODULE MC_Syscall4 ----------------------------
(* Instantiation of Syscall4 for TLC.                                      *)
EXTENDS Syscall4, TLC

CONSTANTS t1, t2, t3

\* Arguments around every edge of the code: the kernel-address range,
\* zero, the early returns, the largest n that fits, the first two that wrap.
MCInputs == {IntMin, -1, 0, 1, 2, 3, 4, 10, 46, 47, 48}
MCPhysBaseInt == -1073741824   \* 0xc0000000 - 2^32

-----------------------------------------------------------------------------
(* The fd arrays of FdArray, checked at the constant level (once, from     *)
(* the initial state): two processes of the program pExe, its file fExe   *)
(* also reachable as pAlias, another file, a missing name.                 *)

CONSTANTS q1, q2, pExe, pAlias, pOther, pMiss, fExe, fOther,
          NullPath, NoFile, NullFile, Transferred

MCTarget4 == [p \in {pExe, pAlias, pOther, pMiss} |->
                 IF p \in {pExe, pAlias} THEN fExe ELSE IF p = pOther THEN fOther ELSE NoFile]

\* Fd[0..4] in place of Fd[0..127]: two slots from 3, so the array fills
\* and exit's loop reaches its last index.
MCFdLimit == 4

FD4 == INSTANCE FdArray WITH Procs <- {q1, q2}, Paths <- {pExe, pAlias, pOther, pMiss},
                             Target <- MCTarget4, ProcName <- pExe, FdLimit <- MCFdLimit,
                             Null <- NullFile

\* FdArray's ExeWritable: the program's file is write-protected exactly
\* while a running process holds it open by the program's name (open's
\* deny, close's and exit's allow).
ExeWritable == Init4 => FD4!ExeWritable
=============================================================================
