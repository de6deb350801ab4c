------------------------------ MODULE Syscall4 ------------------------------
(***************************************************************************)
(* Project 4's system-call layer (src/project4/src/userprog/syscall.c):   *)
(* the threads of RWLock, which may also, whenever they are between calls, *)
(* make the SYS_FIBO call (Fibonacci), which takes no lock.  The variable  *)
(* fibo records the argument and the returned value of the latest call.   *)
(***************************************************************************)
EXTENDS RWLock, Fibonacci, Sequences

VARIABLES fibo

allVars == <<vars, fibo>>

Init4 == Init /\ fibo = <<>>

\* SYS_FIBO by thread t with argument m: one step, no lock.
SysFiboCall(t, m) ==
    /\ pc[t] = "idle" /\ ~panicked
    /\ fibo' = <<[arg |-> m, ret |-> SysFibo(m)]>>
    /\ UNCHANGED vars

Next4 ==
    \/ Next /\ UNCHANGED fibo
    \/ \E t \in Threads, m \in Inputs : SysFiboCall(t, m)

Spec4 == Init4 /\ [][Next4]_allVars

\* SYS_FIBO returns the n-th Fibonacci number for every argument n >= 1
\* whose Fibonacci number fits in an int: the loop's start, bound and
\* shifting of f1 and f2 in fibonacci agree with the recursive definition.
FibCorrect ==
    LET c == fibo[1]
    IN  (fibo # <<>> /\ c.arg >= 1 /\ FibRef(c.arg) # NoFit) => c.ret = FibRef(c.arg)
=============================================================================
