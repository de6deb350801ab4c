----------------------------- MODULE Fibonacci -----------------------------
(***************************************************************************)
(* The fibonacci system call of src/project1/src/userprog/syscall.c (the   *)
(* same code is in project 4 and project 5): the SYS_FIBO case of          *)
(* syscall_handler passes the argument through protect_user_memory as if   *)
(* it were an address, then calls fibonacci, whose loop is the RECURSIVE   *)
(* operator FibLoop on 32-bit ints.  It is checked against FibRef, a       *)
(* recursive reference definition, over a set of arguments.               *)
(*                                                                         *)
(* Signed overflow of res = f1 + f2 is undefined in C; the i386 build      *)
(* compiles it to a 32-bit add, whose only outcome is the wrapped sum.     *)
(***************************************************************************)
EXTENDS Integers

CONSTANTS
    Inputs,     \* arguments user programs pass to SYS_FIBO
    PhysBaseInt \* PHYS_BASE (0xc0000000) as a 32-bit signed int

\* INT_MIN and INT_MAX (TLC's own integers are 32-bit, so no larger value
\* is ever formed).
IntMax == 2147483647
IntMin == -IntMax - 1

ASSUME Inputs \subseteq IntMin .. IntMax /\ PhysBaseInt \in IntMin .. -1

\* a + b on 32-bit ints: the sum modulo 2^32, taken into the int range
\* (on overflow the sum is a + b - 2^32 or a + b + 2^32).
Add32(a, b) ==
    CASE a > 0 /\ b > IntMax - a -> (a + IntMin) + (b + IntMin)
      [] a < 0 /\ b < IntMin - a -> (a - IntMin) + (b - IntMin)
      [] OTHER                   -> a + b

\* is_user_vaddr ((const void *) x): the bits of x as an address are below
\* PHYS_BASE.  PHYS_BASE is above INT_MAX, so every x >= 0 passes and a
\* negative x passes when x + 2^32 < PHYS_BASE.
IsUserVaddr(x) == x >= 0 \/ x < PhysBaseInt

\* Reference: <<F(k), F(k+1)>> with F(1) = F(2) = 1, where a number above
\* INT_MAX is NoFit.
NoFit == -1
RECURSIVE FibPair(_)
FibPair(k) ==
    IF k <= 1 THEN <<1, 1>>
    ELSE LET p == FibPair(k - 1)
         IN  <<p[2], IF NoFit \in {p[1], p[2]} \/ p[1] > IntMax - p[2]
                     THEN NoFit ELSE p[1] + p[2]>>

FibRef(k) == FibPair(k)[1]

\* Mutant of FibLoop: the loop runs while i < n.
RECURSIVE FibLoopLt(_, _, _, _, _)
FibLoopLt(n, i, f1, f2, res) ==
    IF i < n THEN FibLoopLt(n, i + 1, f2, Add32(f1, f2), Add32(f1, f2))
    ELSE res

\* for (i = 3; i <= n; i++) { res = f1 + f2; f1 = f2; f2 = res; }
\* with the value of res after the loop.
RECURSIVE FibLoop(_, _, _, _, _)
FibLoop(n, i, f1, f2, res) ==
    IF i <= n THEN FibLoop(n, i + 1, f2, Add32(f1, f2), Add32(f1, f2))
    ELSE res

\* fibonacci (n): f1 = f2 = 1, res = 2; n == 1 and n == 2 return early.
Fibonacci(n) ==
    CASE n = 1 -> 1
      [] n = 2 -> 1
      [] OTHER -> FibLoop(n, 3, 1, 1, 2)

\* The SYS_FIBO case: the value left in f->eax, or "killed" when
\* protect_user_memory exits the process.
SysFibo(m) == IF IsUserVaddr(m) THEN Fibonacci(m) ELSE "killed"

=============================================================================
