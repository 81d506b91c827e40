------------------------- MODULE MC_GetTimeOfDayCC -------------------------
(***************************************************************************)
(* A 3-bit cycle counter at 2 cycles per microsecond that wraps once       *)
(* within the bound on time; the wall clock starts 2 us before a           *)
(* millisecond and a second boundary, which the run crosses.               *)
(***************************************************************************)
EXTENDS GetTimeOfDayCC

CONSTANTS t1, t2

MC_Threads1 == {t1}
MC_Threads2 == {t1, t2}

\* (unsigned long long) of inf is 0 with gcc on x86-64 and the largest
\* value on ARM; of NaN, 2^63 on x86-64 and 0 on ARM.  10^9 stands for
\* the large values, beyond any time of the run.
MC_ZeroDivUsec == {0, 1000000000}
=============================================================================
