------------------------- MODULE CountingSemaphore -------------------------
(***************************************************************************)
(* What class Semaphore of IlmThread promises, whatever it is made of: a   *)
(* counter of units, and threads that wait for one.  The other modules of  *)
(* this project use semaphores as this one says they behave.               *)
(***************************************************************************)
EXTENDS Naturals

CONSTANT Thread

VARIABLES value,     \* the units that are left
          waiters    \* the threads that are in wait

semVars == <<value, waiters>>

SemInit == value \in Nat /\ waiters = {}

Arrive(t) ==
    /\ t \notin waiters
    /\ waiters' = waiters \cup {t}
    /\ UNCHANGED value

\* A thread gets its unit, at once or after having waited for it.
Acquire(t) ==
    /\ value > 0
    /\ value' = value - 1
    /\ waiters' = waiters \ {t}

Release ==
    /\ value' = value + 1
    /\ UNCHANGED waiters

SemNext == Release \/ \E t \in Thread : Arrive(t) \/ Acquire(t)

SemSafety == SemInit /\ [][SemNext]_semVars

\* While there are units and threads that wait for them, one is handed out.
SemSpec == SemSafety /\ WF_semVars(\E t \in waiters : Acquire(t))
=============================================================================
