----------------------------- MODULE Semaphore -----------------------------
(***************************************************************************)
(* class Semaphore as IlmThreadSemaphorePosixCompat.cpp builds it from a   *)
(* mutex and the condition variable nonZero, for systems that have threads *)
(* but no semaphores.                                                      *)
(*                                                                         *)
(* The code between taking and giving up the mutex is one step.  A thread  *)
(* in wait is asleep on the condition variable, or awake: it was notified, *)
(* or woke for no reason, and has yet to take the mutex and look again.    *)
(***************************************************************************)
EXTENDS Naturals, FiniteSets

CONSTANTS Thread,
          Initial,     \* the argument of the constructor
          MaxCount     \* bound on the units

ASSUME SemaphoreAssumption ==
    /\ IsFiniteSet(Thread)
    /\ Initial \in Nat /\ MaxCount \in Nat

VARIABLES count, numWaiting,   \* the members of _semaphore
          place                \* where each thread is: "out", "asleep", "awake"

semaphoreVars == <<count, numWaiting, place>>

In(st) == {t \in Thread : place[t] = st}

SemaphoreInit ==
    /\ count = Initial
    /\ numWaiting = 0
    /\ place = [t \in Thread |-> "out"]

-----------------------------------------------------------------------------
(* Semaphore::wait.                                                         *)

\* There is a unit: numWaiting goes up and down again.
WaitAtOnce(t) ==
    /\ place[t] = "out"
    /\ count > 0
    /\ count' = count - 1
    /\ UNCHANGED <<numWaiting, place>>

FallAsleep(t) ==
    /\ place[t] = "out"
    /\ count = 0
    /\ numWaiting' = numWaiting + 1
    /\ place' = [place EXCEPT ![t] = "asleep"]
    /\ UNCHANGED count

\* A condition variable may wake a thread that nobody notified.
WakeSpuriously(t) ==
    /\ place[t] = "asleep"
    /\ place' = [place EXCEPT ![t] = "awake"]
    /\ UNCHANGED <<count, numWaiting>>

\* The unit is gone by the time the thread has the mutex.
SleepAgain(t) ==
    /\ place[t] = "awake"
    /\ count = 0
    /\ place' = [place EXCEPT ![t] = "asleep"]
    /\ UNCHANGED <<count, numWaiting>>

WaitReturns(t) ==
    /\ place[t] = "awake"
    /\ count > 0
    /\ numWaiting' = numWaiting - 1
    /\ count' = count - 1
    /\ place' = [place EXCEPT ![t] = "out"]

-----------------------------------------------------------------------------
(* Semaphore::tryWait does what WaitAtOnce does, or nothing.                *)

(* Semaphore::post.                                                         *)

NotifyAll == place' = [t \in Thread |-> IF place[t] = "asleep" THEN "awake" ELSE place[t]]

NotifyOne ==
    IF In("asleep") = {} THEN UNCHANGED place
    ELSE \E t \in In("asleep") : place' = [place EXCEPT ![t] = "awake"]

\* Bug: tells one waiter, however many units there are and whoever was told.
BadPost ==
    /\ count < MaxCount
    /\ count' = count + 1
    /\ IF numWaiting > 0 /\ count = 0 THEN NotifyOne ELSE UNCHANGED place
    /\ UNCHANGED numWaiting

Post ==
    /\ count < MaxCount
    /\ count' = count + 1
    /\ IF numWaiting = 0 THEN UNCHANGED place
       ELSE IF count' > 1 THEN NotifyAll
       ELSE NotifyOne
    /\ UNCHANGED numWaiting

-----------------------------------------------------------------------------
Resume(t) == SleepAgain(t) \/ WaitReturns(t)

SemaphoreNext ==
    \/ Post
    \/ \E t \in Thread : WaitAtOnce(t) \/ FallAsleep(t) \/ WakeSpuriously(t) \/ Resume(t)

SemaphoreSpec == SemaphoreInit /\ [][SemaphoreNext]_semaphoreVars

(***************************************************************************)
(* A thread that was notified gets the mutex in the end.  Who posts and    *)
(* who waits is the program's choice, and nothing wakes for no reason      *)
(* because it must.                                                        *)
(***************************************************************************)
FairSemaphore == SemaphoreSpec /\ \A t \in Thread : WF_semaphoreVars(Resume(t))

-----------------------------------------------------------------------------
\* The domains of the members and of the threads.
SemaphoreType ==
    /\ count \in Nat /\ numWaiting \in Nat
    /\ place \in [Thread -> {"out", "asleep", "awake"}]

\* numWaiting, which decides whether post notifies at all, counts the threads
\* in wait, also those that were notified and have not left yet.
WaitingExact == numWaiting = Cardinality(In("asleep") \cup In("awake"))

(***************************************************************************)
(* No wake-up is lost: as long as a thread sleeps on the condition         *)
(* variable, there are at least as many awake ones as there are units,     *)
(* although post notifies only one thread when the count becomes one, and  *)
(* others take units in between.                                           *)
(***************************************************************************)
NoLostWakeup == In("asleep") # {} => Cardinality(In("awake")) >= count

(***************************************************************************)
(* The inductive invariant of wait and post: the count of waiters is       *)
(* right and no wake-up is lost.                                           *)
(***************************************************************************)
SemaphoreInv == SemaphoreType /\ WaitingExact /\ NoLostWakeup

Abstract == INSTANCE CountingSemaphore WITH
    value <- count, waiters <- In("asleep") \cup In("awake")

(***************************************************************************)
(* wait and post of the condition-variable version are those of a counting *)
(* semaphore: nobody passes without a unit, and while there are units and  *)
(* waiters, one of them passes.                                            *)
(***************************************************************************)
ImplementsSemaphore == Abstract!SemSpec
=============================================================================
