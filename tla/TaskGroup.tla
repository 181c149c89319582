----------------------------- MODULE TaskGroup -----------------------------
(***************************************************************************)
(* TaskGroup::Data of IlmThreadPool.cpp, the "inverted semaphore" that     *)
(* makes the destructor of a TaskGroup wait for the tasks of the group.    *)
(*                                                                         *)
(* Each step is one access to an atomic counter or one call on the         *)
(* semaphore isEmpty.  A post is two steps, its effect and its return,     *)
(* because a thread that the effect releases may run before the return     *)
(* and the memory of the semaphore must outlive the return.                *)
(*                                                                         *)
(* pc[t] follows task t through its constructor (whoever calls it), its    *)
(* wait for a thread, and handleProcessTask; owner is the thread that runs *)
(* the destructor of the group.                                            *)
(***************************************************************************)
EXTENDS Integers, FiniteSets

CONSTANT Task

ASSUME TaskAssumption == IsFiniteSet(Task)

VARIABLES numPending, inFlight, isEmpty,   \* the members of TaskGroup::Data
          pc,                              \* where each task is
          owner                            \* where the destructor is

data == <<numPending, inFlight, isEmpty>>
vars == <<numPending, inFlight, isEmpty, pc, owner>>

Stage == {"unborn", "flying", "closing", "ready", "executed", "finishing",
          "opening", "posting", "leaving", "gone"}
OwnerStage == {"open", "waiting", "spinning", "deleted"}

At(S) == {t \in Task : pc[t] \in S}
Advance(t, from, to) == pc[t] = from /\ pc' = [pc EXCEPT ![t] = to]

Init ==
    /\ numPending = 0
    /\ inFlight = 0
    /\ isEmpty = 1
    /\ pc = [t \in Task |-> "unborn"]
    /\ owner = "open"

-----------------------------------------------------------------------------
(* Task::Task, which calls TaskGroup::Data::addTask.                        *)

\* A task joins only while nobody destroys the group.
EnterFlight(t) ==
    /\ owner = "open"
    /\ Advance(t, "unborn", "flying")
    /\ inFlight' = inFlight + 1
    /\ UNCHANGED <<numPending, isEmpty, owner>>

CountPending(t) ==
    /\ Advance(t, "flying", IF numPending = 0 THEN "closing" ELSE "ready")
    /\ numPending' = numPending + 1
    /\ UNCHANGED <<inFlight, isEmpty, owner>>

\* The first task off the rank takes the semaphore, so that the group is shut.
CloseGroup(t) ==
    /\ isEmpty > 0
    /\ Advance(t, "closing", "ready")
    /\ isEmpty' = isEmpty - 1
    /\ UNCHANGED <<numPending, inFlight, owner>>

-----------------------------------------------------------------------------
(* handleProcessTask and, through finishOneTask, TaskGroup::Data::removeTask. *)

Execute(t) ==
    /\ Advance(t, "ready", "executed")
    /\ UNCHANGED <<data, owner>>

DeleteTask(t) ==
    /\ Advance(t, "executed", "finishing")
    /\ UNCHANGED <<data, owner>>

\* Bug: tests the new value of the counter where fetch_sub returns the old one.
BadUncountPending(t) ==
    /\ Advance(t, "finishing", IF numPending = 0 THEN "opening" ELSE "leaving")
    /\ numPending' = numPending - 1
    /\ UNCHANGED <<inFlight, isEmpty, owner>>

UncountPending(t) ==
    /\ Advance(t, "finishing", IF numPending = 1 THEN "opening" ELSE "leaving")
    /\ numPending' = numPending - 1
    /\ UNCHANGED <<inFlight, isEmpty, owner>>

OpenGroup(t) ==
    /\ Advance(t, "opening", "posting")
    /\ isEmpty' = isEmpty + 1
    /\ UNCHANGED <<numPending, inFlight, owner>>

PostReturns(t) ==
    /\ Advance(t, "posting", "leaving")
    /\ UNCHANGED <<data, owner>>

\* Bug: posts whenever a task leaves, not only when it was the last one.
BadLeaveFlight(t) ==
    /\ Advance(t, "leaving", "gone")
    /\ inFlight' = inFlight - 1
    /\ isEmpty' = isEmpty + 1
    /\ UNCHANGED <<numPending, owner>>

LeaveFlight(t) ==
    /\ Advance(t, "leaving", "gone")
    /\ inFlight' = inFlight - 1
    /\ UNCHANGED <<numPending, isEmpty, owner>>

-----------------------------------------------------------------------------
(* TaskGroup::~TaskGroup, which calls TaskGroup::Data::waitForEmpty.        *)

\* "All addTask must happen prior to the TaskGroup destructor."
BeginDestroy ==
    /\ owner = "open"
    /\ At({"flying", "closing"}) = {}
    /\ owner' = "waiting"
    /\ UNCHANGED <<data, pc>>

WaitEmpty ==
    /\ owner = "waiting"
    /\ isEmpty > 0
    /\ isEmpty' = isEmpty - 1
    /\ owner' = "spinning"
    /\ UNCHANGED <<numPending, inFlight, pc>>

\* Bug: deletes the data as soon as the semaphore let it through.
BadSpinOut ==
    /\ owner = "spinning"
    /\ owner' = "deleted"
    /\ UNCHANGED <<data, pc>>

SpinOut ==
    /\ owner = "spinning"
    /\ inFlight = 0
    /\ owner' = "deleted"
    /\ UNCHANGED <<data, pc>>

-----------------------------------------------------------------------------
Construct(t) == EnterFlight(t) \/ CountPending(t) \/ CloseGroup(t)

Process(t) ==
    \/ Execute(t) \/ DeleteTask(t) \/ UncountPending(t)
    \/ OpenGroup(t) \/ PostReturns(t) \/ LeaveFlight(t)

Destructor == BeginDestroy \/ WaitEmpty \/ SpinOut

\* The group is gone and nobody is left to do anything.
Finished == owner = "deleted" /\ UNCHANGED vars

Next == Destructor \/ Finished \/ \E t \in Task : Construct(t) \/ Process(t)

Spec == Init /\ [][Next]_vars

(***************************************************************************)
(* Every thread keeps running, and the pool runs every task it is given.   *)
(* Whether a task is created, and whether the group is destroyed, is the   *)
(* program's choice: EnterFlight and BeginDestroy have no fairness.        *)
(***************************************************************************)
Fairness ==
    /\ WF_vars(WaitEmpty \/ SpinOut)
    /\ \A t \in Task : WF_vars(CountPending(t) \/ CloseGroup(t) \/ Process(t))

FairSpec == Spec /\ Fairness

-----------------------------------------------------------------------------
\* The tasks that inFlight and numPending count.
Flying == At(Stage \ {"unborn", "gone"})
Pending == At({"closing", "ready", "executed", "finishing"})

\* 1 when the condition holds, else 0.
One(cond) == IF cond THEN 1 ELSE 0

\* The counters of the group, the semaphore, and the stages of its threads.
TypeOK ==
    /\ numPending \in Nat
    /\ inFlight \in Nat
    /\ isEmpty \in Nat
    /\ pc \in [Task -> Stage]
    /\ owner \in OwnerStage

\* Both counters say exactly which tasks are where they claim to be.
CountersExact ==
    /\ inFlight = Cardinality(Flying)
    /\ numPending = Cardinality(Pending)

\* At most one task closes and one opens the group at a time, and isEmpty is
\* what is left of its one unit: it is there when nothing is pending, lent to
\* the closer until it waits, owed by the opener until it posts.
SemaphoreExact ==
    /\ \A s, t \in At({"closing"}) : s = t
    /\ \A s, t \in At({"opening"}) : s = t
    /\ isEmpty = One(Pending = {}) + One(At({"closing"}) # {})
                   - One(At({"opening"}) # {}) - One(owner \in {"spinning", "deleted"})

\* The destructor got past the semaphore only after the last task was counted
\* out and posted, and past the spin only after every task has left.
OwnerExact ==
    /\ owner # "open" => At({"flying", "closing"}) = {}
    /\ owner \in {"spinning", "deleted"} => Pending = {} /\ At({"opening"}) = {}
    /\ owner = "deleted" => Flying = {}

(***************************************************************************)
(* The inductive invariant of addTask, removeTask and waitForEmpty: the    *)
(* atomics and the semaphore are a faithful account of the tasks, in every *)
(* interleaving of constructors, workers and the destructor.               *)
(***************************************************************************)
GroupInv == TypeOK /\ CountersExact /\ SemaphoreExact /\ OwnerExact

(***************************************************************************)
(* Once ~TaskGroup has deleted its data no thread is inside addTask or     *)
(* removeTask, nor inside the post on the semaphore, and no task of the    *)
(* group is still to run: what the spin on inFlight is for.                *)
(***************************************************************************)
NoTouchAfterDelete == owner = "deleted" => \A t \in Task : pc[t] \in {"unborn", "gone"}

(***************************************************************************)
(* ~TaskGroup returns: the post of the last task reaches the destructor,   *)
(* however the last removeTask and a new addTask interleave, and no        *)
(* constructor of a task stays blocked in isEmpty.wait.                    *)
(***************************************************************************)
DestructorReturns ==
    /\ owner = "waiting" ~> owner = "deleted"
    /\ \A t \in Task : pc[t] = "flying" ~> pc[t] = "gone"

\* The group implements the abstract barrier.
Barrier == INSTANCE TaskBarrier WITH
    live <- Flying, ended <- At({"gone"}), destroyed <- (owner = "deleted")

(***************************************************************************)
(* TaskGroup implements the barrier of TaskBarrier: a task is in the       *)
(* group from its first step in addTask to its last one in removeTask, and *)
(* the group is destroyed while nobody is in it.                           *)
(***************************************************************************)
ImplementsBarrier == Barrier!BarrierSpec
=============================================================================
