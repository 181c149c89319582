----------------------- MODULE SynchronizationProofs -----------------------
(***************************************************************************)
(* GroupInv is an inductive invariant of TaskGroup for every finite set of *)
(* tasks; with it the destructor is safe and TaskGroup implements          *)
(* TaskBarrier.  SemaphoreInv is one of Semaphore for every finite set of  *)
(* threads and every initial count; with it wait and post are those of     *)
(* CountingSemaphore.                                                      *)
(***************************************************************************)
EXTENDS TaskGroup, Semaphore, FiniteSetTheorems, TLAPS

\* Adding or removing one element moves the count by one.
LEMMA CountAdd ==
    ASSUME NEW S, NEW x, IsFiniteSet(S), x \notin S
    PROVE  Cardinality(S \cup {x}) = Cardinality(S) + 1 /\ Cardinality(S) \in Nat
  BY FS_AddElement, FS_CardinalityType

LEMMA CountRemove ==
    ASSUME NEW S, NEW x, IsFiniteSet(S), x \in S
    PROVE  /\ Cardinality(S \ {x}) = Cardinality(S) - 1
           /\ Cardinality(S) \in Nat /\ Cardinality(S \ {x}) \in Nat
  BY FS_RemoveElement, FS_CardinalityType

\* The sets that the counters count are finite.
LEMMA GroupFinite == IsFiniteSet(Flying) /\ IsFiniteSet(Pending)
  <1>1. Flying \in SUBSET Task /\ Pending \in SUBSET Task
    BY DEF Flying, Pending, At
  <1>2. QED
    BY <1>1, TaskAssumption, FS_Subset

LEMMA GroupInit == Init => GroupInv
  <1> SUFFICES ASSUME Init PROVE GroupInv
    OBVIOUS
  <1>1. TypeOK
    BY DEF Init, TypeOK, Stage, OwnerStage
  <1>2. \A S : "unborn" \notin S => At(S) = {}
    BY DEF Init, At
  <1>3. Flying = {} /\ Pending = {}
    BY <1>2 DEF Flying, Pending
  <1>4. CountersExact
    BY <1>3, FS_EmptySet DEF CountersExact, Init
  <1>5. At({"closing"}) = {} /\ At({"opening"}) = {} /\ At({"flying", "closing"}) = {}
    BY <1>2
  <1>6. SemaphoreExact
    BY <1>3, <1>5 DEF SemaphoreExact, One, Init
  <1>7. OwnerExact
    BY <1>3, <1>5 DEF OwnerExact, Init
  <1>8. QED
    BY <1>1, <1>4, <1>6, <1>7 DEF GroupInv

\* A step of a thread inside addTask keeps the invariant.
LEMMA ConstructKeepsInv ==
    ASSUME GroupInv, NEW t \in Task, Construct(t)
    PROVE  GroupInv'
  <1> USE DEF GroupInv
  <1>1. CASE EnterFlight(t)
    <2> USE <1>1 DEF EnterFlight
    <2>1. Flying' = Flying \cup {t} /\ t \notin Flying
      BY DEF TypeOK, Advance, Flying, At, Stage
    <2>2. /\ Pending' = Pending
          /\ At({"closing"})' = At({"closing"})
          /\ At({"opening"})' = At({"opening"})
      BY DEF TypeOK, Advance, Pending, At
    <2>3. TypeOK'
      BY DEF TypeOK, Advance, Stage
    <2>4. CountersExact'
      BY <2>1, <2>2, GroupFinite, CountAdd DEF TypeOK, CountersExact
    <2>5. SemaphoreExact'
      BY <2>2 DEF SemaphoreExact, One
    <2>6. OwnerExact'
      BY DEF OwnerExact
    <2>7. QED
      BY <2>3, <2>4, <2>5, <2>6
  <1>2. CASE CountPending(t)
    <2> USE <1>2 DEF CountPending
    <2>1. Flying' = Flying
      BY DEF TypeOK, Advance, Flying, At, Stage
    <2>2. Pending' = Pending \cup {t} /\ t \notin Pending
      BY DEF TypeOK, Advance, Pending, At
    <2>3. /\ At({"opening"})' = At({"opening"})
          /\ numPending # 0 => At({"closing"})' = At({"closing"})
          /\ numPending = 0 => At({"closing"})' = At({"closing"}) \cup {t}
      BY DEF TypeOK, Advance, At
    <2>4. numPending = 0 <=> Pending = {}
      BY GroupFinite, FS_EmptySet DEF CountersExact
    <2>5. At({"closing"}) \subseteq Pending
      BY DEF At, Pending
    <2>6. TypeOK'
      BY DEF TypeOK, Advance, Stage
    <2>7. CountersExact'
      BY <2>1, <2>2, GroupFinite, CountAdd DEF TypeOK, CountersExact
    <2>8. owner = "open"
      BY DEF OwnerExact, TypeOK, OwnerStage, At, Advance
    <2>9. SemaphoreExact'
      BY <2>2, <2>3, <2>4, <2>5, <2>8 DEF SemaphoreExact, One
    <2>10. OwnerExact'
      BY <2>8 DEF OwnerExact
    <2>11. QED
      BY <2>6, <2>7, <2>9, <2>10
  <1>3. CASE CloseGroup(t)
    <2> USE <1>3 DEF CloseGroup
    <2>1. Flying' = Flying /\ Pending' = Pending /\ t \in Pending
      BY DEF TypeOK, Advance, Flying, Pending, At, Stage
    <2>2. /\ At({"opening"})' = At({"opening"})
          /\ At({"closing"})' = At({"closing"}) \ {t}
          /\ t \in At({"closing"})
      BY DEF TypeOK, Advance, At
    <2>3. TypeOK'
      BY DEF TypeOK, Advance, Stage
    <2>4. CountersExact'
      BY <2>1 DEF CountersExact
    <2>5. SemaphoreExact'
      BY <2>1, <2>2 DEF SemaphoreExact, One, TypeOK
    <2>6. owner = "open"
      BY DEF OwnerExact, TypeOK, OwnerStage, At, Advance
    <2>7. QED
      BY <2>3, <2>4, <2>5, <2>6 DEF OwnerExact
  <1>4. QED
    BY <1>1, <1>2, <1>3 DEF Construct

\* A step of a thread that runs a task keeps the invariant.
LEMMA ProcessKeepsInv ==
    ASSUME GroupInv, NEW t \in Task, Process(t)
    PROVE  GroupInv'
  <1> USE DEF GroupInv
  <1>1. ASSUME Execute(t) \/ DeleteTask(t) \/ PostReturns(t)
        PROVE  GroupInv'
    <2> USE <1>1 DEF Execute, DeleteTask, PostReturns, data
    <2>1. /\ Flying' = Flying
          /\ Pending' = Pending
          /\ At({"closing"})' = At({"closing"})
          /\ At({"opening"})' = At({"opening"})
          /\ At({"flying", "closing"})' = At({"flying", "closing"})
      BY DEF TypeOK, Advance, Flying, Pending, At, Stage
    <2>2. TypeOK'
      BY DEF TypeOK, Advance, Stage
    <2>3. CountersExact' /\ OwnerExact'
      BY <2>1 DEF CountersExact, OwnerExact
    <2>4. SemaphoreExact'
      BY <2>1 DEF SemaphoreExact
    <2>5. QED
      BY <2>2, <2>3, <2>4
  <1>2. CASE UncountPending(t)
    <2> USE <1>2 DEF UncountPending
    <2>1. Flying' = Flying
      BY DEF TypeOK, Advance, Flying, At, Stage
    <2>2. Pending' = Pending \ {t} /\ t \in Pending /\ t \notin At({"closing"})
      BY DEF TypeOK, Advance, Pending, At
    <2>3. /\ At({"closing"})' = At({"closing"})
          /\ At({"flying", "closing"})' = At({"flying", "closing"})
          /\ numPending # 1 => At({"opening"})' = At({"opening"})
          /\ numPending = 1 => At({"opening"})' = At({"opening"}) \cup {t}
      BY DEF TypeOK, Advance, At
    <2>4. /\ numPending' = Cardinality(Pending')
          /\ numPending' \in Nat
          /\ numPending = 1 <=> Pending' = {}
      <3>1. IsFiniteSet(Pending \ {t})
        BY GroupFinite, FS_RemoveElement
      <3>2. QED
        BY <2>2, <3>1, GroupFinite, CountRemove, FS_EmptySet DEF TypeOK, CountersExact
    <2>5. At({"closing"}) \subseteq Pending /\ owner \in {"open", "waiting"}
      BY <2>2 DEF At, Pending, OwnerExact, TypeOK, OwnerStage
    <2>6. TypeOK'
      BY <2>4 DEF TypeOK, Advance, Stage
    <2>7. CountersExact'
      BY <2>1, <2>4 DEF CountersExact
    <2>8. SemaphoreExact'
      BY <2>2, <2>3, <2>4, <2>5 DEF SemaphoreExact, One, TypeOK
    <2>9. OwnerExact'
      BY <2>3, <2>5 DEF OwnerExact
    <2>10. QED
      BY <2>6, <2>7, <2>8, <2>9
  <1>3. CASE OpenGroup(t)
    <2> USE <1>3 DEF OpenGroup
    <2>1. /\ Flying' = Flying
          /\ Pending' = Pending
          /\ At({"closing"})' = At({"closing"})
          /\ At({"flying", "closing"})' = At({"flying", "closing"})
          /\ At({"opening"})' = At({"opening"}) \ {t}
          /\ t \in At({"opening"})
      BY DEF TypeOK, Advance, Flying, Pending, At, Stage
    <2>2. TypeOK'
      BY DEF TypeOK, Advance, Stage
    <2>3. CountersExact' /\ OwnerExact'
      BY <2>1 DEF CountersExact, OwnerExact
    <2>4. SemaphoreExact'
      BY <2>1 DEF SemaphoreExact, One, TypeOK
    <2>5. QED
      BY <2>2, <2>3, <2>4
  <1>4. CASE LeaveFlight(t)
    <2> USE <1>4 DEF LeaveFlight
    <2>1. Flying' = Flying \ {t} /\ t \in Flying
      BY DEF TypeOK, Advance, Flying, At, Stage
    <2>2. /\ Pending' = Pending
          /\ At({"closing"})' = At({"closing"})
          /\ At({"flying", "closing"})' = At({"flying", "closing"})
          /\ At({"opening"})' = At({"opening"})
      BY DEF TypeOK, Advance, Pending, At
    <2>3. inFlight' = Cardinality(Flying') /\ inFlight' \in Nat
      BY <2>1, GroupFinite, CountRemove DEF TypeOK, CountersExact
    <2>4. TypeOK'
      BY <2>3 DEF TypeOK, Advance, Stage
    <2>5. CountersExact' /\ OwnerExact'
      BY <2>1, <2>2, <2>3 DEF CountersExact, OwnerExact
    <2>6. SemaphoreExact'
      BY <2>2 DEF SemaphoreExact
    <2>7. QED
      BY <2>4, <2>5, <2>6
  <1>5. QED
    BY <1>1, <1>2, <1>3, <1>4 DEF Process

\* A step of the destructor keeps the invariant.
LEMMA DestructorKeepsInv ==
    ASSUME GroupInv, Destructor
    PROVE  GroupInv'
  <1> USE DEF GroupInv
  <1>1. CASE BeginDestroy
    BY <1>1 DEF BeginDestroy, data, TypeOK, OwnerStage, CountersExact, SemaphoreExact,
                OwnerExact, One, Flying, Pending, At
  <1>2. CASE WaitEmpty
    <2> USE <1>2 DEF WaitEmpty
    <2>1. /\ Flying' = Flying
          /\ Pending' = Pending
          /\ At({"closing"})' = At({"closing"})
          /\ At({"flying", "closing"})' = At({"flying", "closing"})
          /\ At({"opening"})' = At({"opening"})
      BY DEF Flying, Pending, At
    <2>2. TypeOK' /\ CountersExact'
      BY <2>1 DEF TypeOK, OwnerStage, CountersExact
    <2>3. At({"closing"}) = {}
      BY DEF OwnerExact, At
    <2>4. Pending = {} /\ At({"opening"}) = {}
      BY <2>3 DEF SemaphoreExact, One
    <2>5. SemaphoreExact'
      BY <2>1, <2>3, <2>4 DEF SemaphoreExact, One
    <2>6. OwnerExact'
      BY <2>1, <2>4 DEF OwnerExact
    <2>7. QED
      BY <2>2, <2>5, <2>6
  <1>3. CASE SpinOut
    <2> USE <1>3 DEF SpinOut, data
    <2>1. /\ Flying' = Flying
          /\ Pending' = Pending
          /\ At({"closing"})' = At({"closing"})
          /\ At({"flying", "closing"})' = At({"flying", "closing"})
          /\ At({"opening"})' = At({"opening"})
      BY DEF Flying, Pending, At
    <2>2. Flying = {}
      BY GroupFinite, FS_EmptySet DEF CountersExact
    <2>3. TypeOK' /\ CountersExact' /\ SemaphoreExact'
      BY <2>1 DEF TypeOK, OwnerStage, CountersExact, SemaphoreExact, One
    <2>4. OwnerExact'
      BY <2>1, <2>2 DEF OwnerExact
    <2>5. QED
      BY <2>3, <2>4
  <1>4. QED
    BY <1>1, <1>2, <1>3 DEF Destructor

LEMMA StutterKeepsInv ==
    ASSUME GroupInv, UNCHANGED vars
    PROVE  GroupInv'
  BY DEF GroupInv, vars, TypeOK, CountersExact, SemaphoreExact, OwnerExact, Flying, Pending, At

(***************************************************************************)
(* addTask, removeTask and waitForEmpty keep the counters and the          *)
(* semaphore exact, for any number of tasks and in every interleaving.     *)
(***************************************************************************)
THEOREM GroupInvariant == Spec => []GroupInv
  <1>1. Init => GroupInv
    BY GroupInit
  <1>2. GroupInv /\ [Next]_vars => GroupInv'
    <2> SUFFICES ASSUME GroupInv, [Next]_vars PROVE GroupInv'
      OBVIOUS
    <2>1. CASE Destructor
      BY <2>1, DestructorKeepsInv
    <2>2. CASE Finished
      BY <2>2, StutterKeepsInv DEF Finished
    <2>3. ASSUME NEW t \in Task, Construct(t)
          PROVE  GroupInv'
      BY <2>3, ConstructKeepsInv
    <2>4. ASSUME NEW t \in Task, Process(t)
          PROVE  GroupInv'
      BY <2>4, ProcessKeepsInv
    <2>5. CASE UNCHANGED vars
      BY <2>5, StutterKeepsInv
    <2>6. QED
      BY <2>1, <2>2, <2>3, <2>4, <2>5 DEF Next
  <1>3. QED
    BY <1>1, <1>2, PTL DEF Spec

(***************************************************************************)
(* After ~TaskGroup deleted its data no worker and no constructor is       *)
(* inside addTask, removeTask or the semaphore.                            *)
(***************************************************************************)
THEOREM DestructorSafe == Spec => []NoTouchAfterDelete
  <1>1. GroupInv => NoTouchAfterDelete
    BY DEF GroupInv, TypeOK, OwnerExact, NoTouchAfterDelete, Flying, At
  <1>2. QED
    BY <1>1, GroupInvariant, PTL

(***************************************************************************)
(* Every behaviour of the group is one of the abstract barrier: its first  *)
(* step in addTask is Join, its last one in removeTask is Leave, leaving   *)
(* the spin is Destroy, and every other step is invisible.                 *)
(***************************************************************************)
THEOREM RefinesBarrier == Spec => ImplementsBarrier
  <1>1. Init => Barrier!BarrierInit
    BY DEF Init, Barrier!BarrierInit, Flying, At
  <1>2. GroupInv /\ [Next]_vars => [Barrier!BarrierNext]_(Barrier!barrierVars)
    <2> SUFFICES ASSUME GroupInv, [Next]_vars
                 PROVE  Barrier!BarrierNext \/ UNCHANGED Barrier!barrierVars
      OBVIOUS
    <2> USE DEF GroupInv, TypeOK, Barrier!barrierVars, Advance, Flying, At
    <2>1. ASSUME NEW t \in Task, EnterFlight(t)
          PROVE  Barrier!Join(t)
      BY <2>1 DEF EnterFlight, Barrier!Join, Stage
    <2>2. ASSUME NEW t \in Task, LeaveFlight(t)
          PROVE  Barrier!Leave(t)
      BY <2>2 DEF LeaveFlight, Barrier!Leave, Stage
    <2>3. CASE SpinOut
      <3>1. Flying = {}
        BY <2>3, GroupFinite, FS_EmptySet DEF SpinOut, CountersExact
      <3>2. QED
        BY <2>3, <3>1 DEF SpinOut, data, Barrier!Destroy, Barrier!BarrierNext
    <2>4. ASSUME NEW t \in Task, Construct(t) \/ Process(t), ~EnterFlight(t), ~LeaveFlight(t)
          PROVE  UNCHANGED Barrier!barrierVars
      BY <2>4 DEF Construct, Process, CountPending, CloseGroup, Execute, DeleteTask,
                  UncountPending, OpenGroup, PostReturns, Stage
    <2>5. CASE BeginDestroy \/ WaitEmpty \/ Finished \/ UNCHANGED vars
      BY <2>5 DEF BeginDestroy, WaitEmpty, Finished, vars, data
    <2>6. QED
      BY <2>1, <2>2, <2>3, <2>4, <2>5 DEF Next, Destructor, Barrier!BarrierNext
  <1>3. QED
    BY <1>1, <1>2, GroupInvariant, PTL DEF Spec, ImplementsBarrier, Barrier!BarrierSpec

-----------------------------------------------------------------------------
(* Semaphore.tla                                                            *)

\* The threads that are in wait: those numWaiting counts.
InWait == In("asleep") \cup In("awake")

\* What is counted is finite, so that its cardinality is a number.
LEMMA SemaphoreFinite ==
    /\ IsFiniteSet(In("awake")) /\ Cardinality(In("awake")) \in Nat
    /\ IsFiniteSet(InWait) /\ Cardinality(InWait) \in Nat
    /\ InWait = {} <=> Cardinality(InWait) = 0
  <1>1. In("awake") \in SUBSET Thread /\ InWait \in SUBSET Thread
    BY DEF In, InWait
  <1>2. IsFiniteSet(In("awake")) /\ IsFiniteSet(InWait)
    BY <1>1, SemaphoreAssumption, FS_Subset
  <1>3. QED
    BY <1>2, FS_CardinalityType, FS_EmptySet

LEMMA SemaphoreStarts == SemaphoreInit => SemaphoreInv
  <1> SUFFICES ASSUME SemaphoreInit PROVE SemaphoreInv
    OBVIOUS
  <1>1. SemaphoreType
    BY SemaphoreAssumption DEF SemaphoreInit, SemaphoreType
  <1>2. In("asleep") = {} /\ In("awake") = {}
    BY DEF SemaphoreInit, In
  <1>3. WaitingExact
    BY <1>2, FS_EmptySet DEF SemaphoreInit, WaitingExact
  <1>4. QED
    BY <1>1, <1>2, <1>3 DEF SemaphoreInv, NoLostWakeup

\* A thread that goes to sleep finds no unit, so that no awake one is missed.
LEMMA SleepingKeepsInv ==
    ASSUME SemaphoreInv, NEW t \in Thread, FallAsleep(t) \/ SleepAgain(t)
    PROVE  SemaphoreInv'
  <1> USE DEF SemaphoreInv
  <1>1. SemaphoreType'
    BY DEF SemaphoreType, FallAsleep, SleepAgain
  <1>2. count' = 0
    BY DEF FallAsleep, SleepAgain
  <1>3. Cardinality(In("awake"))' \in Nat
    <2>1. In("awake")' \in SUBSET Thread
      BY DEF In
    <2>2. QED
      BY <2>1, SemaphoreAssumption, FS_Subset, FS_CardinalityType
  <1>4. NoLostWakeup'
    BY <1>2, <1>3 DEF NoLostWakeup
  <1>5. WaitingExact'
    <2>1. CASE FallAsleep(t)
      <3> USE <2>1 DEF FallAsleep
      <3>1. InWait' = InWait \cup {t} /\ t \notin InWait
        BY DEF SemaphoreType, InWait, In
      <3>2. QED
        BY <3>1, SemaphoreFinite, CountAdd DEF WaitingExact, InWait
    <2>2. CASE SleepAgain(t)
      <3> USE <2>2 DEF SleepAgain
      <3>1. InWait' = InWait
        BY DEF SemaphoreType, InWait, In
      <3>2. QED
        BY <3>1 DEF WaitingExact, InWait
    <2>3. QED
      BY <2>1, <2>2
  <1>6. QED
    BY <1>1, <1>4, <1>5

\* A thread that wakes up for no reason only adds to the awake ones.
LEMMA WakingKeepsInv ==
    ASSUME SemaphoreInv, NEW t \in Thread, WakeSpuriously(t)
    PROVE  SemaphoreInv'
  <1> USE DEF SemaphoreInv, WakeSpuriously
  <1>1. SemaphoreType'
    BY DEF SemaphoreType
  <1>2. /\ InWait' = InWait
        /\ In("awake")' = In("awake") \cup {t} /\ t \notin In("awake")
        /\ In("asleep") # {}
    BY DEF SemaphoreType, InWait, In
  <1>3. WaitingExact'
    BY <1>2 DEF WaitingExact, InWait
  <1>4. Cardinality(In("awake"))' = Cardinality(In("awake")) + 1
    BY <1>2, SemaphoreFinite, CountAdd
  <1>5. NoLostWakeup'
    BY <1>2, <1>4, SemaphoreFinite DEF NoLostWakeup, SemaphoreType
  <1>6. QED
    BY <1>1, <1>3, <1>5

\* Units go one at a time; a thread that leaves the loop takes one with it.
LEMMA TakingKeepsInv ==
    ASSUME SemaphoreInv, NEW t \in Thread, WaitAtOnce(t) \/ WaitReturns(t)
    PROVE  SemaphoreInv'
  <1> USE DEF SemaphoreInv
  <1>1. CASE WaitAtOnce(t)
    <2> USE <1>1 DEF WaitAtOnce
    <2>1. SemaphoreType' /\ WaitingExact'
      BY DEF SemaphoreType, WaitingExact, In
    <2>2. In("asleep")' = In("asleep") /\ In("awake")' = In("awake")
      BY DEF In
    <2>3. NoLostWakeup'
      BY <2>2, SemaphoreFinite DEF NoLostWakeup, SemaphoreType
    <2>4. QED
      BY <2>1, <2>3
  <1>2. CASE WaitReturns(t)
    <2> USE <1>2 DEF WaitReturns
    <2>1. /\ In("asleep")' = In("asleep")
          /\ In("awake")' = In("awake") \ {t} /\ t \in In("awake")
          /\ InWait' = InWait \ {t} /\ t \in InWait
      BY DEF SemaphoreType, In, InWait
    <2>2. /\ Cardinality(In("awake"))' = Cardinality(In("awake")) - 1
          /\ Cardinality(InWait)' = Cardinality(InWait) - 1
      BY <2>1, SemaphoreFinite, CountRemove
    <2>3. WaitingExact'
      BY <2>2 DEF WaitingExact, InWait
    <2>4. numWaiting' \in Nat
      <3>1. InWait' \in SUBSET Thread
        BY DEF InWait, In
      <3>2. QED
        BY <2>3, <3>1, SemaphoreAssumption, FS_Subset, FS_CardinalityType
           DEF WaitingExact, InWait
    <2>5. SemaphoreType'
      BY <2>4 DEF SemaphoreType
    <2>6. NoLostWakeup'
      BY <2>1, <2>2, SemaphoreFinite DEF NoLostWakeup, SemaphoreType
    <2>7. QED
      BY <2>3, <2>5, <2>6
  <1>3. QED
    BY <1>1, <1>2

\* post: the first unit needs one awake thread, each further one all of them.
LEMMA PostKeepsInv ==
    ASSUME SemaphoreInv, Post
    PROVE  SemaphoreInv'
  <1> USE DEF SemaphoreInv, Post
  <1>1. count' = count + 1 /\ count' \in Nat /\ numWaiting' = numWaiting
    BY DEF SemaphoreType
  <1>2. CASE numWaiting = 0
    <2>1. InWait = {}
      BY <1>2, SemaphoreFinite DEF WaitingExact, InWait
    <2>2. In("asleep")' = {} /\ InWait' = InWait /\ place' = place
      BY <1>2, <2>1 DEF In, InWait
    <2>3. QED
      BY <1>1, <2>2 DEF SemaphoreType, WaitingExact, NoLostWakeup, InWait
  <1>3. CASE numWaiting # 0 /\ count' > 1
    <2> USE <1>3 DEF NotifyAll
    <2>1. SemaphoreType'
      BY <1>1 DEF SemaphoreType
    <2>2. In("asleep")' = {} /\ InWait' = InWait
      BY DEF SemaphoreType, In, InWait
    <2>3. QED
      BY <1>1, <2>1, <2>2 DEF WaitingExact, NoLostWakeup, InWait
  <1>4. CASE numWaiting # 0 /\ ~ (count' > 1)
    <2>1. count' = 1
      BY <1>1, <1>4 DEF SemaphoreType
    <2>2. CASE In("asleep") = {}
      <3>1. place' = place
        BY <1>4, <2>2 DEF NotifyOne
      <3>2. In("asleep")' = {} /\ InWait' = InWait
        BY <2>2, <3>1 DEF In, InWait
      <3>3. QED
        BY <1>1, <3>1, <3>2 DEF SemaphoreType, WaitingExact, NoLostWakeup, InWait
    <2>3. CASE In("asleep") # {}
      <3>1. PICK t \in In("asleep") : place' = [place EXCEPT ![t] = "awake"]
        BY <1>4, <2>3 DEF NotifyOne
      <3>2. SemaphoreType'
        BY <1>1, <3>1 DEF SemaphoreType, In
      <3>3. /\ InWait' = InWait
            /\ In("awake")' = In("awake") \cup {t} /\ t \notin In("awake")
        BY <3>1 DEF SemaphoreType, In, InWait
      <3>4. Cardinality(In("awake"))' = Cardinality(In("awake")) + 1
        BY <3>3, SemaphoreFinite, CountAdd
      <3>5. NoLostWakeup'
        BY <2>1, <3>4, SemaphoreFinite DEF NoLostWakeup
      <3>6. WaitingExact'
        BY <1>1, <3>3 DEF WaitingExact, InWait
      <3>7. QED
        BY <3>2, <3>5, <3>6
    <2>4. QED
      BY <2>2, <2>3
  <1>5. QED
    BY <1>2, <1>3, <1>4

LEMMA SemaphoreInductive == SemaphoreInv /\ [SemaphoreNext]_semaphoreVars => SemaphoreInv'
  <1> SUFFICES ASSUME SemaphoreInv, [SemaphoreNext]_semaphoreVars PROVE SemaphoreInv'
    OBVIOUS
  <1>1. CASE Post
    BY <1>1, PostKeepsInv
  <1>2. CASE \E t \in Thread :
              WaitAtOnce(t) \/ FallAsleep(t) \/ WakeSpuriously(t) \/ Resume(t)
    BY <1>2, SleepingKeepsInv, WakingKeepsInv, TakingKeepsInv DEF Resume
  <1>3. CASE UNCHANGED semaphoreVars
    BY <1>3 DEF semaphoreVars, SemaphoreInv, SemaphoreType, WaitingExact, NoLostWakeup, In
  <1>4. QED
    BY <1>1, <1>2, <1>3 DEF SemaphoreNext

(***************************************************************************)
(* Whatever the number of threads, Semaphore's count of waiters is right,  *)
(* and no thread sleeps while there are units and nobody awake to take     *)
(* them.                                                                   *)
(***************************************************************************)
THEOREM SemaphoreInvariant == SemaphoreSpec => []SemaphoreInv
  <1>1. QED
    BY SemaphoreStarts, SemaphoreInductive, PTL DEF SemaphoreSpec

(***************************************************************************)
(* The code without the fairness implements the safety of the counting     *)
(* semaphore: every step of wait and post is one of its steps or nothing.  *)
(***************************************************************************)
THEOREM RefinesSemaphore == SemaphoreSpec => Abstract!SemSafety
  <1>1. SemaphoreInit => Abstract!SemInit
    BY SemaphoreAssumption DEF SemaphoreInit, In, Abstract!SemInit
  <1>2. SemaphoreInv /\ [SemaphoreNext]_semaphoreVars => [Abstract!SemNext]_(Abstract!semVars)
    <2> SUFFICES ASSUME SemaphoreInv, [SemaphoreNext]_semaphoreVars
                 PROVE  Abstract!SemNext \/ UNCHANGED Abstract!semVars
      OBVIOUS
    <2> USE DEF Abstract!semVars, In
    <2> SemaphoreType
      BY DEF SemaphoreInv
    <2>1. CASE Post
      <3>1. (In("asleep") \cup In("awake"))' = In("asleep") \cup In("awake")
        BY <2>1 DEF SemaphoreType, Post, NotifyAll, NotifyOne
      <3>2. Abstract!Release
        BY <2>1, <3>1 DEF Post, Abstract!Release
      <3>3. QED
        BY <3>2 DEF Abstract!SemNext
    <2>2. CASE \E t \in Thread :
                WaitAtOnce(t) \/ FallAsleep(t) \/ WakeSpuriously(t) \/ Resume(t)
      <3>1. PICK t \in Thread :
                WaitAtOnce(t) \/ FallAsleep(t) \/ WakeSpuriously(t) \/ Resume(t)
        BY <2>2
      <3>2. CASE WaitAtOnce(t) \/ WaitReturns(t)
        <4>1. Abstract!Acquire(t)
          BY <3>2 DEF SemaphoreType, WaitAtOnce, WaitReturns, Abstract!Acquire
        <4>2. QED
          BY <4>1 DEF Abstract!SemNext
      <3>3. CASE FallAsleep(t)
        <4>1. Abstract!Arrive(t)
          BY <3>3 DEF SemaphoreType, FallAsleep, Abstract!Arrive
        <4>2. QED
          BY <4>1 DEF Abstract!SemNext
      <3>4. CASE WakeSpuriously(t) \/ SleepAgain(t)
        BY <3>4 DEF SemaphoreType, WakeSpuriously, SleepAgain
      <3>5. QED
        BY <3>1, <3>2, <3>3, <3>4 DEF Resume
    <2>3. CASE UNCHANGED semaphoreVars
      BY <2>3 DEF semaphoreVars
    <2>4. QED
      BY <2>1, <2>2, <2>3 DEF SemaphoreNext
  <1>3. QED
    BY <1>1, <1>2, SemaphoreInvariant, PTL DEF SemaphoreSpec, Abstract!SemSafety
=============================================================================
