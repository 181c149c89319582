--------------------------- MODULE ParallelDecode ---------------------------
(***************************************************************************)
(* The parallel read of ScanLineInputFile, TiledInputFile and their deep   *)
(* variants: one thread takes decode processes from a ProcessGroup         *)
(* (IlmThreadProcessGroup.h) and hands a task per chunk to the pool; a     *)
(* task decodes its chunk, records a failure in the group, and pushes its  *)
(* process back when it is deleted.  The TaskGroup is the barrier of       *)
(* TaskBarrier.tla, the pool runs every task (ThreadPool.tla), and the     *)
(* semaphore is the one of CountingSemaphore.tla.                          *)
(*                                                                         *)
(* Each step is one access to an atomic of the group or one call on its    *)
(* semaphore.  The compare-and-swaps do not fail spuriously.               *)
(***************************************************************************)
EXTENDS Integers, FiniteSets

CONSTANTS Units,       \* the chunks (or tiles) of the image, in reading order
          NumThreads,  \* the processes of a group
          MaxWorkers   \* bound on the threads of the global pool

ASSUME DecodeAssumption ==
    Units \in Nat /\ NumThreads \in Nat \ {0} /\ MaxWorkers \in Nat

Unit == 1 .. Units
Process == 1 .. NumThreads
Nil == 0          \* nullptr for a process, and for the failure of no task

VARIABLES
    workers,      \* threads of the global pool during the call
    sem,          \* ProcessGroup::_sem
    head,         \* _avail_head
    next,         \* Process::next
    failure,      \* _first_failure: the task whose message it is
    first,        \* processes not yet initialised
    chosen,       \* processes whose routines are chosen
    disp,         \* the dispatching thread, see Dispatch
    todo,         \* the units of the call not yet handed over
    thrown,       \* exr_read_*_chunk_info failed
    task,         \* where the task of each unit is
    held,         \* its _line
    seen,         \* oldhead in push
    decoded       \* units whose pixels arrived

groupVars == <<sem, head, next, failure>>
processVars == <<first, chosen>>
callVars == <<workers, disp, todo, thrown>>
taskVars == <<task, held, seen, decoded>>
engineVars == <<workers, sem, head, next, failure, first, chosen, disp, todo,
                thrown, task, held, seen, decoded>>

Stage == {"none", "queued", "running", "recording", "failing", "linking",
          "swapping", "posting", "leaving", "done"}
Dispatch == {"idle", "query", "popping", "loading", "reading", "swapping",
             "inline", "draining", "checking", "returned"}

In(S) == {u \in Unit : task[u] \in S}
\* Tasks that the TaskGroup counts.
Joined == In(Stage \ {"none", "done"})
Current == CHOOSE u \in todo : \A v \in todo : u <= v
To(u, stage) == task' = [task EXCEPT ![u] = stage]
Advance(u, from, stage) == task[u] = from /\ To(u, stage)

\* No call is under way, and nothing of a group exists.
EngineInit ==
    /\ workers = 0 /\ sem = 0 /\ head = Nil /\ failure = Nil
    /\ next = [p \in Process |-> Nil]
    /\ first = Process /\ chosen = {}
    /\ disp = "idle" /\ todo = {} /\ thrown = FALSE
    /\ task = [u \in Unit |-> "none"]
    /\ held = [u \in Unit |-> Nil]
    /\ seen = [u \in Unit |-> Nil]
    /\ decoded = {}

-----------------------------------------------------------------------------
(* The dispatching thread.                                                  *)

\* Makes the group, every process in its list, and the TaskGroup.
NewGroup(units, count) ==
    /\ disp = "idle"
    /\ workers' \in {0, MaxWorkers}
    /\ sem' = count
    /\ head' = 1
    /\ next' = [p \in Process |-> IF p + 1 \in Process THEN p + 1 ELSE Nil]
    /\ failure' = Nil
    /\ first' = Process /\ chosen' = {}
    /\ todo' = units /\ thrown' = FALSE
    /\ task' = [u \in Unit |-> "none"]
    /\ held' = [u \in Unit |-> Nil]
    /\ seen' = [u \in Unit |-> Nil]
    /\ decoded' = {}
    /\ disp' = "query"

\* Bug: the semaphore starts with its default of no permits.
BadBegin(units) == NewGroup(units, 0)

Begin(units) == NewGroup(units, NumThreads)

\* exr_read_*_chunk_info.  When it fails the exception leaves the scope of the
\* TaskGroup, whose destructor waits.  Otherwise the Task constructor joins
\* the group and pop begins.
Query ==
    /\ disp = "query" /\ todo # {}
    /\ \/ disp' = "popping" /\ UNCHANGED thrown
       \/ disp' = "draining" /\ thrown' = TRUE
    /\ UNCHANGED <<workers, todo, groupVars, processVars, taskVars>>

AllHandedOver ==
    /\ disp = "query" /\ todo = {}
    /\ disp' = "draining"
    /\ UNCHANGED <<workers, todo, thrown, groupVars, processVars, taskVars>>

PopWait ==
    /\ disp = "popping" /\ sem > 0
    /\ sem' = sem - 1
    /\ disp' = "loading"
    /\ UNCHANGED <<workers, todo, thrown, head, next, failure, processVars, taskVars>>

\* ret = _avail_head.load ().  held[Current] is ret until the swap succeeds.
PopLoad ==
    /\ disp = "loading"
    /\ held' = [held EXCEPT ![Current] = head]
    /\ disp' = "reading"
    /\ UNCHANGED <<workers, todo, thrown, groupVars, processVars, task, seen, decoded>>

\* newhead = ret->next, kept in seen.
PopRead ==
    /\ disp = "reading" /\ held[Current] # Nil
    /\ seen' = [seen EXCEPT ![Current] = next[held[Current]]]
    /\ disp' = "swapping"
    /\ UNCHANGED <<workers, todo, thrown, groupVars, processVars, task, held, decoded>>

\* The process is this task's: hand it to the pool, or run it here if the
\* pool has no threads (ThreadPool::addTask).
HandOver ==
    /\ To(Current, IF workers = 0 THEN "running" ELSE "queued")
    /\ todo' = IF workers = 0 THEN todo ELSE todo \ {Current}
    /\ disp' = IF workers = 0 THEN "inline" ELSE "query"

\* Bug: ignores that the compare-and-swap failed.
BadPopSwap ==
    /\ disp = "swapping"
    /\ head' = IF head = held[Current] THEN seen[Current] ELSE head
    /\ HandOver
    /\ UNCHANGED <<workers, thrown, sem, next, failure, processVars, held, seen, decoded>>

\* A failed compare-and-swap loads the head again.
PopSwap ==
    /\ disp = "swapping"
    /\ IF head = held[Current]
       THEN head' = seen[Current] /\ HandOver /\ UNCHANGED held
       ELSE /\ held' = [held EXCEPT ![Current] = head]
            /\ disp' = "reading"
            /\ UNCHANGED <<head, task, todo>>
    /\ UNCHANGED <<workers, thrown, sem, next, failure, processVars, seen, decoded>>

\* The task that addTask ran in this thread has ended.
InlineEnds ==
    /\ disp = "inline" /\ task[Current] = "done"
    /\ todo' = todo \ {Current}
    /\ disp' = "query"
    /\ UNCHANGED <<workers, thrown, groupVars, processVars, taskVars>>

\* Bug: the TaskGroup lives as long as the group, and throw_on_failure comes first.
BadDrained ==
    /\ disp = "draining"
    /\ disp' = IF thrown THEN "returned" ELSE "checking"
    /\ UNCHANGED <<workers, todo, thrown, groupVars, processVars, taskVars>>

\* TaskGroup::~TaskGroup.
Drained ==
    /\ disp = "draining" /\ Joined = {}
    /\ disp' = IF thrown THEN "returned" ELSE "checking"
    /\ UNCHANGED <<workers, todo, thrown, groupVars, processVars, taskVars>>

\* throw_on_failure, and the destructor of the group.
Check ==
    /\ disp = "checking"
    /\ thrown' = (failure # Nil)
    /\ failure' = Nil
    /\ disp' = "returned"
    /\ UNCHANGED <<workers, todo, sem, head, next, processVars, taskVars>>

Dispatcher ==
    \/ Query \/ AllHandedOver \/ PopWait \/ PopLoad \/ PopRead \/ PopSwap
    \/ InlineEnds \/ Drained \/ Check

-----------------------------------------------------------------------------
(* The tasks: LineBufferTask and TileBufferTask.                            *)

Busy == In(Stage \ {"none", "queued", "done"})

Start(u) ==
    /\ Cardinality(Busy) < workers
    /\ Advance(u, "queued", "running")
    /\ UNCHANGED <<callVars, groupVars, processVars, held, seen, decoded>>

\* run_decode throws: from exr_decoding_initialize or _update, from
\* choose_default_routines, or from exr_decoding_run, which always fails in a
\* process whose routines were never chosen.
DecodeFails(u) ==
    /\ Advance(u, "running", "recording")
    /\ \/ UNCHANGED processVars
       \/ /\ held[u] \in first
          /\ first' = first \ {held[u]}
          /\ chosen' \in {chosen, chosen \cup {held[u]}}
    /\ UNCHANGED <<callVars, groupVars, held, seen, decoded>>

\* The routines are chosen only the first time a process is used.
DecodeSucceeds(u) ==
    /\ held[u] \in first \cup chosen
    /\ Advance(u, "running", "linking")
    /\ first' = first \ {held[u]}
    /\ chosen' = chosen \cup {held[u]}
    /\ decoded' = decoded \cup {u}
    /\ UNCHANGED <<callVars, groupVars, held, seen>>

\* record_failure: the first message stays.
RecordLoad(u) ==
    /\ Advance(u, "recording", IF failure = Nil THEN "failing" ELSE "linking")
    /\ UNCHANGED <<callVars, groupVars, processVars, held, seen, decoded>>

RecordSwap(u) ==
    /\ Advance(u, "failing", "linking")
    /\ failure' = IF failure = Nil THEN u ELSE failure
    /\ UNCHANGED <<callVars, sem, head, next, processVars, held, seen, decoded>>

\* The destructor of the task calls push: loads the head and links to it.
PushLink(u) ==
    /\ Advance(u, "linking", "swapping")
    /\ seen' = [seen EXCEPT ![u] = head]
    /\ next' = [next EXCEPT ![held[u]] = head]
    /\ UNCHANGED <<callVars, sem, head, failure, processVars, held, decoded>>

\* The process is in the list and no longer the task's.
Pushed(u) ==
    /\ head' = held[u]
    /\ held' = [held EXCEPT ![u] = Nil]
    /\ To(u, "posting")

\* A failed compare-and-swap loads the head again and links to it.
PushSwap(u) ==
    /\ task[u] = "swapping"
    /\ IF head = seen[u]
       THEN Pushed(u) /\ UNCHANGED <<seen, next>>
       ELSE /\ seen' = [seen EXCEPT ![u] = head]
            /\ next' = [next EXCEPT ![held[u]] = head]
            /\ UNCHANGED <<head, held, task>>
    /\ UNCHANGED <<callVars, sem, failure, processVars, decoded>>

PushPost(u) ==
    /\ Advance(u, "posting", "leaving")
    /\ sem' = sem + 1
    /\ UNCHANGED <<callVars, head, next, failure, processVars, held, seen, decoded>>

\* finishOneTask, after the task is deleted.
Leave(u) ==
    /\ Advance(u, "leaving", "done")
    /\ UNCHANGED <<callVars, groupVars, processVars, held, seen, decoded>>

Worker(u) ==
    \/ Start(u) \/ DecodeFails(u) \/ DecodeSucceeds(u) \/ RecordLoad(u) \/ RecordSwap(u)
    \/ PushLink(u) \/ PushSwap(u) \/ PushPost(u) \/ Leave(u)

EngineNext == Dispatcher \/ \E u \in Unit : Worker(u)

\* What the call ends with: the group, its processes and tasks are gone.
End ==
    /\ disp = "returned"
    /\ workers' = 0 /\ sem' = 0 /\ head' = Nil /\ failure' = Nil
    /\ next' = [p \in Process |-> Nil]
    /\ first' = Process /\ chosen' = {}
    /\ disp' = "idle" /\ todo' = {} /\ thrown' = FALSE
    /\ task' = [u \in Unit |-> "none"]
    /\ held' = [u \in Unit |-> Nil]
    /\ seen' = [u \in Unit |-> Nil]
    /\ decoded' = {}

-----------------------------------------------------------------------------
\* The processes in the list, from the head on.
Listed ==
    LET reach[n \in 0 .. NumThreads] ==
            IF n = 0 THEN {head} \ {Nil}
            ELSE reach[n - 1] \cup ({next[p] : p \in reach[n - 1]} \ {Nil})
    IN reach[NumThreads]

\* The tasks that decode with process p, or are about to give it back.
Users(p) == {u \in Unit : held[u] = p /\ task[u] # "none"}

EngineTypeOK ==
    /\ workers \in 0 .. MaxWorkers /\ sem \in 0 .. NumThreads
    /\ head \in Process \cup {Nil} /\ next \in [Process -> Process \cup {Nil}]
    /\ failure \in Unit \cup {Nil}
    /\ first \subseteq Process /\ chosen \subseteq Process \ first
    /\ disp \in Dispatch /\ todo \subseteq Unit /\ thrown \in BOOLEAN
    /\ task \in [Unit -> Stage]
    /\ held \in [Unit -> Process \cup {Nil}] /\ seen \in [Unit -> Process \cup {Nil}]
    /\ decoded \subseteq Unit

(***************************************************************************)
(* The list and the tasks share the processes: each is in the list or with *)
(* one task, and never with two.  The semaphore promises no more than is   *)
(* in the list, so that pop never finds it empty, although a push changes  *)
(* the head between the load and the compare-and-swap of pop.              *)
(***************************************************************************)
ProcessInOnePlace ==
    disp \notin {"idle", "returned"} =>
        /\ \A p \in Process : Cardinality(Users(p)) = IF p \in Listed THEN 0 ELSE 1
        /\ sem + (IF disp \in {"loading", "reading", "swapping"} THEN 1 ELSE 0)
             <= Cardinality(Listed)
        /\ disp = "reading" => held[Current] # Nil

(***************************************************************************)
(* The group and what the caller lent to the tasks live until the last     *)
(* task has left push, also when exr_read_*_chunk_info failed half-way.    *)
(***************************************************************************)
GroupOutlivesTasks == disp \in {"checking", "returned"} => Joined = {}

(***************************************************************************)
(* The call throws if and only if one of its units was not decoded: a      *)
(* failure is never lost among tasks that record at the same time or use a *)
(* process whose routines were never chosen, and none is made up.          *)
(***************************************************************************)
FailureReported ==
    disp = "returned" => (thrown <=> (todo # {} \/ In({"done"}) # decoded))

Pool == INSTANCE ProcessPool WITH
    open <- disp \notin {"idle", "returned"},
    users <- [p \in Process |-> Users(p)],
    failed <- disp \notin {"idle", "returned"} /\ failure # Nil,
    told <- disp = "returned" /\ thrown

(***************************************************************************)
(* The lock-free list with its semaphore is a pool that lends each process *)
(* to one task at a time, closes when all are back, and tells of failures. *)
(***************************************************************************)
ImplementsPool == Pool!PoolSpec
=============================================================================
