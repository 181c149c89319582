----------------------------- MODULE ThreadPool -----------------------------
(***************************************************************************)
(* class ThreadPool and DefaultThreadPoolProvider of IlmThreadPool.cpp:    *)
(* the queue of tasks, the threads that serve it, and the changes of the   *)
(* number of threads, which replace the provider when they go to or come   *)
(* from zero threads.                                                      *)
(*                                                                         *)
(* Actors: every task has a thread that hands it to ThreadPool::addTask;   *)
(* every controller is an application thread that calls setNumThreads; and *)
(* every provider has the threads of its vector _threads, which run        *)
(* threadLoop.  Thread <<p, i>> is element i of the vector of provider p.  *)
(* A shared_ptr keeps a provider usable after the pool dropped it.         *)
(*                                                                         *)
(* A critical section under _taskMutex is one step; _threadMutex is held   *)
(* over several, so it is a variable.  Posts of one loop are one step.     *)
(***************************************************************************)
EXTENDS Integers, Sequences, FiniteSets

CONSTANTS Task, Controller,
          NoTask, NoController,
          MaxThreads,      \* the largest count given to setNumThreads
          MaxProviders,    \* bound on the providers made in a behaviour
          MaxCalls         \* bound on the calls of setNumThreads

ASSUME PoolAssumption ==
    /\ IsFiniteSet(Task) /\ NoTask \notin Task
    /\ NoController \notin Controller
    /\ MaxThreads \in Nat \ {0} /\ MaxProviders \in Nat /\ MaxCalls \in Nat

Provider == 1 .. MaxProviders
NoProvider == 0
Thread == Provider \X (1 .. MaxThreads)

VARIABLES
    provider,      \* ThreadPool::Data::_provider, NoProvider for nullptr
    made,          \* providers constructed so far
    tasks,         \* _tasks of each provider, the back is the last element
    sem,           \* _taskSemaphore of each provider
    stopping,      \* _stopping
    threadCount,   \* _threadCount
    size,          \* _threads.size()
    threadMutex,   \* who holds _threadMutex
    worker,        \* where each thread is in threadLoop
    job,           \* the task it runs
    sub, via,      \* where addTask(t) is, and the provider it got
    done,          \* tasks that handleProcessTask has finished
    ctl,           \* where each controller is, with its locals
    calls          \* calls of setNumThreads so far

queueVars == <<tasks, sem>>
threadVars == <<worker, job>>
submitVars == <<sub, via, done>>
resizeVars == <<stopping, threadCount, size, threadMutex>>
poolVars == <<provider, made>>
vars == <<provider, made, tasks, sem, stopping, threadCount, size, threadMutex,
          worker, job, sub, via, done, ctl, calls>>

Crew(p) == {p} \X (1 .. size[p])      \* the threads in the vector of p
Idle == [at |-> "idle", prov |-> NoProvider, count |-> 0]

\* The pool as its constructor leaves it: ThreadPool (n).
Init == \E n \in 0 .. MaxThreads :
    LET first == IF n = 0 THEN {} ELSE {1} IN
    /\ provider = IF n = 0 THEN NoProvider ELSE 1
    /\ made = provider
    /\ first \subseteq Provider
    /\ tasks = [p \in Provider |-> <<>>]
    /\ sem = [p \in Provider |-> 0]
    /\ stopping = [p \in Provider |-> FALSE]
    /\ threadCount = [p \in Provider |-> IF p \in first THEN n ELSE 0]
    /\ size = threadCount
    /\ threadMutex = [p \in Provider |-> NoController]
    /\ worker = [w \in Thread |-> IF w[1] \in first /\ w[2] <= n THEN "waiting" ELSE "none"]
    /\ job = [w \in Thread |-> NoTask]
    /\ sub = [t \in Task |-> "idle"]
    /\ via = [t \in Task |-> NoProvider]
    /\ done = {}
    /\ ctl = [c \in Controller |-> Idle]
    /\ calls = 0

-----------------------------------------------------------------------------
(* ThreadPool::addTask and DefaultThreadPoolProvider::addTask.              *)

GetProvider(t) ==
    /\ sub[t] = "idle"
    /\ sub' = [sub EXCEPT ![t] = IF provider = NoProvider THEN "inline" ELSE "got"]
    /\ via' = [via EXCEPT ![t] = provider]
    /\ UNCHANGED <<poolVars, queueVars, resizeVars, threadVars, done, ctl, calls>>

\* No provider: the caller runs the task itself.
RunInline(t) ==
    /\ sub[t] = "inline"
    /\ sub' = [sub EXCEPT ![t] = "returned"]
    /\ done' = done \cup {t}
    /\ UNCHANGED <<poolVars, queueVars, resizeVars, threadVars, via, ctl, calls>>

Push(t) ==
    /\ sub[t] = "got"
    /\ sub' = [sub EXCEPT ![t] = "pushed"]
    /\ tasks' = [tasks EXCEPT ![via[t]] = Append(@, t)]
    /\ UNCHANGED <<poolVars, sem, resizeVars, threadVars, via, done, ctl, calls>>

Post(t) ==
    /\ sub[t] = "pushed"
    /\ sub' = [sub EXCEPT ![t] = "returned"]
    /\ sem' = [sem EXCEPT ![via[t]] = @ + 1]
    /\ UNCHANGED <<poolVars, tasks, resizeVars, threadVars, via, done, ctl, calls>>

-----------------------------------------------------------------------------
(* DefaultThreadPoolProvider::threadLoop.                                   *)

Wake(w) ==
    /\ worker[w] = "waiting"
    /\ sem[w[1]] > 0
    /\ sem' = [sem EXCEPT ![w[1]] = @ - 1]
    /\ worker' = [worker EXCEPT ![w] = "awake"]
    /\ UNCHANGED <<poolVars, tasks, resizeVars, job, submitVars, ctl, calls>>

\* Bug: copies the task from the queue without removing it.
BadTake(w) ==
    LET q == tasks[w[1]] IN
    /\ worker[w] = "awake"
    /\ q # <<>>
    /\ worker' = [worker EXCEPT ![w] = "running"]
    /\ job' = [job EXCEPT ![w] = q[Len(q)]]
    /\ UNCHANGED <<poolVars, queueVars, resizeVars, submitVars, ctl, calls>>

\* Takes the task at the back.
Take(w) ==
    LET q == tasks[w[1]] IN
    /\ worker[w] = "awake"
    /\ q # <<>>
    /\ worker' = [worker EXCEPT ![w] = "running"]
    /\ job' = [job EXCEPT ![w] = q[Len(q)]]
    /\ tasks' = [tasks EXCEPT ![w[1]] = SubSeq(q, 1, Len(q) - 1)]
    /\ UNCHANGED <<poolVars, sem, resizeVars, submitVars, ctl, calls>>

\* handleProcessTask; TaskGroup.tla has its steps.
Process(w) ==
    /\ worker[w] = "running"
    /\ worker' = [worker EXCEPT ![w] = "waiting"]
    /\ job' = [job EXCEPT ![w] = NoTask]
    /\ done' = done \cup {job[w]}
    /\ UNCHANGED <<poolVars, queueVars, resizeVars, sub, via, ctl, calls>>

\* Bug: a thread that is told to stop leaves the tasks in the queue.
BadNothingToTake(w) ==
    /\ worker[w] = "awake"
    /\ tasks[w[1]] = <<>> \/ stopping[w[1]]
    /\ worker' = [worker EXCEPT ![w] = IF stopping[w[1]] THEN "exited" ELSE "waiting"]
    /\ UNCHANGED <<poolVars, queueVars, resizeVars, job, submitVars, ctl, calls>>

NothingToTake(w) ==
    /\ worker[w] = "awake"
    /\ tasks[w[1]] = <<>>
    /\ worker' = [worker EXCEPT ![w] = IF stopping[w[1]] THEN "exited" ELSE "waiting"]
    /\ UNCHANGED <<poolVars, queueVars, resizeVars, job, submitVars, ctl, calls>>

-----------------------------------------------------------------------------
(* ThreadPool::setNumThreads, Data::setProvider and, in the provider,       *)
(* setNumThreads, finish and lockedFinish.                                  *)

Move(c, at) == ctl' = [ctl EXCEPT ![c].at = at]

\* The threads 1 .. n of p that are not there yet start in threadLoop.
Started(p, n) ==
    [w \in Thread |->
        IF w[1] = p /\ w[2] <= n /\ worker[w] = "none" THEN "waiting" ELSE worker[w]]

Call(c, n) ==
    /\ ctl[c].at = "idle"
    /\ calls < MaxCalls
    /\ calls' = calls + 1
    /\ ctl' = [ctl EXCEPT ![c] = [at |-> IF provider = NoProvider THEN "replace" ELSE "compare",
                                  prov |-> provider, count |-> n]]
    /\ UNCHANGED <<poolVars, queueVars, resizeVars, threadVars, submitVars>>

\* Compares the count with numThreads() of the provider it got.
Compare(c) ==
    LET n == ctl[c].count IN
    /\ ctl[c].at = "compare"
    /\ Move(c, IF n = threadCount[ctl[c].prov] THEN "idle"
               ELSE IF n = 0 THEN "replace" ELSE "resize")
    /\ UNCHANGED <<poolVars, queueVars, resizeVars, threadVars, submitVars, calls>>

\* Makes the provider that replaces the present one; zero threads need none.
Construct(c) ==
    LET n == ctl[c].count
        p == made + 1
    IN
    /\ ctl[c].at = "replace"
    /\ IF n = 0
       THEN /\ ctl' = [ctl EXCEPT ![c].at = "exchange", ![c].prov = NoProvider]
            /\ UNCHANGED <<made, size, threadCount, worker>>
       ELSE /\ p \in Provider
            /\ made' = p
            /\ size' = [size EXCEPT ![p] = n]
            /\ threadCount' = [threadCount EXCEPT ![p] = n]
            /\ worker' = Started(p, n)
            /\ ctl' = [ctl EXCEPT ![c].at = "exchange", ![c].prov = p]
    /\ UNCHANGED <<provider, queueVars, stopping, threadMutex, job, submitVars, calls>>

\* setProvider: the old provider, if there is one, is finished.
Exchange(c) ==
    /\ ctl[c].at = "exchange"
    /\ provider' = ctl[c].prov
    /\ ctl' = [ctl EXCEPT ![c] = IF provider = NoProvider THEN Idle
                                 ELSE [at |-> "finish", prov |-> provider, count |-> 0]]
    /\ UNCHANGED <<made, queueVars, resizeVars, threadVars, submitVars, calls>>

\* setNumThreads and finish of the provider lock _threadMutex; only a smaller
\* count, or finish, stops the threads that are there.
LockThreads(c) ==
    LET p == ctl[c].prov IN
    /\ ctl[c].at \in {"resize", "finish"}
    /\ threadMutex[p] = NoController
    /\ threadMutex' = [threadMutex EXCEPT ![p] = c]
    /\ Move(c, IF ctl[c].at = "finish" \/ ctl[c].count < size[p] THEN "stop" ELSE "start")
    /\ UNCHANGED <<poolVars, queueVars, stopping, threadCount, size, threadVars, submitVars, calls>>

Stop(c) ==
    /\ ctl[c].at = "stop"
    /\ stopping' = [stopping EXCEPT ![ctl[c].prov] = TRUE]
    /\ Move(c, "postAll")
    /\ UNCHANGED <<poolVars, queueVars, threadCount, size, threadMutex, threadVars, submitVars, calls>>

\* Bug: one post too few.
BadPostAll(c) ==
    LET p == ctl[c].prov IN
    /\ ctl[c].at = "postAll"
    /\ sem' = [sem EXCEPT ![p] = @ + size[p] - 1]
    /\ Move(c, "join")
    /\ UNCHANGED <<poolVars, tasks, resizeVars, threadVars, submitVars, calls>>

PostAll(c) ==
    LET p == ctl[c].prov IN
    /\ ctl[c].at = "postAll"
    /\ sem' = [sem EXCEPT ![p] = @ + size[p]]
    /\ Move(c, "join")
    /\ UNCHANGED <<poolVars, tasks, resizeVars, threadVars, submitVars, calls>>

\* All threads joined: the vector is cleared and the atomics are reset.  A count
\* of zero is finish, which unlocks; a resize goes on to start threads.
Join(c) ==
    LET p == ctl[c].prov IN
    /\ ctl[c].at = "join"
    /\ \A w \in Crew(p) : worker[w] = "exited"
    /\ worker' = [w \in Thread |-> IF w[1] = p THEN "none" ELSE worker[w]]
    /\ size' = [size EXCEPT ![p] = 0]
    /\ threadCount' = [threadCount EXCEPT ![p] = 0]
    /\ stopping' = [stopping EXCEPT ![p] = FALSE]
    /\ IF ctl[c].count = 0
       THEN threadMutex' = [threadMutex EXCEPT ![p] = NoController] /\ ctl' = [ctl EXCEPT ![c] = Idle]
       ELSE threadMutex' = threadMutex /\ Move(c, "start")
    /\ UNCHANGED <<poolVars, queueVars, job, submitVars, calls>>

Start(c) ==
    LET p == ctl[c].prov
        n == ctl[c].count
    IN
    /\ ctl[c].at = "start"
    /\ size' = [size EXCEPT ![p] = n]
    /\ worker' = Started(p, n)
    /\ threadCount' = [threadCount EXCEPT ![p] = n]
    /\ threadMutex' = [threadMutex EXCEPT ![p] = NoController]
    /\ ctl' = [ctl EXCEPT ![c] = Idle]
    /\ UNCHANGED <<poolVars, queueVars, stopping, job, submitVars, calls>>

-----------------------------------------------------------------------------
Submit(t) == GetProvider(t) \/ RunInline(t) \/ Push(t) \/ Post(t)
ThreadLoop(w) == Wake(w) \/ Take(w) \/ Process(w) \/ NothingToTake(w)
Resize(c) ==
    \/ Compare(c) \/ Construct(c) \/ Exchange(c) \/ LockThreads(c)
    \/ Stop(c) \/ PostAll(c) \/ Join(c) \/ Start(c)

\* Nobody calls the pool any more; its threads wait for work.
AtRest ==
    /\ \A t \in Task : sub[t] = "returned"
    /\ calls = MaxCalls /\ \A c \in Controller : ctl[c].at = "idle"
    /\ UNCHANGED vars

Next ==
    \/ AtRest
    \/ \E t \in Task : Submit(t)
    \/ \E w \in Thread : ThreadLoop(w)
    \/ \E c \in Controller : Resize(c) \/ \E n \in 0 .. MaxThreads : Call(c, n)

Spec == Init /\ [][Next]_vars

(***************************************************************************)
(* A thread that can take a step takes it in the end, and a call that      *)
(* began goes on.  Which tasks are added and which counts are asked for is *)
(* the program's choice and has no fairness.  Weak fairness is enough: a   *)
(* post or an unlock stays until some waiting thread uses it.              *)
(***************************************************************************)
Fairness ==
    /\ \A t \in Task : WF_vars(RunInline(t) \/ Push(t) \/ Post(t))
    /\ \A w \in Thread : WF_vars(ThreadLoop(w))
    /\ \A c \in Controller : WF_vars(Resize(c))

FairSpec == Spec /\ Fairness
-----------------------------------------------------------------------------
InState(p, st) == {w \in Crew(p) : worker[w] = st}
Unposted(p) == {t \in Task : sub[t] = "pushed" /\ via[t] = p}

\* Posts of lockedFinish that no thread has used to exit yet.
StopCredit(p) ==
    IF \E c \in Controller : ctl[c].at = "join" /\ ctl[c].prov = p
    THEN size[p] - Cardinality(InState(p, "exited")) ELSE 0

(***************************************************************************)
(* No wake-up is lost and none is left over: what the semaphore still      *)
(* holds, with the threads it has just let through, is what the queue      *)
(* holds, less the tasks whose post is under way, and the posts that are   *)
(* to stop the threads.  Holds while providers are stopped, restarted with *)
(* fewer threads, and used after the pool dropped them.                    *)
(***************************************************************************)
WakeupsExact ==
    \A p \in Provider :
        sem[p] + Cardinality(InState(p, "awake"))
            = Len(tasks[p]) - Cardinality(Unposted(p)) + StopCredit(p)

\* The occurrences of t in queues, in threads and among the finished.
Places(t) ==
    Cardinality({e \in Provider \X (1 .. Cardinality(Task)) :
                    e[2] <= Len(tasks[e[1]]) /\ tasks[e[1]][e[2]] = t})
    + Cardinality({w \in Thread : job[w] = t})
    + (IF t \in done THEN 1 ELSE 0)

(***************************************************************************)
(* A task that was handed over is in exactly one place - one queue, one    *)
(* thread, or finished - whatever providers come and go: it is neither     *)
(* duplicated nor dropped (Task is deleted by whoever runs it, so a second *)
(* run would use freed memory).                                            *)
(***************************************************************************)
TaskInOnePlace ==
    \A t \in Task : Places(t) = IF sub[t] \in {"pushed", "returned"} THEN 1 ELSE 0

(***************************************************************************)
(* A task in the queue of a provider that still has a thread in threadLoop *)
(* is executed: lockedFinish lets the threads drain the queue first, and a *)
(* thread that finds nothing goes back to wait.                            *)
(***************************************************************************)
QueuedTaskRuns ==
    \A t \in Task : \A p \in Provider :
        (/\ \E i \in 1 .. Len(tasks[p]) : tasks[p][i] = t
         /\ \E w \in Crew(p) : worker[w] \in {"waiting", "awake", "running"})
            ~> t \in done

(***************************************************************************)
(* A call of setNumThreads that came to a provider to resize it or to      *)
(* finish it returns: it gets _threadMutex from another caller, and the    *)
(* posts of lockedFinish reach every thread that it joins, also with tasks *)
(* in the queue and with two callers resizing the same provider.           *)
(***************************************************************************)
SetNumThreadsReturns ==
    \A c \in Controller : ctl[c].at \in {"resize", "finish"} ~> ctl[c].at = "idle"
=============================================================================
