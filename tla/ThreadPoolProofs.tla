-------------------------- MODULE ThreadPoolProofs --------------------------
(***************************************************************************)
(* The queue of the thread pool for any tasks, threads, providers and      *)
(* calls of setNumThreads: where a task is, and what the semaphore of a    *)
(* provider is worth.                                                      *)
(***************************************************************************)
EXTENDS ThreadPool, FiniteSetTheorems, SequenceTheorems, TLAPS

Worker == {"none", "waiting", "awake", "running", "exited"}
Submission == {"idle", "inline", "got", "pushed", "returned"}
ControlAt == {"idle", "replace", "compare", "exchange", "resize", "finish",
              "stop", "postAll", "join", "start"}
Control == [at : ControlAt, prov : 0 .. MaxProviders, count : 0 .. MaxThreads]

TypeOK ==
    /\ provider \in 0 .. MaxProviders /\ made \in 0 .. MaxProviders
    /\ tasks \in [Provider -> Seq(Task)] /\ sem \in [Provider -> Nat]
    /\ stopping \in [Provider -> BOOLEAN] /\ size \in [Provider -> 0 .. MaxThreads]
    /\ threadMutex \in [Provider -> Controller \cup {NoController}]
    /\ worker \in [Thread -> Worker] /\ job \in [Thread -> Task \cup {NoTask}]
    /\ sub \in [Task -> Submission] /\ via \in [Task -> 0 .. MaxProviders]
    /\ done \subseteq Task
    /\ ctl \in [Controller -> Control]

-----------------------------------------------------------------------------
(* Where a task is.                                                         *)

Queued(t) == \E p \in Provider : \E i \in 1 .. Len(tasks[p]) : tasks[p][i] = t
Running(t) == \E w \in Thread : job[w] = t
Handed(t) == sub[t] \in {"pushed", "returned"}

\* A task is at one place of one queue, ...
QueuesDisjoint ==
    \A p, q \in Provider : \A i \in 1 .. Len(tasks[p]), j \in 1 .. Len(tasks[q]) :
        tasks[p][i] = tasks[q][j] => p = q /\ i = j

\* ... or in one thread, ...
ThreadsDisjoint == \A w, v \in Thread : job[w] = job[v] /\ job[w] # NoTask => w = v

\* ... or finished, and it is there if it was handed over.
OnePlace ==
    \A t \in Task : /\ ~(Queued(t) /\ Running(t)) /\ ~(Queued(t) /\ t \in done)
                    /\ ~(Running(t) /\ t \in done)
                    /\ Handed(t) <=> Queued(t) \/ Running(t) \/ t \in done

BusyHasJob == \A w \in Thread : worker[w] = "running" <=> job[w] # NoTask
HasProvider == \A t \in Task : sub[t] \in {"got", "pushed"} => via[t] \in Provider

-----------------------------------------------------------------------------
(* The threads and those who stop them.                                     *)

Joining(p) == \E c \in Controller : ctl[c].at = "join" /\ ctl[c].prov = p
HoldsMutex(c) == ctl[c].at \in {"stop", "postAll", "join", "start"}

\* The threads of the vector are there, and no others.
CrewsExact == \A w \in Thread : worker[w] = "none" <=> w[2] > size[w[1]]

\* Nobody knows a provider that was not made yet.
Unmade ==
    /\ provider <= made /\ \A c \in Controller : ctl[c].prov <= made
    /\ \A p \in Provider : p > made => size[p] = 0

\* What a call of setNumThreads relies on.
SoundAt(c) ==
    /\ ctl[c].at \in {"compare", "resize", "finish", "stop", "postAll", "join", "start"}
           => ctl[c].prov \in Provider
    /\ HoldsMutex(c) => threadMutex[ctl[c].prov] = c
    /\ ctl[c].at = "start" => ctl[c].count >= size[ctl[c].prov]
    /\ ctl[c].at \in {"postAll", "join"} => stopping[ctl[c].prov]

ControlSound == \A c \in Controller : SoundAt(c)

\* A thread leaves only while somebody waits for it.
ExitsJoined == \A w \in Thread : worker[w] = "exited" => Joining(w[1])

PlaceInv == QueuesDisjoint /\ ThreadsDisjoint /\ OnePlace /\ BusyHasJob /\ HasProvider
ResizeInv == CrewsExact /\ Unmade /\ ControlSound /\ ExitsJoined
PoolInv == TypeOK /\ PlaceInv /\ ResizeInv /\ WakeupsExact

-----------------------------------------------------------------------------
(* Types.                                                                   *)

OthersStay(c) == \A d \in Controller \ {c} : ctl'[d] = ctl[d]

LEMMA SetControl ==
    ASSUME TypeOK, NEW c \in Controller, NEW rec \in Control, ctl' = [ctl EXCEPT ![c] = rec]
    PROVE  ctl' \in [Controller -> Control] /\ ctl'[c] = rec /\ OthersStay(c)
  BY DEF TypeOK, OthersStay

LEMMA Moved ==
    ASSUME TypeOK, NEW c \in Controller, NEW at \in ControlAt, Move(c, at)
    PROVE  /\ ctl' \in [Controller -> Control] /\ OthersStay(c)
           /\ ctl'[c].at = at /\ ctl'[c].prov = ctl[c].prov /\ ctl'[c].count = ctl[c].count
  <1> DEFINE rec == [ctl[c] EXCEPT !.at = at]
  <1>1. /\ rec \in Control
        /\ rec.at = at /\ rec.prov = ctl[c].prov /\ rec.count = ctl[c].count
    BY DEF TypeOK, Control
  <1>2. ctl' = [ctl EXCEPT ![c] = rec]
    BY Zenon DEF Move
  <1> HIDE DEF rec
  <1>3. QED
    BY <1>1, <1>2, SetControl

LEMMA IdleIsControl == Idle \in Control /\ Idle.at = "idle" /\ Idle.prov = 0 /\ Idle.count = 0
  BY PoolAssumption DEF Idle, Control, ControlAt, NoProvider

LEMMA SubmitType == ASSUME PoolInv, NEW t \in Task, Submit(t) PROVE TypeOK'
  <1> USE DEF poolVars, queueVars, threadVars, resizeVars
  <1>1. CASE GetProvider(t)
    BY <1>1 DEF GetProvider, PoolInv, TypeOK, Submission
  <1>2. CASE RunInline(t)
    BY <1>2 DEF RunInline, PoolInv, TypeOK, Submission
  <1>3. CASE Push(t)
    <2> DEFINE p == via[t]
               q == Append(tasks[p], t)
    <2>0. tasks' = [tasks EXCEPT ![p] = q]
      BY <1>3 DEF Push
    <2>1. tasks' \in [Provider -> Seq(Task)]
      <3>1. p \in Provider => q \in Seq(Task)
        BY AppendProperties DEF PoolInv, TypeOK
      <3> HIDE DEF p, q
      <3>2. QED
        BY <2>0, <3>1 DEF PoolInv, TypeOK
    <2>2. sub' \in [Task -> Submission]
      BY <1>3 DEF Push, PoolInv, TypeOK, Submission
    <2>3. QED
      BY <1>3, <2>1, <2>2 DEF Push, PoolInv, TypeOK
  <1>4. CASE Post(t)
    <2> DEFINE p == via[t]
    <2>0. sem' = [sem EXCEPT ![p] = @ + 1] /\ sem \in [Provider -> Nat] /\ p \in Provider
      BY <1>4 DEF Post, PoolInv, PlaceInv, HasProvider, TypeOK
    <2>1. sem' \in [Provider -> Nat]
      <3> HIDE DEF p
      <3>1. QED
        BY <2>0
    <2>2. sub' \in [Task -> Submission]
      BY <1>4 DEF Post, PoolInv, TypeOK, Submission
    <2>3. QED
      BY <1>4, <2>1, <2>2 DEF Post, PoolInv, TypeOK
  <1>5. QED
    BY <1>1, <1>2, <1>3, <1>4 DEF Submit

LEMMA Shorter ==
    ASSUME NEW q \in Seq(Task), q # <<>>
    PROVE  /\ Len(q) \in Nat \ {0} /\ q[Len(q)] \in Task
           /\ SubSeq(q, 1, Len(q) - 1) \in Seq(Task)
           /\ Len(SubSeq(q, 1, Len(q) - 1)) = Len(q) - 1
           /\ \A i \in 1 .. Len(q) - 1 : SubSeq(q, 1, Len(q) - 1)[i] = q[i]
  <1>1. Len(q) \in Nat \ {0} /\ \A i \in 1 .. Len(q) : q[i] \in Task
    BY LenProperties, EmptySeq, ElementOfSeq
  <1> DEFINE n == Len(q) - 1
  <1>2. n \in Nat /\ Len(q) = n + 1
    BY <1>1
  <1> HIDE DEF n
  <1>3. \A i \in 1 .. n : q[i] \in Task
    BY <1>1, <1>2
  <1>4. /\ SubSeq(q, 1, n) \in Seq(Task)
        /\ Len(SubSeq(q, 1, n)) = n
        /\ \A i \in 1 .. n : SubSeq(q, 1, n)[i] = q[i]
    <2>1. /\ SubSeq(q, 1, n) \in Seq(Task)
          /\ Len(SubSeq(q, 1, n)) = IF 1 <= n THEN n - 1 + 1 ELSE 0
          /\ \A i \in 1 .. n - 1 + 1 : SubSeq(q, 1, n)[i] = q[1 + i - 1]
      BY <1>2, <1>3, SubSeqProperties
    <2>2. \A i \in 1 .. n : 1 + i - 1 = i
      BY <1>2
    <2>3. n - 1 + 1 = n /\ (~(1 <= n) => n = 0)
      BY <1>2
    <2>4. QED
      BY <2>1, <2>2, <2>3
  <1>5. QED
    BY <1>1, <1>2, <1>4 DEF n

LEMMA LoopType == ASSUME PoolInv, NEW w \in Thread, ThreadLoop(w) PROVE TypeOK'
  <1> USE DEF poolVars, queueVars, resizeVars, submitVars
  <1>1. CASE Wake(w)
    BY <1>1 DEF Wake, PoolInv, TypeOK, Worker, Thread
  <1>2. CASE Take(w)
    <2> DEFINE q == tasks[w[1]]
    <2>1. w[1] \in Provider /\ q \in Seq(Task) /\ q # <<>>
      BY <1>2 DEF Take, PoolInv, TypeOK, Thread
    <2>2. tasks' = [tasks EXCEPT ![w[1]] = SubSeq(q, 1, Len(q) - 1)]
      BY <1>2 DEF Take
    <2>3. job' = [job EXCEPT ![w] = q[Len(q)]]
      BY <1>2 DEF Take
    <2> HIDE DEF q
    <2>4. tasks' \in [Provider -> Seq(Task)] /\ job' \in [Thread -> Task \cup {NoTask}]
      BY <2>1, <2>2, <2>3, Shorter DEF PoolInv, TypeOK
    <2>5. QED
      BY <1>2, <2>4 DEF Take, PoolInv, TypeOK, Worker
  <1>3. CASE Process(w)
    <2>1. job[w] \in Task
      BY <1>3 DEF Process, PoolInv, PlaceInv, BusyHasJob, TypeOK
    <2>2. QED
      BY <1>3, <2>1 DEF Process, PoolInv, TypeOK, Worker
  <1>4. CASE NothingToTake(w)
    BY <1>4 DEF NothingToTake, PoolInv, TypeOK, Worker
  <1>5. QED
    BY <1>1, <1>2, <1>3, <1>4 DEF ThreadLoop

LEMMA StartedType ==
    ASSUME TypeOK, NEW p, NEW n PROVE Started(p, n) \in [Thread -> Worker]
  BY DEF Started, TypeOK, Worker

LEMMA CallType ==
    ASSUME PoolInv, NEW c \in Controller, NEW n \in 0 .. MaxThreads, Call(c, n)
    PROVE  TypeOK' /\ OthersStay(c)
           /\ ctl'[c].at \in {"replace", "compare"} /\ ctl'[c].prov = provider
           /\ (ctl'[c].at = "compare" => provider # NoProvider)
  <1> DEFINE at == IF provider = NoProvider THEN "replace" ELSE "compare"
             rec == [at |-> at, prov |-> provider, count |-> n]
  <1>1. rec \in Control /\ rec.at = at /\ rec.prov = provider
    BY DEF Control, ControlAt, PoolInv, TypeOK
  <1>2. ctl' = [ctl EXCEPT ![c] = rec]
    BY Zenon DEF Call
  <1> HIDE DEF rec
  <1>3. ctl' \in [Controller -> Control] /\ ctl'[c] = rec /\ OthersStay(c)
    BY <1>1, <1>2, SetControl DEF PoolInv
  <1>4. TypeOK'
    BY <1>3 DEF Call, PoolInv, TypeOK, poolVars, queueVars, resizeVars, threadVars, submitVars
  <1>5. QED
    BY <1>1, <1>3, <1>4

LEMMA ConstructType ==
    ASSUME PoolInv, NEW c \in Controller, Construct(c)
    PROVE  TypeOK' /\ OthersStay(c) /\ ctl'[c].at = "exchange"
           /\ IF ctl[c].count = 0
              THEN ctl'[c].prov = NoProvider /\ UNCHANGED <<made, size, worker>>
              ELSE /\ made + 1 \in Provider /\ made' = made + 1 /\ ctl'[c].prov = made + 1
                   /\ size' = [size EXCEPT ![made + 1] = ctl[c].count]
                   /\ worker' = Started(made + 1, ctl[c].count)
  <1> DEFINE n == ctl[c].count
             p == IF n = 0 THEN NoProvider ELSE made + 1
             rec == [ctl[c] EXCEPT !.at = "exchange", !.prov = p]
  <1>1. p \in 0 .. MaxProviders /\ (n # 0 => p \in Provider)
    BY PoolAssumption DEF Construct, NoProvider, Provider
  <1>2. rec \in Control /\ rec.at = "exchange" /\ rec.prov = p
    <2> HIDE DEF p
    <2>1. QED
      BY <1>1 DEF Control, ControlAt, PoolInv, TypeOK
  <1>3. ctl' = [ctl EXCEPT ![c] = rec]
    <2>1. CASE n = 0
      BY <2>1, Zenon DEF Construct
    <2>2. CASE n # 0
      BY <2>2, Zenon DEF Construct
    <2>3. QED
      BY <2>1, <2>2
  <1> HIDE DEF rec
  <1>4. ctl' \in [Controller -> Control] /\ ctl'[c] = rec /\ OthersStay(c)
    BY <1>2, <1>3, SetControl DEF PoolInv
  <1>5. UNCHANGED <<provider, queueVars, stopping, threadMutex, job, submitVars>>
    BY DEF Construct
  <1>6. n \in 0 .. MaxThreads
    BY DEF PoolInv, TypeOK, Control
  <1>7. CASE n = 0
    <2>1. UNCHANGED <<made, size, worker>>
      BY <1>7 DEF Construct
    <2>2. TypeOK'
      BY <1>4, <1>5, <2>1 DEF PoolInv, TypeOK, queueVars, submitVars
    <2>3. QED
      BY <1>2, <1>4, <1>7, <2>1, <2>2
  <1>8. CASE n # 0
    <2>1. /\ made + 1 \in Provider /\ made' = made + 1
          /\ size' = [size EXCEPT ![made + 1] = n] /\ worker' = Started(made + 1, n)
      BY <1>8 DEF Construct
    <2>2. made' \in 0 .. MaxProviders
      BY <2>1, PoolAssumption DEF Provider
    <2>3. worker' \in [Thread -> Worker]
      BY <2>1, StartedType DEF PoolInv
    <2>4. size' \in [Provider -> 0 .. MaxThreads]
      <3> HIDE DEF n
      <3>1. QED
        BY <1>6, <2>1 DEF PoolInv, TypeOK
    <2>5. TypeOK'
      BY <1>4, <1>5, <2>2, <2>3, <2>4 DEF PoolInv, TypeOK, queueVars, submitVars
    <2>6. QED
      BY <1>2, <1>4, <1>8, <2>1, <2>5
  <1>9. QED
    BY <1>7, <1>8

LEMMA ExchangeType ==
    ASSUME PoolInv, NEW c \in Controller, Exchange(c)
    PROVE  TypeOK' /\ OthersStay(c) /\ provider' = ctl[c].prov
           /\ \/ ctl'[c].at = "idle" /\ ctl'[c].prov = 0
              \/ ctl'[c].at = "finish" /\ ctl'[c].prov = provider /\ provider # NoProvider
  <1> DEFINE rec == IF provider = NoProvider THEN Idle
                    ELSE [at |-> "finish", prov |-> provider, count |-> 0]
  <1>1. rec \in Control
    BY IdleIsControl, PoolAssumption DEF Control, ControlAt, PoolInv, TypeOK
  <1>2. \/ rec.at = "idle" /\ rec.prov = 0
        \/ rec.at = "finish" /\ rec.prov = provider /\ provider # NoProvider
    BY IdleIsControl
  <1>3. ctl' = [ctl EXCEPT ![c] = rec]
    BY Zenon DEF Exchange
  <1> HIDE DEF rec
  <1>4. ctl' \in [Controller -> Control] /\ ctl'[c] = rec /\ OthersStay(c)
    BY <1>1, <1>3, SetControl DEF PoolInv
  <1>5. provider' \in 0 .. MaxProviders /\ provider' = ctl[c].prov
    BY DEF Exchange, PoolInv, TypeOK, Control
  <1>6. TypeOK'
    BY <1>4, <1>5
    DEF Exchange, PoolInv, TypeOK, queueVars, resizeVars, threadVars, submitVars
  <1>7. QED
    BY <1>2, <1>4, <1>5, <1>6

LEMMA CompareType ==
    ASSUME PoolInv, NEW c \in Controller, Compare(c)
    PROVE  TypeOK' /\ OthersStay(c) /\ ctl'[c].prov = ctl[c].prov
           /\ ctl'[c].at \in {"idle", "replace", "resize"}
  <1> DEFINE at == IF ctl[c].count = threadCount[ctl[c].prov] THEN "idle"
                   ELSE IF ctl[c].count = 0 THEN "replace" ELSE "resize"
  <1>1. Move(c, at)
    BY DEF Compare
  <1>2. at \in ControlAt
    BY DEF ControlAt
  <1>3. /\ ctl' \in [Controller -> Control] /\ OthersStay(c)
        /\ ctl'[c].at = at /\ ctl'[c].prov = ctl[c].prov
    BY <1>1, <1>2, Moved DEF PoolInv
  <1>4. TypeOK'
    BY <1>3
    DEF Compare, PoolInv, TypeOK, poolVars, queueVars, resizeVars, threadVars, submitVars
  <1>5. QED
    BY <1>3, <1>4

LEMMA LockThreadsType ==
    ASSUME PoolInv, NEW c \in Controller, LockThreads(c)
    PROVE  TypeOK' /\ OthersStay(c) /\ ctl'[c].prov = ctl[c].prov
           /\ ctl'[c].count = ctl[c].count /\ ctl'[c].at \in {"stop", "start"}
           /\ (ctl'[c].at = "start" => ~(ctl[c].count < size[ctl[c].prov]))
  <1> DEFINE at == IF ctl[c].at = "finish" \/ ctl[c].count < size[ctl[c].prov]
                   THEN "stop" ELSE "start"
  <1>1. Move(c, at)
    BY DEF LockThreads
  <1>2. at \in ControlAt
    BY DEF ControlAt
  <1>3. /\ ctl' \in [Controller -> Control] /\ OthersStay(c)
        /\ ctl'[c].at = at /\ ctl'[c].prov = ctl[c].prov /\ ctl'[c].count = ctl[c].count
    BY <1>1, <1>2, Moved DEF PoolInv
  <1>4. threadMutex' \in [Provider -> Controller \cup {NoController}]
    BY DEF LockThreads, PoolInv, TypeOK
  <1>5. TypeOK'
    BY <1>3, <1>4
    DEF LockThreads, PoolInv, TypeOK, poolVars, queueVars, threadVars, submitVars
  <1>6. QED
    BY <1>3, <1>5

LEMMA StopType ==
    ASSUME PoolInv, NEW c \in Controller, Stop(c)
    PROVE  TypeOK' /\ OthersStay(c) /\ ctl'[c].prov = ctl[c].prov /\ ctl'[c].at = "postAll"
  <1>1. /\ ctl' \in [Controller -> Control] /\ OthersStay(c)
        /\ ctl'[c].at = "postAll" /\ ctl'[c].prov = ctl[c].prov
    BY Moved DEF Stop, PoolInv, ControlAt
  <1>2. stopping' \in [Provider -> BOOLEAN]
    BY DEF Stop, PoolInv, TypeOK
  <1>3. TypeOK'
    BY <1>1, <1>2 DEF Stop, PoolInv, TypeOK, poolVars, queueVars, threadVars, submitVars
  <1>4. QED
    BY <1>1, <1>3

LEMMA PostAllType ==
    ASSUME PoolInv, NEW c \in Controller, PostAll(c)
    PROVE  TypeOK' /\ OthersStay(c) /\ ctl'[c].prov = ctl[c].prov /\ ctl'[c].at = "join"
  <1> DEFINE p == ctl[c].prov
  <1>1. /\ ctl' \in [Controller -> Control] /\ OthersStay(c)
        /\ ctl'[c].at = "join" /\ ctl'[c].prov = ctl[c].prov
    BY Moved DEF PostAll, PoolInv, ControlAt
  <1>2. p \in Provider
    BY DEF PostAll, PoolInv, ResizeInv, ControlSound, SoundAt
  <1>3. sem' = [sem EXCEPT ![p] = @ + size[p]] /\ sem \in [Provider -> Nat] /\ size[p] \in Nat
    BY <1>2 DEF PostAll, PoolInv, TypeOK
  <1>4. sem' \in [Provider -> Nat]
    <2> HIDE DEF p
    <2>1. QED
      BY <1>2, <1>3
  <1>5. TypeOK'
    BY <1>1, <1>4 DEF PostAll, PoolInv, TypeOK, poolVars, resizeVars, threadVars, submitVars
  <1>6. QED
    BY <1>1, <1>5

LEMMA JoinType ==
    ASSUME PoolInv, NEW c \in Controller, Join(c)
    PROVE  TypeOK' /\ OthersStay(c)
           /\ \/ ctl'[c].at = "idle" /\ ctl'[c].prov = 0
              \/ /\ ctl'[c].at = "start" /\ ctl'[c].prov = ctl[c].prov
                 /\ ctl'[c].count = ctl[c].count /\ threadMutex' = threadMutex
  <1>1. ctl' \in [Controller -> Control] /\ OthersStay(c)
        /\ \/ ctl'[c].at = "idle" /\ ctl'[c].prov = 0
           \/ /\ ctl'[c].at = "start" /\ ctl'[c].prov = ctl[c].prov
              /\ ctl'[c].count = ctl[c].count /\ threadMutex' = threadMutex
    <2>1. CASE ctl[c].count = 0
      <3>1. ctl' = [ctl EXCEPT ![c] = Idle]
        BY <2>1 DEF Join
      <3>2. QED
        BY <3>1, IdleIsControl, SetControl DEF PoolInv
    <2>2. CASE ctl[c].count # 0
      <3>1. Move(c, "start") /\ threadMutex' = threadMutex
        BY <2>2 DEF Join
      <3>2. QED
        BY <3>1, Moved DEF PoolInv, ControlAt
    <2>3. QED
      BY <2>1, <2>2
  <1>2. stopping' \in [Provider -> BOOLEAN]
    BY DEF Join, PoolInv, TypeOK
  <1>3. size' \in [Provider -> 0 .. MaxThreads]
    <2> DEFINE p == ctl[c].prov
    <2>1. size' = [size EXCEPT ![p] = 0] /\ size \in [Provider -> 0 .. MaxThreads]
      BY DEF Join, PoolInv, TypeOK
    <2>2. 0 \in 0 .. MaxThreads
      BY PoolAssumption
    <2> HIDE DEF p
    <2>3. QED
      BY <2>1, <2>2
  <1>4. worker' \in [Thread -> Worker]
    BY DEF Join, PoolInv, TypeOK, Worker
  <1>5. threadMutex' \in [Provider -> Controller \cup {NoController}]
    BY DEF Join, PoolInv, TypeOK
  <1>6. TypeOK'
    BY <1>1, <1>2, <1>3, <1>4, <1>5
    DEF Join, PoolInv, TypeOK, poolVars, queueVars, submitVars
  <1>7. QED
    BY <1>1, <1>6

LEMMA StartType ==
    ASSUME PoolInv, NEW c \in Controller, Start(c)
    PROVE  TypeOK' /\ OthersStay(c) /\ ctl'[c].at = "idle" /\ ctl'[c].prov = 0
  <1>1. ctl' \in [Controller -> Control] /\ ctl'[c] = Idle /\ OthersStay(c)
    BY IdleIsControl, SetControl DEF Start, PoolInv
  <1>2. worker' \in [Thread -> Worker]
    BY StartedType DEF Start, PoolInv
  <1>3. ctl[c].count \in 0 .. MaxThreads
    BY DEF PoolInv, TypeOK, Control
  <1>4. size' \in [Provider -> 0 .. MaxThreads]
    BY <1>3 DEF Start, PoolInv, TypeOK
  <1>5. threadMutex' \in [Provider -> Controller \cup {NoController}]
    BY DEF Start, PoolInv, TypeOK
  <1>6. TypeOK'
    BY <1>1, <1>2, <1>4, <1>5 DEF Start, PoolInv, TypeOK, poolVars, queueVars, submitVars
  <1>7. QED
    BY <1>1, <1>6, IdleIsControl

-----------------------------------------------------------------------------
(* Where the tasks are.                                                     *)

\* The threads may come and go, as long as those that run a task do not.
LEMMA PlacesStay ==
    ASSUME PoolInv, UNCHANGED <<tasks, job, sub, via, done>>,
           \A w \in Thread : worker'[w] = "running" <=> worker[w] = "running"
    PROVE  PlaceInv'
  <1>1. QueuesDisjoint' /\ ThreadsDisjoint' /\ HasProvider' /\ BusyHasJob'
    BY DEF PoolInv, PlaceInv, QueuesDisjoint, ThreadsDisjoint, HasProvider, BusyHasJob
  <1>2. OnePlace'
    BY DEF PoolInv, PlaceInv, OnePlace, Queued, Running, Handed
  <1>3. QED
    BY <1>1, <1>2 DEF PlaceInv

LEMMA SubmitKeepsPlaces == ASSUME PoolInv, NEW t \in Task, Submit(t) PROVE PlaceInv'
  <1> USE DEF poolVars, queueVars, threadVars, resizeVars
  <1>1. CASE GetProvider(t)
    <2>1. UNCHANGED <<tasks, job, worker, done>>
      BY <1>1 DEF GetProvider
    <2>2. /\ sub[t] = "idle" /\ sub'[t] \in {"inline", "got"}
          /\ sub'[t] = "got" => via'[t] \in Provider
          /\ \A u \in Task \ {t} : sub'[u] = sub[u] /\ via'[u] = via[u]
      BY <1>1, PoolAssumption DEF GetProvider, PoolInv, TypeOK, Provider, NoProvider
    <2>3. \A u \in Task : Handed(u)' <=> Handed(u)
      BY <2>2 DEF Handed
    <2>4. HasProvider'
      BY <2>2 DEF HasProvider, PoolInv, PlaceInv
    <2>5. OnePlace'
      BY <2>1, <2>3 DEF PoolInv, PlaceInv, OnePlace, Queued, Running
    <2>6. QED
      BY <2>1, <2>4, <2>5 DEF PoolInv, PlaceInv, QueuesDisjoint, ThreadsDisjoint, BusyHasJob
  <1>2. CASE RunInline(t)
    <2>1. UNCHANGED <<tasks, job, worker, via>> /\ done' = done \cup {t}
      BY <1>2 DEF RunInline
    <2>2. /\ sub[t] = "inline" /\ sub'[t] = "returned"
          /\ \A u \in Task \ {t} : sub'[u] = sub[u]
      BY <1>2 DEF RunInline, PoolInv, TypeOK
    <2>3. OnePlace'
      BY <2>1, <2>2 DEF PoolInv, PlaceInv, OnePlace, Queued, Running, Handed
    <2>4. HasProvider'
      BY <2>1, <2>2 DEF HasProvider, PoolInv, PlaceInv
    <2>5. QED
      BY <2>1, <2>3, <2>4 DEF PoolInv, PlaceInv, QueuesDisjoint, ThreadsDisjoint, BusyHasJob
  <1>3. CASE Push(t)
    <2> DEFINE p == via[t]
               n == Len(tasks[p]) + 1
    <2>1. UNCHANGED <<job, worker, via, done>>
      BY <1>3 DEF Push
    <2>2. /\ sub[t] = "got" /\ sub'[t] = "pushed"
          /\ \A u \in Task \ {t} : sub'[u] = sub[u]
      BY <1>3 DEF Push, PoolInv, TypeOK, Submission
    <2>3. p \in Provider /\ \A q \in Provider : Len(tasks[q]) \in Nat
      BY <2>2, LenProperties DEF PoolInv, PlaceInv, HasProvider, TypeOK
    <2>4. tasks' = [tasks EXCEPT ![p] = Append(tasks[p], t)]
      BY <1>3 DEF Push
    <2>5. /\ Len(tasks'[p]) = n /\ tasks'[p][n] = t
          /\ \A i \in 1 .. n - 1 : tasks'[p][i] = tasks[p][i]
          /\ \A q \in Provider \ {p} : tasks'[q] = tasks[q]
      BY <2>3, <2>4, AppendProperties DEF PoolInv, TypeOK
    <2>6. /\ n \in Nat \ {0} /\ Len(tasks[p]) = n - 1
          /\ \A i \in 1 .. n : i = n \/ i \in 1 .. n - 1
      BY <2>3
    <2> HIDE DEF p, n
    <2>7. ~Queued(t) /\ ~Running(t) /\ t \notin done
      BY <2>2 DEF PoolInv, PlaceInv, OnePlace, Handed
    <2> DEFINE Old(q, i) == i \in 1 .. Len(tasks[q]) /\ tasks'[q][i] = tasks[q][i]
               New(q, i) == q = p /\ i = n /\ tasks'[q][i] = t
    <2>13. ASSUME NEW q \in Provider, NEW i \in 1 .. Len(tasks'[q]) PROVE Old(q, i) \/ New(q, i)
      BY <2>5, <2>6
    <2>14. \A q \in Provider : \A i \in 1 .. Len(tasks[q]) : i \in 1 .. Len(tasks'[q]) /\ Old(q, i)
      BY <2>5, <2>6
    <2>15. n \in 1 .. Len(tasks'[p]) /\ New(p, n)
      BY <2>3, <2>5, <2>6
    <2>16. \A q \in Provider : \A i \in 1 .. Len(tasks[q]) : tasks[q][i] # t
      BY <2>7 DEF Queued
    <2> HIDE DEF Old, New
    <2>8. \A u \in Task : Queued(u)' <=> Queued(u) \/ u = t
      <3>1. ASSUME NEW u \in Task, Queued(u)' PROVE Queued(u) \/ u = t
        <4>1. PICK q \in Provider : \E i \in 1 .. Len(tasks'[q]) : tasks'[q][i] = u
          BY <3>1 DEF Queued
        <4>2. PICK i \in 1 .. Len(tasks'[q]) : tasks'[q][i] = u
          BY <4>1
        <4>3. QED
          BY <2>13, <4>2 DEF Queued, Old, New
      <3>2. ASSUME NEW u \in Task, Queued(u) PROVE Queued(u)'
        <4>1. PICK q \in Provider : \E i \in 1 .. Len(tasks[q]) : tasks[q][i] = u
          BY <3>2 DEF Queued
        <4>2. PICK i \in 1 .. Len(tasks[q]) : tasks[q][i] = u
          BY <4>1
        <4>3. i \in 1 .. Len(tasks'[q]) /\ tasks'[q][i] = u
          BY <2>14, <4>2 DEF Old
        <4>4. QED
          BY <4>3 DEF Queued
      <3>3. Queued(t)'
        BY <2>3, <2>15 DEF Queued, New
      <3>4. QED
        BY <3>1, <3>2, <3>3
    <2>9. OnePlace'
      BY <2>1, <2>2, <2>7, <2>8 DEF PoolInv, PlaceInv, OnePlace, Running, Handed
    <2>10. HasProvider'
      BY <2>1, <2>2 DEF HasProvider, PoolInv, PlaceInv
    <2>11. QueuesDisjoint'
      <3> SUFFICES ASSUME NEW q \in Provider, NEW r \in Provider,
                          NEW i \in 1 .. Len(tasks'[q]), NEW j \in 1 .. Len(tasks'[r]),
                          tasks'[q][i] = tasks'[r][j]
                   PROVE  q = r /\ i = j
        BY DEF QueuesDisjoint
      <3>0. (Old(q, i) \/ New(q, i)) /\ (Old(r, j) \/ New(r, j))
        BY <2>13
      <3>1. CASE New(q, i) \/ New(r, j)
        <4>1. ~Old(q, i) /\ ~Old(r, j)
          BY <2>16, <3>1 DEF Old, New
        <4>2. QED
          BY <3>0, <4>1 DEF New
      <3>2. CASE Old(q, i) /\ Old(r, j)
        <4>1. tasks[q][i] = tasks[r][j] /\ i \in 1 .. Len(tasks[q]) /\ j \in 1 .. Len(tasks[r])
          BY <3>2 DEF Old
        <4>2. QueuesDisjoint
          BY DEF PoolInv, PlaceInv
        <4>3. QED
          BY <4>1, <4>2, Zenon DEF QueuesDisjoint
      <3>3. QED
        BY <2>13, <3>1, <3>2
    <2>12. QED
      BY <2>1, <2>9, <2>10, <2>11 DEF PoolInv, PlaceInv, ThreadsDisjoint, BusyHasJob
  <1>4. CASE Post(t)
    <2>1. UNCHANGED <<tasks, job, worker, via, done>>
      BY <1>4 DEF Post
    <2>2. /\ sub[t] = "pushed" /\ sub'[t] = "returned"
          /\ \A u \in Task \ {t} : sub'[u] = sub[u]
      BY <1>4 DEF Post, PoolInv, TypeOK, Submission
    <2>3. OnePlace'
      BY <2>1, <2>2 DEF PoolInv, PlaceInv, OnePlace, Queued, Running, Handed
    <2>4. HasProvider'
      BY <2>1, <2>2 DEF HasProvider, PoolInv, PlaceInv
    <2>5. QED
      BY <2>1, <2>3, <2>4 DEF PoolInv, PlaceInv, QueuesDisjoint, ThreadsDisjoint, BusyHasJob
  <1>5. QED
    BY <1>1, <1>2, <1>3, <1>4 DEF Submit

\* What a thread takes leaves the back of the queue.
LEMMA Taken ==
    ASSUME PoolInv, NEW w \in Thread, Take(w)
    PROVE  LET p == w[1]
               n == Len(tasks[p])
           IN  /\ p \in Provider /\ n \in Nat \ {0} /\ job'[w] = tasks[p][n]
               /\ tasks[p][n] \in Task /\ Len(tasks'[p]) = n - 1
               /\ \A i \in 1 .. n - 1 : tasks'[p][i] = tasks[p][i]
               /\ \A q \in Provider \ {p} : tasks'[q] = tasks[q]
               /\ \A v \in Thread \ {w} : job'[v] = job[v] /\ worker'[v] = worker[v]
               /\ worker[w] = "awake" /\ worker'[w] = "running"
               /\ UNCHANGED <<sem, size, sub, via, done, ctl>>
  <1> DEFINE p == w[1]
             q == tasks[p]
  <1>1. p \in Provider /\ q \in Seq(Task) /\ q # <<>>
    BY DEF Take, PoolInv, TypeOK, Thread
  <1>2. /\ tasks' = [tasks EXCEPT ![p] = SubSeq(q, 1, Len(q) - 1)]
        /\ job' = [job EXCEPT ![w] = q[Len(q)]]
        /\ worker' = [worker EXCEPT ![w] = "running"] /\ worker[w] = "awake"
        /\ UNCHANGED <<sem, size, sub, via, done, ctl>>
    BY DEF Take, submitVars, resizeVars
  <1>3. /\ Len(q) \in Nat \ {0} /\ q[Len(q)] \in Task
        /\ Len(SubSeq(q, 1, Len(q) - 1)) = Len(q) - 1
        /\ \A i \in 1 .. Len(q) - 1 : SubSeq(q, 1, Len(q) - 1)[i] = q[i]
    <2> HIDE DEF q
    <2>1. QED
      BY <1>1, Shorter
  <1>4. tasks'[p] = SubSeq(q, 1, Len(q) - 1) /\ job'[w] = q[Len(q)]
    BY <1>1, <1>2 DEF PoolInv, TypeOK
  <1>5. /\ \A r \in Provider \ {p} : tasks'[r] = tasks[r]
        /\ \A v \in Thread \ {w} : job'[v] = job[v] /\ worker'[v] = worker[v]
        /\ worker'[w] = "running"
    BY <1>1, <1>2 DEF PoolInv, TypeOK
  <1>6. QED
    BY <1>1, <1>2, <1>3, <1>4, <1>5

LEMMA LoopKeepsPlaces == ASSUME PoolInv, NEW w \in Thread, ThreadLoop(w) PROVE PlaceInv'
  <1> USE DEF poolVars, queueVars, resizeVars, submitVars
  <1>1. CASE Wake(w) \/ NothingToTake(w)
    <2>1. UNCHANGED <<tasks, job, sub, via, done>>
      BY <1>1 DEF Wake, NothingToTake
    <2>2. \A v \in Thread : worker'[v] = "running" <=> worker[v] = "running"
      BY <1>1 DEF Wake, NothingToTake, PoolInv, TypeOK
    <2>3. QED
      BY <2>1, <2>2, PlacesStay
  <1>2. CASE Take(w)
    <2> DEFINE p == w[1]
               n == Len(tasks[p])
               t == tasks[p][n]
    <2>1. /\ p \in Provider /\ n \in Nat \ {0} /\ job'[w] = t
          /\ t \in Task /\ Len(tasks'[p]) = n - 1
          /\ \A i \in 1 .. n - 1 : tasks'[p][i] = tasks[p][i]
          /\ \A q \in Provider \ {p} : tasks'[q] = tasks[q]
          /\ \A v \in Thread \ {w} : job'[v] = job[v] /\ worker'[v] = worker[v]
          /\ worker[w] = "awake" /\ worker'[w] = "running"
          /\ UNCHANGED <<sub, via, done>>
      BY <1>2, Taken
    <2>2. Queued(t)
      BY <2>1 DEF Queued
    <2>3. job[w] = NoTask
      BY <2>1 DEF PoolInv, PlaceInv, BusyHasJob
    <2>4. t # NoTask
      BY <2>1, PoolAssumption
    <2>5. ~Running(t) /\ t \notin done /\ Handed(t)
      BY <2>1, <2>2 DEF PoolInv, PlaceInv, OnePlace
    <2>6. \A i \in 1 .. n : i = n \/ i \in 1 .. n - 1
      BY <2>1
    <2>7. \A i \in 1 .. n - 1 : i \in 1 .. n /\ i # n
      BY <2>1
    <2>8. n \in 1 .. n /\ Len(tasks[p]) = n
      BY <2>1
    <2> HIDE DEF p, n
    <2>9. \A u \in Task : Queued(u)' <=> Queued(u) /\ u # t
      <3>1. ASSUME NEW u \in Task, Queued(u)' PROVE Queued(u) /\ u # t
        <4>0. PICK q \in Provider : \E i \in 1 .. Len(tasks'[q]) : tasks'[q][i] = u
          BY <3>1 DEF Queued
        <4>1. PICK i \in 1 .. Len(tasks'[q]) : tasks'[q][i] = u
          BY <4>0
        <4>2. i \in 1 .. Len(tasks[q]) /\ tasks[q][i] = u /\ (q = p => i # n)
          BY <2>1, <2>7, <2>8, <4>1
        <4>3. QED
          BY <2>1, <2>8, <4>2 DEF Queued, PoolInv, PlaceInv, QueuesDisjoint
      <3>2. ASSUME NEW u \in Task, Queued(u), u # t PROVE Queued(u)'
        <4>0. PICK q \in Provider : \E i \in 1 .. Len(tasks[q]) : tasks[q][i] = u
          BY <3>2 DEF Queued
        <4>1. PICK i \in 1 .. Len(tasks[q]) : tasks[q][i] = u
          BY <4>0
        <4>2. i \in 1 .. Len(tasks'[q]) /\ tasks'[q][i] = u
          BY <2>1, <2>6, <2>8, <3>2, <4>1
        <4>3. QED
          BY <4>2 DEF Queued
      <3>3. QED
        BY <3>1, <3>2
    <2>10. \A u \in Task : Running(u)' <=> Running(u) \/ u = t
      BY <2>1, <2>3, PoolAssumption DEF Running
    <2>11. OnePlace'
      BY <2>1, <2>2, <2>5, <2>9, <2>10 DEF PoolInv, PlaceInv, OnePlace, Handed
    <2>12. QueuesDisjoint'
      <3> SUFFICES ASSUME NEW q \in Provider, NEW r \in Provider,
                          NEW i \in 1 .. Len(tasks'[q]), NEW j \in 1 .. Len(tasks'[r]),
                          tasks'[q][i] = tasks'[r][j]
                   PROVE  q = r /\ i = j
        BY DEF QueuesDisjoint
      <3>1. i \in 1 .. Len(tasks[q]) /\ tasks'[q][i] = tasks[q][i]
        BY <2>1, <2>7, <2>8
      <3>2. j \in 1 .. Len(tasks[r]) /\ tasks'[r][j] = tasks[r][j]
        BY <2>1, <2>7, <2>8
      <3>3. QED
        <4>1. tasks[q][i] = tasks[r][j] /\ i \in 1 .. Len(tasks[q]) /\ j \in 1 .. Len(tasks[r])
          BY <3>1, <3>2
        <4>2. QueuesDisjoint
          BY DEF PoolInv, PlaceInv
        <4>3. QED
          BY <4>1, <4>2, Zenon DEF QueuesDisjoint
    <2>13. ThreadsDisjoint'
      BY <2>1, <2>5 DEF PoolInv, PlaceInv, ThreadsDisjoint, Running
    <2>14. BusyHasJob' /\ HasProvider'
      BY <2>1, <2>4 DEF PoolInv, PlaceInv, BusyHasJob, HasProvider
    <2>15. QED
      BY <2>11, <2>12, <2>13, <2>14 DEF PlaceInv
  <1>3. CASE Process(w)
    <2> DEFINE t == job[w]
    <2>1. /\ UNCHANGED <<tasks, sub, via>> /\ done' = done \cup {t}
          /\ worker[w] = "running" /\ worker'[w] = "waiting" /\ job'[w] = NoTask
          /\ \A v \in Thread \ {w} : job'[v] = job[v] /\ worker'[v] = worker[v]
      BY <1>3 DEF Process, PoolInv, TypeOK
    <2>2. t \in Task
      BY <2>1 DEF PoolInv, PlaceInv, BusyHasJob, TypeOK
    <2>3. Running(t) /\ NoTask \notin Task
      BY <2>2, PoolAssumption DEF Running
    <2>4. \A v \in Thread \ {w} : job[v] # t
      BY <2>2, PoolAssumption DEF PoolInv, PlaceInv, ThreadsDisjoint
    <2> HIDE DEF t
    <2>5. \A u \in Task : Running(u)' <=> Running(u) /\ u # t
      BY <2>1, <2>3, <2>4 DEF Running, t
    <2>6. OnePlace'
      BY <2>1, <2>2, <2>3, <2>5 DEF PoolInv, PlaceInv, OnePlace, Queued, Handed
    <2>7. QueuesDisjoint' /\ ThreadsDisjoint' /\ BusyHasJob' /\ HasProvider'
      BY <2>1 DEF PoolInv, PlaceInv, QueuesDisjoint, ThreadsDisjoint, BusyHasJob, HasProvider
    <2>8. QED
      BY <2>6, <2>7 DEF PlaceInv
  <1>4. QED
    BY <1>1, <1>2, <1>3 DEF ThreadLoop

-----------------------------------------------------------------------------
(* What the semaphores are worth.                                           *)

Account(p) ==
    sem[p] + Cardinality(InState(p, "awake"))
        = Len(tasks[p]) - Cardinality(Unposted(p)) + StopCredit(p)

LEMMA CountsFinite ==
    ASSUME TypeOK, NEW p \in Provider
    PROVE  /\ IsFiniteSet(Crew(p)) /\ Cardinality(Crew(p)) = size[p]
           /\ \A st : IsFiniteSet(InState(p, st)) /\ Cardinality(InState(p, st)) \in Nat
           /\ IsFiniteSet(Unposted(p)) /\ Cardinality(Unposted(p)) \in Nat
           /\ sem[p] \in Nat /\ Len(tasks[p]) \in Nat /\ size[p] \in Nat
  <1>1. size[p] \in Nat /\ sem[p] \in Nat /\ Len(tasks[p]) \in Nat
    BY PoolAssumption, LenProperties DEF TypeOK
  <1>2. IsFiniteSet(1 .. size[p]) /\ Cardinality(1 .. size[p]) = size[p]
    <2> DEFINE n == size[p]
    <2>1. n \in Nat /\ n \in Int /\ 1 \in Int
      BY <1>1
    <2> HIDE DEF n
    <2>2. /\ IsFiniteSet(1 .. n)
          /\ Cardinality(1 .. n) = IF 1 > n THEN 0 ELSE n - 1 + 1
      BY <2>1, FS_Interval, Zenon
    <2>3. Cardinality(1 .. n) = n
      BY <2>1, <2>2
    <2>4. QED
      BY <2>2, <2>3 DEF n
  <1>3. IsFiniteSet({p}) /\ Cardinality({p}) = 1
    BY FS_Singleton
  <1>4. IsFiniteSet(Crew(p)) /\ Cardinality(Crew(p)) = size[p]
    <2>1. /\ IsFiniteSet({p} \X (1 .. size[p]))
          /\ Cardinality({p} \X (1 .. size[p])) = Cardinality({p}) * Cardinality(1 .. size[p])
      BY <1>2, <1>3, FS_Product
    <2>2. QED
      BY <1>1, <1>2, <1>3, <2>1 DEF Crew
  <1>5. ASSUME NEW st PROVE IsFiniteSet(InState(p, st)) /\ Cardinality(InState(p, st)) \in Nat
    <2>1. InState(p, st) \in SUBSET Crew(p)
      BY DEF InState
    <2>2. IsFiniteSet(InState(p, st))
      BY <1>4, <2>1, FS_Subset
    <2>3. QED
      BY <2>2, FS_CardinalityType
  <1>6. IsFiniteSet(Unposted(p)) /\ Cardinality(Unposted(p)) \in Nat
    <2>1. Unposted(p) \in SUBSET Task
      BY DEF Unposted
    <2>2. IsFiniteSet(Unposted(p))
      BY <2>1, FS_Subset, PoolAssumption
    <2>3. QED
      BY <2>2, FS_CardinalityType
  <1>7. QED
    BY <1>1, <1>4, <1>5, <1>6

\* A provider of which nothing that counts was changed.
LEMMA SameCrew ==
    ASSUME NEW p \in Provider, size'[p] = size[p], Joining(p)' <=> Joining(p),
           \A w \in Crew(p) : worker'[w] = worker[w]
    PROVE  InState(p, "awake")' = InState(p, "awake") /\ StopCredit(p)' = StopCredit(p)
  <1>1. Crew(p)' = Crew(p)
    BY DEF Crew
  <1>2. InState(p, "awake")' = InState(p, "awake")
    BY <1>1 DEF InState
  <1>3. InState(p, "exited")' = InState(p, "exited")
    BY <1>1 DEF InState
  <1>4. StopCredit(p)' = StopCredit(p)
    BY <1>3 DEF StopCredit, Joining
  <1>5. QED
    BY <1>2, <1>4

LEMMA StopCreditType == ASSUME PoolInv, NEW p \in Provider PROVE StopCredit(p) \in Int
  <1>1. Cardinality(InState(p, "exited")) \in Nat /\ size[p] \in Nat
    BY CountsFinite DEF PoolInv
  <1>2. QED
    BY <1>1 DEF StopCredit

LEMMA SameAccount ==
    ASSUME PoolInv, NEW p \in Provider, sem'[p] = sem[p], Len(tasks'[p]) = Len(tasks[p]),
           Unposted(p)' = Unposted(p), InState(p, "awake")' = InState(p, "awake"),
           StopCredit(p)' = StopCredit(p)
    PROVE  Account(p)'
  <1>1. Account(p)
    BY DEF PoolInv, WakeupsExact, Account
  <1>2. Cardinality(Unposted(p))' = Cardinality(Unposted(p))
    BY Zenon
  <1>3. Cardinality(InState(p, "awake"))' = Cardinality(InState(p, "awake"))
    BY Zenon
  <1>4. QED
    BY <1>1, <1>2, <1>3 DEF Account

LEMMA AccountsMakeExact == ASSUME \A p \in Provider : Account(p)' PROVE WakeupsExact'
  BY DEF Account, WakeupsExact

LEMMA ResizeStays ==
    ASSUME PoolInv, UNCHANGED <<size, ctl, threadMutex, stopping, provider, made>>,
           \A w \in Thread : /\ worker'[w] = "none" <=> worker[w] = "none"
                             /\ worker'[w] = "exited" => worker[w] = "exited" \/ Joining(w[1])
    PROVE  ResizeInv' /\ \A p \in Provider : Joining(p)' <=> Joining(p)
  <1>1. \A p : Joining(p)' <=> Joining(p)
    BY DEF Joining
  <1>2. CrewsExact' /\ Unmade'
    BY DEF PoolInv, ResizeInv, CrewsExact, Unmade
  <1>3. ControlSound'
    BY DEF PoolInv, ResizeInv, ControlSound, SoundAt, HoldsMutex
  <1>4. ExitsJoined'
    BY <1>1 DEF PoolInv, ResizeInv, ExitsJoined
  <1>5. QED
    BY <1>1, <1>2, <1>3, <1>4 DEF ResizeInv

LEMMA SubmitKeepsCounts ==
    ASSUME PoolInv, NEW t \in Task, Submit(t) PROVE ResizeInv' /\ WakeupsExact'
  <1> USE DEF poolVars, queueVars, threadVars, resizeVars
  <1>1. UNCHANGED <<size, ctl, threadMutex, stopping, provider, made, worker>>
    BY DEF Submit, GetProvider, RunInline, Push, Post
  <1>2. ResizeInv' /\ \A p \in Provider : Joining(p)' <=> Joining(p)
    BY <1>1, ResizeStays
  <1>3. \A p \in Provider : /\ InState(p, "awake")' = InState(p, "awake")
                            /\ StopCredit(p)' = StopCredit(p)
    BY <1>1, <1>2, SameCrew
  <1>4. CASE GetProvider(t) \/ RunInline(t)
    <2>1. \A p \in Provider : Unposted(p)' = Unposted(p)
      <3>1. \A u \in Task : sub'[u] = "pushed" <=> sub[u] = "pushed"
        BY <1>4 DEF GetProvider, RunInline, PoolInv, TypeOK, Submission
      <3>2. \A u \in Task : sub[u] = "pushed" => via'[u] = via[u]
        BY <1>4 DEF GetProvider, RunInline, PoolInv, TypeOK
      <3>3. QED
        BY <3>1, <3>2 DEF Unposted
    <2>2. UNCHANGED <<tasks, sem>>
      BY <1>4 DEF GetProvider, RunInline
    <2>3. QED
      BY <1>2, <1>3, <2>1, <2>2, SameAccount, AccountsMakeExact
  <1>5. CASE Push(t) \/ Post(t)
    <2>1. PICK p \in Provider : p = via[t]
      BY <1>5 DEF Push, Post, PoolInv, PlaceInv, HasProvider
    <2>2. /\ \A q \in Provider \ {p} : tasks'[q] = tasks[q] /\ sem'[q] = sem[q]
          /\ \A q \in Provider \ {p} : Unposted(q)' = Unposted(q)
      <3>1. \A q \in Provider \ {p} : tasks'[q] = tasks[q] /\ sem'[q] = sem[q]
        BY <1>5, <2>1 DEF Push, Post, PoolInv, TypeOK
      <3>2. via' = via /\ \A u \in Task \ {t} : sub'[u] = sub[u]
        BY <1>5 DEF Push, Post, PoolInv, TypeOK
      <3>3. \A q \in Provider \ {p} : Unposted(q)' = Unposted(q)
        BY <2>1, <3>2 DEF Unposted
      <3>4. QED
        BY <3>1, <3>3
    <2>3. \A q \in Provider \ {p} : Account(q)'
      BY <1>3, <2>2, SameAccount
    <2>4. Account(p)'
      <3>1. /\ IsFiniteSet(Unposted(p)) /\ Cardinality(Unposted(p)) \in Nat
            /\ sem[p] \in Nat /\ Len(tasks[p]) \in Nat
            /\ Cardinality(InState(p, "awake")) \in Nat
        BY <2>1, CountsFinite DEF PoolInv
      <3>2. Account(p) /\ StopCredit(p) \in Int
        BY StopCreditType DEF PoolInv, WakeupsExact, Account
      <3>0. /\ StopCredit(p)' = StopCredit(p)
            /\ Cardinality(InState(p, "awake"))' = Cardinality(InState(p, "awake"))
        BY <1>3
      <3>3. CASE Push(t)
        <4>1. Unposted(p)' = Unposted(p) \cup {t} /\ t \notin Unposted(p)
          BY <2>1, <3>3 DEF Push, Unposted, PoolInv, TypeOK
        <4>2. Cardinality(Unposted(p)') = Cardinality(Unposted(p)) + 1
          BY <3>1, <4>1, FS_AddElement
        <4>3. Len(tasks'[p]) = Len(tasks[p]) + 1 /\ sem'[p] = sem[p]
          BY <2>1, <3>3, AppendProperties DEF Push, PoolInv, TypeOK
        <4>4. QED
          BY <3>0, <3>1, <3>2, <4>2, <4>3 DEF Account
      <3>4. CASE Post(t)
        <4>1. Unposted(p)' = Unposted(p) \ {t} /\ t \in Unposted(p)
          BY <2>1, <3>4 DEF Post, Unposted, PoolInv, TypeOK
        <4>2. Cardinality(Unposted(p)') = Cardinality(Unposted(p)) - 1
          BY <3>1, <4>1, FS_RemoveElement
        <4>3. Len(tasks'[p]) = Len(tasks[p]) /\ sem'[p] = sem[p] + 1
          BY <2>1, <3>4 DEF Post, PoolInv, TypeOK
        <4>4. sem'[p] + Cardinality(InState(p, "awake"))'
                = sem[p] + Cardinality(InState(p, "awake")) + 1
          BY <3>0, <3>1, <4>3
        <4>5. Len(tasks'[p]) - Cardinality(Unposted(p))' + StopCredit(p)'
                = Len(tasks[p]) - Cardinality(Unposted(p)) + StopCredit(p) + 1
          <5>1. Len(tasks'[p]) - Cardinality(Unposted(p))'
                  = Len(tasks[p]) - Cardinality(Unposted(p)) + 1
            BY <3>1, <4>2, <4>3
          <5>2. Len(tasks[p]) - Cardinality(Unposted(p)) \in Int
            BY <3>1
          <5>3. QED
            BY <3>0, <3>2, <5>1, <5>2
        <4>6. QED
          BY <3>2, <4>4, <4>5 DEF Account
      <3>5. QED
        BY <1>5, <3>3, <3>4
    <2>5. QED
      BY <1>2, <2>3, <2>4, AccountsMakeExact
  <1>6. QED
    BY <1>4, <1>5 DEF Submit

\* A thread that was let through finds a task, or it is to stop: this is what the
\* account is for.
LEMMA AwakeForNothing ==
    ASSUME PoolInv, NEW w \in Thread, worker[w] = "awake", tasks[w[1]] = <<>>
    PROVE  Joining(w[1]) /\ stopping[w[1]]
  <1> DEFINE p == w[1]
  <1>1. p \in Provider /\ w \in Crew(p)
    <2>1. w[1] \in Provider /\ w[2] \in 1 .. MaxThreads /\ w = <<w[1], w[2]>>
      BY DEF Thread
    <2>2. ~(w[2] > size[w[1]])
      BY DEF PoolInv, ResizeInv, CrewsExact
    <2>3. size[w[1]] \in Nat
      BY <2>1, PoolAssumption DEF PoolInv, TypeOK
    <2>4. w[2] \in 1 .. size[w[1]]
      BY <2>1, <2>2, <2>3
    <2>5. QED
      BY <2>1, <2>4 DEF Crew
  <1>2. w \in InState(p, "awake")
    BY <1>1 DEF InState
  <1> HIDE DEF p
  <1>3. Cardinality(InState(p, "awake")) \in Nat /\ Cardinality(InState(p, "awake")) # 0
    BY <1>1, <1>2, CountsFinite, FS_EmptySet DEF PoolInv
  <1>4. Len(tasks[p]) = 0 /\ Cardinality(Unposted(p)) \in Nat /\ sem[p] \in Nat
    BY <1>1, CountsFinite, EmptySeq DEF PoolInv, p
  <1>5. Account(p) /\ StopCredit(p) \in Int
    BY <1>1, StopCreditType DEF PoolInv, WakeupsExact, Account
  <1>6. StopCredit(p) # 0
    BY <1>3, <1>4, <1>5 DEF Account
  <1>7. PICK c \in Controller : ctl[c].at = "join" /\ ctl[c].prov = p
    BY <1>6 DEF StopCredit
  <1>8. stopping[p]
    BY <1>7 DEF PoolInv, ResizeInv, ControlSound, SoundAt
  <1>9. QED
    BY <1>7, <1>8 DEF Joining, p

LEMMA CrewMember ==
    ASSUME PoolInv, NEW w \in Thread, worker[w] # "none"
    PROVE  w[1] \in Provider /\ w \in Crew(w[1])
  <1>1. w[1] \in Provider /\ w[2] \in 1 .. MaxThreads /\ w = <<w[1], w[2]>>
    BY DEF Thread
  <1>2. ~(w[2] > size[w[1]])
    BY DEF PoolInv, ResizeInv, CrewsExact
  <1>3. size[w[1]] \in Nat
    BY <1>1, PoolAssumption DEF PoolInv, TypeOK
  <1>4. w[2] \in 1 .. size[w[1]]
    BY <1>1, <1>2, <1>3
  <1>5. QED
    BY <1>1, <1>4 DEF Crew

LEMMA CrewIsThreads == ASSUME TypeOK, NEW p \in Provider PROVE Crew(p) \subseteq Thread
  <1>1. size[p] \in 0 .. MaxThreads
    BY DEF TypeOK
  <1>2. 1 .. size[p] \subseteq 1 .. MaxThreads
    BY <1>1, PoolAssumption
  <1>3. QED
    BY <1>2 DEF Crew, Thread

LEMMA LoopKeepsCounts ==
    ASSUME PoolInv, NEW w \in Thread, ThreadLoop(w) PROVE ResizeInv' /\ WakeupsExact'
  <1> USE DEF poolVars, queueVars, threadVars, resizeVars, submitVars
  <1>1. /\ UNCHANGED <<size, ctl, threadMutex, stopping, provider, made>>
        /\ \A v \in Thread \ {w} : worker'[v] = worker[v]
        /\ worker[w] \in {"waiting", "awake", "running"}
    BY DEF ThreadLoop, Wake, Take, Process, NothingToTake, PoolInv, TypeOK
  <1>2. /\ worker'[w] \in {"waiting", "awake", "running", "exited"}
        /\ worker'[w] = "exited" => Joining(w[1])
    BY AwakeForNothing
    DEF ThreadLoop, Wake, Take, Process, NothingToTake, PoolInv, TypeOK
  <1>3. ResizeInv' /\ \A p \in Provider : Joining(p)' <=> Joining(p)
    BY <1>1, <1>2, ResizeStays
  <1>4. PICK p \in Provider : p = w[1] /\ w \in Crew(p)
    BY <1>1, CrewMember
  <1>5. UNCHANGED <<sub, via>> /\ \A q : Unposted(q)' = Unposted(q)
    BY DEF ThreadLoop, Wake, Take, Process, NothingToTake, Unposted
  <1>6. \A q \in Provider \ {p} : tasks'[q] = tasks[q] /\ sem'[q] = sem[q]
    BY <1>4 DEF ThreadLoop, Wake, Take, Process, NothingToTake, PoolInv, TypeOK
  <1>7. ASSUME NEW q \in Provider \ {p} PROVE Account(q)'
    <2>1. \A v \in Crew(q) : worker'[v] = worker[v]
      <3>1. \A v \in Crew(q) : v \in Thread /\ v[1] = q
        BY CrewIsThreads DEF PoolInv, Crew
      <3>2. QED
        BY <1>1, <1>4, <1>7, <3>1
    <2>2. InState(q, "awake")' = InState(q, "awake") /\ StopCredit(q)' = StopCredit(q)
      BY <1>1, <1>3, <2>1, SameCrew
    <2>3. QED
      BY <1>5, <1>6, <2>2, SameAccount
  <1>8. Crew(p)' = Crew(p) /\ \A v \in Crew(p) : v \in Thread
    BY <1>1, CrewIsThreads DEF Crew, PoolInv
  <1>9. /\ IsFiniteSet(InState(p, "awake")) /\ Cardinality(InState(p, "awake")) \in Nat
        /\ IsFiniteSet(InState(p, "exited")) /\ Cardinality(InState(p, "exited")) \in Nat
        /\ sem[p] \in Nat /\ Len(tasks[p]) \in Nat /\ size[p] \in Nat
        /\ Cardinality(Unposted(p)) \in Nat
    BY CountsFinite DEF PoolInv
  <1>10. Account(p) /\ StopCredit(p) \in Int
    BY StopCreditType DEF PoolInv, WakeupsExact, Account
  <1>11. Cardinality(Unposted(p))' = Cardinality(Unposted(p))
    BY <1>5
  <1> DEFINE A == Cardinality(InState(p, "awake"))
             L == Len(tasks[p])
  <1>12. ASSUME worker[w] = "awake", worker'[w] # "awake"
         PROVE  Cardinality(InState(p, "awake"))' = A - 1
    <2>1. InState(p, "awake")' = InState(p, "awake") \ {w} /\ w \in InState(p, "awake")
      BY <1>1, <1>4, <1>8, <1>12 DEF InState
    <2>2. Cardinality(InState(p, "awake") \ {w}) = A - 1
      BY <1>9, <2>1, FS_RemoveElement
    <2>3. QED
      BY <2>1, <2>2
  <1>13. ASSUME worker'[w] # "exited" PROVE StopCredit(p)' = StopCredit(p)
    <2>1. InState(p, "exited")' = InState(p, "exited")
      BY <1>1, <1>4, <1>8, <1>13 DEF InState
    <2>2. QED
      BY <1>1, <1>3, <2>1 DEF StopCredit, Joining
  <1>14. Account(p)'
    <2>1. CASE Wake(w)
      <3>1. /\ sem'[p] = sem[p] - 1 /\ Len(tasks'[p]) = L /\ worker'[w] = "awake"
            /\ worker[w] = "waiting"
        BY <1>4, <2>1 DEF Wake, PoolInv, TypeOK
      <3>2. InState(p, "awake")' = InState(p, "awake") \cup {w} /\ w \notin InState(p, "awake")
        BY <1>1, <1>4, <1>8, <3>1 DEF InState
      <3>3. Cardinality(InState(p, "awake") \cup {w}) = A + 1
        BY <1>9, <3>2, FS_AddElement
      <3>4. Cardinality(InState(p, "awake"))' = A + 1
        BY <3>2, <3>3
      <3>5. sem'[p] + Cardinality(InState(p, "awake"))' = sem[p] + A
        BY <1>9, <3>1, <3>4
      <3>6. StopCredit(p)' = StopCredit(p)
        BY <1>13, <3>1
      <3>7. Len(tasks'[p]) - Cardinality(Unposted(p))' + StopCredit(p)'
              = L - Cardinality(Unposted(p)) + StopCredit(p)
        BY <1>11, <3>1, <3>6
      <3>8. QED
        BY <1>10, <3>5, <3>7 DEF Account
    <2>2. CASE Take(w)
      <3>1. /\ sem'[p] = sem[p] /\ Len(tasks'[p]) = L - 1 /\ worker'[w] = "running"
            /\ worker[w] = "awake"
        BY <1>4, <2>2, Taken
      <3>2. StopCredit(p)' = StopCredit(p) /\ Cardinality(InState(p, "awake"))' = A - 1
        BY <1>12, <1>13, <3>1
      <3>3. sem'[p] + Cardinality(InState(p, "awake"))' = (sem[p] + A) - 1
        BY <1>9, <3>1, <3>2
      <3>4. Len(tasks'[p]) - Cardinality(Unposted(p))' + StopCredit(p)'
              = (L - Cardinality(Unposted(p)) + StopCredit(p)) - 1
        <4>1. Len(tasks'[p]) - Cardinality(Unposted(p))' = L - Cardinality(Unposted(p)) - 1
          BY <1>9, <1>11, <3>1
        <4>2. L - Cardinality(Unposted(p)) \in Int
          BY <1>9
        <4>3. QED
          BY <1>10, <3>2, <4>1, <4>2
      <3>5. sem[p] + A = L - Cardinality(Unposted(p)) + StopCredit(p)
        BY <1>10 DEF Account
      <3>6. sem'[p] + Cardinality(InState(p, "awake"))'
              = Len(tasks'[p]) - Cardinality(Unposted(p))' + StopCredit(p)'
        BY <3>3, <3>4, <3>5, Zenon
      <3>7. QED
        BY <3>6 DEF Account
    <2>3. CASE Process(w)
      <3>1. /\ UNCHANGED <<tasks, sem>> /\ worker[w] = "running" /\ worker'[w] = "waiting"
        BY <2>3 DEF Process, PoolInv, TypeOK
      <3>2. InState(p, "awake")' = InState(p, "awake")
        BY <1>1, <1>4, <1>8, <3>1 DEF InState
      <3>3. QED
        BY <1>5, <1>13, <3>1, <3>2, SameAccount
    <2>4. CASE NothingToTake(w)
      <3>1. /\ UNCHANGED <<tasks, sem>> /\ worker[w] = "awake" /\ tasks[w[1]] = <<>>
        BY <2>4 DEF NothingToTake
      <3>2. Joining(p) /\ stopping[p]
        BY <1>4, <3>1, AwakeForNothing
      <3>3. worker'[w] = "exited"
        BY <1>4, <2>4, <3>2 DEF NothingToTake, PoolInv, TypeOK
      <3>4. InState(p, "exited")' = InState(p, "exited") \cup {w} /\ w \notin InState(p, "exited")
        BY <1>1, <1>4, <1>8, <3>1, <3>3 DEF InState
      <3>5. Cardinality(InState(p, "exited") \cup {w}) = Cardinality(InState(p, "exited")) + 1
        BY <1>9, <3>4, FS_AddElement
      <3>6. Cardinality(InState(p, "exited"))' = Cardinality(InState(p, "exited")) + 1
        BY <3>4, <3>5
      <3>7. /\ StopCredit(p) = size[p] - Cardinality(InState(p, "exited"))
            /\ StopCredit(p)' = size[p] - Cardinality(InState(p, "exited"))'
        BY <1>1, <1>3, <3>2 DEF StopCredit, Joining
      <3>8. StopCredit(p)' = StopCredit(p) - 1
        BY <1>9, <3>6, <3>7
      <3>9. Cardinality(InState(p, "awake"))' = A - 1
        BY <1>12, <3>1, <3>3
      <3>10. sem'[p] + Cardinality(InState(p, "awake"))' = (sem[p] + A) - 1
        BY <1>9, <3>1, <3>9
      <3>11. L - Cardinality(Unposted(p)) \in Int
        BY <1>9
      <3>12. Len(tasks'[p]) - Cardinality(Unposted(p))' + StopCredit(p)'
               = (L - Cardinality(Unposted(p)) + StopCredit(p)) - 1
        BY <1>10, <1>11, <3>1, <3>8, <3>11
      <3>13. sem[p] + A = L - Cardinality(Unposted(p)) + StopCredit(p)
        BY <1>10 DEF Account
      <3>14. sem'[p] + Cardinality(InState(p, "awake"))'
               = Len(tasks'[p]) - Cardinality(Unposted(p))' + StopCredit(p)'
        BY <3>10, <3>12, <3>13, Zenon
      <3>15. QED
        BY <3>14 DEF Account
    <2>5. QED
      BY <2>1, <2>2, <2>3, <2>4 DEF ThreadLoop
  <1>15. QED
    BY <1>3, <1>7, <1>14, AccountsMakeExact

-----------------------------------------------------------------------------
(* setNumThreads.                                                           *)

\* A step of setNumThreads that starts and stops no threads.
LEMMA QuietStep ==
    ASSUME PoolInv, NEW c \in Controller, OthersStay(c),
           ctl[c].at # "join", ctl'[c].at # "join",
           UNCHANGED <<tasks, sem, worker, size, job, sub, via, done>>
    PROVE  PlaceInv' /\ CrewsExact' /\ ExitsJoined' /\ WakeupsExact'
  <1>1. PlaceInv'
    BY PlacesStay
  <1>2. CrewsExact'
    BY DEF PoolInv, ResizeInv, CrewsExact
  <1>3. \A p : Joining(p)' <=> Joining(p)
    BY DEF Joining, OthersStay
  <1>4. ExitsJoined'
    BY <1>3 DEF PoolInv, ResizeInv, ExitsJoined
  <1>5. ASSUME NEW p \in Provider PROVE Account(p)'
    <2>1. InState(p, "awake")' = InState(p, "awake") /\ StopCredit(p)' = StopCredit(p)
      BY <1>3, SameCrew
    <2>2. Unposted(p)' = Unposted(p)
      BY DEF Unposted
    <2>3. QED
      BY <2>1, <2>2, SameAccount
  <1>6. QED
    BY <1>1, <1>2, <1>4, <1>5, AccountsMakeExact

\* The others that hold a mutex hold another one.
LEMMA OthersElsewhere ==
    ASSUME PoolInv, NEW c \in Controller, NEW d \in Controller \ {c},
           HoldsMutex(d), HoldsMutex(c) \/ threadMutex[ctl[c].prov] = NoController
    PROVE  ctl[d].prov # ctl[c].prov
  BY PoolAssumption DEF PoolInv, ResizeInv, ControlSound, SoundAt

LEMMA CallKeepsInv ==
    ASSUME PoolInv, NEW c \in Controller, NEW n \in 0 .. MaxThreads, Call(c, n) PROVE PoolInv'
  <1>1. /\ TypeOK' /\ OthersStay(c) /\ ctl'[c].at \in {"replace", "compare"}
        /\ ctl'[c].prov = provider
        /\ (ctl'[c].at = "compare" => provider # NoProvider)
    BY CallType
  <1>2. /\ UNCHANGED <<tasks, sem, worker, size, job, sub, via, done>>
        /\ UNCHANGED <<provider, made, threadMutex, stopping>> /\ ctl[c].at = "idle"
    BY DEF Call, poolVars, queueVars, resizeVars, threadVars, submitVars
  <1>3. PlaceInv' /\ CrewsExact' /\ ExitsJoined' /\ WakeupsExact'
    BY <1>1, <1>2, QuietStep
  <1>4. Unmade'
    BY <1>1, <1>2 DEF PoolInv, ResizeInv, Unmade, OthersStay
  <1>5. ASSUME NEW d \in Controller PROVE SoundAt(d)'
    <2>1. CASE d = c
      BY <1>1, <2>1 DEF SoundAt, HoldsMutex, PoolInv, TypeOK, Provider, NoProvider
    <2>2. CASE d # c
      BY <1>1, <1>2, <2>2 DEF SoundAt, HoldsMutex, PoolInv, ResizeInv, ControlSound, OthersStay
    <2>3. QED
      BY <2>1, <2>2
  <1>6. QED
    BY <1>1, <1>3, <1>4, <1>5 DEF PoolInv, ResizeInv, ControlSound

LEMMA CompareKeepsInv ==
    ASSUME PoolInv, NEW c \in Controller, Compare(c) PROVE PoolInv'
  <1>1. /\ TypeOK' /\ OthersStay(c) /\ ctl'[c].prov = ctl[c].prov
        /\ ctl'[c].at \in {"idle", "replace", "resize"}
    BY CompareType
  <1>2. /\ UNCHANGED <<tasks, sem, worker, size, job, sub, via, done>>
        /\ UNCHANGED <<provider, made, threadMutex, stopping>> /\ ctl[c].at = "compare"
    BY DEF Compare, poolVars, queueVars, resizeVars, threadVars, submitVars
  <1>3. PlaceInv' /\ CrewsExact' /\ ExitsJoined' /\ WakeupsExact'
    BY <1>1, <1>2, QuietStep
  <1>4. Unmade'
    BY <1>1, <1>2 DEF PoolInv, ResizeInv, Unmade, OthersStay
  <1>5. ASSUME NEW d \in Controller PROVE SoundAt(d)'
    <2>1. CASE d = c
      BY <1>1, <1>2, <2>1 DEF SoundAt, HoldsMutex, PoolInv, ResizeInv, ControlSound
    <2>2. CASE d # c
      BY <1>1, <1>2, <2>2 DEF SoundAt, HoldsMutex, PoolInv, ResizeInv, ControlSound, OthersStay
    <2>3. QED
      BY <2>1, <2>2
  <1>6. QED
    BY <1>1, <1>3, <1>4, <1>5 DEF PoolInv, ResizeInv, ControlSound

LEMMA ExchangeKeepsInv ==
    ASSUME PoolInv, NEW c \in Controller, Exchange(c) PROVE PoolInv'
  <1>1. /\ TypeOK' /\ OthersStay(c) /\ provider' = ctl[c].prov
        /\ \/ ctl'[c].at = "idle" /\ ctl'[c].prov = 0
           \/ ctl'[c].at = "finish" /\ ctl'[c].prov = provider /\ provider # NoProvider
    BY ExchangeType
  <1>2. /\ UNCHANGED <<tasks, sem, worker, size, job, sub, via, done>>
        /\ UNCHANGED <<made, threadMutex, stopping>> /\ ctl[c].at = "exchange"
    BY DEF Exchange, queueVars, resizeVars, threadVars, submitVars
  <1>3. PlaceInv' /\ CrewsExact' /\ ExitsJoined' /\ WakeupsExact'
    BY <1>1, <1>2, QuietStep
  <1>4. Unmade'
    <2>1. 0 <= made
      BY DEF PoolInv, TypeOK
    <2>2. QED
      BY <1>1, <1>2, <2>1 DEF PoolInv, ResizeInv, Unmade, OthersStay
  <1>5. ASSUME NEW d \in Controller PROVE SoundAt(d)'
    <2>1. CASE d = c
      BY <1>1, <2>1 DEF SoundAt, HoldsMutex, PoolInv, TypeOK, Provider, NoProvider
    <2>2. CASE d # c
      BY <1>1, <1>2, <2>2 DEF SoundAt, HoldsMutex, PoolInv, ResizeInv, ControlSound, OthersStay
    <2>3. QED
      BY <2>1, <2>2
  <1>6. QED
    BY <1>1, <1>3, <1>4, <1>5 DEF PoolInv, ResizeInv, ControlSound

LEMMA LockThreadsKeepsInv ==
    ASSUME PoolInv, NEW c \in Controller, LockThreads(c) PROVE PoolInv'
  <1>1. /\ TypeOK' /\ OthersStay(c) /\ ctl'[c].prov = ctl[c].prov
        /\ ctl'[c].count = ctl[c].count /\ ctl'[c].at \in {"stop", "start"}
        /\ (ctl'[c].at = "start" => ~(ctl[c].count < size[ctl[c].prov]))
    BY LockThreadsType
  <1>2. PICK p \in Provider : p = ctl[c].prov
    BY DEF LockThreads, PoolInv, ResizeInv, ControlSound, SoundAt
  <1>3. /\ UNCHANGED <<tasks, sem, worker, size, job, sub, via, done>>
        /\ UNCHANGED <<provider, made, stopping>> /\ ctl[c].at \in {"resize", "finish"}
        /\ threadMutex[p] = NoController /\ threadMutex' = [threadMutex EXCEPT ![p] = c]
    BY <1>2 DEF LockThreads, poolVars, queueVars, threadVars, submitVars
  <1>4. PlaceInv' /\ CrewsExact' /\ ExitsJoined' /\ WakeupsExact'
    BY <1>1, <1>3, QuietStep
  <1>5. Unmade'
    BY <1>1, <1>3 DEF PoolInv, ResizeInv, Unmade, OthersStay
  <1>6. threadMutex'[p] = c /\ \A q \in Provider \ {p} : threadMutex'[q] = threadMutex[q]
    BY <1>3 DEF PoolInv, TypeOK
  <1>7. ASSUME NEW d \in Controller PROVE SoundAt(d)'
    <2>1. CASE d = c
      <3>1. ctl[c].count \in Int /\ size[p] \in Int
        BY DEF PoolInv, TypeOK, Control
      <3>2. QED
        BY <1>1, <1>2, <1>3, <1>6, <2>1, <3>1 DEF SoundAt, HoldsMutex
    <2>2. CASE d # c
      <3>1. SoundAt(d) /\ (HoldsMutex(d) => ctl[d].prov \in Provider \ {p})
        BY <1>2, <1>3, <2>2, OthersElsewhere
        DEF PoolInv, ResizeInv, ControlSound, SoundAt, HoldsMutex
      <3>2. ctl'[d] = ctl[d]
        BY <1>1, <2>2 DEF OthersStay
      <3>3. QED
        BY <1>3, <1>6, <3>1, <3>2 DEF SoundAt, HoldsMutex
    <2>3. QED
      BY <2>1, <2>2
  <1>8. QED
    BY <1>1, <1>4, <1>5, <1>7 DEF PoolInv, ResizeInv, ControlSound

LEMMA StopKeepsInv == ASSUME PoolInv, NEW c \in Controller, Stop(c) PROVE PoolInv'
  <1>1. /\ TypeOK' /\ OthersStay(c) /\ ctl'[c].prov = ctl[c].prov /\ ctl'[c].at = "postAll"
    BY StopType
  <1>2. PICK p \in Provider : p = ctl[c].prov
    BY DEF Stop, PoolInv, ResizeInv, ControlSound, SoundAt
  <1>3. /\ UNCHANGED <<tasks, sem, worker, size, job, sub, via, done>>
        /\ UNCHANGED <<provider, made, threadMutex>> /\ ctl[c].at = "stop"
        /\ stopping' = [stopping EXCEPT ![p] = TRUE]
    BY <1>2 DEF Stop, poolVars, queueVars, threadVars, submitVars
  <1>4. PlaceInv' /\ CrewsExact' /\ ExitsJoined' /\ WakeupsExact'
    BY <1>1, <1>3, QuietStep
  <1>5. Unmade'
    BY <1>1, <1>3 DEF PoolInv, ResizeInv, Unmade, OthersStay
  <1>6. stopping'[p] /\ \A q \in Provider : stopping[q] => stopping'[q]
    BY <1>3 DEF PoolInv, TypeOK
  <1>7. ASSUME NEW d \in Controller PROVE SoundAt(d)'
    <2>1. CASE d = c
      BY <1>1, <1>2, <1>3, <1>6, <2>1 DEF SoundAt, HoldsMutex, PoolInv, ResizeInv, ControlSound
    <2>2. CASE d # c
      BY <1>1, <1>3, <1>6, <2>2
      DEF SoundAt, HoldsMutex, PoolInv, ResizeInv, ControlSound, OthersStay
    <2>3. QED
      BY <2>1, <2>2
  <1>8. QED
    BY <1>1, <1>4, <1>5, <1>7 DEF PoolInv, ResizeInv, ControlSound

\* Only the threads of one provider, and who waits for them, change.
LEMMA OtherAccounts ==
    ASSUME PoolInv, NEW c \in Controller, OthersStay(c), NEW p \in Provider,
           ctl[c].at = "join" => ctl[c].prov = p, ctl'[c].at = "join" => ctl'[c].prov = p,
           \A q \in Provider \ {p} : size'[q] = size[q] /\ sem'[q] = sem[q],
           \A w \in Thread : w[1] # p => worker'[w] = worker[w],
           UNCHANGED <<tasks, sub, via>>
    PROVE  \A q \in Provider \ {p} : Account(q)' /\ (Joining(q)' <=> Joining(q))
  <1> SUFFICES ASSUME NEW q \in Provider \ {p}
               PROVE  Account(q)' /\ (Joining(q)' <=> Joining(q))
    OBVIOUS
  <1>1. Joining(q)' <=> Joining(q)
    BY DEF Joining, OthersStay
  <1>2. \A w \in Crew(q) : worker'[w] = worker[w]
    <2>1. \A w \in Crew(q) : w \in Thread /\ w[1] = q
      BY CrewIsThreads DEF PoolInv, Crew
    <2>2. QED
      BY <2>1
  <1>3. InState(q, "awake")' = InState(q, "awake") /\ StopCredit(q)' = StopCredit(q)
    BY <1>1, <1>2, SameCrew
  <1>4. Unposted(q)' = Unposted(q)
    BY DEF Unposted
  <1>5. QED
    BY <1>1, <1>3, <1>4, SameAccount

\* Who holds the mutex of a provider is the only one that may wait for its threads.
LEMMA OneJoins ==
    ASSUME PoolInv, NEW c \in Controller, HoldsMutex(c)
    PROVE  Joining(ctl[c].prov) <=> ctl[c].at = "join"
  <1>1. ASSUME NEW d \in Controller \ {c}, ctl[d].at = "join" PROVE ctl[d].prov # ctl[c].prov
    BY <1>1, OthersElsewhere DEF HoldsMutex
  <1>2. QED
    BY <1>1 DEF Joining

LEMMA PostAllKeepsInv == ASSUME PoolInv, NEW c \in Controller, PostAll(c) PROVE PoolInv'
  <1>1. TypeOK' /\ OthersStay(c) /\ ctl'[c].prov = ctl[c].prov /\ ctl'[c].at = "join"
    BY PostAllType
  <1>2. PICK p \in Provider : p = ctl[c].prov
    BY DEF PostAll, PoolInv, ResizeInv, ControlSound, SoundAt
  <1>3. /\ UNCHANGED <<tasks, worker, size, job, sub, via, done>>
        /\ UNCHANGED <<provider, made, threadMutex, stopping>> /\ ctl[c].at = "postAll"
        /\ sem' = [sem EXCEPT ![p] = @ + size[p]]
    BY <1>2 DEF PostAll, poolVars, resizeVars, threadVars, submitVars
  <1>4. PlaceInv'
    BY <1>3, PlacesStay
  <1>5. CrewsExact' /\ Unmade'
    BY <1>1, <1>3 DEF PoolInv, ResizeInv, CrewsExact, Unmade, OthersStay
  <1>6. ASSUME NEW d \in Controller PROVE SoundAt(d)'
    <2>1. CASE d = c
      BY <1>1, <1>2, <1>3, <2>1 DEF SoundAt, HoldsMutex, PoolInv, ResizeInv, ControlSound
    <2>2. CASE d # c
      BY <1>1, <1>3, <2>2 DEF SoundAt, HoldsMutex, PoolInv, ResizeInv, ControlSound, OthersStay
    <2>3. QED
      BY <2>1, <2>2
  <1>7. ~Joining(p) /\ Joining(p)'
    BY <1>1, <1>2, <1>3, OneJoins DEF HoldsMutex, Joining
  <1>8. \A q \in Provider \ {p} : Account(q)' /\ (Joining(q)' <=> Joining(q))
    <2>1. \A q \in Provider \ {p} : sem'[q] = sem[q]
      BY <1>3 DEF PoolInv, TypeOK
    <2>2. QED
      BY <1>1, <1>2, <1>3, <2>1, OtherAccounts
  <1>9. ExitsJoined'
    <2>1. \A w \in Thread : w[1] \in Provider
      BY DEF Thread
    <2>2. QED
      BY <1>3, <1>7, <1>8, <2>1 DEF PoolInv, ResizeInv, ExitsJoined
  <1>10. Account(p)'
    <2>1. InState(p, "exited")' = {}
      <3>1. \A w \in Crew(p) : w \in Thread /\ w[1] = p
        BY CrewIsThreads DEF PoolInv, Crew
      <3>2. \A w \in Crew(p) : worker'[w] # "exited"
        BY <1>3, <1>7, <3>1 DEF PoolInv, ResizeInv, ExitsJoined
      <3>3. QED
        BY <1>3, <3>2 DEF InState, Crew
    <2>2. StopCredit(p)' = size[p] /\ StopCredit(p) = 0
      <3>1. Cardinality(InState(p, "exited"))' = 0 /\ size[p] \in Nat
        BY <2>1, FS_EmptySet, CountsFinite DEF PoolInv
      <3>2. StopCredit(p)' = size'[p] - Cardinality(InState(p, "exited"))'
        BY <1>7 DEF StopCredit, Joining
      <3>3. StopCredit(p) = 0
        BY <1>7 DEF StopCredit, Joining
      <3>4. QED
        BY <1>3, <3>1, <3>2, <3>3
    <2>3. InState(p, "awake")' = InState(p, "awake") /\ Unposted(p)' = Unposted(p)
      BY <1>3 DEF InState, Crew, Unposted
    <2>4. /\ Cardinality(InState(p, "awake"))' = Cardinality(InState(p, "awake"))
          /\ Cardinality(Unposted(p))' = Cardinality(Unposted(p))
      BY <2>3
    <2>5. /\ Cardinality(InState(p, "awake")) \in Nat /\ Cardinality(Unposted(p)) \in Nat
          /\ sem[p] \in Nat /\ Len(tasks[p]) \in Nat /\ size[p] \in Nat
      BY CountsFinite DEF PoolInv
    <2>6. sem'[p] = sem[p] + size[p]
      BY <1>3 DEF PoolInv, TypeOK
    <2>7. sem[p] + Cardinality(InState(p, "awake")) = Len(tasks[p]) - Cardinality(Unposted(p))
      <3>1. sem[p] + Cardinality(InState(p, "awake"))
              = Len(tasks[p]) - Cardinality(Unposted(p)) + StopCredit(p)
        BY DEF PoolInv, WakeupsExact
      <3>2. QED
        BY <2>2, <2>5, <3>1
    <2>8. sem'[p] + Cardinality(InState(p, "awake"))'
            = Len(tasks'[p]) - Cardinality(Unposted(p))' + StopCredit(p)'
      BY <1>3, <2>2, <2>4, <2>5, <2>6, <2>7
    <2>9. QED
      BY <2>8 DEF Account
  <1>11. QED
    BY <1>1, <1>4, <1>5, <1>6, <1>8, <1>9, <1>10, AccountsMakeExact
    DEF PoolInv, ResizeInv, ControlSound

LEMMA JoinKeepsInv == ASSUME PoolInv, NEW c \in Controller, Join(c) PROVE PoolInv'
  <1>1. /\ TypeOK' /\ OthersStay(c)
        /\ \/ ctl'[c].at = "idle" /\ ctl'[c].prov = 0
           \/ /\ ctl'[c].at = "start" /\ ctl'[c].prov = ctl[c].prov
              /\ ctl'[c].count = ctl[c].count /\ threadMutex' = threadMutex
    BY JoinType
  <1>2. PICK p \in Provider : p = ctl[c].prov
    BY DEF Join, PoolInv, ResizeInv, ControlSound, SoundAt
  <1>3. /\ UNCHANGED <<tasks, sem, job, sub, via, done>> /\ UNCHANGED <<provider, made>>
        /\ ctl[c].at = "join" /\ \A w \in Crew(p) : worker[w] = "exited"
        /\ worker' = [w \in Thread |-> IF w[1] = p THEN "none" ELSE worker[w]]
        /\ size' = [size EXCEPT ![p] = 0] /\ stopping' = [stopping EXCEPT ![p] = FALSE]
        /\ threadMutex' \in {threadMutex, [threadMutex EXCEPT ![p] = NoController]}
    BY <1>2 DEF Join, poolVars, queueVars, submitVars
  <1>4. /\ size'[p] = 0
        /\ \A q \in Provider \ {p} : /\ size'[q] = size[q] /\ stopping'[q] = stopping[q]
                                     /\ threadMutex'[q] = threadMutex[q]
        /\ \A w \in Thread : w[1] # p => worker'[w] = worker[w]
        /\ \A w \in Thread : w[1] = p => worker'[w] = "none" /\ worker[w] \in {"none", "exited"}
    <2>1. /\ size'[p] = 0
          /\ \A q \in Provider \ {p} : /\ size'[q] = size[q] /\ stopping'[q] = stopping[q]
                                       /\ threadMutex'[q] = threadMutex[q]
      BY <1>3 DEF PoolInv, TypeOK
    <2>2. \A w \in Thread : w[1] = p => worker[w] \in {"none", "exited"}
      BY <1>3, CrewMember
    <2>3. QED
      BY <1>3, <2>1, <2>2
  <1>5. PlaceInv'
    BY <1>3, <1>4, PlacesStay
  <1>6. CrewsExact'
    <2>1. \A w \in Thread : w[1] \in Provider /\ w[2] > 0
      BY DEF Thread
    <2>2. QED
      BY <1>4, <2>1 DEF PoolInv, ResizeInv, CrewsExact
  <1>7. Unmade'
    <2>1. 0 <= made /\ \A d \in Controller : ctl[d].prov <= made
      BY DEF PoolInv, TypeOK, ResizeInv, Unmade
    <2>2. \A d \in Controller : ctl'[d].prov <= made
      BY <1>1, <2>1 DEF OthersStay
    <2>3. \A q \in Provider : q > made => size'[q] = 0
      BY <1>4 DEF PoolInv, ResizeInv, Unmade
    <2>4. QED
      BY <1>3, <2>2, <2>3 DEF PoolInv, ResizeInv, Unmade
  <1>8. ASSUME NEW d \in Controller PROVE SoundAt(d)'
    <2>1. CASE d = c
      <3>1. ctl[c].count >= 0 /\ threadMutex[p] = c
        BY <1>2, <1>3 DEF PoolInv, TypeOK, Control, ResizeInv, ControlSound, SoundAt, HoldsMutex
      <3>2. QED
        BY <1>1, <1>2, <1>4, <2>1, <3>1 DEF SoundAt, HoldsMutex
    <2>2. CASE d # c
      <3>1. SoundAt(d) /\ (HoldsMutex(d) => ctl[d].prov \in Provider \ {p})
        BY <1>2, <1>3, <2>2, OthersElsewhere
        DEF PoolInv, ResizeInv, ControlSound, SoundAt, HoldsMutex
      <3>2. ctl'[d] = ctl[d]
        BY <1>1, <2>2 DEF OthersStay
      <3>3. QED
        BY <1>4, <3>1, <3>2 DEF SoundAt, HoldsMutex
    <2>3. QED
      BY <2>1, <2>2
  <1>9. \A q \in Provider \ {p} : Account(q)' /\ (Joining(q)' <=> Joining(q))
    BY <1>1, <1>2, <1>3, <1>4, OtherAccounts
  <1>10. ExitsJoined'
    <2>1. \A w \in Thread : w[1] \in Provider
      BY DEF Thread
    <2>2. QED
      BY <1>4, <1>9, <2>1 DEF PoolInv, ResizeInv, ExitsJoined
  <1>11. Joining(p) /\ ~Joining(p)'
    <2>1. Joining(p)
      BY <1>2, <1>3 DEF Joining
    <2>2. \A d \in Controller \ {c} : ctl[d].at = "join" => ctl[d].prov # p
      BY <1>2, <1>3, OthersElsewhere DEF HoldsMutex
    <2>3. QED
      BY <1>1, <2>1, <2>2 DEF Joining, OthersStay
  <1>12. Account(p)'
    <2>1. InState(p, "exited") = Crew(p) /\ InState(p, "awake") = {}
      BY <1>3 DEF InState
    <2>2. InState(p, "awake")' = {} /\ Unposted(p)' = Unposted(p)
      <3>1. Crew(p)' = {}
        BY <1>4 DEF Crew
      <3>2. QED
        BY <1>3, <3>1 DEF InState, Unposted
    <2>3. StopCredit(p) = 0 /\ StopCredit(p)' = 0
      <3>1. Cardinality(InState(p, "exited")) = size[p] /\ size[p] \in Nat
        BY <2>1, CountsFinite DEF PoolInv
      <3>2. StopCredit(p) = size[p] - Cardinality(InState(p, "exited"))
        BY <1>11 DEF StopCredit, Joining
      <3>3. StopCredit(p)' = 0
        BY <1>11 DEF StopCredit, Joining
      <3>4. QED
        BY <3>1, <3>2, <3>3
    <2>4. QED
      BY <1>3, <2>1, <2>2, <2>3, SameAccount
  <1>13. QED
    BY <1>1, <1>5, <1>6, <1>7, <1>8, <1>9, <1>10, <1>12, AccountsMakeExact
    DEF PoolInv, ResizeInv, ControlSound

\* Threads start in a provider that nobody joins.
LEMMA StartedKeeps ==
    ASSUME PoolInv, NEW p \in Provider, NEW n \in 0 .. MaxThreads, n >= size[p],
           worker' = Started(p, n), size' = [size EXCEPT ![p] = n],
           ~Joining(p), ~Joining(p)', UNCHANGED <<tasks, sem, job, sub, via, done>>
    PROVE  /\ PlaceInv' /\ CrewsExact' /\ Account(p)'
           /\ \A w \in Thread : w[1] # p => worker'[w] = worker[w]
           /\ \A w \in Thread : w[1] = p => worker'[w] # "exited"
           /\ \A q \in Provider \ {p} : size'[q] = size[q]
  <1>1. /\ size'[p] = n /\ \A q \in Provider \ {p} : size'[q] = size[q]
        /\ size[p] \in Nat
    BY PoolAssumption DEF PoolInv, TypeOK
  <1>2. \A w \in Thread : w[1] \in Provider /\ w[2] \in Nat
    BY DEF Thread
  <1>3. \A w \in Thread :
            worker'[w] = IF w[1] = p /\ w[2] <= n /\ worker[w] = "none"
                         THEN "waiting" ELSE worker[w]
    BY DEF Started
  <1>4. \A w \in Thread : w[1] = p => worker[w] # "exited"
    BY DEF PoolInv, ResizeInv, ExitsJoined
  <1>5. PlaceInv'
    BY <1>3, PlacesStay
  <1>6. CrewsExact'
    <2> SUFFICES ASSUME NEW w \in Thread PROVE worker'[w] = "none" <=> w[2] > size'[w[1]]
      BY DEF CrewsExact
    <2>1. worker[w] = "none" <=> w[2] > size[w[1]]
      BY DEF PoolInv, ResizeInv, CrewsExact
    <2>2. CASE w[1] = p
      BY <1>1, <1>2, <1>3, <2>1, <2>2
    <2>3. CASE w[1] # p
      BY <1>1, <1>2, <1>3, <2>1, <2>3
    <2>4. QED
      BY <2>2, <2>3
  <1>7. InState(p, "awake")' = InState(p, "awake")
    <2>1. ASSUME NEW w \in Crew(p)', worker'[w] = "awake"
          PROVE  w \in Crew(p) /\ worker[w] = "awake"
      <3>1. 1 .. n \subseteq 1 .. MaxThreads
        BY PoolAssumption
      <3>2. w = <<p, w[2]>> /\ w[2] \in 1 .. n /\ w[1] = p
        BY <1>1, <2>1 DEF Crew
      <3>3. w \in Thread
        BY <3>1, <3>2 DEF Thread
      <3>4. worker[w] = "awake"
        BY <1>3, <2>1, <3>3
      <3>5. QED
        BY <3>2, <3>3, <3>4, CrewMember
    <2>2. ASSUME NEW w \in Crew(p), worker[w] = "awake"
          PROVE  w \in Crew(p)' /\ worker'[w] = "awake"
      <3>1. w \in Thread
        BY CrewIsThreads DEF PoolInv
      <3>2. worker'[w] = "awake"
        BY <1>3, <2>2, <3>1
      <3>3. 1 .. size[p] \subseteq 1 .. n
        BY <1>1
      <3>4. w \in Crew(p)'
        BY <1>1, <3>3 DEF Crew
      <3>5. QED
        BY <3>2, <3>4
    <2>3. QED
      BY <2>1, <2>2 DEF InState
  <1>8. StopCredit(p)' = 0 /\ StopCredit(p) = 0
    BY DEF StopCredit, Joining
  <1>9. Account(p)'
    <2>1. Unposted(p)' = Unposted(p)
      BY DEF Unposted
    <2>2. QED
      BY <1>7, <1>8, <2>1, SameAccount
  <1>10. QED
    BY <1>1, <1>3, <1>4, <1>5, <1>6, <1>9

LEMMA StartKeepsInv == ASSUME PoolInv, NEW c \in Controller, Start(c) PROVE PoolInv'
  <1>1. TypeOK' /\ OthersStay(c) /\ ctl'[c].at = "idle" /\ ctl'[c].prov = 0
    BY StartType
  <1>2. PICK p \in Provider : p = ctl[c].prov
    BY DEF Start, PoolInv, ResizeInv, ControlSound, SoundAt
  <1>3. PICK n \in 0 .. MaxThreads : n = ctl[c].count
    BY DEF PoolInv, TypeOK, Control
  <1>4. /\ UNCHANGED <<tasks, sem, job, sub, via, done>>
        /\ UNCHANGED <<provider, made, stopping>> /\ ctl[c].at = "start"
        /\ worker' = Started(p, n) /\ size' = [size EXCEPT ![p] = n]
        /\ threadMutex' = [threadMutex EXCEPT ![p] = NoController]
    BY <1>2, <1>3 DEF Start, poolVars, queueVars, submitVars
  <1>5. n >= size[p] /\ size[p] >= 0 /\ p <= made
    <2>1. n >= size[p]
      BY <1>2, <1>3, <1>4 DEF PoolInv, ResizeInv, ControlSound, SoundAt
    <2>2. size[p] >= 0
      BY DEF PoolInv, TypeOK
    <2>3. p <= made
      BY <1>2 DEF PoolInv, ResizeInv, Unmade
    <2>4. QED
      BY <2>1, <2>2, <2>3
  <1>6. ~Joining(p) /\ ~Joining(p)'
    <2>1. ~Joining(p)
      BY <1>2, <1>4, OneJoins DEF HoldsMutex
    <2>2. QED
      BY <1>1, <2>1 DEF Joining, OthersStay
  <1>7. /\ PlaceInv' /\ CrewsExact' /\ Account(p)'
        /\ \A w \in Thread : w[1] # p => worker'[w] = worker[w]
        /\ \A w \in Thread : w[1] = p => worker'[w] # "exited"
        /\ \A q \in Provider \ {p} : size'[q] = size[q]
    BY <1>4, <1>5, <1>6, StartedKeeps
  <1>8. Unmade'
    <2>0. 0 <= made /\ \A d \in Controller : ctl[d].prov <= made
      BY DEF PoolInv, TypeOK, ResizeInv, Unmade
    <2>1. \A d \in Controller : ctl'[d].prov <= made
      BY <1>1, <2>0 DEF OthersStay
    <2>2. ASSUME NEW q \in Provider, q > made PROVE size'[q] = 0
      <3>1. q # p
        BY <1>5, <2>2 DEF PoolInv, TypeOK, Provider
      <3>2. size[q] = 0
        BY <2>2 DEF PoolInv, ResizeInv, Unmade
      <3>3. QED
        BY <1>7, <3>1, <3>2
    <2>3. QED
      BY <1>4, <2>1, <2>2 DEF PoolInv, ResizeInv, Unmade
  <1>9. \A q \in Provider \ {p} : threadMutex'[q] = threadMutex[q]
    BY <1>4 DEF PoolInv, TypeOK
  <1>10. ASSUME NEW d \in Controller PROVE SoundAt(d)'
    <2>1. CASE d = c
      BY <1>1, <2>1 DEF SoundAt, HoldsMutex
    <2>2. CASE d # c
      <3>1. SoundAt(d) /\ (HoldsMutex(d) => ctl[d].prov \in Provider \ {p})
        BY <1>2, <1>4, <2>2, OthersElsewhere
        DEF PoolInv, ResizeInv, ControlSound, SoundAt, HoldsMutex
      <3>2. ctl'[d] = ctl[d]
        BY <1>1, <2>2 DEF OthersStay
      <3>3. QED
        BY <1>4, <1>7, <1>9, <3>1, <3>2 DEF SoundAt, HoldsMutex
    <2>3. QED
      BY <2>1, <2>2
  <1>11. \A q \in Provider \ {p} : Account(q)' /\ (Joining(q)' <=> Joining(q))
    BY <1>1, <1>2, <1>4, <1>7, OtherAccounts
  <1>12. ExitsJoined'
    <2>1. \A w \in Thread : w[1] \in Provider
      BY DEF Thread
    <2>2. QED
      BY <1>7, <1>11, <2>1 DEF PoolInv, ResizeInv, ExitsJoined
  <1>13. QED
    BY <1>1, <1>7, <1>8, <1>10, <1>11, <1>12, AccountsMakeExact
    DEF PoolInv, ResizeInv, ControlSound

LEMMA ConstructKeepsInv == ASSUME PoolInv, NEW c \in Controller, Construct(c) PROVE PoolInv'
  <1>1. /\ TypeOK' /\ OthersStay(c) /\ ctl'[c].at = "exchange"
        /\ IF ctl[c].count = 0
           THEN ctl'[c].prov = NoProvider /\ UNCHANGED <<made, size, worker>>
           ELSE /\ made + 1 \in Provider /\ made' = made + 1 /\ ctl'[c].prov = made + 1
                /\ size' = [size EXCEPT ![made + 1] = ctl[c].count]
                /\ worker' = Started(made + 1, ctl[c].count)
    BY ConstructType
  <1>2. /\ UNCHANGED <<tasks, sem, job, sub, via, done>>
        /\ UNCHANGED <<provider, threadMutex, stopping>> /\ ctl[c].at = "replace"
    BY DEF Construct, queueVars, submitVars
  <1>3. CASE ctl[c].count = 0
    <2>1. ctl'[c].prov = 0 /\ UNCHANGED <<made, size, worker>>
      BY <1>1, <1>3 DEF NoProvider
    <2>2. PlaceInv' /\ CrewsExact' /\ ExitsJoined' /\ WakeupsExact'
      BY <1>1, <1>2, <2>1, QuietStep
    <2>3. Unmade'
      <3>1. 0 <= made /\ \A d \in Controller : ctl[d].prov <= made
        BY DEF PoolInv, TypeOK, ResizeInv, Unmade
      <3>2. \A d \in Controller : ctl'[d].prov <= made
        BY <1>1, <2>1, <3>1 DEF OthersStay
      <3>3. QED
        BY <1>2, <2>1, <3>2 DEF PoolInv, ResizeInv, Unmade
    <2>4. ASSUME NEW d \in Controller PROVE SoundAt(d)'
      <3>1. CASE d = c
        BY <1>1, <3>1 DEF SoundAt, HoldsMutex
      <3>2. CASE d # c
        BY <1>1, <1>2, <2>1, <3>2
        DEF SoundAt, HoldsMutex, PoolInv, ResizeInv, ControlSound, OthersStay
      <3>3. QED
        BY <3>1, <3>2
    <2>5. QED
      BY <1>1, <2>2, <2>3, <2>4 DEF PoolInv, ResizeInv, ControlSound
  <1>4. CASE ctl[c].count # 0
    <2>1. PICK p \in Provider : p = made + 1
      BY <1>1, <1>4
    <2>2. PICK n \in 0 .. MaxThreads : n = ctl[c].count
      BY DEF PoolInv, TypeOK, Control
    <2>3. /\ made' = p /\ ctl'[c].prov = p /\ size' = [size EXCEPT ![p] = n]
          /\ worker' = Started(p, n)
      BY <1>1, <1>4, <2>1, <2>2
    <2>4. p \in Nat /\ made \in Nat /\ ~(p <= made) /\ size[p] = 0
      BY <2>1, PoolAssumption DEF PoolInv, TypeOK, ResizeInv, Unmade, Provider
    <2>5. \A d \in Controller : ctl[d].prov # p
      BY <2>4 DEF PoolInv, ResizeInv, Unmade
    <2>6. ~Joining(p) /\ ~Joining(p)'
      BY <1>1, <2>5 DEF Joining, OthersStay
    <2>7. /\ PlaceInv' /\ CrewsExact' /\ Account(p)'
          /\ \A w \in Thread : w[1] # p => worker'[w] = worker[w]
          /\ \A w \in Thread : w[1] = p => worker'[w] # "exited"
          /\ \A q \in Provider \ {p} : size'[q] = size[q]
      <3>1. n >= size[p]
        BY <2>4
      <3>2. QED
        BY <1>2, <2>3, <2>6, <3>1, StartedKeeps
    <2>8. Unmade'
      <3>1. \A d \in Controller : ctl[d].prov <= made /\ ctl[d].prov \in Nat
        BY PoolAssumption DEF PoolInv, TypeOK, Control, ResizeInv, Unmade
      <3>2. \A d \in Controller : ctl'[d].prov <= p
        BY <1>1, <2>1, <2>3, <2>4, <3>1 DEF OthersStay
      <3>3. \A q \in Provider : q > p => size'[q] = 0
        BY <2>1, <2>4, <2>7 DEF PoolInv, ResizeInv, Unmade, Provider
      <3>4. provider <= p
        BY <2>1, <2>4 DEF PoolInv, TypeOK, ResizeInv, Unmade
      <3>5. QED
        BY <1>2, <2>3, <3>2, <3>3, <3>4 DEF Unmade
    <2>9. ASSUME NEW d \in Controller PROVE SoundAt(d)'
      <3>1. CASE d = c
        BY <1>1, <3>1 DEF SoundAt, HoldsMutex
      <3>2. CASE d # c
        <4>1. SoundAt(d) /\ ctl[d].prov # p /\ ctl'[d] = ctl[d]
          BY <1>1, <2>5, <3>2 DEF PoolInv, ResizeInv, ControlSound, OthersStay
        <4>2. QED
          BY <1>2, <2>7, <4>1 DEF SoundAt, HoldsMutex
      <3>3. QED
        BY <3>1, <3>2
    <2>10. \A q \in Provider \ {p} : Account(q)' /\ (Joining(q)' <=> Joining(q))
      BY <1>1, <1>2, <2>7, OtherAccounts
    <2>11. ExitsJoined'
      <3>1. \A w \in Thread : w[1] \in Provider
        BY DEF Thread
      <3>2. QED
        BY <2>7, <2>10, <3>1 DEF PoolInv, ResizeInv, ExitsJoined
    <2>12. QED
      BY <1>1, <2>7, <2>8, <2>9, <2>10, <2>11, AccountsMakeExact
      DEF PoolInv, ResizeInv, ControlSound
  <1>5. QED
    BY <1>3, <1>4

-----------------------------------------------------------------------------
(* The pool.                                                                *)

LEMMA InitInv == Init => PoolInv
  <1> SUFFICES ASSUME Init PROVE PoolInv
    OBVIOUS
  <1>1. PICK n \in 0 .. MaxThreads :
            LET first == IF n = 0 THEN {} ELSE {1} IN
            /\ provider = IF n = 0 THEN NoProvider ELSE 1
            /\ made = provider /\ first \subseteq Provider
            /\ tasks = [p \in Provider |-> <<>>] /\ sem = [p \in Provider |-> 0]
            /\ stopping = [p \in Provider |-> FALSE]
            /\ threadCount = [p \in Provider |-> IF p \in first THEN n ELSE 0]
            /\ size = threadCount /\ threadMutex = [p \in Provider |-> NoController]
            /\ worker = [w \in Thread |->
                             IF w[1] \in first /\ w[2] <= n THEN "waiting" ELSE "none"]
            /\ job = [w \in Thread |-> NoTask] /\ sub = [t \in Task |-> "idle"]
            /\ via = [t \in Task |-> NoProvider] /\ done = {}
            /\ ctl = [c \in Controller |-> Idle]
    BY DEF Init
  <1> DEFINE first == IF n = 0 THEN {} ELSE {1}
  <1>2. /\ provider \in 0 .. MaxProviders /\ made = provider
        /\ \A p \in Provider : p > made => p \notin first
    BY <1>1, PoolAssumption DEF Provider, NoProvider
  <1>3. /\ \A p \in Provider : size[p] = IF p \in first THEN n ELSE 0
        /\ \A w \in Thread : worker[w] = IF w[1] \in first /\ w[2] <= n THEN "waiting" ELSE "none"
        /\ \A w \in Thread : w[1] \in Provider /\ w[2] \in Nat \ {0}
    BY <1>1 DEF Thread
  <1>4. \A c \in Controller : ctl[c].at = "idle" /\ ctl[c].prov = 0
    BY <1>1, IdleIsControl
  <1>5. TypeOK
    <2>1. size \in [Provider -> 0 .. MaxThreads] /\ sem \in [Provider -> Nat]
      BY <1>1, PoolAssumption
    <2>2. tasks \in [Provider -> Seq(Task)]
      BY <1>1, EmptySeq
    <2>3. worker \in [Thread -> Worker] /\ job \in [Thread -> Task \cup {NoTask}]
      BY <1>1 DEF Worker
    <2>4. ctl \in [Controller -> Control]
      BY <1>1, IdleIsControl
    <2>5. /\ stopping \in [Provider -> BOOLEAN] /\ done \subseteq Task
          /\ threadMutex \in [Provider -> Controller \cup {NoController}]
          /\ sub \in [Task -> Submission]
      BY <1>1 DEF Submission
    <2>6. via \in [Task -> 0 .. MaxProviders]
      BY <1>1, PoolAssumption DEF NoProvider
    <2>7. QED
      BY <1>2, <2>1, <2>2, <2>3, <2>4, <2>5, <2>6 DEF TypeOK
  <1>6. \A p \in Provider : tasks[p] = <<>> /\ Len(tasks[p]) = 0 /\ sem[p] = 0
    BY <1>1, EmptySeq
  <1>7. PlaceInv
    <2>1. \A t \in Task : ~Queued(t) /\ ~Handed(t) /\ t \notin done
      BY <1>1, <1>6 DEF Queued, Handed
    <2>2. \A w \in Thread : job[w] = NoTask /\ worker[w] # "running"
      BY <1>1, <1>3
    <2>3. \A t \in Task : ~Running(t)
      BY <2>2, PoolAssumption DEF Running
    <2>4. QueuesDisjoint
      BY <1>6 DEF QueuesDisjoint
    <2>5. HasProvider
      BY <1>1 DEF HasProvider
    <2>6. QED
      BY <2>1, <2>2, <2>3, <2>4, <2>5 DEF PlaceInv, ThreadsDisjoint, OnePlace, BusyHasJob
  <1>8. ResizeInv
    <2>1. CrewsExact
      BY <1>3 DEF CrewsExact
    <2>2. Unmade
      BY <1>2, <1>3, <1>4 DEF Unmade
    <2>3. ControlSound
      BY <1>4 DEF ControlSound, SoundAt, HoldsMutex
    <2>4. ExitsJoined
      BY <1>3 DEF ExitsJoined
    <2>5. QED
      BY <2>1, <2>2, <2>3, <2>4 DEF ResizeInv
  <1>9. ASSUME NEW p \in Provider
        PROVE  sem[p] + Cardinality(InState(p, "awake"))
                   = Len(tasks[p]) - Cardinality(Unposted(p)) + StopCredit(p)
    <2>1. Unposted(p) = {}
      BY <1>1 DEF Unposted
    <2>2. InState(p, "awake") = {}
      <3>1. \A w \in Crew(p) : w \in Thread
        BY <1>5, CrewIsThreads
      <3>2. QED
        BY <1>3, <3>1 DEF InState
    <2>3. StopCredit(p) = 0
      BY <1>4 DEF StopCredit
    <2>4. Cardinality({}) = 0
      BY FS_EmptySet
    <2>5. Cardinality(Unposted(p)) = 0 /\ Cardinality(InState(p, "awake")) = 0
      BY <2>1, <2>2, <2>4
    <2>6. sem[p] = 0 /\ Len(tasks[p]) = 0
      BY <1>6
    <2>7. QED
      BY <2>3, <2>5, <2>6
  <1>10. QED
    BY <1>5, <1>7, <1>8, <1>9 DEF PoolInv, WakeupsExact

LEMMA PoolStutter == ASSUME PoolInv, UNCHANGED vars PROVE PoolInv'
  <1>1. /\ UNCHANGED <<provider, made, tasks, sem, stopping, size, threadMutex>>
        /\ UNCHANGED <<worker, job, sub, via, done, ctl>>
    BY DEF vars
  <1>2. TypeOK'
    BY <1>1 DEF PoolInv, TypeOK
  <1>3. PlaceInv'
    BY <1>1, PlacesStay
  <1>4. ResizeInv' /\ \A p \in Provider : Joining(p)' <=> Joining(p)
    BY <1>1, ResizeStays
  <1>5. ASSUME NEW p \in Provider PROVE Account(p)'
    <2>1. InState(p, "awake")' = InState(p, "awake") /\ StopCredit(p)' = StopCredit(p)
      BY <1>1, <1>4, SameCrew
    <2>2. Unposted(p)' = Unposted(p)
      BY <1>1 DEF Unposted
    <2>3. QED
      BY <1>1, <2>1, <2>2, SameAccount
  <1>6. QED
    BY <1>2, <1>3, <1>4, <1>5, AccountsMakeExact DEF PoolInv

LEMMA NextKeepsInv == ASSUME PoolInv, [Next]_vars PROVE PoolInv'
  <1>1. ASSUME NEW t \in Task, Submit(t) PROVE PoolInv'
    BY <1>1, SubmitType, SubmitKeepsPlaces, SubmitKeepsCounts DEF PoolInv
  <1>2. ASSUME NEW w \in Thread, ThreadLoop(w) PROVE PoolInv'
    BY <1>2, LoopType, LoopKeepsPlaces, LoopKeepsCounts DEF PoolInv
  <1>3. ASSUME NEW c \in Controller, Resize(c) PROVE PoolInv'
    BY <1>3, CompareKeepsInv, ConstructKeepsInv, ExchangeKeepsInv, LockThreadsKeepsInv,
       StopKeepsInv, PostAllKeepsInv, JoinKeepsInv, StartKeepsInv DEF Resize
  <1>4. ASSUME NEW c \in Controller, NEW n \in 0 .. MaxThreads, Call(c, n) PROVE PoolInv'
    BY <1>4, CallKeepsInv
  <1>5. CASE AtRest \/ UNCHANGED vars
    BY <1>5, PoolStutter DEF AtRest
  <1>6. QED
    BY <1>1, <1>2, <1>3, <1>4, <1>5 DEF Next

(***************************************************************************)
(* Where the tasks are, which threads there are and who stops them, in     *)
(* every state of the pool and its providers.                              *)
(***************************************************************************)
THEOREM PoolInvariant == Spec => []PoolInv
  <1>1. QED
    BY InitInv, NextKeepsInv, PTL DEF Spec

(***************************************************************************)
(* No wake-up of the semaphore is lost or left over, for any tasks,        *)
(* threads and calls of setNumThreads, and however many providers are      *)
(* made and dropped.                                                       *)
(***************************************************************************)
THEOREM NoWakeupLost == Spec => []WakeupsExact
  <1>1. PoolInv => WakeupsExact
    BY DEF PoolInv
  <1>2. QED
    BY <1>1, PoolInvariant, PTL

-----------------------------------------------------------------------------
(* Counting the places of a task.                                           *)

LEMMA Only ==
    ASSUME NEW S, \A a, b \in S : a = b
    PROVE  Cardinality(S) = IF S = {} THEN 0 ELSE 1
  <1>1. CASE S = {}
    BY <1>1, FS_EmptySet
  <1>2. CASE S # {}
    <2>1. PICK a \in S : TRUE
      BY <1>2
    <2>2. S = {a}
      BY <2>1
    <2>3. QED
      BY <1>2, <2>2, FS_Singleton
  <1>3. QED
    BY <1>1, <1>2

\* A queue holds a task at most once, so it is no longer than there are tasks.
LEMMA QueueFits ==
    ASSUME TypeOK, QueuesDisjoint, NEW p \in Provider
    PROVE  Len(tasks[p]) <= Cardinality(Task)
  <1> DEFINE q == tasks[p]
             n == Len(q)
  <1>1. q \in Seq(Task) /\ n \in Nat
    BY DEF TypeOK
  <1>2. q \in [1 .. n -> Task]
    BY <1>1
  <1>3. \A i, j \in 1 .. n : q[i] = q[j] => i = j
    BY DEF QueuesDisjoint
  <1> HIDE DEF q
  <1>4. q \in Injection(1 .. n, Task)
    BY <1>2, <1>3 DEF Injection, IsInjective
  <1>5. Cardinality(1 .. n) <= Cardinality(Task)
    BY <1>4, FS_Injection, PoolAssumption
  <1>6. Cardinality(1 .. n) = n
    <2>1. Cardinality(1 .. n) = IF 1 > n THEN 0 ELSE n - 1 + 1
      BY <1>1, FS_Interval
    <2>2. QED
      BY <1>1, <2>1
  <1>7. QED
    BY <1>5, <1>6 DEF q

LEMMA PlacesCounted ==
    ASSUME PoolInv, NEW t \in Task
    PROVE  Places(t) = (IF Queued(t) THEN 1 ELSE 0) + (IF Running(t) THEN 1 ELSE 0)
                           + (IF t \in done THEN 1 ELSE 0)
  <1> DEFINE E == {e \in Provider \X (1 .. Cardinality(Task)) :
                       e[2] <= Len(tasks[e[1]]) /\ tasks[e[1]][e[2]] = t}
             W == {w \in Thread : job[w] = t}
  <1>0. TypeOK /\ QueuesDisjoint /\ ThreadsDisjoint /\ Cardinality(Task) \in Nat
    BY FS_CardinalityType, PoolAssumption DEF PoolInv, PlaceInv
  <1>1. \A p \in Provider : Len(tasks[p]) \in Nat
    BY <1>0 DEF TypeOK
  <1>2. Cardinality(E) = IF E = {} THEN 0 ELSE 1
    <2>1. ASSUME NEW a \in E, NEW b \in E PROVE a = b
      <3>1. /\ a = <<a[1], a[2]>> /\ b = <<b[1], b[2]>>
            /\ a[1] \in Provider /\ b[1] \in Provider
            /\ a[2] \in 1 .. Cardinality(Task) /\ b[2] \in 1 .. Cardinality(Task)
        OBVIOUS
      <3>2. a[2] \in 1 .. Len(tasks[a[1]]) /\ b[2] \in 1 .. Len(tasks[b[1]])
        BY <1>0, <1>1, <3>1
      <3>3. tasks[a[1]][a[2]] = tasks[b[1]][b[2]]
        OBVIOUS
      <3>4. a[1] = b[1] /\ a[2] = b[2]
        BY <1>0, <3>1, <3>2, <3>3 DEF QueuesDisjoint
      <3>5. QED
        BY <3>1, <3>4
    <2> HIDE DEF E
    <2>2. QED
      BY <2>1, Only
  <1>3. E # {} <=> Queued(t)
    <2>1. ASSUME E # {} PROVE Queued(t)
      <3>1. PICK e \in E : TRUE
        BY <2>1
      <3>2. e[1] \in Provider /\ e[2] \in 1 .. Len(tasks[e[1]]) /\ tasks[e[1]][e[2]] = t
        BY <1>0, <1>1, <3>1
      <3>3. QED
        BY <3>2 DEF Queued
    <2>2. ASSUME Queued(t) PROVE E # {}
      <3>1. PICK p \in Provider : \E i \in 1 .. Len(tasks[p]) : tasks[p][i] = t
        BY <2>2 DEF Queued
      <3>2. PICK i \in 1 .. Len(tasks[p]) : tasks[p][i] = t
        BY <3>1
      <3>3. Len(tasks[p]) <= Cardinality(Task)
        BY <1>0, <3>1, QueueFits
      <3>4. i \in 1 .. Cardinality(Task) /\ i <= Len(tasks[p])
        BY <1>0, <1>1, <3>1, <3>2, <3>3
      <3>5. <<p, i>> \in E
        BY <3>1, <3>2, <3>4
      <3>6. QED
        BY <3>5
    <2>3. QED
      BY <2>1, <2>2
  <1>4. Cardinality(W) = IF W = {} THEN 0 ELSE 1
    <2>1. \A w, v \in W : w = v
      BY <1>0, PoolAssumption DEF ThreadsDisjoint
    <2> HIDE DEF W
    <2>2. QED
      BY <2>1, Only
  <1>5. W # {} <=> Running(t)
    BY DEF Running
  <1>6. Places(t) = Cardinality(E) + Cardinality(W) + (IF t \in done THEN 1 ELSE 0)
    BY DEF Places
  <1> HIDE DEF E, W
  <1>7. QED
    BY <1>2, <1>3, <1>4, <1>5, <1>6

(***************************************************************************)
(* A task handed to the pool is in one queue, in one thread or finished,   *)
(* and in no second place, for any tasks, threads and providers: no thread *)
(* runs a task another one has deleted.                                    *)
(***************************************************************************)
THEOREM TaskStaysInOnePlace == Spec => []TaskInOnePlace
  <1>1. ASSUME PoolInv PROVE TaskInOnePlace
    <2>1. SUFFICES ASSUME NEW t \in Task PROVE Places(t) = IF Handed(t) THEN 1 ELSE 0
      BY DEF TaskInOnePlace, Handed
    <2>2. /\ ~(Queued(t) /\ Running(t)) /\ ~(Queued(t) /\ t \in done)
          /\ ~(Running(t) /\ t \in done)
          /\ Handed(t) <=> Queued(t) \/ Running(t) \/ t \in done
      BY <1>1 DEF PoolInv, PlaceInv, OnePlace
    <2>3. QED
      BY <1>1, <2>2, PlacesCounted
  <1>2. QED
    BY <1>1, PoolInvariant, PTL
=============================================================================
