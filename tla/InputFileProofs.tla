--------------------------- MODULE InputFileProofs ---------------------------
(***************************************************************************)
(* For every number of callers, frame buffers, layouts, chunks, columns of *)
(* tiles, processes and threads: a call of readPixels that promises its    *)
(* pixels delivers them (ReadDelivers), throws exactly when a unit was not *)
(* decoded (FailureReported), and never leaves a task behind               *)
(* (GroupOutlivesTasks); its tasks share the processes of a lock-free list *)
(* as they would share those of a pool (ProcessesShared, RefinesPool).     *)
(*                                                                         *)
(* FileInv adds to DispatchInv what the calls rely on: the kept process    *)
(* has the routines of the current frame buffer as long as it is clean,    *)
(* the cached row is whole as long as it is not torn, and the parallel     *)
(* read under way is of the units that its one caller asked for.           *)
(***************************************************************************)
EXTENDS InputFile, FiniteSetTheorems, WellFoundedInduction, TLAPS

-----------------------------------------------------------------------------
(* One parallel read.                                                       *)

\* Past exr_decoding_run and record_failure.
Past == {"linking", "swapping", "posting", "leaving", "done"}

\* The units of the call, handed over or not.
Given == todo \cup In(Stage \ {"none"})

DispatchTypeOK ==
    /\ disp \in Dispatch /\ todo \subseteq Unit /\ thrown \in BOOLEAN
    /\ task \in [Unit -> Stage] /\ decoded \subseteq Unit
    /\ failure \in Unit \cup {Nil}

\* A unit that is left has no task but the one this thread runs itself.
LeftUntouched ==
    /\ \A u \in todo : task[u] = "none" \/ (disp = "inline" /\ u = Current)
    /\ disp \in {"popping", "loading", "reading", "swapping", "inline"} => todo # {}

\* exr_read_*_chunk_info fails while units are left; else all are handed over.
ThrownExact ==
    /\ disp \in {"draining", "checking"} => (thrown <=> todo # {})
    /\ disp = "checking" => ~thrown
    /\ disp \notin {"draining", "returned"} => ~thrown

\* The failure that is kept is that of a task, and none that ended is lost.
FailureExact ==
    /\ decoded \subseteq In(Past)
    /\ disp # "returned" /\ In(Past) # decoded => failure # Nil
    /\ failure # Nil => failure \in In(Past) \ decoded

NoTasksLeft == disp \in {"idle", "checking", "returned"} => Joined = {}

DispatchInv ==
    /\ DispatchTypeOK /\ LeftUntouched /\ ThrownExact /\ FailureExact /\ NoTasksLeft
    /\ FailureReported

\* A set of numbers that is not empty has a least element.
LEMMA LeastExists ==
    ASSUME NEW S, S \subseteq Nat, S # {}
    PROVE  \E u \in S : \A v \in S : u <= v
  <1>1. PICK u \in S : \A v \in S : ~ (<<v, u>> \in OpToRel(<, Nat))
    BY NatLessThanWellFounded, WFMin
  <1>2. OpToRel(<, Nat) = {p \in Nat \X Nat : p[1] < p[2]}
    BY Zenon DEF OpToRel
  <1>3. ASSUME NEW v \in S PROVE u <= v
    <2>1. <<v, u>> \notin {p \in Nat \X Nat : p[1] < p[2]}
      BY <1>1, <1>2, Zenon
    <2>2. u \in Nat /\ v \in Nat
      OBVIOUS
    <2>3. ~(v < u)
      BY <2>1, <2>2
    <2>4. QED
      BY <2>2, <2>3
  <1>4. QED
    BY <1>3

\* The unit that is handed over next is one of those that are left.
LEMMA CurrentIsLeft ==
    ASSUME todo \subseteq Unit, todo # {}
    PROVE  Current \in todo
  <1>1. todo \subseteq Nat
    BY DecodeAssumption DEF Unit
  <1>2. QED
    BY <1>1, LeastExists DEF Current

LEMMA DispatchInit == EngineInit => DispatchInv /\ disp = "idle"
  <1> SUFFICES ASSUME EngineInit PROVE DispatchInv /\ disp = "idle"
    OBVIOUS
  <1> USE DEF EngineInit
  <1>1. \A S : "none" \notin S => In(S) = {}
    BY DEF In
  <1>2. In(Past) = {} /\ Joined = {}
    BY <1>1 DEF Past, Joined
  <1>3. DispatchTypeOK
    BY DEF DispatchTypeOK, Dispatch, Stage
  <1>4. QED
    BY <1>2, <1>3 DEF DispatchInv, LeftUntouched, ThrownExact, FailureExact, NoTasksLeft,
                      FailureReported

\* The start of a call.
LEMMA BeginKeepsInv ==
    ASSUME NEW units, units \subseteq Unit, Begin(units)
    PROVE  DispatchInv' /\ Given' = units /\ disp' = "query"
  <1> USE DEF Begin, NewGroup
  <1>1. \A S : "none" \notin S => In(S)' = {}
    BY DEF In
  <1>2. In(Past)' = {} /\ Joined' = {} /\ In(Stage \ {"none"})' = {}
    BY <1>1 DEF Past, Joined
  <1>3. DispatchTypeOK'
    BY DEF DispatchTypeOK, Dispatch, Stage
  <1>4. LeftUntouched'
    BY DEF LeftUntouched
  <1>5. ThrownExact' /\ FailureExact' /\ NoTasksLeft' /\ FailureReported'
    BY <1>2 DEF ThrownExact, FailureExact, NoTasksLeft, FailureReported
  <1>6. QED
    BY <1>2, <1>3, <1>4, <1>5 DEF DispatchInv, Given

\* The end of a call.
LEMMA EndKeepsInv ==
    ASSUME End
    PROVE  DispatchInv' /\ disp' = "idle"
  <1> USE DEF End
  <1>1. \A S : "none" \notin S => In(S)' = {}
    BY DEF In
  <1>2. In(Past)' = {} /\ Joined' = {}
    BY <1>1 DEF Past, Joined
  <1>3. DispatchTypeOK'
    BY DEF DispatchTypeOK, Dispatch, Stage
  <1>4. QED
    BY <1>2, <1>3 DEF DispatchInv, LeftUntouched, ThrownExact, FailureExact, NoTasksLeft,
                      FailureReported

\* A task that moves to another stage.
LEMMA MovedIn ==
    ASSUME task \in [Unit -> Stage], NEW u \in Unit, NEW stage \in Stage, To(u, stage)
    PROVE  /\ task' \in [Unit -> Stage]
           /\ \A v \in Unit : task'[v] = IF v = u THEN stage ELSE task[v]
           /\ \A S : In(S)' = IF stage \in S THEN In(S) \cup {u} ELSE In(S) \ {u}
  <1>1. /\ task' \in [Unit -> Stage]
        /\ \A v \in Unit : task'[v] = IF v = u THEN stage ELSE task[v]
    BY DEF To
  <1>2. QED
    BY <1>1 DEF In

\* A unit whose task moves while the call is open: it is no longer left, or its
\* task runs in the dispatching thread.
LEMMA MoveKeepsOrder ==
    ASSUME DispatchInv, NEW u \in Unit, NEW stage \in Stage \ {"none"}, To(u, stage),
           task[u] \in Stage \ {"none", "done"}, UNCHANGED callVars
    PROVE  /\ LeftUntouched' /\ ThrownExact' /\ NoTasksLeft'
           /\ Given' = Given /\ disp \notin {"idle", "checking", "returned"}
  <1> USE DEF callVars
  <1>1. u \in Joined
    BY DEF Joined, In
  <1>2. disp \notin {"idle", "checking", "returned"}
    BY <1>1 DEF DispatchInv, NoTasksLeft
  <1>3. /\ \A v \in Unit : task'[v] = IF v = u THEN stage ELSE task[v]
        /\ In(Stage \ {"none"})' = In(Stage \ {"none"}) \cup {u}
    BY MovedIn DEF DispatchInv, DispatchTypeOK
  <1>4. u \in In(Stage \ {"none"})
    BY DEF In
  <1>5. Given' = Given
    BY <1>3, <1>4 DEF Given
  <1>6. Current' = Current
    BY DEF Current
  <1>7. LeftUntouched'
    BY <1>3, <1>6 DEF DispatchInv, LeftUntouched, DispatchTypeOK
  <1>8. ThrownExact' /\ NoTasksLeft'
    BY <1>2 DEF DispatchInv, ThrownExact, NoTasksLeft
  <1>9. QED
    BY <1>2, <1>5, <1>7, <1>8

\* The failure that is kept stays exact while a task that has recorded goes on.
LEMMA MoveKeepsFailure ==
    ASSUME DispatchInv, NEW u \in Unit, NEW stage \in Stage, To(u, stage),
           stage \in Past <=> task[u] \in Past,
           UNCHANGED <<disp, failure, decoded>>
    PROVE  FailureExact'
  <1>1. In(Past)' = In(Past)
    <2>1. task[u] \in Past <=> u \in In(Past)
      BY DEF In
    <2>2. In(Past)' = IF stage \in Past THEN In(Past) \cup {u} ELSE In(Past) \ {u}
      BY MovedIn DEF DispatchInv, DispatchTypeOK
    <2>3. QED
      BY <2>1, <2>2
  <1>2. QED
    BY <1>1 DEF DispatchInv, FailureExact

\* A step of a task.
LEMMA WorkerKeepsInv ==
    ASSUME DispatchInv, NEW u \in Unit, Worker(u)
    PROVE  /\ DispatchInv' /\ Given' = Given
           /\ disp \notin {"idle", "returned"} /\ disp' # "idle"
  <1> USE DEF Advance
  <1>1. CASE Start(u)
    <2> USE <1>1 DEF Start, groupVars
    <2>1. FailureExact'
      BY MoveKeepsFailure DEF Past, Stage, callVars
    <2>2. QED
      BY <2>1, MovedIn, MoveKeepsOrder
      DEF DispatchInv, DispatchTypeOK, FailureReported, Stage, callVars
  <1>2. CASE DecodeFails(u)
    <2> USE <1>2 DEF DecodeFails, groupVars
    <2>1. FailureExact'
      BY MoveKeepsFailure DEF Past, Stage, callVars
    <2>2. QED
      BY <2>1, MovedIn, MoveKeepsOrder
      DEF DispatchInv, DispatchTypeOK, FailureReported, Stage, callVars
  <1>3. CASE DecodeSucceeds(u)
    <2> USE <1>3 DEF DecodeSucceeds, groupVars
    <2>1. In(Past)' = In(Past) \cup {u} /\ u \notin In(Past)
      BY MovedIn DEF DispatchInv, DispatchTypeOK, Past, Stage, In
    <2>2. FailureExact'
      BY <2>1 DEF DispatchInv, FailureExact, callVars
    <2>3. QED
      BY <2>2, MovedIn, MoveKeepsOrder
      DEF DispatchInv, DispatchTypeOK, FailureReported, Stage, callVars
  <1>4. CASE RecordLoad(u)
    <2> USE <1>4 DEF RecordLoad, groupVars
    <2>1. u \notin In(Past) /\ u \notin decoded
      BY DEF DispatchInv, FailureExact, Past, In
    <2>2. PICK stage \in {"failing", "linking"} :
              To(u, stage) /\ (stage \in Past <=> failure # Nil)
      BY Zenon DEF Past
    <2>3. In(Past)' = IF failure = Nil THEN In(Past) ELSE In(Past) \cup {u}
      BY <2>1, <2>2, MovedIn DEF DispatchInv, DispatchTypeOK, Stage
    <2>4. FailureExact'
      BY <2>1, <2>3 DEF DispatchInv, FailureExact, callVars
    <2>5. QED
      BY <2>2, <2>4, MovedIn, MoveKeepsOrder
      DEF DispatchInv, DispatchTypeOK, FailureReported, Stage, callVars
  <1>5. CASE RecordSwap(u)
    <2> USE <1>5 DEF RecordSwap
    <2>1. u \notin In(Past) /\ u \notin decoded /\ u # Nil
      BY DecodeAssumption DEF DispatchInv, FailureExact, Past, In, Unit, Nil
    <2>2. In(Past)' = In(Past) \cup {u}
      BY MovedIn DEF DispatchInv, DispatchTypeOK, Past, Stage
    <2>3. FailureExact'
      BY <2>1, <2>2 DEF DispatchInv, FailureExact, callVars
    <2>4. QED
      BY <2>3, MovedIn, MoveKeepsOrder
      DEF DispatchInv, DispatchTypeOK, FailureReported, Stage, callVars
  <1>6. CASE PushLink(u)
    <2> USE <1>6 DEF PushLink
    <2>1. FailureExact'
      BY MoveKeepsFailure DEF Past, Stage, callVars
    <2>2. QED
      BY <2>1, MovedIn, MoveKeepsOrder
      DEF DispatchInv, DispatchTypeOK, FailureReported, Stage, callVars
  <1>7. CASE PushSwap(u)
    <2> USE <1>7 DEF PushSwap, Pushed
    <2>1. PICK stage \in {"swapping", "posting"} : To(u, stage)
      BY DEF DispatchInv, DispatchTypeOK, To
    <2>2. FailureExact'
      BY <2>1, MoveKeepsFailure DEF Past, Stage, callVars
    <2>3. QED
      BY <2>1, <2>2, MovedIn, MoveKeepsOrder
      DEF DispatchInv, DispatchTypeOK, FailureReported, Stage, callVars
  <1>8. CASE PushPost(u)
    <2> USE <1>8 DEF PushPost
    <2>1. FailureExact'
      BY MoveKeepsFailure DEF Past, Stage, callVars
    <2>2. QED
      BY <2>1, MovedIn, MoveKeepsOrder
      DEF DispatchInv, DispatchTypeOK, FailureReported, Stage, callVars
  <1>9. CASE Leave(u)
    <2> USE <1>9 DEF Leave, groupVars
    <2>1. FailureExact'
      BY MoveKeepsFailure DEF Past, Stage, callVars
    <2>2. QED
      BY <2>1, MovedIn, MoveKeepsOrder
      DEF DispatchInv, DispatchTypeOK, FailureReported, Stage, callVars
  <1>10. QED
    BY <1>1, <1>2, <1>3, <1>4, <1>5, <1>6, <1>7, <1>8, <1>9 DEF Worker

\* A step of the dispatching thread that touches no task.
LEMMA TasksUntouched ==
    ASSUME UNCHANGED <<todo, task>>
    PROVE  /\ \A S : In(S)' = In(S)
           /\ Joined' = Joined /\ Given' = Given /\ Current' = Current
  BY DEF In, Joined, Given, Current

\* The task of the current unit is handed to the pool or run here.
LEMMA HandOverKeepsInv ==
    ASSUME DispatchInv, disp = "swapping", HandOver,
           UNCHANGED <<thrown, failure, decoded>>
    PROVE  DispatchInv' /\ Given' = Given
  <1> USE DEF HandOver
  <1> DEFINE stage == IF workers = 0 THEN "running" ELSE "queued"
  <1>1. todo # {} /\ Current \in todo /\ Current \in Unit /\ task[Current] = "none"
    BY CurrentIsLeft DEF DispatchInv, DispatchTypeOK, LeftUntouched
  <1>2. stage \in Stage \ {"none"} /\ stage \notin Past /\ To(Current, stage)
    BY DEF Stage, Past
  <1> HIDE DEF stage
  <1>3. /\ task' \in [Unit -> Stage]
        /\ \A v \in Unit : task'[v] = IF v = Current THEN stage ELSE task[v]
        /\ In(Stage \ {"none"})' = In(Stage \ {"none"}) \cup {Current}
        /\ In(Past)' = In(Past) \ {Current}
    BY <1>1, <1>2, MovedIn DEF DispatchInv, DispatchTypeOK
  <1>4. In(Past)' = In(Past)
    BY <1>1, <1>3 DEF In, Past
  <1>5. DispatchTypeOK' /\ disp' \in {"query", "inline"}
    BY <1>3 DEF DispatchInv, DispatchTypeOK, Dispatch
  <1>6. LeftUntouched'
    <2>1. CASE workers = 0
      <3>1. Current' = Current
        BY <2>1 DEF Current
      <3>2. QED
        BY <1>1, <1>3, <2>1, <3>1 DEF DispatchInv, DispatchTypeOK, LeftUntouched
    <2>2. CASE workers # 0
      BY <1>1, <1>3, <2>2 DEF DispatchInv, DispatchTypeOK, LeftUntouched
    <2>3. QED
      BY <2>1, <2>2
  <1>7. ThrownExact' /\ FailureExact' /\ NoTasksLeft' /\ FailureReported'
    BY <1>4, <1>5
    DEF DispatchInv, ThrownExact, FailureExact, NoTasksLeft, FailureReported
  <1>8. Given' = Given
    BY <1>1, <1>3 DEF Given
  <1>9. QED
    BY <1>5, <1>6, <1>7, <1>8 DEF DispatchInv

\* The destructor of the group throws what was kept.
LEMMA CheckKeepsInv ==
    ASSUME DispatchInv, Check
    PROVE  DispatchInv'
  <1> USE DEF Check, taskVars
  <1>1. In(Past)' = In(Past) /\ In({"done"})' = In({"done"}) /\ Joined' = Joined
    BY TasksUntouched
  <1>2. Joined = {} /\ todo = {}
    BY DEF DispatchInv, NoTasksLeft, ThrownExact
  <1>3. In(Past) = In({"done"})
    <2>1. In(Past) \subseteq In({"done"}) \cup Joined
      BY DEF In, Past, Joined, Stage
    <2>2. In({"done"}) \subseteq In(Past)
      BY DEF In, Past
    <2>3. QED
      BY <1>2, <2>1, <2>2
  <1>4. failure # Nil <=> In({"done"}) # decoded
    BY <1>3 DEF DispatchInv, FailureExact
  <1>5. DispatchTypeOK'
    BY DEF DispatchInv, DispatchTypeOK, Dispatch
  <1>6. LeftUntouched' /\ ThrownExact'
    BY <1>2 DEF LeftUntouched, ThrownExact
  <1>7. FailureExact' /\ NoTasksLeft' /\ FailureReported'
    BY <1>1, <1>2, <1>4
    DEF DispatchInv, FailureExact, NoTasksLeft, FailureReported
  <1>8. QED
    BY <1>5, <1>6, <1>7 DEF DispatchInv

\* A step of the dispatching thread.
LEMMA DispatcherKeepsInv ==
    ASSUME DispatchInv, Dispatcher
    PROVE  /\ DispatchInv' /\ Given' = Given
           /\ disp \notin {"idle", "returned"} /\ disp' # "idle"
  <1> USE DEF taskVars, groupVars
  <1>1. ASSUME Query \/ AllHandedOver \/ PopWait \/ PopLoad \/ PopRead \/ Drained
        PROVE  /\ UNCHANGED <<todo, task, failure, decoded>>
               /\ disp \notin {"idle", "checking", "returned", "inline"}
               /\ disp' \in Dispatch \ {"idle", "inline"}
    BY <1>1 DEF Query, AllHandedOver, PopWait, PopLoad, PopRead, Drained, Dispatch
  <1>2. CASE Query \/ AllHandedOver \/ PopWait \/ PopLoad \/ PopRead
    <2>1. /\ disp' \notin {"checking", "returned"}
          /\ thrown' \in BOOLEAN
          /\ thrown' <=> disp' = "draining" /\ todo # {}
      <3>1. thrown = FALSE
        BY <1>2 DEF Query, AllHandedOver, PopWait, PopLoad, PopRead, DispatchInv, ThrownExact,
                    DispatchTypeOK
      <3>2. CASE Query
        BY <3>1, <3>2 DEF Query
      <3>3. CASE AllHandedOver
        BY <3>1, <3>3 DEF AllHandedOver
      <3>4. CASE PopWait \/ PopLoad \/ PopRead
        BY <3>1, <3>4 DEF PopWait, PopLoad, PopRead
      <3>5. QED
        BY <1>2, <3>2, <3>3, <3>4
    <2>2. todo # {} \/ disp' = "draining"
      BY <1>2 DEF Query, AllHandedOver, PopWait, PopLoad, PopRead, DispatchInv, LeftUntouched
    <2>3. DispatchTypeOK' /\ LeftUntouched' /\ ThrownExact'
      BY <1>1, <1>2, <2>1, <2>2
      DEF DispatchInv, DispatchTypeOK, LeftUntouched, ThrownExact
    <2>4. FailureExact' /\ NoTasksLeft' /\ FailureReported'
      BY <1>1, <1>2, <2>1, TasksUntouched
      DEF DispatchInv, FailureExact, NoTasksLeft, FailureReported
    <2>5. QED
      BY <1>1, <1>2, <2>3, <2>4, TasksUntouched DEF DispatchInv
  <1>3. CASE Drained
    <2>1. /\ disp = "draining" /\ Joined = {} /\ thrown' = thrown
          /\ disp' = IF thrown THEN "returned" ELSE "checking"
      BY <1>3 DEF Drained
    <2>2. DispatchTypeOK' /\ LeftUntouched' /\ ThrownExact'
      BY <1>1, <1>3, <2>1
      DEF DispatchInv, DispatchTypeOK, LeftUntouched, ThrownExact
    <2>3. FailureExact' /\ NoTasksLeft' /\ FailureReported'
      BY <1>1, <1>3, <2>1, TasksUntouched
      DEF DispatchInv, FailureExact, NoTasksLeft, FailureReported, ThrownExact
    <2>4. QED
      BY <1>1, <1>3, <2>2, <2>3, TasksUntouched DEF DispatchInv
  <1>4. CASE PopSwap
    <2> USE <1>4 DEF PopSwap
    <2>1. CASE head = held[Current]
      <3>1. DispatchInv' /\ Given' = Given
        BY <2>1, HandOverKeepsInv
      <3>2. disp' \in {"query", "inline"}
        BY <2>1 DEF HandOver
      <3>3. QED
        BY <3>1, <3>2
    <2>2. CASE head # held[Current]
      <3>1. DispatchTypeOK' /\ LeftUntouched' /\ ThrownExact'
        BY <2>2 DEF DispatchInv, DispatchTypeOK, LeftUntouched, ThrownExact, Dispatch
      <3>2. FailureExact' /\ NoTasksLeft' /\ FailureReported'
        BY <2>2, TasksUntouched
        DEF DispatchInv, FailureExact, NoTasksLeft, FailureReported
      <3>3. QED
        BY <2>2, <3>1, <3>2, TasksUntouched DEF DispatchInv
    <2>3. QED
      BY <2>1, <2>2
  <1>5. CASE InlineEnds
    <2> USE <1>5 DEF InlineEnds
    <2>1. Current \in todo /\ Current \in Unit /\ Current \in In(Stage \ {"none"})
      BY CurrentIsLeft DEF DispatchInv, DispatchTypeOK, LeftUntouched, In, Stage
    <2>2. DispatchTypeOK' /\ LeftUntouched' /\ ThrownExact'
      BY DEF DispatchInv, DispatchTypeOK, LeftUntouched, ThrownExact, Dispatch
    <2>3. \A S : In(S)' = In(S)
      BY DEF In
    <2>4. FailureExact' /\ NoTasksLeft' /\ FailureReported'
      BY <2>3 DEF DispatchInv, FailureExact, NoTasksLeft, FailureReported
    <2>5. Given' = Given
      BY <2>1, <2>3 DEF Given
    <2>6. QED
      BY <2>2, <2>4, <2>5 DEF DispatchInv
  <1>6. CASE Check
    BY <1>6, CheckKeepsInv, TasksUntouched DEF Check
  <1>7. QED
    BY <1>2, <1>3, <1>4, <1>5, <1>6 DEF Dispatcher

\* A step of a read under way.
LEMMA EngineKeepsInv ==
    ASSUME DispatchInv, EngineNext
    PROVE  /\ DispatchInv' /\ Given' = Given
           /\ disp \notin {"idle", "returned"} /\ disp' # "idle"
  BY DispatcherKeepsInv, WorkerKeepsInv DEF EngineNext

\* The end of a read: without an exception every unit of the call was decoded,
\* with one some unit was not.
LEMMA ReturnedMeansDecoded ==
    ASSUME DispatchInv, disp = "returned"
    PROVE  /\ decoded \subseteq Given
           /\ thrown <=> decoded # Given
           /\ In({"done"}) \subseteq Given
  <1>1. Joined = {}
    BY DEF DispatchInv, NoTasksLeft
  <1>2. In(Stage \ {"none"}) = In({"done"}) \cup Joined
    BY DEF In, Joined, Stage
  <1>3. In(Past) \subseteq In(Stage \ {"none"})
    BY DEF In, Past, Stage
  <1>4. todo \cap decoded = {}
    BY DEF DispatchInv, LeftUntouched, FailureExact, In, Past
  <1>5. QED
    BY <1>1, <1>2, <1>3, <1>4 DEF DispatchInv, FailureReported, FailureExact, Given

\* Nothing of the engine changes.
LEMMA EngineStutter ==
    ASSUME DispatchInv, UNCHANGED engineVars
    PROVE  DispatchInv' /\ Given' = Given
  <1> USE DEF engineVars
  <1>1. LeftUntouched' /\ ThrownExact' /\ DispatchTypeOK'
    BY DEF DispatchInv, LeftUntouched, ThrownExact, DispatchTypeOK, Current
  <1>2. FailureExact' /\ NoTasksLeft' /\ FailureReported' /\ Given' = Given
    BY TasksUntouched
    DEF DispatchInv, FailureExact, NoTasksLeft, FailureReported
  <1>3. QED
    BY <1>1, <1>2 DEF DispatchInv

-----------------------------------------------------------------------------
(* The processes.  While a call is under way the list is a sequence of      *)
(* distinct processes, those that no task holds; a permit of the semaphore, *)
(* the one that pop has taken and the ones that push has yet to give back   *)
(* are as many as the list is long.                                         *)

\* The stages in which a task has its process, and those of pop after wait.
Holding == {"queued", "running", "recording", "failing", "linking", "swapping"}
Popping == {"loading", "reading", "swapping"}

HeldExact ==
    /\ \A u \in Unit : task[u] \in Holding => held[u] \in Process
    /\ \A u \in Unit : task[u] \in {"posting", "leaving", "done"} => held[u] = Nil

HeldOnce ==
    \A u, v \in Unit :
        held[u] = held[v] /\ held[u] # Nil /\ task[u] # "none" /\ task[v] # "none" => u = v

LinkKept == \A u \in Unit : task[u] = "swapping" => next[held[u]] = seen[u]

\* The list from the head on is s, of length n.
Chain(n, s) ==
    /\ \A i, j \in 1 .. n : s[i] = s[j] => i = j
    /\ head = IF n = 0 THEN Nil ELSE s[1]
    /\ \A i \in 1 .. n : next[s[i]] = IF i = n THEN Nil ELSE s[i + 1]

\* It is made of the processes that no task holds.
FreeOnes(n, s) == \A p \in Process : (\E i \in 1 .. n : s[i] = p) <=> Users(p) = {}

Borrowed == IF disp \in Popping THEN 1 ELSE 0
Permits(n) == sem + Borrowed + Cardinality(In({"posting"})) = n

\* What pop has read is still so: only this thread takes from the list.
PopSees(n, s) ==
    /\ disp \in {"reading", "swapping"} => \E i \in 1 .. n : s[i] = held[Current]
    /\ disp = "swapping" => seen[Current] = next[held[Current]]

ListIs(n, s) == Chain(n, s) /\ FreeOnes(n, s) /\ Permits(n) /\ PopSees(n, s)

ListInv ==
    disp \notin {"idle", "returned"} =>
        \E n \in 0 .. NumThreads : \E s \in [1 .. n -> Process] : ListIs(n, s)

SharedInv == EngineTypeOK /\ HeldExact /\ HeldOnce /\ LinkKept /\ ListInv

\* The tasks about to post are counted.
LEMMA PostingCount ==
    /\ IsFiniteSet(In({"posting"})) /\ Cardinality(In({"posting"})) \in Nat
  <1>1. IsFiniteSet(Unit)
    BY FS_Interval, DecodeAssumption DEF Unit
  <1>2. In({"posting"}) \subseteq Unit
    BY DEF In
  <1>3. QED
    BY <1>1, <1>2, FS_Subset, FS_CardinalityType

\* A task that goes on holds its process as before.
LEMMA UsersKept ==
    ASSUME task \in [Unit -> Stage], NEW u \in Unit, NEW stage \in Stage, To(u, stage),
           stage # "none", task[u] # "none", held' = held
    PROVE  \A p : Users(p)' = Users(p)
  <1>1. \A v \in Unit : task'[v] # "none" <=> task[v] # "none"
    BY DEF To
  <1>2. QED
    BY <1>1 DEF Users

\* The list stays while nobody touches it, and no process changes hands.
LEMMA ChainStays ==
    ASSUME NEW n \in 0 .. NumThreads, NEW s \in [1 .. n -> Process],
           Chain(n, s), FreeOnes(n, s), UNCHANGED <<head, next>>,
           \A p : Users(p)' = Users(p)
    PROVE  Chain(n, s)' /\ FreeOnes(n, s)'
  BY DEF Chain, FreeOnes

\* A step of a task that touches neither the list nor the semaphore.
LEMMA QuietTask ==
    ASSUME DispatchTypeOK, SharedInv, NEW u \in Unit, NEW stage \in Stage, To(u, stage),
           stage \notin {"none", "posting", "swapping"},
           task[u] \notin {"none", "posting", "swapping"},
           stage \in Holding <=> task[u] \in Holding,
           UNCHANGED <<sem, head, next, held, seen, disp, todo>>
    PROVE  HeldExact' /\ HeldOnce' /\ LinkKept' /\ ListInv'
  <1> USE DEF SharedInv
  <1>1. \A p : Users(p)' = Users(p)
    BY UsersKept DEF DispatchTypeOK
  <1>2. \A v \in Unit : task'[v] = IF v = u THEN stage ELSE task[v]
    BY DEF To, DispatchTypeOK
  <1>3. HeldExact'
    <2>1. task[u] \in Stage
      BY DEF DispatchTypeOK
    <2>2. QED
      BY <1>2, <2>1 DEF HeldExact, Holding, Stage
  <1>4. HeldOnce'
    BY <1>2 DEF HeldOnce
  <1>5. LinkKept'
    BY <1>2 DEF LinkKept
  <1>6. ListInv'
    <2>1. In({"posting"})' = In({"posting"}) /\ Borrowed' = Borrowed /\ Current' = Current
      BY <1>2 DEF In, Borrowed, Current
    <2>2. SUFFICES ASSUME disp' \notin {"idle", "returned"}
                   PROVE  ListInv'
      BY DEF ListInv
    <2>3. PICK n \in 0 .. NumThreads : \E s \in [1 .. n -> Process] : ListIs(n, s)
      BY <2>2 DEF ListInv
    <2>4. PICK s \in [1 .. n -> Process] : ListIs(n, s)
      BY <2>3
    <2>5. Chain(n, s)' /\ FreeOnes(n, s)'
      BY <1>1, <2>4, ChainStays DEF ListIs
    <2>6. Permits(n)' /\ PopSees(n, s)'
      BY <2>1, <2>4 DEF ListIs, Permits, PopSees
    <2>7. QED
      BY <2>5, <2>6 DEF ListInv, ListIs
  <1>7. QED
    BY <1>3, <1>4, <1>5, <1>6

\* The tasks about to post, when one of them is added or goes.
LEMMA PostingMoves ==
    ASSUME task \in [Unit -> Stage], NEW u \in Unit, NEW stage \in Stage, To(u, stage)
    PROVE  /\ task[u] # "posting" /\ stage = "posting" =>
                Cardinality(In({"posting"}))' = Cardinality(In({"posting"})) + 1
           /\ task[u] = "posting" /\ stage # "posting" =>
                Cardinality(In({"posting"}))' = Cardinality(In({"posting"})) - 1
  <1>1. In({"posting"})' = IF stage \in {"posting"} THEN In({"posting"}) \cup {u}
                                                    ELSE In({"posting"}) \ {u}
    BY MovedIn
  <1>2. u \in In({"posting"}) <=> task[u] = "posting"
    BY DEF In
  <1>3. IsFiniteSet(In({"posting"})) /\ Cardinality(In({"posting"})) \in Nat
    BY PostingCount
  <1>4. CASE task[u] # "posting" /\ stage = "posting"
    BY <1>1, <1>2, <1>3, <1>4, FS_AddElement
  <1>5. CASE task[u] = "posting" /\ stage # "posting"
    BY <1>1, <1>2, <1>3, <1>5, FS_RemoveElement
  <1>6. QED
    BY <1>4, <1>5

\* push links a process that no list holds to the head, at first or again.
LEMMA LinkKeepsShared ==
    ASSUME DispatchTypeOK, LeftUntouched, SharedInv, NEW u \in Unit,
           task[u] \in {"linking", "swapping"}, To(u, "swapping"),
           disp \notin {"idle", "returned"},
           seen' = [seen EXCEPT ![u] = head],
           next' = [next EXCEPT ![held[u]] = head],
           UNCHANGED <<sem, head, held, disp, todo>>
    PROVE  HeldExact' /\ HeldOnce' /\ LinkKept' /\ ListInv'
  <1> USE DEF SharedInv
  <1>1. held[u] \in Process /\ u \in Users(held[u])
    BY DEF HeldExact, Holding, Users
  <1>2. held[u] # Nil /\ next' \in [Process -> Process \cup {Nil}]
    BY <1>1 DEF Process, Nil, EngineTypeOK
  <1>3. \A v \in Unit : task'[v] = IF v = u THEN "swapping" ELSE task[v]
    BY DEF To, DispatchTypeOK
  <1>4. HeldExact' /\ HeldOnce'
    BY <1>3 DEF HeldExact, HeldOnce, Holding
  <1>5. LinkKept'
    <2> SUFFICES ASSUME NEW v \in Unit, task'[v] = "swapping" PROVE next'[held[v]] = seen'[v]
      BY DEF LinkKept
    <2>1. CASE v = u
      BY <2>1, <1>1 DEF EngineTypeOK
    <2>2. CASE v # u
      <3>1. task[v] = "swapping" /\ held[v] \in Process /\ held[v] # held[u]
        BY <2>2, <1>1, <1>2, <1>3 DEF HeldOnce, HeldExact, Holding
      <3>2. QED
        BY <2>2, <3>1 DEF EngineTypeOK, LinkKept
    <2>3. QED
      BY <2>1, <2>2
  <1>6. \A p : Users(p)' = Users(p)
    BY UsersKept DEF DispatchTypeOK, Stage
  <1>7. PICK n \in 0 .. NumThreads : \E s \in [1 .. n -> Process] : ListIs(n, s)
    BY DEF ListInv
  <1>8. PICK s \in [1 .. n -> Process] : ListIs(n, s)
    BY <1>7
  <1>9. \A i \in 1 .. n : s[i] # held[u] /\ next'[s[i]] = next[s[i]]
    BY <1>1, <1>8 DEF ListIs, FreeOnes, EngineTypeOK
  <1>10. Chain(n, s)' /\ FreeOnes(n, s)'
    BY <1>6, <1>8, <1>9 DEF ListIs, Chain, FreeOnes
  <1>11. In({"posting"})' = In({"posting"}) /\ Borrowed' = Borrowed /\ Current' = Current
    BY <1>3 DEF In, Borrowed, Current
  <1>12. PopSees(n, s)'
    <2> SUFFICES ASSUME disp \in {"reading", "swapping"} PROVE PopSees(n, s)'
      BY DEF PopSees
    <2>1. todo # {} /\ Current \in todo /\ Current \in Unit /\ task[Current] = "none"
      BY CurrentIsLeft DEF LeftUntouched, DispatchTypeOK
    <2>2. Current # u
      BY <2>1
    <2>3. PICK i \in 1 .. n : s[i] = held[Current]
      BY <1>8 DEF ListIs, PopSees
    <2>4. next'[held[Current]] = next[held[Current]] /\ seen'[Current] = seen[Current]
      BY <1>9, <2>1, <2>2, <2>3 DEF EngineTypeOK
    <2>5. QED
      BY <1>8, <1>11, <2>3, <2>4 DEF ListIs, PopSees
  <1>13. QED
    BY <1>4, <1>5, <1>8, <1>10, <1>11, <1>12 DEF ListInv, ListIs, Permits

\* The process is put in front of the list.
LEMMA PushedKeepsShared ==
    ASSUME DispatchTypeOK, LeftUntouched, SharedInv, NEW u \in Unit,
           task[u] = "swapping", head = seen[u], Pushed(u),
           disp \notin {"idle", "returned"},
           UNCHANGED <<sem, next, seen, disp, todo>>
    PROVE  HeldExact' /\ HeldOnce' /\ LinkKept' /\ ListInv' /\ head' \in Process
  <1> USE DEF SharedInv, Pushed
  <1>0. PICK q \in Process : q = held[u]
    BY DEF HeldExact, Holding
  <1>1. q \in Process /\ q # Nil /\ q \in 1 .. NumThreads
    BY DEF Process, Nil
  <1>2. next[q] = head
    BY <1>0 DEF LinkKept
  <1>3. /\ \A v \in Unit : task'[v] = IF v = u THEN "posting" ELSE task[v]
        /\ \A v \in Unit : held'[v] = IF v = u THEN Nil ELSE held[v]
    BY DEF To, DispatchTypeOK, EngineTypeOK
  <1>4. HeldExact' /\ HeldOnce' /\ LinkKept'
    BY <1>3 DEF HeldExact, HeldOnce, LinkKept, Holding
  <1>5. Users(q) = {u} /\ Users(q)' = {}
    <2>1. \A v \in Unit : held[v] = q /\ task[v] # "none" <=> v = u
      BY <1>0, <1>1 DEF HeldOnce
    <2>2. QED
      BY <1>1, <1>3, <2>1 DEF Users
  <1>6. \A p \in Process : p # q => Users(p)' = Users(p)
    <2> SUFFICES ASSUME NEW p \in Process, p # q PROVE Users(p)' = Users(p)
      OBVIOUS
    <2>1. p # Nil
      BY DEF Process, Nil
    <2>2. QED
      BY <1>0, <1>3, <2>1 DEF Users
  <1>7. PICK n \in 0 .. NumThreads : \E s \in [1 .. n -> Process] : ListIs(n, s)
    BY DEF ListInv
  <1>8. PICK s \in [1 .. n -> Process] : ListIs(n, s)
    BY <1>7
  <1>9. \A i \in 1 .. n : s[i] # q
    BY <1>1, <1>5, <1>8 DEF ListIs, FreeOnes
  <1> DEFINE t == [i \in 1 .. n + 1 |-> IF i = 1 THEN q ELSE s[i - 1]]
  <1>11. n + 1 \in Nat /\ n \in Nat /\ NumThreads \in Nat
    BY DecodeAssumption
  <1>12. /\ t \in [1 .. n + 1 -> Process]
         /\ t[1] = q
         /\ \A i \in 1 .. n + 1 : i # 1 => i - 1 \in 1 .. n /\ t[i] = s[i - 1]
         /\ \A i \in 1 .. n : i + 1 \in 1 .. n + 1 /\ t[i + 1] = s[i]
    BY <1>1, <1>11
  <1> HIDE DEF t
  <1>13. \A i, j \in 1 .. n + 1 : t[i] = t[j] => i = j
    <2> SUFFICES ASSUME NEW i \in 1 .. n + 1, NEW j \in 1 .. n + 1, t[i] = t[j] PROVE i = j
      OBVIOUS
    <2>1. CASE i # 1 /\ j # 1
      BY <2>1, <1>8, <1>11, <1>12 DEF ListIs, Chain
    <2>2. CASE i = 1 /\ j # 1
      BY <2>2, <1>9, <1>12
    <2>3. CASE i # 1 /\ j = 1
      BY <2>3, <1>9, <1>12
    <2>4. QED
      BY <2>1, <2>2, <2>3
  <1>14. n + 1 <= NumThreads
    <2>1. t \in Injection(1 .. n + 1, Process)
      BY <1>12, <1>13 DEF Injection, IsInjective
    <2>2. /\ IsFiniteSet(Process) /\ Cardinality(Process) = NumThreads
          /\ IsFiniteSet(1 .. n + 1) /\ Cardinality(1 .. n + 1) = n + 1
      BY <1>11, FS_Interval DEF Process
    <2>3. QED
      BY <2>1, <2>2, FS_Injection
  <1>15. Chain(n + 1, t)'
    <2>1. head' = t[1]
      BY <1>0, <1>12
    <2>2. \A i \in 1 .. n + 1 : next[t[i]] = IF i = n + 1 THEN Nil ELSE t[i + 1]
      <3> SUFFICES ASSUME NEW i \in 1 .. n + 1
                   PROVE  next[t[i]] = IF i = n + 1 THEN Nil ELSE t[i + 1]
        OBVIOUS
      <3>1. CASE i = 1
        <4>1. next[t[i]] = IF n = 0 THEN Nil ELSE s[1]
          BY <3>1, <1>2, <1>8, <1>12 DEF ListIs, Chain
        <4>2. n # 0 => t[i + 1] = s[1]
          BY <3>1, <1>11, <1>12
        <4>3. QED
          BY <3>1, <1>11, <4>1, <4>2
      <3>2. CASE i # 1
        <4>1. PICK j \in 1 .. n : i = j + 1
          BY <3>2, <1>11
        <4>2. next[t[i]] = IF j = n THEN Nil ELSE s[j + 1]
          BY <4>1, <1>8, <1>12 DEF ListIs, Chain
        <4>3. j # n => j + 1 \in 1 .. n /\ t[j + 2] = s[j + 1]
          BY <1>11, <1>12
        <4>4. QED
          BY <4>1, <4>2, <4>3, <1>11
      <3>3. QED
        BY <3>1, <3>2
    <2>3. QED
      BY <1>11, <1>13, <2>1, <2>2 DEF Chain
  <1>16. FreeOnes(n + 1, t)'
    <2> SUFFICES ASSUME NEW p \in Process
                 PROVE  (\E i \in 1 .. n + 1 : t[i] = p) <=> Users(p)' = {}
      BY DEF FreeOnes
    <2>1. CASE p = q
      BY <2>1, <1>5, <1>11, <1>12
    <2>2. CASE p # q
      <3>1. Users(p)' = {} <=> \E i \in 1 .. n : s[i] = p
        BY <2>2, <1>6, <1>8 DEF ListIs, FreeOnes
      <3>2. (\E i \in 1 .. n + 1 : t[i] = p) <=> \E i \in 1 .. n : s[i] = p
        BY <2>2, <1>12
      <3>3. QED
        BY <3>1, <3>2
    <2>3. QED
      BY <2>1, <2>2
  <1>17. Permits(n + 1)'
    <2>1. Cardinality(In({"posting"}))' = Cardinality(In({"posting"})) + 1
      BY PostingMoves DEF DispatchTypeOK, Stage
    <2>2. Cardinality(In({"posting"})) \in Nat /\ sem \in Nat /\ Borrowed \in Nat
      BY PostingCount DEF EngineTypeOK, Borrowed
    <2>3. sem' + Borrowed' = sem + Borrowed
      BY DEF Borrowed
    <2>4. sem' + Borrowed' \in Int
      BY <2>2, <2>3
    <2>5. QED
      BY <1>8, <2>1, <2>2, <2>3, <2>4 DEF ListIs, Permits
  <1>18. PopSees(n + 1, t)'
    <2> SUFFICES ASSUME disp \in {"reading", "swapping"} PROVE PopSees(n + 1, t)'
      BY DEF PopSees
    <2>1. /\ todo # {} /\ Current \in todo /\ Current \in Unit /\ Current' = Current
          /\ task[Current] = "none"
      BY CurrentIsLeft DEF LeftUntouched, DispatchTypeOK, Current
    <2>2. Current # u
      BY <2>1
    <2>3. PICK i \in 1 .. n : s[i] = held[Current]
      BY <1>8 DEF ListIs, PopSees
    <2>4. held'[Current] = held[Current]
      BY <1>3, <2>1, <2>2
    <2>5. \E k \in 1 .. n + 1 : t[k] = held[Current]
      BY <1>12, <2>3
    <2>6. disp = "swapping" => seen[Current] = next[held[Current]]
      BY <1>8 DEF ListIs, PopSees
    <2>7. QED
      BY <2>1, <2>4, <2>5, <2>6 DEF PopSees
  <1>19. ListInv'
    <2>1. ListIs(n + 1, t)'
      BY <1>15, <1>16, <1>17, <1>18 DEF ListIs
    <2>2. n + 1 \in 0 .. NumThreads
      BY <1>11, <1>14
    <2>3. QED
      BY <1>12, <2>1, <2>2 DEF ListInv
  <1>20. QED
    BY <1>0, <1>4, <1>19

\* Pop takes the first process of the list.
LEMMA PoppedKeepsShared ==
    ASSUME DispatchTypeOK, LeftUntouched, SharedInv,
           disp = "swapping", head = held[Current],
           head' = seen[Current], HandOver,
           UNCHANGED <<sem, next, held, seen>>
    PROVE  /\ HeldExact' /\ HeldOnce' /\ LinkKept' /\ ListInv'
           /\ \E q \in Process : \E u \in Unit :
                 /\ task[u] = "none" /\ Users(q) = {} /\ Users(q)' = {u}
                 /\ \A p \in Process : p # q => Users(p)' = Users(p)
  <1> USE DEF SharedInv, HandOver
  <1>0. PICK stage \in {"running", "queued"} : To(Current, stage)
    OBVIOUS
  <1>1. PICK u \in Unit : u = Current /\ task[u] = "none" /\ u \in todo
    BY CurrentIsLeft DEF LeftUntouched, DispatchTypeOK
  <1>2. PICK n \in 0 .. NumThreads : \E s \in [1 .. n -> Process] : ListIs(n, s)
    BY DEF ListInv
  <1>3. PICK s \in [1 .. n -> Process] : ListIs(n, s)
    BY <1>2
  <1>4. n \in Nat /\ n # 0 /\ n - 1 \in 0 .. NumThreads /\ 1 \in 1 .. n
    BY <1>3, DecodeAssumption DEF ListIs, PopSees
  <1>5. PICK q \in Process : q = head /\ q = s[1] /\ q = held[u]
    BY <1>1, <1>3, <1>4 DEF ListIs, Chain
  <1>6. q # Nil /\ Users(q) = {}
    <2>1. q # Nil
      BY DEF Process, Nil
    <2>2. (\E i \in 1 .. n : s[i] = q) <=> Users(q) = {}
      BY <1>3 DEF ListIs, FreeOnes
    <2>3. QED
      BY <1>4, <1>5, <2>1, <2>2
  <1>7. head' = next[q]
    BY <1>1, <1>3, <1>5 DEF ListIs, PopSees
  <1>8. \A v \in Unit : task'[v] = IF v = u THEN stage ELSE task[v]
    BY <1>0, <1>1 DEF To, DispatchTypeOK
  <1>9. \A v \in Unit : held[v] = q => task[v] = "none"
    BY <1>6 DEF Users
  <1>10. HeldExact' /\ HeldOnce' /\ LinkKept'
    <2>1. HeldExact'
      BY <1>5, <1>8 DEF HeldExact, Holding
    <2>2. HeldOnce'
      <3> SUFFICES ASSUME NEW v \in Unit, NEW w \in Unit, held[v] = held[w], held[v] # Nil,
                          task'[v] # "none", task'[w] # "none"
                   PROVE  v = w
        BY DEF HeldOnce
      <3>1. CASE v = u \/ w = u
        BY <3>1, <1>5, <1>8, <1>9
      <3>2. CASE v # u /\ w # u
        BY <3>2, <1>8 DEF HeldOnce
      <3>3. QED
        BY <3>1, <3>2
    <2>3. LinkKept'
      BY <1>8 DEF LinkKept
    <2>4. QED
      BY <2>1, <2>2, <2>3
  <1>11. Users(q)' = {u} /\ \A p \in Process : p # q => Users(p)' = Users(p)
    BY <1>5, <1>8, <1>9 DEF Users
  <1> DEFINE t == [i \in 1 .. n - 1 |-> s[i + 1]]
  <1>12. /\ t \in [1 .. n - 1 -> Process]
         /\ \A i \in 1 .. n - 1 : i + 1 \in 1 .. n /\ t[i] = s[i + 1]
         /\ \A i \in 1 .. n : i # 1 => i - 1 \in 1 .. n - 1 /\ t[i - 1] = s[i]
    BY <1>4
  <1> HIDE DEF t
  <1>13. Chain(n - 1, t)'
    <2>1. head' = IF n - 1 = 0 THEN Nil ELSE t[1]
      <3>1. next[q] = IF 1 = n THEN Nil ELSE s[2]
        <4>1. next[s[1]] = IF 1 = n THEN Nil ELSE s[1 + 1]
          BY <1>3, <1>4, Zenon DEF ListIs, Chain
        <4>2. QED
          BY <1>5, <4>1
      <3>2. n # 1 => t[1] = s[2]
        BY <1>4, <1>12
      <3>3. QED
        BY <1>4, <1>7, <3>1, <3>2
    <2>2. \A i, j \in 1 .. n - 1 : t[i] = t[j] => i = j
      <3> SUFFICES ASSUME NEW i \in 1 .. n - 1, NEW j \in 1 .. n - 1, t[i] = t[j] PROVE i = j
        OBVIOUS
      <3>1. s[i + 1] = s[j + 1] /\ i + 1 \in 1 .. n /\ j + 1 \in 1 .. n
        BY <1>12
      <3>2. i + 1 = j + 1
        BY <1>3, <3>1 DEF ListIs, Chain
      <3>3. QED
        BY <3>2
    <2>3. \A i \in 1 .. n - 1 : next[t[i]] = IF i = n - 1 THEN Nil ELSE t[i + 1]
      <3> SUFFICES ASSUME NEW i \in 1 .. n - 1
                   PROVE  next[t[i]] = IF i = n - 1 THEN Nil ELSE t[i + 1]
        OBVIOUS
      <3>1. next[t[i]] = IF i + 1 = n THEN Nil ELSE s[i + 2]
        BY <1>3, <1>4, <1>12 DEF ListIs, Chain
      <3>2. i # n - 1 => t[i + 1] = s[i + 2]
        BY <1>4, <1>12
      <3>3. QED
        BY <1>4, <3>1, <3>2
    <2>4. QED
      BY <2>1, <2>2, <2>3 DEF Chain
  <1>14. FreeOnes(n - 1, t)'
    <2> SUFFICES ASSUME NEW p \in Process
                 PROVE  (\E i \in 1 .. n - 1 : t[i] = p) <=> Users(p)' = {}
      BY DEF FreeOnes
    <2>1. CASE p = q
      <3> SUFFICES ASSUME NEW i \in 1 .. n - 1, t[i] = q PROVE FALSE
        BY <2>1, <1>11
      <3>1. s[i + 1] = s[1] /\ i + 1 \in 1 .. n /\ 1 \in 1 .. n
        BY <1>4, <1>5, <1>12
      <3>2. i + 1 = 1
        BY <1>3, <3>1 DEF ListIs, Chain
      <3>3. QED
        BY <3>2
    <2>2. CASE p # q
      <3>1. Users(p)' = {} <=> \E i \in 1 .. n : s[i] = p
        BY <2>2, <1>3, <1>11 DEF ListIs, FreeOnes
      <3>2. (\E i \in 1 .. n - 1 : t[i] = p) <=> \E i \in 1 .. n : s[i] = p
        <4>1. ASSUME NEW i \in 1 .. n - 1, t[i] = p PROVE \E j \in 1 .. n : s[j] = p
          BY <1>12, <4>1
        <4>2. ASSUME NEW i \in 1 .. n, s[i] = p PROVE \E j \in 1 .. n - 1 : t[j] = p
          <5>1. i # 1
            BY <2>2, <1>5, <4>2
          <5>2. i - 1 \in 1 .. n - 1 /\ t[i - 1] = p
            BY <1>12, <4>2, <5>1
          <5>3. QED
            BY <5>2
        <4>3. QED
          BY <4>1, <4>2
      <3>3. QED
        BY <3>1, <3>2
    <2>3. QED
      BY <2>1, <2>2
  <1>15. disp' \notin Popping /\ PopSees(n - 1, t)'
    BY DEF PopSees, Popping
  <1>16. Permits(n - 1)'
    <2>1. In({"posting"})' = In({"posting"})
      BY <1>1, <1>8 DEF In
    <2>2. Borrowed = 1 /\ Borrowed' = 0
      BY <1>15 DEF Borrowed, Popping
    <2>3. sem + 1 + Cardinality(In({"posting"})) = n
      BY <1>3, <2>2 DEF ListIs, Permits
    <2>4. sem \in Int /\ Cardinality(In({"posting"})) \in Int
      BY PostingCount DEF EngineTypeOK
    <2>5. sem + 0 + Cardinality(In({"posting"})) = n - 1
      BY <2>3, <2>4, <1>4
    <2>6. QED
      BY <2>1, <2>2, <2>5 DEF Permits
  <1>17. ListInv'
    BY <1>4, <1>12, <1>13, <1>14, <1>15, <1>16 DEF ListInv, ListIs
  <1>18. QED
    BY <1>1, <1>5, <1>6, <1>10, <1>11, <1>17

\* Pop loads the head; a list with a permit taken from it is not empty.
LEMMA LoadKeepsShared ==
    ASSUME DispatchTypeOK, LeftUntouched, SharedInv, disp \in Popping,
           held' = [held EXCEPT ![Current] = head], disp' = "reading",
           UNCHANGED <<sem, head, next, seen, task, todo>>
    PROVE  /\ HeldExact' /\ HeldOnce' /\ LinkKept' /\ ListInv' /\ head \in Process
           /\ \A p : Users(p)' = Users(p)
  <1> USE DEF SharedInv
  <1>1. PICK u \in Unit : u = Current /\ task[u] = "none" /\ u \in todo /\ Current' = u
    BY CurrentIsLeft DEF LeftUntouched, DispatchTypeOK, Popping, Current
  <1>2. held' \in [Unit -> Process \cup {Nil}] /\ held'[u] = head
        /\ \A v \in Unit : v # u => held'[v] = held[v]
    BY <1>1 DEF EngineTypeOK
  <1>3. HeldExact' /\ HeldOnce' /\ LinkKept'
    BY <1>1, <1>2 DEF HeldExact, HeldOnce, LinkKept, Holding
  <1>4. PICK n \in 0 .. NumThreads : \E s \in [1 .. n -> Process] : ListIs(n, s)
    BY DEF ListInv, Popping
  <1>5. PICK s \in [1 .. n -> Process] : ListIs(n, s)
    BY <1>4
  <1>6. n # 0
    <2>1. Borrowed = 1 /\ sem \in Nat /\ Cardinality(In({"posting"})) \in Nat
      BY PostingCount DEF Borrowed, EngineTypeOK
    <2>2. sem + 1 + Cardinality(In({"posting"})) = n
      BY <1>5, <2>1 DEF ListIs, Permits
    <2>3. QED
      BY <2>1, <2>2
  <1>7. 1 \in 1 .. n /\ head = s[1] /\ head \in Process
    BY <1>5, <1>6 DEF ListIs, Chain
  <1>8. \A p : Users(p)' = Users(p)
    BY <1>1, <1>2 DEF Users
  <1>9. Chain(n, s)' /\ FreeOnes(n, s)'
    BY <1>5, <1>8, ChainStays DEF ListIs
  <1>10. Permits(n)' /\ PopSees(n, s)'
    <2>1. In({"posting"})' = In({"posting"}) /\ Borrowed' = Borrowed
      BY DEF In, Borrowed, Popping
    <2>2. QED
      BY <1>1, <1>2, <1>5, <1>7, <2>1 DEF ListIs, Permits, PopSees
  <1>11. QED
    BY <1>3, <1>5, <1>7, <1>8, <1>9, <1>10 DEF ListInv, ListIs

\* Nothing that the pool of ProcessPool.tla is about changes.
PoolVars == <<disp \notin {"idle", "returned"}, [p \in Process |-> Users(p)],
              disp \notin {"idle", "returned"} /\ failure # Nil,
              disp = "returned" /\ thrown>>
PoolStep == Pool!PoolNext \/ UNCHANGED PoolVars

\* A step of a task that keeps each process where it is.
LEMMA TaskStutter ==
    ASSUME \A p \in Process : Users(p)' = Users(p), UNCHANGED <<disp, failure, thrown>>
    PROVE  PoolStep
  BY DEF PoolStep, PoolVars

\* A failure is recorded while the task has its process.
LEMMA FailStep ==
    ASSUME \A p \in Process : Users(p)' = Users(p), UNCHANGED <<disp, thrown>>,
           NEW q \in Process, Users(q) # {}, disp \notin {"idle", "returned"},
           failure' # Nil
    PROVE  PoolStep
  <1>1. [p \in Process |-> Users(p)] # [p \in Process |-> {}]
    <2>1. [p \in Process |-> Users(p)][q] # [p \in Process |-> {}][q]
      OBVIOUS
    <2>2. QED
      BY <2>1, Zenon
  <1>2. [p \in Process |-> Users(p)]' = [p \in Process |-> Users(p)]
    OBVIOUS
  <1>3. QED
    BY <1>1, <1>2 DEF PoolStep, Pool!PoolNext, Pool!Fail, Pool!Nobody

\* A process is given back.
LEMMA GiveBackStep ==
    ASSUME NEW q \in Process, Users(q) # {}, Users(q)' = {},
           \A p \in Process : p # q => Users(p)' = Users(p),
           UNCHANGED <<disp, thrown, failure>>, disp \notin {"idle", "returned"}
    PROVE  PoolStep
  <1>1. [p \in Process |-> Users(p)]' = [[p \in Process |-> Users(p)] EXCEPT ![q] = {}]
    OBVIOUS
  <1>2. Pool!GiveBack(q)
    BY <1>1 DEF Pool!GiveBack
  <1>3. QED
    BY <1>2 DEF PoolStep, Pool!PoolNext

\* A process is lent.
LEMMA LendStep ==
    ASSUME NEW q \in Process, NEW u \in Unit, Users(q) = {}, Users(q)' = {u},
           \A p \in Process : p # q => Users(p)' = Users(p), task[u] = "none",
           disp \notin {"idle", "returned"}, disp' \notin {"idle", "returned"},
           UNCHANGED <<thrown, failure>>
    PROVE  PoolStep
  <1>1. [p \in Process |-> Users(p)]' = [[p \in Process |-> Users(p)] EXCEPT ![q] = {u}]
    OBVIOUS
  <1>2. \A p \in Process : u \notin Users(p)
    BY DEF Users
  <1>3. Pool!Lend(q, u)
    BY <1>1, <1>2 DEF Pool!Lend
  <1>4. QED
    BY <1>3 DEF PoolStep, Pool!PoolNext

\* A step of a task keeps the processes shared, and is one of the pool.
LEMMA WorkerKeepsShared ==
    ASSUME DispatchInv, SharedInv, NEW u \in Unit, Worker(u)
    PROVE  SharedInv' /\ PoolStep
  <1> USE DEF Advance, SharedInv, callVars, groupVars, processVars
  <1>1. DispatchTypeOK /\ LeftUntouched /\ task[u] \in Stage
    BY DEF DispatchInv, DispatchTypeOK
  <1>2. disp \notin {"idle", "returned"} /\ DispatchTypeOK'
    BY WorkerKeepsInv DEF DispatchInv
  <1>3. task[u] \in Holding => held[u] \in Process /\ u \in Users(held[u])
    BY DEF HeldExact, Users, Holding
  <1>4. CASE Start(u) \/ DecodeFails(u) \/ DecodeSucceeds(u) \/ Leave(u)
    <2>1. PICK stage \in Stage :
              /\ To(u, stage) /\ stage \notin {"none", "posting", "swapping"}
              /\ task[u] \notin {"none", "posting", "swapping"}
              /\ stage \in Holding <=> task[u] \in Holding
      BY <1>4 DEF Start, DecodeFails, DecodeSucceeds, Leave, Holding, Stage
    <2>2. UNCHANGED <<workers, sem, head, next, failure, held, seen, disp, todo, thrown>>
      BY <1>4 DEF Start, DecodeFails, DecodeSucceeds, Leave
    <2>3. HeldExact' /\ HeldOnce' /\ LinkKept' /\ ListInv'
      BY <1>1, <2>1, <2>2, QuietTask
    <2>4. first' \subseteq Process /\ chosen' \subseteq Process \ first'
      <3>1. CASE Start(u) \/ Leave(u)
        BY <3>1 DEF Start, Leave, EngineTypeOK
      <3>2. CASE DecodeFails(u)
        BY <3>2 DEF DecodeFails, EngineTypeOK
      <3>3. CASE DecodeSucceeds(u)
        BY <3>3 DEF DecodeSucceeds, EngineTypeOK
      <3>4. QED
        BY <1>4, <3>1, <3>2, <3>3
    <2>5. EngineTypeOK'
      BY <1>2, <2>2, <2>4 DEF EngineTypeOK, DispatchTypeOK
    <2>6. \A p : Users(p)' = Users(p)
      BY <1>1, <2>1, <2>2, UsersKept DEF DispatchTypeOK
    <2>7. QED
      BY <2>2, <2>3, <2>5, <2>6, TaskStutter
  <1>5. CASE RecordLoad(u) \/ RecordSwap(u)
    <2>1. PICK stage \in Stage :
              /\ To(u, stage) /\ stage \notin {"none", "posting", "swapping"}
              /\ task[u] \notin {"none", "posting", "swapping"}
              /\ stage \in Holding /\ task[u] \in Holding
      <3>1. CASE RecordLoad(u)
        BY <3>1 DEF RecordLoad, Holding, Stage
      <3>2. CASE RecordSwap(u)
        BY <3>2 DEF RecordSwap, Holding, Stage
      <3>3. QED
        BY <1>5, <3>1, <3>2
    <2>2. /\ UNCHANGED <<workers, sem, head, next, held, seen, disp, todo, thrown, first,
                         chosen>>
          /\ failure' = failure \/ failure' = u
      BY <1>5 DEF RecordLoad, RecordSwap
    <2>3. HeldExact' /\ HeldOnce' /\ LinkKept' /\ ListInv'
      BY <1>1, <2>1, <2>2, QuietTask
    <2>4. EngineTypeOK'
      BY <1>2, <2>2 DEF EngineTypeOK, DispatchTypeOK
    <2>5. \A p : Users(p)' = Users(p)
      BY <1>1, <2>1, <2>2, UsersKept DEF DispatchTypeOK
    <2>6. PoolStep
      <3>1. CASE failure' = failure
        BY <2>2, <2>5, <3>1, TaskStutter
      <3>2. CASE failure' = u
        <4>1. u # Nil
          BY DecodeAssumption DEF Unit, Nil
        <4>2. PICK q \in Process : u \in Users(q)
          BY <1>3, <2>1
        <4>3. QED
          BY <1>2, <2>2, <2>5, <3>2, <4>1, <4>2, FailStep
      <3>3. QED
        BY <2>2, <3>1, <3>2
    <2>7. QED
      BY <2>3, <2>4, <2>6
  <1>6. CASE PushLink(u) \/ (PushSwap(u) /\ head # seen[u])
    <2>1. /\ task[u] \in {"linking", "swapping"} /\ To(u, "swapping")
          /\ seen' = [seen EXCEPT ![u] = head]
          /\ next' = [next EXCEPT ![held[u]] = head]
          /\ UNCHANGED <<workers, disp, todo, thrown, sem, head, failure, first, chosen, held>>
      BY <1>1, <1>6 DEF PushLink, PushSwap, To, DispatchTypeOK
    <2>2. HeldExact' /\ HeldOnce' /\ LinkKept' /\ ListInv'
      BY <1>1, <1>2, <2>1, LinkKeepsShared
    <2>3. EngineTypeOK'
      BY <1>2, <2>1 DEF EngineTypeOK, DispatchTypeOK
    <2>4. \A p : Users(p)' = Users(p)
      BY <1>1, <2>1, UsersKept DEF DispatchTypeOK, Stage
    <2>5. QED
      BY <2>1, <2>2, <2>3, <2>4, TaskStutter
  <1>7. CASE PushSwap(u) /\ head = seen[u]
    <2>1. /\ task[u] = "swapping" /\ Pushed(u)
          /\ UNCHANGED <<workers, disp, todo, thrown, sem, next, seen, failure, first, chosen>>
      BY <1>7 DEF PushSwap
    <2>2. HeldExact' /\ HeldOnce' /\ LinkKept' /\ ListInv' /\ head' \in Process
      BY <1>1, <1>2, <1>7, <2>1, PushedKeepsShared
    <2>3. EngineTypeOK'
      BY <1>2, <2>1, <2>2 DEF EngineTypeOK, DispatchTypeOK, Pushed
    <2>4. PICK q \in Process : q = held[u]
      BY <1>3, <2>1 DEF Holding
    <2>5. /\ Users(q) # {} /\ Users(q)' = {}
          /\ \A p \in Process : p # q => Users(p)' = Users(p)
      <3>1. \A v \in Unit : held[v] = q /\ task[v] # "none" <=> v = u
        BY <2>1, <2>4 DEF HeldOnce, Process, Nil
      <3>2. \A p \in Process : p # Nil
        BY DEF Process, Nil
      <3>3. /\ \A v \in Unit : task'[v] = IF v = u THEN "posting" ELSE task[v]
            /\ \A v \in Unit : held'[v] = IF v = u THEN Nil ELSE held[v]
        BY <1>1, <2>1 DEF Pushed, To, DispatchTypeOK, EngineTypeOK
      <3>4. QED
        BY <2>1, <2>4, <3>1, <3>2, <3>3 DEF Users
    <2>6. QED
      BY <1>2, <2>1, <2>2, <2>3, <2>5, GiveBackStep
  <1>8. CASE PushPost(u)
    <2>1. /\ task[u] = "posting" /\ To(u, "leaving") /\ sem' = sem + 1
          /\ UNCHANGED <<workers, disp, todo, thrown, head, next, failure, first, chosen,
                         held, seen>>
      BY <1>8 DEF PushPost
    <2>2. \A p : Users(p)' = Users(p)
      BY <1>1, <2>1, UsersKept DEF DispatchTypeOK, Stage
    <2>3. \A v \in Unit : task'[v] = IF v = u THEN "leaving" ELSE task[v]
      BY <1>1, <2>1 DEF To, DispatchTypeOK
    <2>4. HeldExact' /\ HeldOnce' /\ LinkKept'
      BY <2>1, <2>3 DEF HeldExact, HeldOnce, LinkKept, Holding
    <2>5. PICK n \in 0 .. NumThreads : \E s \in [1 .. n -> Process] : ListIs(n, s)
      BY <1>2 DEF ListInv
    <2>6. PICK s \in [1 .. n -> Process] : ListIs(n, s)
      BY <2>5
    <2>7. Chain(n, s)' /\ FreeOnes(n, s)'
      BY <2>1, <2>2, <2>6, ChainStays DEF ListIs
    <2>8. Permits(n)' /\ sem' \in 0 .. NumThreads
      <3>1. Cardinality(In({"posting"}))' = Cardinality(In({"posting"})) - 1
        BY <1>1, <2>1, PostingMoves DEF DispatchTypeOK, Stage
      <3>2. sem \in Nat /\ Borrowed \in Nat /\ Cardinality(In({"posting"})) \in Nat
        BY PostingCount DEF EngineTypeOK, Borrowed
      <3>3. Cardinality(In({"posting"})) # 0
        <4>1. u \in In({"posting"})
          BY <2>1 DEF In
        <4>2. QED
          BY <4>1, PostingCount, FS_EmptySet
      <3>4. Borrowed' = Borrowed /\ sem + Borrowed + Cardinality(In({"posting"})) = n
        BY <2>1, <2>6 DEF Borrowed, ListIs, Permits
      <3>5. PICK b \in Nat : b = Borrowed
        BY <3>2
      <3>6. PICK k \in Nat : k = Cardinality(In({"posting"}))
        BY <3>2
      <3>7. sem + 1 + b + (k - 1) = n /\ sem + 1 <= n
        BY <3>2, <3>3, <3>4, <3>5, <3>6
      <3>8. sem' + Borrowed' + Cardinality(In({"posting"}))' = n
        BY <2>1, <3>1, <3>4, <3>5, <3>6, <3>7
      <3>9. QED
        BY <2>1, <3>2, <3>7, <3>8, DecodeAssumption DEF Permits
    <2>9. PopSees(n, s)'
      <3>1. Current' = Current
        BY <2>1 DEF Current
      <3>2. QED
        BY <2>1, <2>6, <3>1 DEF ListIs, PopSees
    <2>10. ListInv'
      BY <2>7, <2>8, <2>9 DEF ListInv, ListIs
    <2>11. EngineTypeOK'
      BY <1>2, <2>1, <2>8 DEF EngineTypeOK, DispatchTypeOK
    <2>12. QED
      BY <2>1, <2>2, <2>4, <2>10, <2>11, TaskStutter
  <1>9. QED
    BY <1>4, <1>5, <1>6, <1>7, <1>8 DEF Worker

\* A step of the dispatching thread that touches neither the list nor its permits.
LEMMA QuietDispatch ==
    ASSUME SharedInv, DispatchTypeOK', disp' \notin {"idle"} \cup Popping, disp \notin Popping,
           disp \notin {"idle", "returned"},
           UNCHANGED <<workers, sem, head, next, first, chosen, task, held, seen>>
    PROVE  SharedInv' /\ \A p : Users(p)' = Users(p)
  <1> USE DEF SharedInv
  <1>1. \A p : Users(p)' = Users(p)
    BY DEF Users
  <1>2. HeldExact' /\ HeldOnce' /\ LinkKept'
    BY DEF HeldExact, HeldOnce, LinkKept
  <1>3. EngineTypeOK'
    BY DEF EngineTypeOK, DispatchTypeOK
  <1>4. ListInv'
    <2>1. PICK n \in 0 .. NumThreads : \E s \in [1 .. n -> Process] : ListIs(n, s)
      BY DEF ListInv
    <2>2. PICK s \in [1 .. n -> Process] : ListIs(n, s)
      BY <2>1
    <2>3. Chain(n, s)' /\ FreeOnes(n, s)'
      BY <1>1, <2>2, ChainStays DEF ListIs
    <2>4. Permits(n)'
      <3>1. In({"posting"})' = In({"posting"}) /\ Borrowed' = Borrowed
        BY DEF In, Borrowed
      <3>2. QED
        BY <2>2, <3>1 DEF ListIs, Permits
    <2>5. PopSees(n, s)'
      BY DEF PopSees, Popping
    <2>6. QED
      BY <2>3, <2>4, <2>5 DEF ListInv, ListIs
  <1>5. QED
    BY <1>1, <1>2, <1>3, <1>4

\* When every task has ended, no process is in use.
LEMMA AllBack ==
    ASSUME SharedInv, DispatchTypeOK, Joined = {}
    PROVE  \A p \in Process : Users(p) = {}
  <1> SUFFICES ASSUME NEW p \in Process, NEW u \in Unit, held[u] = p, task[u] # "none"
               PROVE  FALSE
    BY DEF Users
  <1>1. task[u] = "done"
    BY DEF Joined, In, DispatchTypeOK
  <1>2. held[u] = Nil
    BY <1>1 DEF SharedInv, HeldExact
  <1>3. QED
    BY <1>2 DEF Process, Nil

\* A step of the dispatching thread keeps the processes shared, and is one of
\* the pool.
LEMMA DispatcherKeepsShared ==
    ASSUME DispatchInv, SharedInv, Dispatcher
    PROVE  SharedInv' /\ PoolStep
  <1> USE DEF SharedInv, groupVars, processVars, taskVars
  <1>1. DispatchTypeOK /\ LeftUntouched /\ ThrownExact
    BY DEF DispatchInv
  <1>2. disp \notin {"idle", "returned"} /\ disp' # "idle" /\ DispatchTypeOK'
    BY DispatcherKeepsInv DEF DispatchInv
  <1>3. ASSUME NEW n \in 0 .. NumThreads, NEW s \in [1 .. n -> Process], ListIs(n, s),
               UNCHANGED <<head, next, task, held>>
        PROVE  Chain(n, s)' /\ FreeOnes(n, s)'
    <2>1. \A p : Users(p)' = Users(p)
      BY <1>3 DEF Users
    <2>2. QED
      BY <1>3, <2>1, ChainStays DEF ListIs
  <1>4. PICK n \in 0 .. NumThreads : \E s \in [1 .. n -> Process] : ListIs(n, s)
    BY <1>2 DEF ListInv
  <1>5. PICK s \in [1 .. n -> Process] : ListIs(n, s)
    BY <1>4
  <1>6. CASE Query \/ AllHandedOver \/ InlineEnds
    <2>1. /\ disp \notin Popping /\ disp' \notin {"idle", "returned"}
          /\ UNCHANGED <<workers, sem, head, next, failure, first, chosen, task, held, seen>>
      BY <1>6 DEF Query, AllHandedOver, InlineEnds, Popping
    <2>2. disp' \notin Popping
      BY <1>6 DEF Query, AllHandedOver, InlineEnds, Popping
    <2>3. SharedInv' /\ \A p : Users(p)' = Users(p)
      BY <1>2, <2>1, <2>2, QuietDispatch
    <2>4. QED
      BY <1>2, <2>1, <2>3 DEF PoolStep, PoolVars
  <1>7. CASE PopWait
    <2>1. /\ disp = "popping" /\ sem > 0 /\ sem' = sem - 1 /\ disp' = "loading"
          /\ UNCHANGED <<workers, todo, thrown, head, next, failure, first, chosen, task,
                         held, seen>>
      BY <1>7 DEF PopWait
    <2>2. EngineTypeOK' /\ HeldExact' /\ HeldOnce' /\ LinkKept'
      <3>1. sem' \in 0 .. NumThreads
        BY <2>1, DecodeAssumption DEF EngineTypeOK
      <3>2. EngineTypeOK'
        BY <1>2, <2>1, <3>1 DEF EngineTypeOK, DispatchTypeOK
      <3>3. QED
        BY <2>1, <3>2 DEF HeldExact, HeldOnce, LinkKept
    <2>3. Permits(n)' /\ PopSees(n, s)'
      <3>1. In({"posting"})' = In({"posting"}) /\ Borrowed' = 1 /\ Borrowed = 0
        BY <2>1 DEF In, Borrowed, Popping
      <3>2. sem \in Nat /\ Cardinality(In({"posting"})) \in Nat
        BY PostingCount DEF EngineTypeOK
      <3>3. sem + 0 + Cardinality(In({"posting"})) = n
        BY <1>5, <3>1 DEF ListIs, Permits
      <3>4. sem - 1 + 1 = sem + 0
        BY <3>2
      <3>5. QED
        BY <2>1, <3>1, <3>3, <3>4 DEF Permits, PopSees
    <2>4. ListInv'
      BY <1>3, <1>5, <2>1, <2>3 DEF ListInv, ListIs
    <2>5. \A p : Users(p)' = Users(p)
      BY <2>1 DEF Users
    <2>6. QED
      BY <2>1, <2>2, <2>4, <2>5 DEF PoolStep, PoolVars
  <1>8. CASE PopLoad \/ (PopSwap /\ head # held[Current])
    <2>1. /\ disp \in Popping /\ disp' = "reading"
          /\ held' = [held EXCEPT ![Current] = head]
          /\ UNCHANGED <<workers, sem, todo, thrown, head, next, failure, first, chosen,
                         task, seen>>
      BY <1>8 DEF PopLoad, PopSwap, Popping
    <2>2. /\ HeldExact' /\ HeldOnce' /\ LinkKept' /\ ListInv' /\ head \in Process
          /\ \A p : Users(p)' = Users(p)
      BY <1>1, <2>1, LoadKeepsShared
    <2>3. EngineTypeOK'
      BY <1>2, <2>1, <2>2 DEF EngineTypeOK, DispatchTypeOK
    <2>4. QED
      BY <1>2, <2>1, <2>2, <2>3 DEF PoolStep, PoolVars
  <1>9. CASE PopRead
    <2>1. /\ disp = "reading" /\ disp' = "swapping"
          /\ seen' = [seen EXCEPT ![Current] = next[held[Current]]]
          /\ UNCHANGED <<workers, sem, todo, thrown, head, next, failure, first, chosen,
                         task, held>>
      BY <1>9 DEF PopRead
    <2>2. PICK u \in Unit : u = Current /\ task[u] = "none" /\ Current' = u
      BY <1>1, <2>1, CurrentIsLeft DEF LeftUntouched, DispatchTypeOK, Current
    <2>3. PICK i \in 1 .. n : s[i] = held[u]
      BY <1>5, <2>1, <2>2 DEF ListIs, PopSees
    <2>4. /\ seen' \in [Unit -> Process \cup {Nil}] /\ seen'[u] = next[held[u]]
          /\ \A v \in Unit : v # u => seen'[v] = seen[v]
      BY <2>1, <2>2, <2>3 DEF EngineTypeOK
    <2>5. EngineTypeOK' /\ HeldExact' /\ HeldOnce' /\ LinkKept'
      BY <1>2, <2>1, <2>2, <2>4
      DEF EngineTypeOK, DispatchTypeOK, HeldExact, HeldOnce, LinkKept
    <2>6. Permits(n)' /\ PopSees(n, s)'
      <3>1. In({"posting"})' = In({"posting"}) /\ Borrowed' = Borrowed
        BY <2>1 DEF In, Borrowed, Popping
      <3>2. QED
        BY <1>5, <2>1, <2>2, <2>3, <2>4, <3>1 DEF ListIs, Permits, PopSees
    <2>7. ListInv'
      BY <1>3, <1>5, <2>1, <2>6 DEF ListInv, ListIs
    <2>8. \A p : Users(p)' = Users(p)
      BY <2>1 DEF Users
    <2>9. QED
      BY <2>1, <2>5, <2>7, <2>8 DEF PoolStep, PoolVars
  <1>10. CASE PopSwap /\ head = held[Current]
    <2>1. /\ disp = "swapping" /\ HandOver /\ head' = seen[Current]
          /\ disp' \in {"inline", "query"}
          /\ UNCHANGED <<workers, sem, thrown, next, failure, first, chosen, held, seen>>
      BY <1>10 DEF PopSwap, HandOver
    <2>2. /\ HeldExact' /\ HeldOnce' /\ LinkKept' /\ ListInv'
          /\ \E q \in Process : \E u \in Unit :
                 /\ task[u] = "none" /\ Users(q) = {} /\ Users(q)' = {u}
                 /\ \A p \in Process : p # q => Users(p)' = Users(p)
      BY <1>1, <1>10, <2>1, PoppedKeepsShared
    <2>3. EngineTypeOK'
      <3>1. head' \in Process \cup {Nil}
        BY <1>1, <2>1, CurrentIsLeft DEF EngineTypeOK, LeftUntouched, DispatchTypeOK
      <3>2. QED
        BY <1>2, <2>1, <3>1 DEF EngineTypeOK, DispatchTypeOK
    <2>4. PoolStep
      BY <1>2, <2>1, <2>2, LendStep
    <2>5. QED
      BY <2>2, <2>3, <2>4
  <1>11. CASE Drained \/ Check
    <2>1. /\ disp \notin Popping /\ disp' \notin {"idle"} \cup Popping
          /\ UNCHANGED <<workers, sem, head, next, first, chosen, task, held, seen>>
      BY <1>11 DEF Drained, Check, Popping
    <2>2. SharedInv' /\ \A p : Users(p)' = Users(p)
      BY <1>2, <2>1, QuietDispatch
    <2>3. Joined = {}
      BY <1>11 DEF Drained, Check, DispatchInv, NoTasksLeft
    <2>4. [p \in Process |-> Users(p)] = [p \in Process |-> {}]
      BY <1>1, <2>3, AllBack
    <2>5. [p \in Process |-> Users(p)]' = [p \in Process |-> Users(p)]
      BY <2>2
    <2>6. PoolStep
      <3>1. CASE Drained /\ disp' = "checking"
        BY <1>2, <2>5, <3>1 DEF Drained, PoolStep, PoolVars
      <3>2. CASE Drained /\ disp' # "checking"
        <4>1. disp' = "returned" /\ thrown' = TRUE
          BY <3>2, <1>1 DEF Drained, DispatchTypeOK
        <4>2. Pool!Close
          BY <1>2, <2>4, <2>5, <4>1 DEF Pool!Close, Pool!Nobody
        <4>3. QED
          BY <4>2 DEF PoolStep, Pool!PoolNext
      <3>3. CASE Check
        <4>1. disp' = "returned" /\ thrown' = (failure # Nil)
          BY <3>3 DEF Check
        <4>2. Pool!Close
          BY <1>2, <2>4, <2>5, <4>1 DEF Pool!Close, Pool!Nobody
        <4>3. QED
          BY <4>2 DEF PoolStep, Pool!PoolNext
      <3>4. QED
        BY <1>11, <3>1, <3>2, <3>3
    <2>7. QED
      BY <2>2, <2>6
  <1>12. QED
    BY <1>6, <1>7, <1>8, <1>9, <1>10, <1>11 DEF Dispatcher

\* Before a call nothing is shared.
LEMMA SharedInit == EngineInit => SharedInv /\ Pool!PoolInit
  <1> SUFFICES ASSUME EngineInit PROVE SharedInv /\ Pool!PoolInit
    OBVIOUS
  <1> USE DEF EngineInit
  <1>1. EngineTypeOK
    <2>1. workers \in 0 .. MaxWorkers /\ sem \in 0 .. NumThreads
      BY DecodeAssumption
    <2>2. head \in Process \cup {Nil} /\ next \in [Process -> Process \cup {Nil}]
      OBVIOUS
    <2>3. DispatchTypeOK
      BY DispatchInit DEF DispatchInv
    <2>4. QED
      BY <2>1, <2>2, <2>3 DEF EngineTypeOK, DispatchTypeOK
  <1>2. HeldExact /\ HeldOnce /\ LinkKept /\ ListInv
    BY DEF HeldExact, HeldOnce, LinkKept, ListInv, Holding
  <1>3. [p \in Process |-> Users(p)] = [p \in Process |-> {}]
    BY DEF Users
  <1>4. QED
    BY <1>1, <1>2, <1>3 DEF SharedInv, Pool!PoolInit, Pool!Nobody

\* The end of a call: the exception, if any, has been told.
LEMMA EndKeepsShared ==
    ASSUME DispatchInv, SharedInv, End
    PROVE  SharedInv' /\ PoolStep
  <1> USE DEF End
  <1>1. EngineTypeOK'
    <2>1. workers' \in 0 .. MaxWorkers /\ sem' \in 0 .. NumThreads
      BY DecodeAssumption
    <2>2. head' \in Process \cup {Nil} /\ next' \in [Process -> Process \cup {Nil}]
      OBVIOUS
    <2>3. DispatchTypeOK'
      BY EndKeepsInv DEF DispatchInv
    <2>4. QED
      BY <2>1, <2>2, <2>3 DEF EngineTypeOK, DispatchTypeOK
  <1>2. HeldExact' /\ HeldOnce' /\ LinkKept' /\ ListInv'
    BY DEF HeldExact, HeldOnce, LinkKept, ListInv, Holding
  <1>3. Joined = {} /\ DispatchTypeOK
    BY DEF DispatchInv, NoTasksLeft
  <1>4. [p \in Process |-> Users(p)] = [p \in Process |-> {}]
    BY <1>3, AllBack
  <1>5. [p \in Process |-> Users(p)]' = [p \in Process |-> {}]
    BY DEF Users
  <1>6. Pool!Forget
    BY <1>4, <1>5 DEF Pool!Forget
  <1>7. QED
    BY <1>1, <1>2, <1>6 DEF SharedInv, PoolStep, Pool!PoolNext

\* The start of a call: the new group has every process in its list.
LEMMA BeginKeepsShared ==
    ASSUME NEW units, units \subseteq Unit, Begin(units)
    PROVE  SharedInv' /\ PoolStep
  <1> USE DEF Begin, NewGroup
  <1>1. EngineTypeOK'
    <2>1. workers' \in 0 .. MaxWorkers /\ sem' \in 0 .. NumThreads
      BY DecodeAssumption
    <2>2. head' \in Process \cup {Nil} /\ next' \in [Process -> Process \cup {Nil}]
      BY DecodeAssumption DEF Process
    <2>3. DispatchTypeOK'
      BY BeginKeepsInv DEF DispatchInv
    <2>4. QED
      BY <2>1, <2>2, <2>3 DEF EngineTypeOK, DispatchTypeOK
  <1>2. HeldExact' /\ HeldOnce' /\ LinkKept'
    BY DEF HeldExact, HeldOnce, LinkKept, Holding
  <1>3. \A p : Users(p)' = {}
    BY DEF Users
  <1> DEFINE s == [i \in 1 .. NumThreads |-> i]
  <1>4. /\ NumThreads \in 0 .. NumThreads /\ NumThreads # 0 /\ NumThreads \in Nat
        /\ s \in [1 .. NumThreads -> Process]
        /\ \A i \in 1 .. NumThreads : s[i] = i
    BY DecodeAssumption DEF Process
  <1> HIDE DEF s
  <1>5. Chain(NumThreads, s)'
    <2>1. head' = IF NumThreads = 0 THEN Nil ELSE s[1]
      BY <1>4
    <2>2. \A i \in 1 .. NumThreads : next'[s[i]] = IF i = NumThreads THEN Nil ELSE s[i + 1]
      BY <1>4 DEF Process
    <2>3. \A i, j \in 1 .. NumThreads : s[i] = s[j] => i = j
      BY <1>4
    <2>4. QED
      BY <2>1, <2>2, <2>3 DEF Chain
  <1>6. FreeOnes(NumThreads, s)'
    BY <1>3, <1>4 DEF FreeOnes, Process
  <1>7. Permits(NumThreads)'
    <2>1. In({"posting"})' = {} /\ Borrowed' = 0
      BY DEF In, Borrowed, Popping
    <2>2. Cardinality(In({"posting"}))' = 0
      BY <2>1, FS_EmptySet
    <2>3. QED
      BY <1>4, <2>1, <2>2 DEF Permits
  <1>8. PopSees(NumThreads, s)'
    BY DEF PopSees
  <1>9. ListInv'
    BY <1>4, <1>5, <1>6, <1>7, <1>8 DEF ListInv, ListIs
  <1>10. PoolStep
    <2>1. [p \in Process |-> Users(p)]' = [p \in Process |-> {}]
      BY <1>3
    <2>2. Pool!Open
      BY <2>1 DEF Pool!Open, Pool!Nobody
    <2>3. QED
      BY <2>2 DEF PoolStep, Pool!PoolNext
  <1>11. QED
    BY <1>1, <1>2, <1>9, <1>10 DEF SharedInv

\* A step of a read under way.
LEMMA EngineKeepsShared ==
    ASSUME DispatchInv, SharedInv, EngineNext
    PROVE  SharedInv' /\ PoolStep
  BY DispatcherKeepsShared, WorkerKeepsShared DEF EngineNext

\* Nothing of the engine changes.
LEMMA SharedStutter ==
    ASSUME SharedInv, UNCHANGED engineVars
    PROVE  SharedInv' /\ PoolStep
  <1> USE DEF engineVars, SharedInv
  <1>1. EngineTypeOK' /\ HeldExact' /\ HeldOnce' /\ LinkKept'
    BY DEF EngineTypeOK, HeldExact, HeldOnce, LinkKept
  <1>2. \A p : Users(p)' = Users(p)
    BY DEF Users
  <1>3. ListInv'
    <2> SUFFICES ASSUME disp \notin {"idle", "returned"} PROVE ListInv'
      BY DEF ListInv
    <2>1. PICK n \in 0 .. NumThreads : \E s \in [1 .. n -> Process] : ListIs(n, s)
      BY DEF ListInv
    <2>2. PICK s \in [1 .. n -> Process] : ListIs(n, s)
      BY <2>1
    <2>3. Chain(n, s)' /\ FreeOnes(n, s)'
      BY <1>2, <2>2, ChainStays DEF ListIs
    <2>4. In({"posting"})' = In({"posting"}) /\ Borrowed' = Borrowed /\ Current' = Current
      BY DEF In, Borrowed, Current
    <2>5. Permits(n)' /\ PopSees(n, s)'
      BY <2>2, <2>4 DEF ListIs, Permits, PopSees
    <2>6. QED
      BY <2>3, <2>5 DEF ListInv, ListIs
  <1>4. QED
    BY <1>1, <1>2, <1>3 DEF PoolStep, PoolVars

\* One more link of the recursion in Listed.
ReachStep(r) ==
    [k \in 0 .. NumThreads |->
        IF k = 0 THEN {head} \ {Nil}
        ELSE r[k - 1] \cup ({next[p] : p \in r[k - 1]} \ {Nil})]

\* The processes of the list are those of its sequence: the sets of the first
\* ones solve the recursion, and no other sets do.
LEMMA ListedExact ==
    ASSUME NEW n \in 0 .. NumThreads, NEW s \in [1 .. n -> Process], Chain(n, s)
    PROVE  Listed = {s[i] : i \in 1 .. n}
  <1> DEFINE upTo(k) == {i \in 1 .. n : i <= k + 1}
             g == [k \in 0 .. NumThreads |-> {s[i] : i \in upTo(k)}]
             r == CHOOSE f : f = ReachStep(f)
  <1>1. n \in Nat /\ NumThreads \in Nat /\ \A i \in 1 .. n : s[i] # Nil
    BY DecodeAssumption DEF Process, Nil
  <1>2. ASSUME NEW k \in 0 .. NumThreads, k # 0
        PROVE  g[k] = g[k - 1] \cup ({next[p] : p \in g[k - 1]} \ {Nil})
    <2>1. k - 1 \in 0 .. NumThreads /\ k \in Nat
      BY <1>1, <1>2
    <2>2. ASSUME NEW q \in g[k] PROVE q \in g[k - 1] \cup ({next[p] : p \in g[k - 1]} \ {Nil})
      <3>1. PICK i \in 1 .. n : i <= k + 1 /\ q = s[i]
        BY <2>2
      <3>2. CASE i <= k
        BY <2>1, <3>1, <3>2
      <3>3. CASE i = k + 1
        <4>1. k \in 1 .. n /\ s[k] \in g[k - 1]
          BY <1>1, <1>2, <2>1, <3>1, <3>3
        <4>2. next[s[k]] = s[i]
          BY <1>1, <3>1, <3>3, <4>1 DEF Chain
        <4>3. QED
          BY <1>1, <3>1, <4>1, <4>2
      <3>4. QED
        BY <2>1, <3>1, <3>2, <3>3
    <2>3. ASSUME NEW q \in g[k - 1] PROVE q \in g[k]
      BY <2>1, <2>3
    <2>4. ASSUME NEW p \in g[k - 1], next[p] # Nil PROVE next[p] \in g[k]
      <3>1. PICK i \in 1 .. n : i <= k /\ p = s[i]
        BY <2>1, <2>4
      <3>2. i # n /\ next[p] = s[i + 1]
        BY <1>1, <2>4, <3>1 DEF Chain
      <3>3. i + 1 \in 1 .. n /\ i + 1 <= k + 1
        BY <1>1, <2>1, <3>1, <3>2
      <3>4. QED
        BY <3>2, <3>3
    <2> DEFINE X == {next[p] : p \in g[k - 1]} \ {Nil}
    <2>5. g[k] \subseteq g[k - 1] \cup X /\ g[k - 1] \subseteq g[k]
      BY <2>2, <2>3
    <2>6. X \subseteq g[k]
      <3> SUFFICES ASSUME NEW x \in X PROVE x \in g[k]
        OBVIOUS
      <3>1. PICK p \in g[k - 1] : x = next[p] /\ x # Nil
        OBVIOUS
      <3>2. QED
        BY <3>1, <2>4
    <2> HIDE DEF X, g
    <2>7. g[k] = g[k - 1] \cup X
      BY <2>5, <2>6
    <2>8. QED
      BY <2>7 DEF X
  <1>3. g[0] = {head} \ {Nil}
    <2>1. CASE n = 0
      BY <1>1, <2>1 DEF Chain
    <2>2. CASE n # 0
      <3>1. upTo(0) = {1}
        BY <1>1, <2>2
      <3>2. head = s[1] /\ head # Nil
        BY <1>1, <2>2 DEF Chain
      <3>3. QED
        BY <1>1, <3>1, <3>2
    <2>3. QED
      BY <2>1, <2>2
  <1>4. g = ReachStep(g)
    <2> HIDE DEF g
    <2>1. \A k \in 0 .. NumThreads : g[k] = ReachStep(g)[k]
      BY <1>2, <1>3 DEF ReachStep
    <2>2. g = [k \in 0 .. NumThreads |-> g[k]]
      BY DEF g
    <2>3. QED
      BY <2>1, <2>2 DEF ReachStep
  <1>5. r = ReachStep(r)
    <2> HIDE DEF g
    <2>1. QED
      BY <1>4
  <1> HIDE DEF g, r
  <1>6. \A k \in 0 .. NumThreads : r[k] = g[k]
    <2> DEFINE S == {k \in 0 .. NumThreads : r[k] # g[k]}
    <2> SUFFICES ASSUME S # {} PROVE FALSE
      OBVIOUS
    <2>0. S \subseteq Nat
      BY <1>1
    <2> HIDE DEF S
    <2>1. PICK k \in S : \A j \in S : k <= j
      BY <2>0, LeastExists
    <2> USE DEF S
    <2>2. r[k] = IF k = 0 THEN {head} \ {Nil}
                 ELSE r[k - 1] \cup ({next[p] : p \in r[k - 1]} \ {Nil})
      <3>1. r[k] = ReachStep(r)[k]
        BY <1>5
      <3>2. QED
        BY <3>1 DEF ReachStep
    <2>3. CASE k = 0
      BY <1>3, <2>2, <2>3
    <2>4. CASE k # 0
      <3>1. k - 1 \in 0 .. NumThreads /\ ~(k <= k - 1)
        BY <1>1, <2>4
      <3>2. r[k - 1] = g[k - 1]
        BY <2>1, <3>1
      <3>3. QED
        BY <1>2, <2>2, <2>4, <3>2
    <2>5. QED
      BY <2>3, <2>4
  <1>7. Listed = r[NumThreads]
    BY DEF Listed, ReachStep, r
  <1>8. NumThreads \in 0 .. NumThreads /\ \A i \in 1 .. n : i <= NumThreads + 1
    BY <1>1
  <1>9. g[NumThreads] = {s[i] : i \in 1 .. n}
    BY <1>8 DEF g
  <1>10. QED
    BY <1>6, <1>7, <1>8, <1>9

\* What the list and the tasks share is what ProcessInOnePlace says.
LEMMA OnePlace ==
    ASSUME DispatchInv, SharedInv
    PROVE  ProcessInOnePlace
  <1> SUFFICES ASSUME disp \notin {"idle", "returned"}
               PROVE  /\ \A p \in Process :
                             Cardinality(Users(p)) = IF p \in Listed THEN 0 ELSE 1
                      /\ sem + Borrowed <= Cardinality(Listed)
                      /\ disp = "reading" => held[Current] # Nil
    BY DEF ProcessInOnePlace, Borrowed, Popping
  <1>1. PICK n \in 0 .. NumThreads : \E s \in [1 .. n -> Process] : ListIs(n, s)
    BY DEF SharedInv, ListInv
  <1>2. PICK s \in [1 .. n -> Process] : ListIs(n, s)
    BY <1>1
  <1>3. Listed = {s[i] : i \in 1 .. n}
    BY <1>2, ListedExact DEF ListIs
  <1>4. ASSUME NEW p \in Process
        PROVE  Cardinality(Users(p)) = IF p \in Listed THEN 0 ELSE 1
    <2>1. p \in Listed <=> Users(p) = {}
      BY <1>2, <1>3 DEF ListIs, FreeOnes
    <2>2. CASE Users(p) = {}
      BY <2>1, <2>2, FS_EmptySet
    <2>3. CASE Users(p) # {}
      <3>1. PICK u \in Unit : held[u] = p /\ task[u] # "none"
        BY <2>3 DEF Users
      <3>2. Users(p) = {u}
        BY <3>1 DEF Users, SharedInv, HeldOnce, Process, Nil
      <3>3. QED
        BY <2>1, <2>3, <3>2, FS_Singleton
    <2>4. QED
      BY <2>2, <2>3
  <1>5. Cardinality(Listed) = n
    <2>1. IsFiniteSet(1 .. n) /\ Cardinality(1 .. n) = n
      BY FS_Interval, DecodeAssumption
    <2>2. s \in Surjection(1 .. n, Listed) /\ s \in Injection(1 .. n, Listed)
      <3>1. s \in [1 .. n -> Listed] /\ \A p \in Listed : \E i \in 1 .. n : s[i] = p
        BY <1>3
      <3>2. QED
        BY <1>2, <3>1 DEF ListIs, Chain, Injection, Surjection, IsInjective
    <2>3. QED
      BY <2>1, <2>2, FS_Surjection
  <1>6. sem + Borrowed <= n
    <2>1. sem \in Nat /\ Borrowed \in Nat /\ Cardinality(In({"posting"})) \in Nat
      BY PostingCount DEF SharedInv, EngineTypeOK, Borrowed
    <2>2. QED
      BY <1>2, <2>1 DEF ListIs, Permits
  <1>7. disp = "reading" => held[Current] # Nil
    BY <1>2 DEF ListIs, PopSees, Process, Nil
  <1>8. QED
    BY <1>4, <1>5, <1>6, <1>7

-----------------------------------------------------------------------------
(* The calls.                                                               *)

ScanStage == {"checkout", "scan", "split", "parallel"}
TileStage == {"row", "whole", "rowParallel", "wholeParallel"}
ParallelStage == {"parallel", "rowParallel", "wholeParallel"}
CallStage == {"idle", "returned", "threw"} \cup ScanStage \cup TileStage

ScanProcess == [unit : 0 .. Units, layout : Layout \cup {NoLayout}]
CallRecord ==
    [at : CallStage, frame : Frame \cup {NoFrame}, want : SUBSET Unit, left : SUBSET Unit,
     locked : BOOLEAN, sp : ScanProcess, promise : BOOLEAN]

FileTypeOK ==
    /\ tiled \in BOOLEAN /\ compressed \in BOOLEAN /\ threads \in BOOLEAN
    /\ Image \subseteq Unit

KeptTypeOK ==
    /\ frame \in Frame \cup {NoFrame} /\ fills \in Frame \cup {NoFrame}
    /\ singleScan \in ScanProcess
    /\ cachedRow \in Int /\ rowBuffer \in [1 .. Columns -> 0 .. Units]
    /\ clean \in BOOLEAN /\ torn \in BOOLEAN

CallTypeOK ==
    /\ call \in [Caller -> CallRecord]
    /\ got \in [Caller -> [Unit -> {"old", "right", "junk"}]]

\* While the frame buffer is clean, it is the one of the slices to fill and of
\* the routines in the kept process.
KeptRight ==
    /\ singleScan.unit # 0 => singleScan.layout # NoLayout
    /\ clean => /\ ~tiled /\ frame = fills
                /\ singleScan.layout # NoLayout => singleScan.layout = LayoutOf[frame]

\* The cached row holds each of its tiles in its column.
RowRight ==
    tiled /\ ~torn =>
        \A u \in Image : Row(u) = cachedRow => rowBuffer[Column(u)] = u

\* What a call has and where it may be.
CallPlaced(c) ==
    /\ call[c].at # "idle" => call[c].frame \in Frame
    /\ call[c].want \subseteq Image /\ call[c].left \subseteq call[c].want
    /\ call[c].at \in ScanStage => ~tiled
    /\ call[c].at \in TileStage => tiled
    /\ call[c].at = "idle" => ~call[c].promise /\ \A u \in Unit : got[c][u] = "old"
    /\ call[c].at \in {"checkout", "scan"} => \A u \in call[c].left : got[c][u] = "old"
    /\ call[c].sp.unit # 0 => call[c].sp.layout # NoLayout

\* The routines in a process that is checked out fit the call's frame buffer.
RoutinesRight(c) ==
    (/\ call[c].at = "scan" /\ call[c].sp.layout # NoLayout
     /\ call[c].promise \/ (clean /\ call[c].frame = frame))
    => call[c].sp.layout = LayoutOf[call[c].frame]

Delivered(c, u) ==
    got[c][u] = "right" \/ (got[c][u] = "old" /\ Direct(LayoutOf[call[c].frame]) /\ ~tiled)

\* A call that promises its pixels has delivered those of the units it is done with.
PromiseKept(c) ==
    call[c].promise =>
        /\ ~tiled => call[c].frame = fills
        /\ call[c].at \in {"checkout", "scan", "row", "rowParallel"} =>
               \A u \in call[c].want \ call[c].left : Delivered(c, u)
        /\ call[c].at = "returned" => \A u \in call[c].want : Delivered(c, u)

CallSound(c) == CallPlaced(c) /\ RoutinesRight(c) /\ PromiseKept(c)

\* The parallel read is that of one caller, and of the units that caller needs.
ReadOf(c) ==
    /\ call[c].at \in ParallelStage =>
           disp # "idle" /\ \A d \in Caller : call[d].at \in ParallelStage => d = c
    /\ call[c].at = "parallel" => Given = call[c].want
    /\ call[c].at = "wholeParallel" => Given = Image
    /\ call[c].at = "rowParallel" => call[c].left # {} /\ Given = RowOf(Row(NextLeft(c)))

FileInv ==
    /\ DispatchInv
    /\ FileTypeOK /\ KeptTypeOK /\ CallTypeOK
    /\ KeptRight /\ RowRight
    /\ \A c \in Caller : CallSound(c)
    /\ \A c \in Caller : ReadOf(c)

-----------------------------------------------------------------------------
(* Rows and columns of tiles, and the unit that a call comes to next.       *)

LEMMA RowAndColumn ==
    ASSUME NEW u \in Unit
    PROVE  /\ Row(u) \in Nat /\ Column(u) \in 1 .. Columns
           /\ u = Row(u) * Columns + Column(u)
  <1>1. u \in Nat /\ u >= 1 /\ Columns \in Nat /\ Columns >= 1
    BY InputAssumption, DecodeAssumption DEF Unit
  <1>2. (u - 1) \div Columns \in Nat /\ (u - 1) % Columns \in 0 .. Columns - 1
    BY <1>1
  <1>3. u - 1 = ((u - 1) \div Columns) * Columns + ((u - 1) % Columns)
    BY <1>1
  <1> DEFINE q == (u - 1) \div Columns
             r == (u - 1) % Columns
  <1>4. q \in Nat /\ r \in 0 .. Columns - 1 /\ u - 1 = q * Columns + r
    BY <1>2, <1>3
  <1>5. Row(u) = q /\ Column(u) = r + 1
    BY DEF Row, Column
  <1> HIDE DEF q, r
  <1>6. q * Columns \in Nat
    BY <1>1, <1>4
  <1>7. QED
    BY <1>1, <1>4, <1>5, <1>6

LEMMA NextIsLeft ==
    ASSUME FileInv, NEW c \in Caller, call[c].left # {}
    PROVE  NextLeft(c) \in call[c].left /\ NextLeft(c) \in Unit
  <1>1. call[c].left \subseteq Unit /\ call[c].left \subseteq Nat
    BY DecodeAssumption DEF FileInv, CallTypeOK, CallRecord, Unit
  <1>2. QED
    BY <1>1, LeastExists DEF NextLeft

-----------------------------------------------------------------------------
(* What a step of one caller leaves as it is.                               *)

\* The calls of the others, in this step.
OnlyCallOf(c) == \A d \in Caller \ {c} : call'[d] = call[d] /\ got'[d] = got[d]

LEMMA FileKept ==
    ASSUME FileTypeOK, UNCHANGED fileVars
    PROVE  /\ FileTypeOK' /\ Image' = Image
           /\ \A r : RowOf(r)' = RowOf(r)
           /\ \A f : Direct(f)' = Direct(f)
  <1> USE DEF fileVars
  <1>1. Image' = Image
    BY DEF Image
  <1>2. QED
    BY <1>1 DEF FileTypeOK, RowOf, Direct, Row

LEMMA OthersSound ==
    ASSUME FileInv, NEW c \in Caller, OnlyCallOf(c), UNCHANGED fileVars,
           ~tiled => UNCHANGED <<frame, fills>> /\ (clean' => clean)
    PROVE  \A d \in Caller \ {c} : CallSound(d)'
  <1> SUFFICES ASSUME NEW d \in Caller \ {c} PROVE CallSound(d)'
    OBVIOUS
  <1>1. call'[d] = call[d] /\ got'[d] = got[d] /\ CallSound(d)
    BY DEF OnlyCallOf, FileInv
  <1>2. Image' = Image /\ tiled' = tiled /\ \A f : Direct(f)' = Direct(f)
    BY FileKept DEF FileInv, fileVars
  <1>3. CallPlaced(d)'
    BY <1>1, <1>2 DEF CallSound, CallPlaced
  <1>4. RoutinesRight(d)'
    BY <1>1 DEF CallSound, CallPlaced, RoutinesRight, ScanStage
  <1>5. PromiseKept(d)'
    BY <1>1, <1>2 DEF CallSound, PromiseKept, Delivered
  <1>6. QED
    BY <1>3, <1>4, <1>5 DEF CallSound

LEMMA ReadersKept ==
    ASSUME FileInv, NEW c \in Caller, OnlyCallOf(c), UNCHANGED <<engineVars, fileVars>>,
           call[c].at \notin ParallelStage, call'[c].at \notin ParallelStage
    PROVE  DispatchInv' /\ \A d \in Caller : ReadOf(d)'
  <1>1. DispatchInv' /\ Given' = Given /\ disp' = disp
    BY EngineStutter DEF FileInv, engineVars
  <1>2. Image' = Image /\ \A r : RowOf(r)' = RowOf(r)
    BY FileKept DEF FileInv
  <1>3. ASSUME NEW d \in Caller PROVE ReadOf(d)'
    <2>1. \A e \in Caller : call'[e].at \in ParallelStage => e # c /\ call[e].at \in ParallelStage
      BY DEF OnlyCallOf
    <2>2. CASE d = c
      BY <2>2 DEF ReadOf, ParallelStage
    <2>3. CASE d # c
      <3>1. call'[d] = call[d] /\ ReadOf(d)
        BY <2>3 DEF OnlyCallOf, FileInv
      <3>2. NextLeft(d)' = NextLeft(d) /\ Row(NextLeft(d))' = Row(NextLeft(d))
        BY <3>1 DEF NextLeft, Row
      <3>3. QED
        BY <1>1, <1>2, <2>1, <3>1, <3>2 DEF ReadOf
    <2>4. QED
      BY <2>2, <2>3
  <1>4. QED
    BY <1>1, <1>3

\* A call that goes to another stage.
LEMMA Went ==
    ASSUME CallTypeOK, NEW c \in Caller, NEW at \in CallStage, Go(c, at)
    PROVE  /\ call' \in [Caller -> CallRecord]
           /\ \A d \in Caller \ {c} : call'[d] = call[d]
           /\ call'[c].at = at
           /\ call'[c].frame = call[c].frame /\ call'[c].want = call[c].want
           /\ call'[c].left = call[c].left /\ call'[c].sp = call[c].sp
           /\ call'[c].promise = call[c].promise
  BY DEF CallTypeOK, CallRecord, Go

-----------------------------------------------------------------------------
(* The start, and setFrameBuffer.                                           *)

LEMMA FreshProcess == Fresh \in ScanProcess /\ Fresh.unit = 0 /\ Fresh.layout = NoLayout
  BY DecodeAssumption DEF ScanProcess, Fresh

LEMMA FileInit == InputInit => FileInv
  <1> SUFFICES ASSUME InputInit PROVE FileInv
    OBVIOUS
  <1> USE DEF InputInit
  <1>1. DispatchInv /\ disp = "idle"
    BY DispatchInit
  <1>2. FileTypeOK
    <2>1. tiled => rows * Columns \in Nat /\ rows * Columns <= Units
      BY DecodeAssumption, InputAssumption DEF Unit
    <2>2. ~tiled => Chunks \in 1 .. Units
      BY InputAssumption
    <2>3. Image \subseteq Unit
      BY <2>1, <2>2, DecodeAssumption DEF Image, Unit
    <2>4. QED
      BY <2>3 DEF FileTypeOK
  <1>3. KeptTypeOK
    <2>1. singleScan \in ScanProcess
      BY DecodeAssumption DEF ScanProcess, Fresh
    <2>2. rowBuffer \in [1 .. Columns -> 0 .. Units] /\ cachedRow \in Int
      BY DecodeAssumption DEF NoRow, Junk
    <2>3. clean \in BOOLEAN /\ torn \in BOOLEAN
      OBVIOUS
    <2>4. QED
      BY <2>1, <2>2, <2>3 DEF KeptTypeOK
  <1>4. CallTypeOK
    BY DecodeAssumption DEF CallTypeOK, CallRecord, CallStage, ScanProcess, Idle, Fresh
  <1>5. KeptRight
    BY DEF KeptRight, Fresh
  <1>6. RowRight
    <2>1. ASSUME NEW u \in Image PROVE Row(u) # cachedRow
      BY <1>2, RowAndColumn DEF FileTypeOK, NoRow
    <2>2. QED
      BY <2>1 DEF RowRight
  <1>7. ASSUME NEW c \in Caller PROVE CallSound(c) /\ ReadOf(c)
    BY <1>1 DEF CallSound, CallPlaced, RoutinesRight, PromiseKept, ReadOf, Idle, Fresh,
                ScanStage, TileStage, ParallelStage
  <1>8. QED
    BY <1>1, <1>2, <1>3, <1>4, <1>5, <1>6, <1>7 DEF FileInv

\* The row that is kept, or dropped for a frame buffer of another layout, is right.
LEMMA AdoptKeepsRow ==
    ASSUME FileInv, NEW f \in Frame, Adopt(f), UNCHANGED <<fileVars, fills, singleScan>>,
           clean' \in BOOLEAN
    PROVE  KeptTypeOK' /\ RowRight'
  <1>1. Image' = Image /\ tiled' = tiled
    BY FileKept DEF FileInv, fileVars
  <1>2. CASE SameLayout(frame, f)
    <2>1. /\ frame' = f
          /\ UNCHANGED <<cachedRow, rowBuffer, torn>>
      BY <1>2 DEF Adopt, KeepRow
    <2>2. KeptTypeOK'
      BY <2>1 DEF FileInv, KeptTypeOK
    <2>3. RowRight'
      BY <1>1, <2>1 DEF FileInv, RowRight, Row, Column
    <2>4. QED
      BY <2>2, <2>3
  <1>3. CASE ~SameLayout(frame, f)
    <2>1. /\ frame' = f /\ cachedRow' = NoRow /\ torn' = FALSE
          /\ rowBuffer' = [k \in 1 .. Columns |-> Junk]
      BY <1>3 DEF Adopt, DropRow
    <2>2. KeptTypeOK'
      <3>1. rowBuffer' \in [1 .. Columns -> 0 .. Units] /\ cachedRow' \in Int
        BY <2>1, DecodeAssumption DEF NoRow, Junk
      <3>2. torn' \in BOOLEAN
        BY <2>1
      <3>3. QED
        BY <2>1, <3>1, <3>2 DEF FileInv, KeptTypeOK
    <2>3. ASSUME NEW u \in Image PROVE Row(u)' # cachedRow'
      BY <2>1, RowAndColumn DEF FileInv, FileTypeOK, NoRow, Row
    <2>4. RowRight'
      BY <1>1, <2>3 DEF RowRight
    <2>5. QED
      BY <2>2, <2>4
  <1>4. QED
    BY <1>2, <1>3

\* No call is under way: all of them are idle, before and after.
LEMMA QuietKeeps ==
    ASSUME FileInv, Quiet, UNCHANGED <<engineVars, fileVars, call, got>>
    PROVE  /\ DispatchInv' /\ FileTypeOK' /\ CallTypeOK'
           /\ \A c \in Caller : CallSound(c)' /\ ReadOf(c)'
  <1>1. DispatchInv' /\ FileTypeOK' /\ Image' = Image /\ tiled' = tiled
    BY EngineStutter, FileKept DEF FileInv, fileVars
  <1>2. CallTypeOK'
    BY DEF FileInv, CallTypeOK
  <1>3. ASSUME NEW c \in Caller PROVE CallSound(c)' /\ ReadOf(c)'
    <2>1. call[c].at = "idle" /\ CallPlaced(c)
      BY DEF Quiet, FileInv, CallSound
    <2>2. CallPlaced(c)'
      BY <1>1, <2>1 DEF CallPlaced
    <2>3. RoutinesRight(c)' /\ PromiseKept(c)' /\ ReadOf(c)'
      BY <2>1 DEF CallPlaced, RoutinesRight, PromiseKept, ReadOf, ParallelStage
    <2>4. QED
      BY <2>2, <2>3 DEF CallSound
  <1>4. QED
    BY <1>1, <1>2, <1>3

LEMMA SetFrameBufferKeepsInv ==
    ASSUME FileInv, NEW f \in Frame, SetFrameBuffer(f) \/ SetFrameBufferThrows(f)
    PROVE  FileInv'
  <1>1. Quiet /\ UNCHANGED <<engineVars, fileVars, call, got>>
    BY DEF SetFrameBuffer, SetFrameBufferThrows
  <1>2. /\ DispatchInv' /\ FileTypeOK' /\ CallTypeOK'
        /\ \A c \in Caller : CallSound(c)' /\ ReadOf(c)'
    BY <1>1, QuietKeeps
  <1>3. tiled' = tiled /\ Image' = Image
    BY <1>1, FileKept DEF FileInv, fileVars
  <1>4. CASE SetFrameBuffer(f) /\ tiled
    <2>1. Adopt(f) /\ UNCHANGED <<fills, singleScan, clean>>
      BY <1>4 DEF SetFrameBuffer
    <2>2. KeptTypeOK' /\ RowRight'
      BY <1>1, <2>1, AdoptKeepsRow DEF FileInv, KeptTypeOK
    <2>3. KeptRight'
      BY <1>3, <1>4, <2>1 DEF FileInv, KeptRight
    <2>4. QED
      BY <1>2, <2>2, <2>3 DEF FileInv
  <1>5. CASE SetFrameBuffer(f) /\ ~tiled
    <2>1. /\ frame' = f /\ fills' = f /\ singleScan' = Fresh /\ clean' = TRUE
          /\ UNCHANGED <<cachedRow, rowBuffer, torn>>
      BY <1>5 DEF SetFrameBuffer
    <2>2. singleScan' \in ScanProcess
      BY <2>1, FreshProcess
    <2>3. KeptTypeOK'
      BY <2>1, <2>2 DEF FileInv, KeptTypeOK
    <2>4. KeptRight' /\ RowRight'
      BY <1>3, <1>5, <2>1 DEF KeptRight, RowRight, Fresh
    <2>5. QED
      BY <1>2, <2>3, <2>4 DEF FileInv
  <1>6. CASE SetFrameBufferThrows(f)
    <2>1. /\ ~tiled /\ fills' = f /\ singleScan' = Fresh /\ clean' = FALSE
          /\ UNCHANGED <<frame, cachedRow, rowBuffer, torn>>
      BY <1>6 DEF SetFrameBufferThrows
    <2>2. singleScan' \in ScanProcess
      BY <2>1, FreshProcess
    <2>3. KeptTypeOK'
      BY <2>1, <2>2 DEF FileInv, KeptTypeOK
    <2>4. KeptRight' /\ RowRight'
      BY <1>3, <2>1 DEF KeptRight, RowRight, Fresh
    <2>5. QED
      BY <1>2, <2>3, <2>4 DEF FileInv
  <1>7. QED
    BY <1>4, <1>5, <1>6

-----------------------------------------------------------------------------
(* The calls of readPixels.                                                 *)

LEMMA KeptStays ==
    ASSUME FileInv, UNCHANGED <<fileVars, keptVars, noteVars>>
    PROVE  KeptTypeOK' /\ KeptRight' /\ RowRight'
  <1> USE DEF fileVars, keptVars, noteVars
  <1>1. Image' = Image
    BY DEF Image
  <1>2. QED
    BY <1>1 DEF FileInv, KeptTypeOK, KeptRight, RowRight, Row, Column

\* The start of a call.
LEMMA EnterKeeps ==
    ASSUME FileInv, NEW c \in Caller, NEW f \in Frame, NEW units \in Ranges, NEW lock \in BOOLEAN,
           Enter(c, f, units, lock), UNCHANGED <<engineVars, fileVars, clean, got>>,
           ~tiled => UNCHANGED <<frame, fills>>
    PROVE  /\ DispatchInv' /\ FileTypeOK' /\ CallTypeOK'
           /\ \A d \in Caller : CallSound(d)' /\ ReadOf(d)'
  <1>1. units \subseteq Image /\ units \in SUBSET Unit
    BY DEF Ranges, FileInv, FileTypeOK
  <1>2. PICK way \in Ways(units) :
            call' = [call EXCEPT ![c] =
                [at |-> way, frame |-> f, want |-> units, left |-> units, locked |-> lock,
                 sp |-> Fresh, promise |-> IF tiled THEN TRUE ELSE clean /\ f = frame]]
    BY Zenon DEF Enter
  <1>3. /\ way \in CallStage \ ParallelStage /\ way # "idle" /\ way \notin {"scan", "returned"}
        /\ tiled => way \in TileStage
        /\ ~tiled => way \in ScanStage
    BY DEF Ways, CallStage, ScanStage, TileStage, ParallelStage
  <1> DEFINE promise == IF tiled THEN TRUE ELSE clean /\ f = frame
             new == [at |-> way, frame |-> f, want |-> units, left |-> units, locked |-> lock,
                     sp |-> Fresh, promise |-> promise]
  <1>4. promise \in BOOLEAN /\ (promise /\ ~tiled => clean /\ f = frame)
    BY DEF FileInv, FileTypeOK, KeptTypeOK
  <1>5. call' = [call EXCEPT ![c] = new]
    BY <1>2
  <1> HIDE DEF promise
  <1>6. Fresh \in ScanProcess /\ Fresh.unit = 0
    BY DecodeAssumption DEF ScanProcess, Fresh
  <1>7. /\ new \in CallRecord
        /\ new.at = way /\ new.frame = f /\ new.want = units /\ new.left = units
        /\ new.sp = Fresh /\ new.promise = promise
    BY <1>1, <1>3, <1>4, <1>6 DEF CallRecord
  <1> HIDE DEF new
  <1>8. call' \in [Caller -> CallRecord] /\ call'[c] = new /\ OnlyCallOf(c)
    BY <1>5, <1>7 DEF FileInv, CallTypeOK, OnlyCallOf
  <1>9. DispatchInv' /\ FileTypeOK' /\ CallTypeOK' /\ \A d \in Caller : ReadOf(d)'
    <2>1. call[c].at \notin ParallelStage
      BY DEF Enter, ParallelStage
    <2>2. call'[c].at \notin ParallelStage
      BY <1>3, <1>7, <1>8
    <2>3. CallTypeOK'
      BY <1>8 DEF FileInv, CallTypeOK
    <2>4. QED
      BY <1>8, <2>1, <2>2, <2>3, ReadersKept, FileKept DEF FileInv
  <1>10. CallSound(c)'
    <2>1. Image' = Image /\ tiled' = tiled
      BY FileKept DEF FileInv, fileVars
    <2>2. \A u \in Unit : got'[c][u] = "old"
      BY DEF Enter, FileInv, CallSound, CallPlaced
    <2>3. CallPlaced(c)'
      BY <1>1, <1>3, <1>6, <1>7, <1>8, <2>1, <2>2 DEF CallPlaced, ScanStage, TileStage
    <2>4. RoutinesRight(c)'
      BY <1>3, <1>7, <1>8 DEF RoutinesRight
    <2>5. PromiseKept(c)'
      BY <1>3, <1>4, <1>7, <1>8, <2>1 DEF PromiseKept, FileInv, KeptRight
    <2>6. QED
      BY <2>3, <2>4, <2>5 DEF CallSound
  <1>11. QED
    BY <1>8, <1>9, <1>10, OthersSound

LEMMA ReadKeepsInv ==
    ASSUME FileInv, NEW c \in Caller, Read(c)
    PROVE  FileInv'
  <1> USE DEF Read
  <1>1. frame \in Frame
    BY DEF FileInv, KeptTypeOK
  <1>2. PICK units \in Ranges : Enter(c, frame, units, TRUE)
    OBVIOUS
  <1>3. UNCHANGED <<engineVars, fileVars, clean, got, frame, fills>>
    BY DEF keptVars, noteVars
  <1>4. /\ DispatchInv' /\ FileTypeOK' /\ CallTypeOK'
        /\ \A d \in Caller : CallSound(d)' /\ ReadOf(d)'
    BY <1>1, <1>2, <1>3, EnterKeeps
  <1>5. KeptTypeOK' /\ KeptRight' /\ RowRight'
    BY KeptStays
  <1>6. QED
    BY <1>4, <1>5 DEF FileInv

LEMMA ReadIntoKeepsInv ==
    ASSUME FileInv, NEW c \in Caller, NEW f \in Frame, ReadInto(c, f)
    PROVE  FileInv'
  <1> USE DEF ReadInto
  <1>1. PICK units \in Ranges : Enter(c, f, units, tiled)
    OBVIOUS
  <1>2. /\ UNCHANGED <<engineVars, fileVars, clean, got>>
        /\ ~tiled => UNCHANGED <<frame, fills>>
    BY DEF keptVars, noteVars
  <1>3. tiled \in BOOLEAN
    BY DEF FileInv, FileTypeOK
  <1>4. /\ DispatchInv' /\ FileTypeOK' /\ CallTypeOK'
        /\ \A d \in Caller : CallSound(d)' /\ ReadOf(d)'
    BY <1>1, <1>2, <1>3, EnterKeeps
  <1>5. CASE tiled
    <2>1. Adopt(f) /\ UNCHANGED <<fileVars, fills, singleScan, clean>>
      BY <1>5
    <2>2. KeptTypeOK' /\ RowRight'
      BY <2>1, AdoptKeepsRow DEF FileInv, KeptTypeOK
    <2>3. KeptRight'
      BY <1>5, <2>1 DEF FileInv, KeptRight, fileVars
    <2>4. QED
      BY <1>4, <2>2, <2>3 DEF FileInv
  <1>6. CASE ~tiled
    BY <1>4, <1>6, KeptStays DEF FileInv
  <1>7. QED
    BY <1>5, <1>6

\* The application has looked at the result.
LEMMA ReturnKeepsInv ==
    ASSUME FileInv, NEW c \in Caller, Return(c)
    PROVE  FileInv'
  <1> USE DEF Return
  <1>1. Idle \in CallRecord
    BY FreshProcess DEF CallRecord, CallStage, Idle
  <1>2. /\ CallTypeOK' /\ OnlyCallOf(c)
        /\ call'[c] = Idle /\ \A u \in Unit : got'[c][u] = "old"
    BY <1>1 DEF FileInv, CallTypeOK, OnlyCallOf
  <1>3. call[c].at \notin ParallelStage /\ call'[c].at \notin ParallelStage
    BY <1>2 DEF ParallelStage, Idle
  <1>4. DispatchInv' /\ \A d \in Caller : ReadOf(d)'
    BY <1>2, <1>3, ReadersKept
  <1>5. CallSound(c)'
    BY <1>2, FreshProcess
    DEF CallSound, CallPlaced, RoutinesRight, PromiseKept, Idle, ScanStage, TileStage
  <1>6. \A d \in Caller : CallSound(d)'
    BY <1>2, <1>5, OthersSound DEF keptVars, noteVars
  <1>7. QED
    BY <1>2, <1>4, <1>6, KeptStays, FileKept DEF FileInv

-----------------------------------------------------------------------------
(* Scan-line files, without tasks.                                          *)

\* A step of one caller that has no parallel read.
LEMMA OwnStep ==
    ASSUME FileInv, NEW c \in Caller, OnlyCallOf(c),
           UNCHANGED <<engineVars, fileVars, frame, fills>>, clean' => clean,
           call[c].at \notin ParallelStage, call'[c].at \notin ParallelStage,
           CallTypeOK', CallSound(c)', KeptTypeOK', KeptRight', RowRight'
    PROVE  FileInv'
  <1>1. DispatchInv' /\ \A d \in Caller : ReadOf(d)'
    BY ReadersKept
  <1>2. \A d \in Caller : CallSound(d)'
    BY OthersSound
  <1>3. QED
    BY <1>1, <1>2, FileKept DEF FileInv

LEMMA CheckoutScanKeepsInv ==
    ASSUME FileInv, NEW c \in Caller, CheckoutScan(c)
    PROVE  FileInv'
  <1> DEFINE promise == call[c].promise /\ clean
  <1>1. promise \in BOOLEAN /\ (promise => clean /\ call[c].promise)
    BY DEF FileInv, KeptTypeOK, CallTypeOK, CallRecord
  <1>2. call' = [call EXCEPT ![c].at = "scan", ![c].sp = singleScan, ![c].promise = promise]
    BY DEF CheckoutScan
  <1>3. /\ UNCHANGED <<engineVars, fileVars, frame, fills, cachedRow, rowBuffer, got, clean, torn>>
        /\ singleScan' = Fresh /\ call[c].at = "checkout"
    BY DEF CheckoutScan, noteVars
  <1> HIDE DEF promise
  <1>4. /\ call' \in [Caller -> CallRecord] /\ OnlyCallOf(c)
        /\ call'[c].at = "scan" /\ call'[c].sp = singleScan /\ call'[c].promise = promise
        /\ call'[c].frame = call[c].frame /\ call'[c].want = call[c].want
        /\ call'[c].left = call[c].left
    <2> DEFINE new == [call[c] EXCEPT !.at = "scan", !.sp = singleScan, !.promise = promise]
    <2>1. call[c] \in CallRecord /\ singleScan \in ScanProcess
      BY DEF FileInv, CallTypeOK, KeptTypeOK
    <2>2. /\ new \in CallRecord
          /\ new.at = "scan" /\ new.sp = singleScan /\ new.promise = promise
          /\ new.frame = call[c].frame /\ new.want = call[c].want /\ new.left = call[c].left
      BY <1>1, <2>1 DEF CallRecord, CallStage, ScanStage
    <2>3. call' = [call EXCEPT ![c] = new]
      BY <1>2, Zenon
    <2> HIDE DEF new
    <2>4. QED
      BY <1>3, <2>2, <2>3 DEF FileInv, CallTypeOK, OnlyCallOf
  <1>5. CallPlaced(c) /\ PromiseKept(c) /\ ~tiled /\ Image' = Image /\ tiled' = tiled
    BY <1>3, FileKept DEF FileInv, CallSound, CallPlaced, ScanStage, fileVars
  <1>6. KeptTypeOK' /\ KeptRight' /\ RowRight'
    BY <1>3, <1>5, FreshProcess DEF FileInv, KeptTypeOK, KeptRight, RowRight
  <1>7. CallPlaced(c)'
    BY <1>3, <1>4, <1>5 DEF CallPlaced, FileInv, KeptRight, ScanStage, TileStage
  <1>8. RoutinesRight(c)'
    BY <1>1, <1>3, <1>4, <1>5 DEF RoutinesRight, FileInv, KeptRight, PromiseKept
  <1>9. PromiseKept(c)'
    <2>1. \A f : Direct(f)' = Direct(f)
      BY <1>3, FileKept DEF FileInv
    <2>2. QED
      BY <1>1, <1>3, <1>4, <1>5, <2>1 DEF PromiseKept, Delivered
  <1>10. CallTypeOK'
    BY <1>3, <1>4 DEF FileInv, CallTypeOK
  <1>11. QED
    BY <1>3, <1>4, <1>6, <1>7, <1>8, <1>9, <1>10, OwnStep DEF CallSound, ParallelStage

\* Pixels that are converted with the right routines are right.
LEMMA ConvertedIsRight ==
    ASSUME FileInv, NEW c \in Caller, call[c].promise, ~tiled
    PROVE  /\ Converted(c, LayoutOf[call[c].frame]) = "right"
           /\ \A layout : Converted(c, layout) \in {"right", "junk"}
  BY DEF FileInv, CallSound, PromiseKept, Converted

LEMMA RunDecodeKeepsInv ==
    ASSUME FileInv, NEW c \in Caller, RunDecode(c)
    PROVE  FileInv'
  <1> DEFINE u == NextLeft(c)
             layout == IF call[c].sp.layout = NoLayout
                       THEN LayoutOf[call[c].frame] ELSE call[c].sp.layout
             sp == [unit |-> u, layout |-> layout]
  <1>1. /\ call[c].at = "scan" /\ call[c].left # {}
        /\ call' = [call EXCEPT ![c].sp = sp, ![c].left = @ \ {u}]
        /\ got' = [got EXCEPT ![c][u] = Converted(c, layout)]
        /\ UNCHANGED <<engineVars, fileVars, keptVars, noteVars>>
    BY DEF RunDecode
  <1>2. u \in call[c].left /\ u \in Unit /\ u \in 0 .. Units /\ u # 0
    BY <1>1, NextIsLeft, DecodeAssumption DEF Unit
  <1>3. CallPlaced(c) /\ PromiseKept(c) /\ RoutinesRight(c) /\ ~tiled
    BY <1>1 DEF FileInv, CallSound, CallPlaced, ScanStage
  <1>4. /\ layout \in Layout /\ layout # NoLayout
        /\ call[c].sp.layout # NoLayout => layout = call[c].sp.layout
    BY <1>1, <1>3, InputAssumption
    DEF FileInv, CallTypeOK, CallRecord, ScanProcess, CallPlaced
  <1>5. (call[c].promise \/ (clean /\ call[c].frame = frame)) => layout = LayoutOf[call[c].frame]
    BY <1>1, <1>3 DEF RoutinesRight
  <1>6. Converted(c, layout) \in {"right", "junk"}
    BY DEF Converted
  <1>7. call[c].promise => Converted(c, layout) = "right"
    BY <1>3, <1>5, ConvertedIsRight
  <1>8. sp \in ScanProcess /\ sp.unit = u /\ sp.layout = layout
    BY <1>2, <1>4 DEF ScanProcess
  <1> HIDE DEF u, layout, sp
  <1>9. /\ call' \in [Caller -> CallRecord]
        /\ call'[c].at = "scan" /\ call'[c].sp = sp /\ call'[c].promise = call[c].promise
        /\ call'[c].frame = call[c].frame /\ call'[c].want = call[c].want
        /\ call'[c].left = call[c].left \ {u}
    BY <1>1, <1>8 DEF FileInv, CallTypeOK, CallRecord
  <1>10. /\ got' \in [Caller -> [Unit -> {"old", "right", "junk"}]]
         /\ got'[c][u] = Converted(c, layout)
         /\ \A v \in Unit \ {u} : got'[c][v] = got[c][v]
    BY <1>1, <1>2, <1>6 DEF FileInv, CallTypeOK
  <1>11. OnlyCallOf(c)
    BY <1>1 DEF OnlyCallOf, FileInv, CallTypeOK
  <1>12. /\ Image' = Image /\ tiled' = tiled /\ Image \subseteq Unit
         /\ \A f : Direct(f)' = Direct(f)
         /\ frame' = frame /\ fills' = fills /\ clean' = clean
    BY <1>1, FileKept DEF FileInv, FileTypeOK, fileVars, keptVars, noteVars
  <1>13. CallPlaced(c)'
    BY <1>1, <1>2, <1>3, <1>4, <1>8, <1>9, <1>10, <1>12 DEF CallPlaced, ScanStage, TileStage
  <1>14. RoutinesRight(c)'
    BY <1>5, <1>8, <1>9, <1>12 DEF RoutinesRight
  <1>15. PromiseKept(c)'
    <2>1. ASSUME call[c].promise, NEW v \in call[c].want \ (call[c].left \ {u})
          PROVE  Delivered(c, v)'
      <3>1. CASE v = u
        BY <1>7, <1>10, <2>1, <3>1 DEF Delivered
      <3>2. CASE v # u
        <4>1. v \in Unit /\ Delivered(c, v)
          BY <1>1, <1>3, <1>12, <2>1, <3>2 DEF PromiseKept, CallPlaced
        <4>2. QED
          BY <1>9, <1>10, <1>12, <3>2, <4>1 DEF Delivered
      <3>3. QED
        BY <3>1, <3>2
    <2>2. QED
      BY <1>3, <1>9, <1>12, <2>1 DEF PromiseKept
  <1>16. CallTypeOK'
    BY <1>9, <1>10 DEF CallTypeOK
  <1>17. QED
    BY <1>1, <1>9, <1>11, <1>12, <1>13, <1>14, <1>15, <1>16, OwnStep, KeptStays
    DEF CallSound, ParallelStage

LEMMA RunUnpackKeepsInv ==
    ASSUME FileInv, NEW c \in Caller, RunUnpack(c)
    PROVE  FileInv'
  <1> DEFINE u == NextLeft(c)
             layout == call[c].sp.layout
             out == IF Direct(layout) THEN got[c][u] ELSE Converted(c, layout)
  <1>1. /\ call[c].at = "scan" /\ call[c].left # {} /\ call[c].sp.unit = u
        /\ call' = [call EXCEPT ![c].left = @ \ {u}]
        /\ got' = [got EXCEPT ![c][u] = out]
        /\ UNCHANGED <<engineVars, fileVars, keptVars, noteVars>>
    BY DEF RunUnpack
  <1>2. u \in call[c].left /\ u \in Unit /\ u # 0
    BY <1>1, NextIsLeft, DecodeAssumption DEF Unit
  <1>3. CallPlaced(c) /\ PromiseKept(c) /\ RoutinesRight(c) /\ ~tiled
    BY <1>1 DEF FileInv, CallSound, CallPlaced, ScanStage
  <1>4. layout # NoLayout /\ got[c][u] = "old"
    BY <1>1, <1>2, <1>3 DEF CallPlaced
  <1>5. call[c].promise => layout = LayoutOf[call[c].frame]
    BY <1>1, <1>3, <1>4 DEF RoutinesRight
  <1>6. out \in {"old", "right", "junk"}
    BY <1>4 DEF Converted
  <1>7. call[c].promise =>
            out = "right" \/ (out = "old" /\ Direct(LayoutOf[call[c].frame]))
    BY <1>3, <1>4, <1>5, ConvertedIsRight
  <1> HIDE DEF u, layout, out
  <1>8. /\ call' \in [Caller -> CallRecord]
        /\ call'[c].at = "scan" /\ call'[c].sp = call[c].sp
        /\ call'[c].promise = call[c].promise
        /\ call'[c].frame = call[c].frame /\ call'[c].want = call[c].want
        /\ call'[c].left = call[c].left \ {u}
    BY <1>1 DEF FileInv, CallTypeOK, CallRecord
  <1>9. /\ got' \in [Caller -> [Unit -> {"old", "right", "junk"}]]
        /\ got'[c][u] = out
        /\ \A v \in Unit \ {u} : got'[c][v] = got[c][v]
    BY <1>1, <1>2, <1>6 DEF FileInv, CallTypeOK
  <1>10. OnlyCallOf(c)
    BY <1>1 DEF OnlyCallOf, FileInv, CallTypeOK
  <1>11. /\ Image' = Image /\ tiled' = tiled /\ Image \subseteq Unit
         /\ \A f : Direct(f)' = Direct(f)
         /\ frame' = frame /\ fills' = fills /\ clean' = clean
    BY <1>1, FileKept DEF FileInv, FileTypeOK, fileVars, keptVars, noteVars
  <1>12. CallPlaced(c)'
    BY <1>1, <1>2, <1>3, <1>8, <1>9, <1>11 DEF CallPlaced, ScanStage, TileStage
  <1>13. RoutinesRight(c)'
    BY <1>1, <1>3, <1>8, <1>11 DEF RoutinesRight
  <1>14. PromiseKept(c)'
    <2>1. ASSUME call[c].promise, NEW v \in call[c].want \ (call[c].left \ {u})
          PROVE  Delivered(c, v)'
      <3>1. CASE v = u
        BY <1>3, <1>7, <1>8, <1>9, <1>11, <2>1, <3>1 DEF Delivered
      <3>2. CASE v # u
        <4>1. v \in Unit /\ Delivered(c, v)
          BY <1>1, <1>3, <1>11, <2>1, <3>2 DEF PromiseKept, CallPlaced
        <4>2. QED
          BY <1>8, <1>9, <1>11, <3>2, <4>1 DEF Delivered
      <3>3. QED
        BY <3>1, <3>2
    <2>2. QED
      BY <1>3, <1>8, <1>11, <2>1 DEF PromiseKept
  <1>15. CallTypeOK'
    BY <1>8, <1>9 DEF CallTypeOK
  <1>16. QED
    BY <1>1, <1>8, <1>10, <1>11, <1>12, <1>13, <1>14, <1>15, OwnStep, KeptStays
    DEF CallSound, ParallelStage

LEMMA ScanThrowsKeepsInv ==
    ASSUME FileInv, NEW c \in Caller, ScanThrows(c)
    PROVE  FileInv'
  <1>1. /\ Go(c, "threw") /\ call[c].at = "scan"
        /\ UNCHANGED <<engineVars, fileVars, keptVars, noteVars, got>>
    BY DEF ScanThrows
  <1>2. /\ call' \in [Caller -> CallRecord]
        /\ call'[c].at = "threw" /\ OnlyCallOf(c)
        /\ call'[c].frame = call[c].frame /\ call'[c].want = call[c].want
        /\ call'[c].left = call[c].left /\ call'[c].sp = call[c].sp
        /\ call'[c].promise = call[c].promise
    BY <1>1, Went DEF FileInv, CallStage, OnlyCallOf
  <1>3. Image' = Image /\ tiled' = tiled /\ frame' = frame /\ fills' = fills /\ clean' = clean
    BY <1>1, FileKept DEF FileInv, fileVars, keptVars, noteVars
  <1>4. CallSound(c)'
    BY <1>1, <1>2, <1>3
    DEF FileInv, CallSound, CallPlaced, RoutinesRight, PromiseKept, ScanStage, TileStage
  <1>5. CallTypeOK'
    BY <1>1, <1>2 DEF FileInv, CallTypeOK
  <1>6. QED
    BY <1>1, <1>2, <1>3, <1>4, <1>5, OwnStep, KeptStays DEF ParallelStage

LEMMA CheckinScanKeepsInv ==
    ASSUME FileInv, NEW c \in Caller, CheckinScan(c)
    PROVE  FileInv'
  <1>1. /\ Go(c, "returned") /\ call[c].at = "scan" /\ call[c].left = {}
        /\ singleScan' = call[c].sp
        /\ UNCHANGED <<engineVars, fileVars, frame, fills, cachedRow, rowBuffer, torn, got>>
    BY DEF CheckinScan
  <1>2. clean' \in BOOLEAN /\ (clean' => clean /\ call[c].frame = frame)
    BY DEF CheckinScan, FileInv, KeptTypeOK
  <1>3. /\ call' \in [Caller -> CallRecord]
        /\ call'[c].at = "returned" /\ OnlyCallOf(c)
        /\ call'[c].frame = call[c].frame /\ call'[c].want = call[c].want
        /\ call'[c].left = call[c].left /\ call'[c].sp = call[c].sp
        /\ call'[c].promise = call[c].promise
    BY <1>1, Went DEF FileInv, CallStage, OnlyCallOf
  <1>4. /\ Image' = Image /\ tiled' = tiled /\ ~tiled
        /\ \A f : Direct(f)' = Direct(f)
        /\ CallPlaced(c) /\ RoutinesRight(c) /\ PromiseKept(c)
    BY <1>1, FileKept DEF FileInv, CallSound, CallPlaced, ScanStage, fileVars
  <1>5. KeptTypeOK'
    BY <1>1, <1>2 DEF FileInv, KeptTypeOK, CallTypeOK, CallRecord
  <1>6. KeptRight'
    BY <1>1, <1>2, <1>4 DEF FileInv, KeptRight, CallPlaced, RoutinesRight
  <1>7. CallSound(c)'
    BY <1>1, <1>3, <1>4
    DEF CallSound, CallPlaced, RoutinesRight, PromiseKept, Delivered, ScanStage, TileStage
  <1>8. CallTypeOK' /\ RowRight'
    BY <1>1, <1>3, <1>4 DEF FileInv, CallTypeOK, RowRight
  <1>9. QED
    BY <1>1, <1>2, <1>3, <1>5, <1>6, <1>7, <1>8, OwnStep DEF ParallelStage

-----------------------------------------------------------------------------
(* Parallel reads.                                                          *)

\* A parallel read begins only when none is under way.
LEMMA BeginKeeps ==
    ASSUME FileInv, NEW c \in Caller, NEW at \in ParallelStage, NEW units, units \subseteq Unit,
           Go(c, at), Begin(units), UNCHANGED <<fileVars, keptVars, noteVars, got>>,
           \/ at = "parallel" /\ call[c].at = "split" /\ units = call[c].want
           \/ at = "wholeParallel" /\ call[c].at = "whole" /\ units = Image
           \/ /\ at = "rowParallel" /\ call[c].at = "row" /\ call[c].left # {}
              /\ units = RowOf(Row(NextLeft(c)))
    PROVE  FileInv'
  <1>1. at \in CallStage
    BY DEF CallStage, ScanStage, TileStage, ParallelStage
  <1>2. /\ call' \in [Caller -> CallRecord]
        /\ call'[c].at = at /\ OnlyCallOf(c)
        /\ call'[c].frame = call[c].frame /\ call'[c].want = call[c].want
        /\ call'[c].left = call[c].left /\ call'[c].sp = call[c].sp
        /\ call'[c].promise = call[c].promise
    BY <1>1, Went DEF FileInv, OnlyCallOf
  <1>3. DispatchInv' /\ Given' = units /\ disp' = "query"
    BY BeginKeepsInv
  <1>4. /\ Image' = Image /\ tiled' = tiled /\ FileTypeOK' /\ \A r : RowOf(r)' = RowOf(r)
        /\ frame' = frame /\ fills' = fills /\ clean' = clean
    BY FileKept DEF FileInv, fileVars, keptVars, noteVars
  <1>5. \A d \in Caller : call[d].at \notin ParallelStage
    BY DEF Begin, NewGroup, FileInv, ReadOf
  <1>6. ASSUME NEW d \in Caller \ {c} PROVE ReadOf(d)'
    BY <1>2, <1>5 DEF ReadOf, OnlyCallOf, ParallelStage
  <1>7. ReadOf(c)'
    <2>1. \A d \in Caller : call'[d].at \in ParallelStage => d = c
      BY <1>2, <1>5 DEF OnlyCallOf
    <2>2. NextLeft(c)' = NextLeft(c) /\ Row(NextLeft(c))' = Row(NextLeft(c))
      BY <1>2 DEF NextLeft, Row
    <2>3. QED
      BY <1>2, <1>3, <1>4, <2>1, <2>2 DEF ReadOf
  <1>8. CallSound(c)'
    <2>1. CallSound(c)
      BY DEF FileInv
    <2>2. CallPlaced(c)'
      BY <1>2, <1>4, <2>1 DEF CallSound, CallPlaced, ScanStage, TileStage, ParallelStage
    <2>3. \A f : Direct(f)' = Direct(f)
      BY FileKept DEF FileInv
    <2>4. RoutinesRight(c)' /\ PromiseKept(c)'
      BY <1>2, <1>4, <2>1, <2>3
      DEF CallSound, RoutinesRight, PromiseKept, Delivered, ParallelStage
    <2>5. QED
      BY <2>2, <2>4 DEF CallSound
  <1>9. \A d \in Caller : CallSound(d)'
    BY <1>2, <1>4, <1>8, OthersSound
  <1>10. CallTypeOK'
    BY <1>2 DEF FileInv, CallTypeOK
  <1>11. QED
    BY <1>3, <1>4, <1>6, <1>7, <1>9, <1>10, KeptStays DEF FileInv

LEMMA SplitKeepsInv ==
    ASSUME FileInv, NEW c \in Caller, Split(c)
    PROVE  FileInv'
  <1>1. call[c].want \subseteq Unit
    BY DEF FileInv, CallTypeOK, CallRecord
  <1>2. QED
    BY <1>1, BeginKeeps DEF Split, ParallelStage

\* A parallel read that has ended was that of the one caller that waits for it.
LEMMA EndKeeps ==
    ASSUME FileInv, NEW c \in Caller, End, OnlyCallOf(c), UNCHANGED <<fileVars, frame, fills>>,
           clean' => clean, call[c].at \in ParallelStage, call'[c].at \notin ParallelStage,
           CallTypeOK', CallSound(c)', KeptTypeOK', KeptRight', RowRight'
    PROVE  FileInv'
  <1>1. DispatchInv'
    BY EndKeepsInv
  <1>2. \A d \in Caller : call'[d].at \notin ParallelStage
    BY DEF FileInv, ReadOf, OnlyCallOf
  <1>3. \A d \in Caller : ReadOf(d)'
    BY <1>2 DEF ReadOf, ParallelStage
  <1>4. \A d \in Caller : CallSound(d)'
    BY OthersSound
  <1>5. QED
    BY <1>1, <1>3, <1>4, FileKept DEF FileInv

LEMMA JoinsKeepsInv ==
    ASSUME FileInv, NEW c \in Caller, Joins(c)
    PROVE  FileInv'
  <1> DEFINE at == IF thrown THEN "threw" ELSE "returned"
             new == [u \in Unit |-> IF u \in decoded
                                    THEN Converted(c, LayoutOf[call[c].frame]) ELSE "old"]
  <1>1. /\ call[c].at = "parallel" /\ End /\ Go(c, at)
        /\ got' = [got EXCEPT ![c] = new]
        /\ UNCHANGED <<fileVars, keptVars, noteVars>>
    BY DEF Joins
  <1>2. /\ call' \in [Caller -> CallRecord]
        /\ call'[c].at = at /\ \A d \in Caller \ {c} : call'[d] = call[d]
        /\ call'[c].frame = call[c].frame /\ call'[c].want = call[c].want
        /\ call'[c].left = call[c].left /\ call'[c].sp = call[c].sp
        /\ call'[c].promise = call[c].promise
    BY <1>1, Went DEF FileInv, CallStage
  <1>3. new \in [Unit -> {"old", "right", "junk"}]
    BY DEF Converted
  <1>4. call[c].promise /\ at = "returned" => \A u \in call[c].want : new[u] = "right"
    <2>1. ~tiled /\ call[c].want \subseteq Unit /\ Given = call[c].want
      BY <1>1 DEF FileInv, CallSound, CallPlaced, ScanStage, ReadOf, CallTypeOK, CallRecord
    <2>2. disp = "returned" /\ DispatchInv
      BY <1>1 DEF End, FileInv
    <2>3. at = "returned" => decoded = call[c].want
      BY <2>1, <2>2, ReturnedMeansDecoded
    <2>4. QED
      BY <2>1, <2>3, ConvertedIsRight
  <1> HIDE DEF new
  <1>5. /\ got' \in [Caller -> [Unit -> {"old", "right", "junk"}]]
        /\ got'[c] = new /\ OnlyCallOf(c)
    BY <1>1, <1>2, <1>3 DEF FileInv, CallTypeOK, OnlyCallOf
  <1>6. /\ Image' = Image /\ tiled' = tiled
        /\ frame' = frame /\ fills' = fills /\ clean' = clean
    BY <1>1, FileKept DEF FileInv, fileVars, keptVars, noteVars
  <1>7. CallSound(c)'
    <2>1. CallPlaced(c) /\ PromiseKept(c)
      BY DEF FileInv, CallSound
    <2>2. CallPlaced(c)'
      BY <1>1, <1>2, <1>6, <2>1 DEF CallPlaced, ScanStage, TileStage
    <2>3. RoutinesRight(c)'
      BY <1>2 DEF RoutinesRight
    <2>4. PromiseKept(c)'
      BY <1>2, <1>4, <1>5, <1>6, <2>1 DEF PromiseKept, Delivered
    <2>5. QED
      BY <2>2, <2>3, <2>4 DEF CallSound
  <1>8. CallTypeOK'
    BY <1>2, <1>5 DEF CallTypeOK
  <1>9. QED
    BY <1>1, <1>2, <1>5, <1>6, <1>7, <1>8, EndKeeps, KeptStays DEF ParallelStage

-----------------------------------------------------------------------------
(* Tiled files.                                                             *)

\* The row of tiles that a call comes to next.
LEMMA NextRow ==
    ASSUME FileInv, NEW c \in Caller, call[c].left # {}
    PROVE  Row(NextLeft(c)) \in Int /\ RowOf(Row(NextLeft(c))) \subseteq Unit
  BY NextIsLeft, RowAndColumn DEF RowOf, FileInv, FileTypeOK

LEMMA BufferedType ==
    ASSUME FileInv, NEW r \in Int, NEW good, NEW bad, good \subseteq Unit, Buffered(r, good, bad)
    PROVE  /\ rowBuffer' \in [1 .. Columns -> 0 .. Units]
           /\ torn' \in BOOLEAN
           /\ ~torn' => ~torn /\ (good = RowOf(r) \/ rowBuffer' = rowBuffer)
  <1>1. ASSUME NEW k \in 1 .. Columns, NEW u
        PROVE (IF u \in good THEN u ELSE IF u \in bad THEN Junk ELSE rowBuffer[k]) \in 0 .. Units
    <2>1. Junk \in 0 .. Units /\ rowBuffer[k] \in 0 .. Units
      BY DecodeAssumption DEF FileInv, KeptTypeOK, Junk
    <2>2. u \in good => u \in 0 .. Units
      BY DecodeAssumption DEF Unit
    <2>3. QED
      BY <2>1, <2>2, Zenon
  <1>2. rowBuffer' \in [1 .. Columns -> 0 .. Units]
    BY <1>1 DEF Buffered
  <1>3. torn' = (torn \/ (RowOf(r) # good /\ rowBuffer' # rowBuffer))
    BY DEF Buffered
  <1>4. QED
    BY <1>2, <1>3

\* A row that was read whole may be cached.
LEMMA WholeRowRight ==
    ASSUME FileInv, NEW r \in Int, NEW bad, Buffered(r, RowOf(r), bad),
           cachedRow' = r, UNCHANGED fileVars
    PROVE  RowRight'
  <1>1. Image' = Image /\ Image \subseteq Unit
    BY FileKept DEF FileInv, FileTypeOK
  <1>2. ASSUME NEW u \in Image, Row(u) = r PROVE rowBuffer'[Column(u)] = u
    <2>1. Column(u) \in 1 .. Columns /\ u = r * Columns + Column(u) /\ u \in RowOf(r)
      BY <1>1, <1>2, RowAndColumn DEF RowOf
    <2> DEFINE k == Column(u)
    <2>2. rowBuffer'[k] = IF r * Columns + k \in RowOf(r) THEN r * Columns + k
                          ELSE IF r * Columns + k \in bad THEN Junk ELSE rowBuffer[k]
      BY <2>1 DEF Buffered
    <2> HIDE DEF k
    <2>3. QED
      BY <2>1, <2>2 DEF k
  <1>3. QED
    BY <1>1, <1>2 DEF RowRight, Row, Column

\* A row that was read in part leaves a whole cached row as it was, or is noted.
LEMMA PartRowRight ==
    ASSUME FileInv, NEW r \in Int, NEW good, NEW bad, good \subseteq Unit, good # RowOf(r),
           Buffered(r, good, bad), UNCHANGED <<fileVars, cachedRow>>
    PROVE  RowRight'
  <1>1. Image' = Image /\ tiled' = tiled
    BY FileKept DEF FileInv, fileVars
  <1>2. ~torn' => ~torn /\ rowBuffer' = rowBuffer
    BY BufferedType
  <1>3. QED
    BY <1>1, <1>2 DEF FileInv, RowRight, Row, Column

LEMMA WholeKeepsInv ==
    ASSUME FileInv, NEW c \in Caller, Whole(c)
    PROVE  FileInv'
  <1>1. call[c].at = "whole" /\ UNCHANGED <<fileVars, keptVars, noteVars>>
    BY DEF Whole
  <1>2. CASE Begin(Image) /\ Go(c, "wholeParallel") /\ UNCHANGED got
    <2>1. Image \subseteq Unit
      BY DEF FileInv, FileTypeOK
    <2>2. QED
      BY <1>1, <1>2, <2>1, BeginKeeps DEF ParallelStage
  <1>3. ASSUME UNCHANGED engineVars, NEW at \in {"threw", "returned"}, Go(c, at),
               IF at = "threw" THEN UNCHANGED got
               ELSE got' = [got EXCEPT ![c] = [u \in Unit |-> "right"]]
        PROVE  FileInv'
    <2>1. /\ call' \in [Caller -> CallRecord]
          /\ call'[c].at = at /\ \A d \in Caller \ {c} : call'[d] = call[d]
          /\ call'[c].frame = call[c].frame /\ call'[c].want = call[c].want
          /\ call'[c].left = call[c].left /\ call'[c].sp = call[c].sp
          /\ call'[c].promise = call[c].promise
      BY <1>3, Went DEF FileInv, CallStage
    <2>2. /\ got' \in [Caller -> [Unit -> {"old", "right", "junk"}]]
          /\ OnlyCallOf(c)
          /\ at = "returned" => \A u \in Unit : got'[c][u] = "right"
      <3>1. CASE at = "threw"
        BY <1>3, <2>1, <3>1 DEF FileInv, CallTypeOK, OnlyCallOf
      <3>2. CASE at = "returned"
        BY <1>3, <2>1, <3>2 DEF FileInv, CallTypeOK, OnlyCallOf
      <3>3. QED
        BY <1>3, <3>1, <3>2
    <2>3. Image' = Image /\ tiled' = tiled /\ tiled /\ fills' = fills /\ frame' = frame
          /\ clean' = clean /\ call[c].want \subseteq Unit /\ CallPlaced(c)
      BY <1>1, FileKept
      DEF FileInv, CallSound, CallPlaced, TileStage, fileVars, keptVars, noteVars, FileTypeOK
    <2>4. CallPlaced(c)'
      BY <1>1, <1>3, <2>1, <2>3 DEF CallPlaced, ScanStage, TileStage
    <2>5. RoutinesRight(c)' /\ PromiseKept(c)'
      BY <1>3, <2>1, <2>2, <2>3 DEF RoutinesRight, PromiseKept, Delivered
    <2>6. CallTypeOK'
      BY <2>1, <2>2 DEF CallTypeOK
    <2>7. QED
      BY <1>1, <1>3, <2>1, <2>2, <2>3, <2>4, <2>5, <2>6, OwnStep, KeptStays
      DEF CallSound, ParallelStage
  <1>4. QED
    BY <1>2, <1>3 DEF Whole

LEMMA WholeJoinsKeepsInv ==
    ASSUME FileInv, NEW c \in Caller, WholeJoins(c)
    PROVE  FileInv'
  <1> DEFINE at == IF thrown THEN "threw" ELSE "returned"
             new == [u \in Unit |-> IF u \in decoded THEN "right" ELSE "old"]
  <1>1. /\ call[c].at = "wholeParallel" /\ End /\ Go(c, at)
        /\ got' = [got EXCEPT ![c] = new]
        /\ UNCHANGED <<fileVars, keptVars, noteVars>>
    BY DEF WholeJoins
  <1>2. /\ call' \in [Caller -> CallRecord]
        /\ call'[c].at = at /\ \A d \in Caller \ {c} : call'[d] = call[d]
        /\ call'[c].frame = call[c].frame /\ call'[c].want = call[c].want
        /\ call'[c].left = call[c].left /\ call'[c].sp = call[c].sp
        /\ call'[c].promise = call[c].promise
    BY <1>1, Went DEF FileInv, CallStage
  <1>3. new \in [Unit -> {"old", "right", "junk"}]
    OBVIOUS
  <1>4. tiled /\ (at = "returned" => \A u \in call[c].want : new[u] = "right")
    <2>1. tiled /\ call[c].want \subseteq Image /\ call[c].want \subseteq Unit /\ Given = Image
      BY <1>1 DEF FileInv, CallSound, CallPlaced, TileStage, ReadOf, CallTypeOK, CallRecord
    <2>2. disp = "returned" /\ DispatchInv
      BY <1>1 DEF End, FileInv
    <2>3. at = "returned" => decoded = Image
      BY <2>1, <2>2, ReturnedMeansDecoded
    <2>4. QED
      BY <2>1, <2>3
  <1> HIDE DEF new
  <1>5. /\ got' \in [Caller -> [Unit -> {"old", "right", "junk"}]]
        /\ got'[c] = new /\ OnlyCallOf(c)
    BY <1>1, <1>2, <1>3 DEF FileInv, CallTypeOK, OnlyCallOf
  <1>6. /\ Image' = Image /\ tiled' = tiled
        /\ frame' = frame /\ fills' = fills /\ clean' = clean
    BY <1>1, FileKept DEF FileInv, fileVars, keptVars, noteVars
  <1>7. CallSound(c)'
    <2>1. CallPlaced(c)
      BY DEF FileInv, CallSound
    <2>2. CallPlaced(c)'
      BY <1>1, <1>2, <1>6, <2>1 DEF CallPlaced, ScanStage, TileStage
    <2>3. RoutinesRight(c)' /\ PromiseKept(c)'
      BY <1>2, <1>4, <1>5, <1>6 DEF RoutinesRight, PromiseKept, Delivered
    <2>4. QED
      BY <2>2, <2>3 DEF CallSound
  <1>8. CallTypeOK'
    BY <1>2, <1>5 DEF CallTypeOK
  <1>9. QED
    BY <1>1, <1>2, <1>5, <1>6, <1>7, <1>8, EndKeeps, KeptStays DEF ParallelStage

\* The step of a tiled read that fills the buffer, in this thread.
LEMMA RowReadHere ==
    ASSUME FileInv, NEW c \in Caller, call[c].at = "row", NEW at \in {"row", "threw"},
           IF at = "row" THEN UNCHANGED call ELSE Go(c, at),
           UNCHANGED <<engineVars, fileVars, frame, fills, singleScan, clean, got>>,
           rowBuffer' \in [1 .. Columns -> 0 .. Units], torn' \in BOOLEAN, cachedRow' \in Int,
           RowRight'
    PROVE  FileInv'
  <1>1. /\ call' \in [Caller -> CallRecord] /\ OnlyCallOf(c)
        /\ call'[c].at = at
        /\ call'[c].frame = call[c].frame /\ call'[c].want = call[c].want
        /\ call'[c].left = call[c].left /\ call'[c].sp = call[c].sp
        /\ call'[c].promise = call[c].promise
    <2>1. CASE at = "row"
      BY <2>1 DEF FileInv, CallTypeOK, OnlyCallOf
    <2>2. CASE at = "threw"
      BY <2>2, Went DEF FileInv, CallStage, OnlyCallOf
    <2>3. QED
      BY <2>1, <2>2
  <1>2. Image' = Image /\ tiled' = tiled /\ \A f : Direct(f)' = Direct(f)
    BY FileKept DEF FileInv, fileVars
  <1>3. CallSound(c)'
    <2>1. CallPlaced(c) /\ PromiseKept(c)
      BY DEF FileInv, CallSound
    <2>2. CallPlaced(c)'
      BY <1>1, <1>2, <2>1 DEF CallPlaced, ScanStage, TileStage
    <2>3. RoutinesRight(c)' /\ PromiseKept(c)'
      BY <1>1, <1>2, <2>1 DEF RoutinesRight, PromiseKept, Delivered
    <2>4. QED
      BY <2>2, <2>3 DEF CallSound
  <1>4. CallTypeOK' /\ KeptTypeOK'
    BY <1>1 DEF FileInv, CallTypeOK, KeptTypeOK
  <1>5. KeptRight'
    BY <1>2 DEF FileInv, KeptRight
  <1>6. QED
    BY <1>1, <1>3, <1>4, <1>5, OwnStep DEF ParallelStage

LEMMA ReadRowKeepsInv ==
    ASSUME FileInv, NEW c \in Caller, ReadRow(c)
    PROVE  FileInv'
  <1> DEFINE r == Row(NextLeft(c))
  <1>1. /\ call[c].at = "row" /\ call[c].left # {}
        /\ UNCHANGED <<fileVars, frame, fills, singleScan, clean, got>>
    BY DEF ReadRow
  <1>2. r \in Int /\ RowOf(r) \subseteq Unit
    BY <1>1, NextRow
  <1>3. CASE Begin(RowOf(r)) /\ Go(c, "rowParallel") /\ UNCHANGED <<cachedRow, rowBuffer, torn>>
    <2>1. UNCHANGED <<keptVars, noteVars>>
      BY <1>1, <1>3 DEF keptVars, noteVars
    <2>2. QED
      BY <1>1, <1>2, <1>3, <2>1, BeginKeeps DEF ParallelStage
  <1>4. CASE /\ UNCHANGED <<engineVars, call>>
             /\ Buffered(r, RowOf(r), {}) /\ cachedRow' = r
    <2>1. RowRight'
      BY <1>1, <1>2, <1>4, WholeRowRight
    <2>2. rowBuffer' \in [1 .. Columns -> 0 .. Units] /\ torn' \in BOOLEAN
      BY <1>2, <1>4, BufferedType
    <2>3. QED
      BY <1>1, <1>2, <1>4, <2>1, <2>2, RowReadHere
  <1>5. ASSUME UNCHANGED <<engineVars, cachedRow>>, Go(c, "threw"),
               NEW u \in RowOf(r), NEW bad, Buffered(r, {v \in RowOf(r) : v < u}, bad)
        PROVE  FileInv'
    <2> DEFINE good == {v \in RowOf(r) : v < u}
    <2>1. good \subseteq Unit /\ good # RowOf(r) /\ Buffered(r, good, bad)
      BY <1>2, <1>5, DecodeAssumption DEF Unit
    <2> HIDE DEF good
    <2>2. RowRight'
      BY <1>1, <1>2, <1>5, <2>1, PartRowRight
    <2>3. rowBuffer' \in [1 .. Columns -> 0 .. Units] /\ torn' \in BOOLEAN
      BY <1>2, <2>1, BufferedType
    <2>4. cachedRow' \in Int
      BY <1>5 DEF FileInv, KeptTypeOK
    <2>5. QED
      BY <1>1, <1>5, <2>2, <2>3, <2>4, RowReadHere
  <1>6. QED
    BY <1>3, <1>4, <1>5 DEF ReadRow

LEMMA RowJoinsKeepsInv ==
    ASSUME FileInv, NEW c \in Caller, RowJoins(c)
    PROVE  FileInv'
  <1> DEFINE r == Row(NextLeft(c))
  <1>1. /\ call[c].at = "rowParallel" /\ End
        /\ UNCHANGED <<fileVars, frame, fills, singleScan, clean, got>>
    BY DEF RowJoins
  <1>2. /\ call[c].left # {} /\ Given = RowOf(r) /\ r \in Int /\ RowOf(r) \subseteq Unit
    BY <1>1, NextRow DEF FileInv, ReadOf
  <1>3. decoded \subseteq RowOf(r) /\ (thrown <=> decoded # RowOf(r))
    BY <1>1, <1>2, ReturnedMeansDecoded DEF End, FileInv
  <1>4. PICK at \in {"row", "threw"} :
            /\ Go(c, at) /\ cachedRow' \in Int /\ RowRight'
            /\ rowBuffer' \in [1 .. Columns -> 0 .. Units] /\ torn' \in BOOLEAN
    <2>1. CASE thrown
      <3>1. PICK bad : Buffered(r, decoded, bad) /\ Go(c, "threw") /\ UNCHANGED cachedRow
        BY <2>1 DEF RowJoins
      <3>2. decoded \subseteq Unit /\ decoded # RowOf(r)
        BY <1>2, <1>3, <2>1
      <3>3. RowRight'
        BY <1>1, <1>2, <3>1, <3>2, PartRowRight
      <3>4. rowBuffer' \in [1 .. Columns -> 0 .. Units] /\ torn' \in BOOLEAN
        BY <1>2, <3>1, <3>2, BufferedType
      <3>5. cachedRow' \in Int
        BY <3>1 DEF FileInv, KeptTypeOK
      <3>6. QED
        BY <3>1, <3>3, <3>4, <3>5
    <2>2. CASE ~thrown
      <3>1. Buffered(r, RowOf(r), {}) /\ cachedRow' = r /\ Go(c, "row")
        BY <1>3, <2>2 DEF RowJoins
      <3>2. RowRight'
        BY <1>1, <1>2, <3>1, WholeRowRight
      <3>3. rowBuffer' \in [1 .. Columns -> 0 .. Units] /\ torn' \in BOOLEAN
        BY <1>2, <3>1, BufferedType
      <3>4. QED
        BY <1>2, <3>1, <3>2, <3>3
    <2>3. QED
      BY <2>1, <2>2
  <1>5. /\ call' \in [Caller -> CallRecord] /\ OnlyCallOf(c)
        /\ call'[c].at = at
        /\ call'[c].frame = call[c].frame /\ call'[c].want = call[c].want
        /\ call'[c].left = call[c].left /\ call'[c].sp = call[c].sp
        /\ call'[c].promise = call[c].promise
    BY <1>1, <1>4, Went DEF FileInv, CallStage, TileStage, OnlyCallOf
  <1>6. Image' = Image /\ tiled' = tiled /\ tiled
    BY <1>1, FileKept DEF FileInv, CallSound, CallPlaced, TileStage, fileVars
  <1>7. CallPlaced(c)'
    BY <1>1, <1>5, <1>6 DEF FileInv, CallSound, CallPlaced, ScanStage, TileStage
  <1>8. RoutinesRight(c)'
    BY <1>5 DEF RoutinesRight
  <1>9. PromiseKept(c)'
    <2>1. \A f : Direct(f)' = Direct(f)
      BY <1>1, FileKept DEF FileInv
    <2>2. QED
      BY <1>1, <1>5, <1>6, <2>1 DEF FileInv, CallSound, PromiseKept, Delivered
  <1>10. CallTypeOK' /\ KeptTypeOK' /\ KeptRight'
    BY <1>1, <1>4, <1>5, <1>6 DEF FileInv, CallTypeOK, KeptTypeOK, KeptRight
  <1>11. QED
    BY <1>1, <1>4, <1>5, <1>7, <1>8, <1>9, <1>10, EndKeeps DEF CallSound, ParallelStage

LEMMA CopyRowKeepsInv ==
    ASSUME FileInv, NEW c \in Caller, CopyRow(c)
    PROVE  FileInv'
  <1> DEFINE here == {u \in call[c].left : Row(u) = cachedRow}
             at == IF call[c].left = here THEN "returned" ELSE "row"
             promise == call[c].promise /\ ~torn
             new == [u \in Unit |-> IF u \notin here THEN got[c][u]
                                    ELSE IF rowBuffer[Column(u)] = u THEN "right" ELSE "junk"]
  <1>1. /\ call[c].at = "row"
        /\ call' = [call EXCEPT ![c].left = @ \ here, ![c].promise = promise, ![c].at = at]
        /\ got' = [got EXCEPT ![c] = new]
        /\ UNCHANGED <<engineVars, fileVars, keptVars, noteVars>>
    BY DEF CopyRow
  <1>2. /\ tiled /\ CallPlaced(c) /\ PromiseKept(c)
        /\ call[c].left \subseteq Image /\ Image \subseteq Unit
    BY <1>1 DEF FileInv, CallSound, CallPlaced, TileStage, FileTypeOK
  <1>3. promise \in BOOLEAN /\ (promise => call[c].promise /\ ~torn)
    BY DEF FileInv, KeptTypeOK, CallTypeOK, CallRecord
  <1>4. new \in [Unit -> {"old", "right", "junk"}]
    BY DEF FileInv, CallTypeOK
  <1>5. promise => \A u \in here : new[u] = "right"
    BY <1>2, <1>3 DEF FileInv, RowRight
  <1>6. \A u \in Unit \ here : new[u] = got[c][u]
    OBVIOUS
  <1>7. /\ here \subseteq call[c].left /\ at \in {"returned", "row"}
        /\ at = "returned" => call[c].left = here
    OBVIOUS
  <1> HIDE DEF here, at, promise, new
  <1>8. /\ call' \in [Caller -> CallRecord]
        /\ \A d \in Caller \ {c} : call'[d] = call[d]
        /\ call'[c].at = at /\ call'[c].sp = call[c].sp /\ call'[c].promise = promise
        /\ call'[c].frame = call[c].frame /\ call'[c].want = call[c].want
        /\ call'[c].left = call[c].left \ here
    <2> DEFINE rec == [call[c] EXCEPT !.left = @ \ here, !.promise = promise, !.at = at]
    <2>1. call[c] \in CallRecord
      BY DEF FileInv, CallTypeOK
    <2>2. /\ rec \in CallRecord
          /\ rec.at = at /\ rec.sp = call[c].sp /\ rec.promise = promise
          /\ rec.frame = call[c].frame /\ rec.want = call[c].want
          /\ rec.left = call[c].left \ here
      BY <1>3, <1>7, <2>1 DEF CallRecord, CallStage, TileStage
    <2>3. call' = [call EXCEPT ![c] = rec]
      BY <1>1, Zenon
    <2> HIDE DEF rec
    <2>4. QED
      BY <2>2, <2>3 DEF FileInv, CallTypeOK
  <1>9. /\ got' \in [Caller -> [Unit -> {"old", "right", "junk"}]]
        /\ got'[c] = new /\ OnlyCallOf(c)
    BY <1>1, <1>4, <1>8 DEF FileInv, CallTypeOK, OnlyCallOf
  <1>10. /\ Image' = Image /\ tiled' = tiled /\ \A f : Direct(f)' = Direct(f)
         /\ frame' = frame /\ fills' = fills /\ clean' = clean
    BY <1>1, FileKept DEF FileInv, fileVars, keptVars, noteVars
  <1>11. CallPlaced(c)'
    BY <1>1, <1>2, <1>7, <1>8, <1>10 DEF CallPlaced, ScanStage, TileStage
  <1>12. RoutinesRight(c)'
    BY <1>7, <1>8 DEF RoutinesRight
  <1>13. PromiseKept(c)'
    <2>1. ASSUME promise, NEW u \in call[c].want \ (call[c].left \ here)
          PROVE  Delivered(c, u)'
      <3>1. CASE u \in here
        BY <1>5, <1>9, <2>1, <3>1 DEF Delivered
      <3>2. CASE u \notin here
        <4>1. u \in Unit /\ Delivered(c, u)
          BY <1>1, <1>2, <1>3, <2>1, <3>2 DEF PromiseKept, CallPlaced
        <4>2. QED
          BY <1>2, <1>6, <1>8, <1>9, <1>10, <3>2, <4>1 DEF Delivered
      <3>3. QED
        BY <3>1, <3>2
    <2>2. QED
      BY <1>2, <1>7, <1>8, <1>10, <2>1 DEF PromiseKept
  <1>14. CallTypeOK'
    BY <1>8, <1>9 DEF CallTypeOK
  <1>15. QED
    BY <1>1, <1>7, <1>8, <1>9, <1>10, <1>11, <1>12, <1>13, <1>14, OwnStep, KeptStays
    DEF CallSound, ParallelStage

-----------------------------------------------------------------------------
(* The parallel read goes on.                                               *)

LEMMA EngineStepKeepsInv ==
    ASSUME FileInv, Engine
    PROVE  FileInv'
  <1>1. EngineNext /\ UNCHANGED <<fileVars, keptVars, call, got, noteVars>>
    BY DEF Engine
  <1>2. DispatchInv' /\ Given' = Given /\ disp' # "idle"
    BY <1>1, EngineKeepsInv DEF FileInv
  <1>3. /\ Image' = Image /\ tiled' = tiled /\ FileTypeOK' /\ \A r : RowOf(r)' = RowOf(r)
        /\ \A f : Direct(f)' = Direct(f)
        /\ frame' = frame /\ fills' = fills /\ clean' = clean
    BY <1>1, FileKept DEF FileInv, fileVars, keptVars, noteVars
  <1>4. ASSUME NEW c \in Caller PROVE CallSound(c)' /\ ReadOf(c)'
    <2>1. CallSound(c) /\ ReadOf(c)
      BY DEF FileInv
    <2>2. CallPlaced(c)'
      BY <1>1, <1>3, <2>1 DEF CallSound, CallPlaced
    <2>3. RoutinesRight(c)' /\ PromiseKept(c)'
      BY <1>1, <1>3, <2>1 DEF CallSound, RoutinesRight, PromiseKept, Delivered
    <2>4. NextLeft(c)' = NextLeft(c) /\ Row(NextLeft(c))' = Row(NextLeft(c))
      BY <1>1 DEF NextLeft, Row
    <2>5. ReadOf(c)'
      BY <1>1, <1>2, <1>3, <2>1, <2>4 DEF ReadOf
    <2>6. QED
      BY <2>2, <2>3, <2>5 DEF CallSound
  <1>5. CallTypeOK'
    BY <1>1 DEF FileInv, CallTypeOK
  <1>6. QED
    BY <1>1, <1>2, <1>3, <1>4, <1>5, KeptStays DEF FileInv

LEMMA FileStutter ==
    ASSUME FileInv, UNCHANGED vars
    PROVE  FileInv'
  <1>1. UNCHANGED <<engineVars, fileVars, keptVars, noteVars, call, got>>
    BY DEF vars, engineVars, fileVars, keptVars, noteVars
  <1>2. /\ Image' = Image /\ tiled' = tiled /\ FileTypeOK' /\ \A r : RowOf(r)' = RowOf(r)
        /\ \A f : Direct(f)' = Direct(f)
        /\ frame' = frame /\ fills' = fills /\ clean' = clean
    BY <1>1, FileKept DEF FileInv, fileVars, keptVars, noteVars
  <1>3. DispatchInv' /\ Given' = Given /\ disp' = disp
    BY <1>1, EngineStutter DEF FileInv, engineVars
  <1>4. ASSUME NEW c \in Caller PROVE CallSound(c)' /\ ReadOf(c)'
    <2>1. CallSound(c) /\ ReadOf(c)
      BY DEF FileInv
    <2>2. CallPlaced(c)'
      BY <1>1, <1>2, <2>1 DEF CallSound, CallPlaced
    <2>3. RoutinesRight(c)' /\ PromiseKept(c)'
      BY <1>1, <1>2, <2>1 DEF CallSound, RoutinesRight, PromiseKept, Delivered
    <2>4. NextLeft(c)' = NextLeft(c) /\ Row(NextLeft(c))' = Row(NextLeft(c))
      BY <1>1 DEF NextLeft, Row
    <2>5. ReadOf(c)'
      BY <1>1, <1>2, <1>3, <2>1, <2>4 DEF ReadOf
    <2>6. QED
      BY <2>2, <2>3, <2>5 DEF CallSound
  <1>5. CallTypeOK'
    BY <1>1 DEF FileInv, CallTypeOK
  <1>6. QED
    BY <1>1, <1>2, <1>3, <1>4, <1>5, KeptStays DEF FileInv

-----------------------------------------------------------------------------
LEMMA ProgressKeepsInv ==
    ASSUME FileInv, NEW c \in Caller, Progress(c)
    PROVE  FileInv'
  <1>1. CASE ScanCall(c)
    BY <1>1, CheckoutScanKeepsInv, RunDecodeKeepsInv, RunUnpackKeepsInv, ScanThrowsKeepsInv,
       CheckinScanKeepsInv DEF ScanCall
  <1>2. CASE TiledCall(c)
    BY <1>2, WholeKeepsInv, WholeJoinsKeepsInv, ReadRowKeepsInv, RowJoinsKeepsInv,
       CopyRowKeepsInv DEF TiledCall
  <1>3. QED
    BY <1>1, <1>2, SplitKeepsInv, JoinsKeepsInv, ReturnKeepsInv DEF Progress

(***************************************************************************)
(* What the calls of readPixels rely on holds throughout: the kept process *)
(* and the cached row are right, a parallel read is of the units that its  *)
(* caller asked for, and the failure that it keeps is exact.               *)
(***************************************************************************)
THEOREM FileInvariant == Spec => []FileInv
  <1>1. InputInit => FileInv
    BY FileInit
  <1>2. FileInv /\ [Next]_vars => FileInv'
    <2> SUFFICES ASSUME FileInv, [Next]_vars PROVE FileInv'
      OBVIOUS
    <2>1. CASE Engine
      BY <2>1, EngineStepKeepsInv
    <2>2. ASSUME NEW f \in Frame, SetFrameBuffer(f) \/ SetFrameBufferThrows(f)
          PROVE  FileInv'
      BY <2>2, SetFrameBufferKeepsInv
    <2>3. ASSUME NEW c \in Caller, Progress(c) PROVE FileInv'
      BY <2>3, ProgressKeepsInv
    <2>4. ASSUME NEW c \in Caller, Read(c) PROVE FileInv'
      BY <2>4, ReadKeepsInv
    <2>5. ASSUME NEW c \in Caller, NEW f \in Frame, ReadInto(c, f) PROVE FileInv'
      BY <2>5, ReadIntoKeepsInv
    <2>6. CASE UNCHANGED vars
      BY <2>6, FileStutter
    <2>7. QED
      BY <2>1, <2>2, <2>3, <2>4, <2>5, <2>6 DEF Next
  <1>3. QED
    BY <1>1, <1>2, PTL DEF Spec

(***************************************************************************)
(* A call of readPixels that returns normally has put the file's pixels    *)
(* into the frame buffer, whatever was kept from earlier calls.            *)
(***************************************************************************)
THEOREM ReadsDeliver == Spec => []ReadDelivers
  <1>1. FileInv => ReadDelivers
    BY DEF FileInv, CallSound, PromiseKept, Delivered, ReadDelivers
  <1>2. QED
    BY <1>1, FileInvariant, PTL

(***************************************************************************)
(* The destructor of a ProcessGroup runs when no task can touch the group  *)
(* any more, also when the reading of a chunk failed half-way.             *)
(***************************************************************************)
THEOREM GroupsOutliveTasks == Spec => []GroupOutlivesTasks
  <1>1. FileInv => GroupOutlivesTasks
    BY DEF FileInv, DispatchInv, NoTasksLeft, GroupOutlivesTasks
  <1>2. QED
    BY <1>1, FileInvariant, PTL

(***************************************************************************)
(* A parallel read throws in its caller if and only if a unit of it was    *)
(* not decoded, whichever task failed first (record_failure).              *)
(***************************************************************************)
THEOREM FailuresReported == Spec => []FailureReported
  <1>1. FileInv => FailureReported
    BY DEF FileInv, DispatchInv
  <1>2. QED
    BY <1>1, FileInvariant, PTL

-----------------------------------------------------------------------------
(* The processes of the groups, and the pool that they are.                 *)

\* The cached row is one of the file's, or none.
CachedOK == cachedRow \in {NoRow} \cup {Row(u) : u \in Unit}

\* What a step of a file is to the parallel read.
LEMMA ReadStep ==
    ASSUME FileInv, [Next]_vars
    PROVE  \/ EngineNext \/ End \/ UNCHANGED engineVars
           \/ \E units \in SUBSET Unit : Begin(units)
  <1>1. CASE UNCHANGED vars
    BY <1>1 DEF vars, engineVars
  <1>2. CASE Engine
    BY <1>2 DEF Engine
  <1>3. ASSUME NEW f \in Frame, SetFrameBuffer(f) \/ SetFrameBufferThrows(f)
        PROVE  UNCHANGED engineVars
    BY <1>3 DEF SetFrameBuffer, SetFrameBufferThrows
  <1>4. ASSUME NEW c \in Caller, Read(c) \/ \E f \in Frame : ReadInto(c, f)
        PROVE  UNCHANGED engineVars
    BY <1>4 DEF Read, ReadInto
  <1>5. ASSUME NEW c \in Caller, ScanCall(c) \/ Return(c) \/ CopyRow(c)
        PROVE  UNCHANGED engineVars
    BY <1>5 DEF ScanCall, CheckoutScan, RunDecode, RunUnpack, ScanThrows, CheckinScan, Return,
                CopyRow
  <1>6. ASSUME NEW c \in Caller, Joins(c) \/ WholeJoins(c) \/ RowJoins(c)
        PROVE  End
    BY <1>6 DEF Joins, WholeJoins, RowJoins
  <1>7. ASSUME NEW c \in Caller, Split(c) \/ Whole(c) \/ ReadRow(c)
        PROVE  UNCHANGED engineVars \/ \E units \in SUBSET Unit : Begin(units)
    <2>1. call[c].want \subseteq Unit /\ Image \subseteq Unit /\ \A r : RowOf(r) \subseteq Unit
      BY DEF FileInv, CallTypeOK, CallRecord, FileTypeOK, RowOf
    <2>2. CASE Split(c)
      BY <2>1, <2>2 DEF Split
    <2>3. CASE Whole(c)
      BY <2>1, <2>3 DEF Whole
    <2>4. CASE ReadRow(c)
      BY <2>1, <2>4 DEF ReadRow
    <2>5. QED
      BY <1>7, <2>2, <2>3, <2>4
  <1>8. ASSUME NEW c \in Caller, Progress(c)
        PROVE  \/ End \/ UNCHANGED engineVars
               \/ \E units \in SUBSET Unit : Begin(units)
    BY <1>5, <1>6, <1>7, <1>8 DEF Progress, TiledCall
  <1>9. QED
    BY <1>1, <1>2, <1>3, <1>4, <1>8 DEF Next

\* A parallel read shares its processes in every step of the file, which is one
\* of the pool.
LEMMA ReadKeepsShared ==
    ASSUME FileInv, SharedInv, [Next]_vars
    PROVE  SharedInv' /\ PoolStep
  <1>1. DispatchInv
    BY DEF FileInv
  <1>2. QED
    BY <1>1, ReadStep, EngineKeepsShared, EndKeepsShared, BeginKeepsShared, SharedStutter

\* The row that is cached next is that of a unit the call needs.
LEMMA CachedKept ==
    ASSUME FileInv, CachedOK, [Next]_vars
    PROVE  CachedOK'
  <1>1. \A u : Row(u)' = Row(u)
    BY DEF Row
  <1>2. SUFFICES \/ cachedRow' \in {cachedRow, NoRow}
                 \/ \E c \in Caller : call[c].left # {} /\ cachedRow' = Row(NextLeft(c))
    BY <1>1, NextIsLeft DEF CachedOK, NoRow
  <1>3. \A f : Adopt(f) => cachedRow' \in {cachedRow, NoRow}
    BY DEF Adopt, KeepRow, DropRow
  <1>4. ASSUME UNCHANGED vars \/ Engine PROVE cachedRow' = cachedRow
    BY <1>4 DEF vars, Engine, keptVars
  <1>5. ASSUME NEW f \in Frame, SetFrameBuffer(f) \/ SetFrameBufferThrows(f)
        PROVE  cachedRow' \in {cachedRow, NoRow}
    BY <1>3, <1>5 DEF SetFrameBuffer, SetFrameBufferThrows
  <1>6. ASSUME NEW c \in Caller, Read(c) \/ \E f \in Frame : ReadInto(c, f)
        PROVE  cachedRow' \in {cachedRow, NoRow}
    BY <1>3, <1>6 DEF Read, ReadInto, keptVars
  <1>7. ASSUME NEW c \in Caller, Progress(c)
        PROVE  \/ cachedRow' = cachedRow
               \/ call[c].left # {} /\ cachedRow' = Row(NextLeft(c))
    <2>1. CASE ScanCall(c) \/ Split(c) \/ Joins(c) \/ Return(c)
      BY <2>1 DEF ScanCall, CheckoutScan, RunDecode, RunUnpack, ScanThrows, CheckinScan, Split,
                  Joins, Return, keptVars
    <2>2. CASE Whole(c) \/ WholeJoins(c) \/ CopyRow(c)
      BY <2>2 DEF Whole, WholeJoins, CopyRow, keptVars
    <2>3. CASE ReadRow(c)
      BY <2>3 DEF ReadRow
    <2>4. CASE RowJoins(c)
      <3>1. call[c].left # {}
        BY <2>4 DEF RowJoins, FileInv, ReadOf
      <3>2. QED
        BY <2>4, <3>1 DEF RowJoins
    <2>5. QED
      BY <1>7, <2>1, <2>2, <2>3, <2>4 DEF Progress, TiledCall
  <1>8. QED
    BY <1>4, <1>5, <1>6, <1>7 DEF Next

(***************************************************************************)
(* The processes of a group are in one place each, in the lock-free list   *)
(* or with one task, and pop never finds the list empty.                   *)
(***************************************************************************)
THEOREM ProcessesShared == Spec => []ProcessInv
  <1>1. InputInit => SharedInv /\ CachedOK
    BY SharedInit DEF InputInit, CachedOK
  <1>2. FileInv /\ SharedInv /\ CachedOK /\ [Next]_vars => SharedInv' /\ CachedOK'
    BY ReadKeepsShared, CachedKept
  <1>3. FileInv /\ SharedInv /\ CachedOK => ProcessInv
    <2> SUFFICES ASSUME FileInv, SharedInv, CachedOK PROVE ProcessInv
      OBVIOUS
    <2>1. ProcessInOnePlace
      BY OnePlace DEF FileInv
    <2>2. \A c \in Caller : call[c].left \subseteq call[c].want /\ call[c].want \subseteq Unit
      BY DEF FileInv, CallSound, CallPlaced, FileTypeOK
    <2>3. TypeOK
      BY <2>2 DEF TypeOK, FileInv, SharedInv, CachedOK, KeptTypeOK, CallTypeOK, ScanProcess
    <2>4. QED
      BY <2>1, <2>3 DEF ProcessInv
  <1>4. QED
    BY <1>1, <1>2, <1>3, FileInvariant, PTL DEF Spec

(***************************************************************************)
(* The lock-free list with its semaphore is the pool of ProcessPool.tla:   *)
(* it lends a process to one task at a time, closes when all are back, and *)
(* tells the caller of a failure.                                          *)
(***************************************************************************)
THEOREM RefinesPool == Spec => ImplementsPool
  <1>1. InputInit => SharedInv /\ Pool!PoolInit
    BY SharedInit DEF InputInit
  <1>2. FileInv /\ SharedInv /\ [Next]_vars => SharedInv' /\ [Pool!PoolNext]_(Pool!poolVars)
    <2>1. PoolStep => [Pool!PoolNext]_(Pool!poolVars)
      BY DEF PoolStep, PoolVars, Pool!poolVars
    <2>2. QED
      BY <2>1, ReadKeepsShared
  <1>3. QED
    BY <1>1, <1>2, FileInvariant, PTL DEF Spec, ImplementsPool, Pool!PoolSpec
=============================================================================
