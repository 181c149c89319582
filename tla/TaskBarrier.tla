---------------------------- MODULE TaskBarrier ----------------------------
(***************************************************************************)
(* What a TaskGroup promises its owner, with no counters and no semaphore: *)
(* tasks join the group, every one of them leaves it once, and the group   *)
(* is destroyed only at a moment when nobody is in it.                     *)
(***************************************************************************)
CONSTANT Task

VARIABLES live,       \* the tasks that are in the group
          ended,      \* the tasks that left it
          destroyed   \* the destructor returned and the memory is gone

barrierVars == <<live, ended, destroyed>>

BarrierInit ==
    /\ live = {}
    /\ ended = {}
    /\ destroyed = FALSE

Join(t) ==
    /\ ~destroyed
    /\ t \notin live \cup ended
    /\ live' = live \cup {t}
    /\ UNCHANGED <<ended, destroyed>>

Leave(t) ==
    /\ t \in live
    /\ live' = live \ {t}
    /\ ended' = ended \cup {t}
    /\ UNCHANGED destroyed

Destroy ==
    /\ ~destroyed
    /\ live = {}
    /\ destroyed' = TRUE
    /\ UNCHANGED <<live, ended>>

BarrierNext == Destroy \/ \E t \in Task : Join(t) \/ Leave(t)

BarrierSpec == BarrierInit /\ [][BarrierNext]_barrierVars
=============================================================================
