---------------------------- MODULE ProcessPool ----------------------------
(***************************************************************************)
(* What a ProcessGroup promises to a reader: it lends each process to at   *)
(* most one unit of work at a time, is given up only when every process is *)
(* back, and a failure that a task recorded is told to the caller.         *)
(***************************************************************************)
EXTENDS Naturals

CONSTANTS Unit, Process

VARIABLES open,      \* a call is under way
          users,     \* the units each process works for
          failed,    \* some task recorded a failure
          told       \* the call ended with an exception

poolVars == <<open, users, failed, told>>

Nobody == [p \in Process |-> {}]

PoolInit == open = FALSE /\ users = Nobody /\ failed = FALSE /\ told = FALSE

Open ==
    /\ ~open /\ open' = TRUE
    /\ users' = Nobody /\ failed' = FALSE /\ told' = FALSE

Lend(p, u) ==
    /\ open /\ users[p] = {}
    /\ \A q \in Process : u \notin users[q]
    /\ users' = [users EXCEPT ![p] = {u}]
    /\ UNCHANGED <<open, failed, told>>

Fail ==
    /\ open /\ users # Nobody /\ failed' = TRUE
    /\ UNCHANGED <<open, users, told>>

GiveBack(p) ==
    /\ open /\ users[p] # {}
    /\ users' = [users EXCEPT ![p] = {}]
    /\ UNCHANGED <<open, failed, told>>

Close ==
    /\ open /\ users = Nobody
    /\ open' = FALSE /\ failed' = FALSE
    /\ told' \in {TRUE, failed}
    /\ UNCHANGED users

\* The exception has reached the application.
Forget == ~open /\ told' = FALSE /\ UNCHANGED <<open, users, failed>>

PoolNext ==
    \/ Open \/ Fail \/ Close \/ Forget
    \/ \E p \in Process : GiveBack(p) \/ \E u \in Unit : Lend(p, u)

PoolSpec == PoolInit /\ [][PoolNext]_poolVars
=============================================================================
