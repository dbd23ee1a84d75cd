------------------------- MODULE CountingSemaphore -------------------------
(***************************************************************************)
(* What the mysemaphore calls promise the programs that use them: a set of *)
(* counting semaphores that can be created and destroyed.  A permit is     *)
(* taken, or handed straight to one blocked thread, or put back when       *)
(* nobody is blocked; a semaphore with blocked threads is not destroyed.   *)
(***************************************************************************)
EXTENDS Integers

CONSTANTS Sems, Threads, Limit

VARIABLES
    on,      \* the semaphores that exist
    avail,   \* the permits each of them has left
    blocked  \* the threads waiting for each of them

Init ==
    /\ on = {}
    /\ avail = [s \in Sems |-> 0]
    /\ blocked = [s \in Sems |-> {}]

Create(s) ==
    /\ s \notin on
    /\ on' = on \cup {s}
    /\ \E v \in 0 .. Limit : avail' = [avail EXCEPT ![s] = v]
    /\ UNCHANGED blocked

Destroy(s) ==
    /\ s \in on
    /\ blocked[s] = {}
    /\ on' = on \ {s}
    /\ avail' = [avail EXCEPT ![s] = 0]
    /\ UNCHANGED blocked

Take(s) ==
    /\ s \in on
    /\ avail[s] > 0
    /\ avail' = [avail EXCEPT ![s] = @ - 1]
    /\ UNCHANGED <<on, blocked>>

Block(s, t) ==
    /\ s \in on
    /\ avail[s] = 0
    /\ \A r \in Sems : t \notin blocked[r]
    /\ blocked' = [blocked EXCEPT ![s] = @ \cup {t}]
    /\ UNCHANGED <<on, avail>>

\* The permits are counted in an unsigned machine integer.
Post(s) ==
    /\ s \in on
    /\ blocked[s] = {}
    /\ avail' = [avail EXCEPT ![s] = IF @ = Limit THEN 0 ELSE @ + 1]
    /\ UNCHANGED <<on, blocked>>

HandOver(s, t) ==
    /\ s \in on
    /\ t \in blocked[s]
    /\ avail[s] = 0
    /\ blocked' = [blocked EXCEPT ![s] = @ \ {t}]
    /\ UNCHANGED <<on, avail>>

Next ==
    \E s \in Sems :
        \/ Create(s) \/ Destroy(s) \/ Take(s) \/ Post(s)
        \/ \E t \in Threads : Block(s, t) \/ HandOver(s, t)

Spec == Init /\ [][Next]_<<on, avail, blocked>>
=============================================================================
