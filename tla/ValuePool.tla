----------------------------- MODULE ValuePool -----------------------------
(***************************************************************************)
(* What the linked list of project5/task1 promises to the programs that    *)
(* have its device open: a pool of values.  A write adds its value, a read *)
(* takes one copy of the value it names and fails only if there is none, a *)
(* close empties the pool.  Each takes effect at one moment between call   *)
(* and return.                                                             *)
(***************************************************************************)
EXTENDS Integers

CONSTANTS Takers, Putters, Closers, Words

VARIABLES
    pool,   \* how many copies of each value
    call    \* what each user is doing

Users == Takers \cup Putters \cup Closers

Idle == [st |-> "idle"]
Asked(v) == [st |-> "asked", v |-> v]
Told(v, ret) == [st |-> "told", v |-> v, ret |-> ret]

PoolInit == pool = [v \in Words |-> 0] /\ call = [t \in Users |-> Idle]

Begin(t, v) == call[t] = Idle /\ call' = [call EXCEPT ![t] = Asked(v)] /\ UNCHANGED pool

Put(t, v) ==
    /\ t \in Putters /\ call[t] = Asked(v)
    /\ pool' = [pool EXCEPT ![v] = @ + 1]
    /\ call' = [call EXCEPT ![t] = Told(v, 1)]

Take(t, v) ==
    /\ t \in Takers /\ call[t] = Asked(v) /\ pool[v] > 0
    /\ pool' = [pool EXCEPT ![v] = @ - 1]
    /\ call' = [call EXCEPT ![t] = Told(v, v)]

Miss(t, v) ==
    /\ t \in Takers /\ call[t] = Asked(v) /\ pool[v] = 0
    /\ call' = [call EXCEPT ![t] = Told(v, -1)]
    /\ UNCHANGED pool

Clear(t, v) ==
    /\ t \in Closers /\ call[t] = Asked(v)
    /\ pool' = [w \in Words |-> 0]
    /\ call' = [call EXCEPT ![t] = Told(v, 0)]

Return(t, v) ==
    /\ \E ret \in Words \cup {-1, 0, 1} : call[t] = Told(v, ret)
    /\ call' = [call EXCEPT ![t] = Idle]
    /\ UNCHANGED pool

\* The module is removed while nobody is using it.
Unload ==
    /\ call = [t \in Users |-> Idle]
    /\ pool' = [v \in Words |-> 0]
    /\ UNCHANGED call

\* Every step of a user shows in its call.
PoolNext ==
    \/ \E t \in Users :
           /\ call'[t] # call[t]
           /\ \E v \in Words : \/ Begin(t, v) \/ Put(t, v) \/ Take(t, v) \/ Miss(t, v)
                               \/ Clear(t, v) \/ Return(t, v)
    \/ Unload

PoolSpec == PoolInit /\ [][PoolNext]_<<pool, call>>
=============================================================================
