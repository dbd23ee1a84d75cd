---------------------------- MODULE MySemaphore ----------------------------
(***************************************************************************)
(* The mysemaphore system calls of project3/mysemaphore.c: a fixed array   *)
(* sem_set of kernel semaphores, each with a raw spin lock, a mode that    *)
(* picks the wake-up order, a count, a state flag and a list of waiters.   *)
(*                                                                         *)
(* A thread runs one system call at a time; pc[t] is where it stands in    *)
(* it.  Every read and every store the calls make WITHOUT the lock is a    *)
(* step of its own; what is done under the lock is one step, followed by   *)
(* a step that drops the lock.  sem_set is a zeroed global, so a semaphore *)
(* boots in a state that is neither ACTIVE nor INACTIVE, with a wait list  *)
(* whose head holds two NULL pointers (a semaphore outside `listed`).      *)
(***************************************************************************)
EXTENDS Integers, Sequences, FiniteSets, Functions

CONSTANTS
    Threads,        \* the tasks that make system calls
    MAX_SEMAPHORE,  \* size of sem_set
    MAX_PRIORITY,   \* largest priority of a USER mode waiter
    UINT_MAX,       \* largest value of the unsigned int count
    OSPrio,         \* task->prio of every thread
    StackInts,      \* what an uninitialised int on the stack may hold
    NoThread        \* the holder of a free lock

FIFO == 0
OS   == 1
USER == 2

Sems == 0 .. MAX_SEMAPHORE - 1

ASSUME SemaphoreConstants ==
    /\ MAX_SEMAPHORE \in Nat \ {0}
    /\ MAX_PRIORITY \in Nat
    /\ UINT_MAX \in Nat
    /\ OSPrio \in [Threads -> Int]
    /\ StackInts \subseteq Int
    /\ StackInts # {}
    /\ NoThread \notin Threads

VARIABLES
    state,      \* sem_set[s].state
    mode,       \* sem_set[s].mode
    count,      \* sem_set[s].count
    wait_list,  \* sem_set[s].wait_list, the waiting threads from first to last
    listed,     \* the semaphores whose list head has been initialised
    lock,       \* the holder of sem_set[s].lock
    pc,         \* where each thread stands in its system call
    sid,        \* the sema_id of its call
    arg,        \* the other arguments of its call
    up,         \* waiter.up on its kernel stack
    prio,       \* waiter.priority on its kernel stack
    task,       \* its scheduler state
    ret         \* what its last system call returned, 0 while it runs

semVars    == <<state, mode, count, wait_list, listed, lock>>
threadVars == <<pc, sid, arg, up, prio, task, ret>>
vars       == <<semVars, threadVars>>

NoArg == [start_value |-> 0, mode |-> 0, priority |-> 0]

InitPCs    == {"init_check", "init_mode", "init_count", "init_state", "init_list"}
ReleasePCs == {"rel_state", "rel_list", "rel_store"}
DownPCs    == {"down_state", "down_mode", "uprio_state", "uprio_mode",
               "down_lock", "uprio_lock"}
UpPCs      == {"up_state", "up_lock"}
SleepPCs   == {"sleep", "schedule", "relock"}   \* inside the for(;;) of a down
LockedPCs  == {"unlock", "sleep", "oops"}       \* the lock is held
PCs == {"user"} \cup InitPCs \cup ReleasePCs \cup DownPCs \cup UpPCs
                \cup SleepPCs \cup LockedPCs

TypeOK ==
    /\ state \in [Sems -> {"ZERO", "ACTIVE", "INACTIVE"}]
    /\ mode \in [Sems -> Int]
    /\ count \in [Sems -> 0 .. UINT_MAX]
    /\ wait_list \in [Sems -> Seq(Threads)]
    /\ listed \subseteq Sems
    /\ lock \in [Sems -> Threads \cup {NoThread}]
    /\ pc \in [Threads -> PCs]
    /\ sid \in [Threads -> Sems]
    /\ arg \in [Threads -> [start_value : Int, mode : Int, priority : Int]]
    /\ up \in [Threads -> {0, 1}]
    /\ prio \in [Threads -> Int]
    /\ task \in [Threads -> {"RUNNING", "UNINTERRUPTIBLE"}]
    /\ ret \in [Threads -> {-1, 0}]

Init ==
    /\ state = [s \in Sems |-> "ZERO"]
    /\ mode = [s \in Sems |-> FIFO]
    /\ count = [s \in Sems |-> 0]
    /\ wait_list = [s \in Sems |-> << >>]
    /\ listed = {}
    /\ lock = [s \in Sems |-> NoThread]
    /\ pc = [t \in Threads |-> "user"]
    /\ sid = [t \in Threads |-> 0]
    /\ arg = [t \in Threads |-> NoArg]
    /\ up = [t \in Threads |-> 0]
    /\ prio = [t \in Threads |-> 0]
    /\ task = [t \in Threads |-> "RUNNING"]
    /\ ret = [t \in Threads |-> 0]

----------------------------------------------------------------------------
(* Entering and leaving a system call.  An id outside the array is         *)
(* answered at once; the locals of a call die when it returns.             *)

Enter(t, id, first, a) ==
    /\ pc[t] = "user"
    /\ id \in Sems
    /\ pc' = [pc EXCEPT ![t] = first]
    /\ sid' = [sid EXCEPT ![t] = id]
    /\ arg' = [arg EXCEPT ![t] = a]
    /\ ret' = [ret EXCEPT ![t] = 0]
    /\ UNCHANGED <<semVars, up, prio, task>>

InvalidId(t, id) ==
    /\ pc[t] = "user"
    /\ id \notin Sems
    /\ ret' = [ret EXCEPT ![t] = -1]
    /\ UNCHANGED <<semVars, pc, sid, arg, up, prio, task>>

Return(t, r) ==
    /\ pc' = [pc EXCEPT ![t] = "user"]
    /\ ret' = [ret EXCEPT ![t] = r]
    /\ arg' = [arg EXCEPT ![t] = NoArg]
    /\ UNCHANGED <<sid, up, prio, task>>

Goto(t, next) ==
    /\ pc' = [pc EXCEPT ![t] = next]
    /\ UNCHANGED <<sid, arg, up, prio, task, ret>>

sys_mysema_init(t, id, v, m) ==
    Enter(t, id, "init_check", [start_value |-> v, mode |-> m, priority |-> 0])
sys_mysema_down(t, id) == Enter(t, id, "down_state", NoArg)
sys_mysema_down_userprio(t, id, p) ==
    Enter(t, id, "uprio_state", [NoArg EXCEPT !.priority = p])
sys_mysema_up(t, id) == Enter(t, id, "up_state", NoArg)
sys_mysema_release(t, id) == Enter(t, id, "rel_state", NoArg)

----------------------------------------------------------------------------
(* mysema_init: two checks, then four plain stores without the lock.       *)

InitRefused(t) ==
    /\ pc[t] = "init_check"
    /\ state[sid[t]] = "ACTIVE" \/ arg[t].start_value < 0
    /\ Return(t, -1)
    /\ UNCHANGED semVars

InitAccepted(t) ==
    /\ pc[t] = "init_check"
    /\ state[sid[t]] # "ACTIVE"
    /\ arg[t].start_value >= 0
    /\ Goto(t, "init_mode")
    /\ UNCHANGED semVars

InitMode(t) ==
    /\ pc[t] = "init_mode"
    /\ mode' = [mode EXCEPT ![sid[t]] = arg[t].mode]
    /\ Goto(t, "init_count")
    /\ UNCHANGED <<state, count, wait_list, listed, lock>>

InitCount(t) ==
    /\ pc[t] = "init_count"
    /\ count' = [count EXCEPT ![sid[t]] = arg[t].start_value]
    /\ Goto(t, "init_state")
    /\ UNCHANGED <<state, mode, wait_list, listed, lock>>

InitState(t) ==
    /\ pc[t] = "init_state"
    /\ state' = [state EXCEPT ![sid[t]] = "ACTIVE"]
    /\ Goto(t, "init_list")
    /\ UNCHANGED <<mode, count, wait_list, listed, lock>>

\* Slip: INIT_LIST_HEAD is forgotten.
InitListForgotten(t) ==
    /\ pc[t] = "init_list"
    /\ Return(t, 0)
    /\ UNCHANGED semVars

InitList(t) ==
    /\ pc[t] = "init_list"
    /\ wait_list' = [wait_list EXCEPT ![sid[t]] = << >>]
    /\ listed' = listed \cup {sid[t]}
    /\ Return(t, 0)
    /\ UNCHANGED <<state, mode, count, lock>>

----------------------------------------------------------------------------
(* mysema_down and mysema_down_userprio: the state and the mode are read   *)
(* without the lock; each function hands over to the other when the mode   *)
(* is not its own.                                                         *)

Inactive(t) ==
    /\ pc[t] \in {"down_state", "uprio_state", "up_state", "rel_state"}
    /\ state[sid[t]] = "INACTIVE"
    /\ Return(t, -1)
    /\ UNCHANGED semVars

DownState(t) ==
    /\ pc[t] = "down_state"
    /\ state[sid[t]] # "INACTIVE"
    /\ Goto(t, "down_mode")
    /\ UNCHANGED semVars

\* Slip: mysema_down keeps a USER mode semaphore to itself.
DownModeOwn(t) ==
    /\ pc[t] = "down_mode"
    /\ Goto(t, "down_lock")
    /\ UNCHANGED semVars

DownMode(t) ==
    /\ pc[t] = "down_mode"
    /\ IF mode[sid[t]] = USER
       THEN /\ pc' = [pc EXCEPT ![t] = "uprio_state"]
            /\ arg' = [arg EXCEPT ![t].priority = MAX_PRIORITY]
       ELSE /\ pc' = [pc EXCEPT ![t] = "down_lock"]
            /\ UNCHANGED arg
    /\ UNCHANGED <<semVars, sid, up, prio, task, ret>>

UprioState(t) ==
    /\ pc[t] = "uprio_state"
    /\ state[sid[t]] # "INACTIVE"
    /\ Goto(t, "uprio_mode")
    /\ UNCHANGED semVars

UprioMode(t) ==
    /\ pc[t] = "uprio_mode"
    /\ IF mode[sid[t]] \in {OS, FIFO}
       THEN Goto(t, "down_state")
       ELSE Goto(t, "uprio_lock")
    /\ UNCHANGED semVars

(* The part under the spin lock.                                           *)

Acquire(t) ==
    /\ lock[sid[t]] = NoThread
    /\ lock' = [lock EXCEPT ![sid[t]] = t]

Clamp(p) == IF p < 0 THEN 0 ELSE IF p > MAX_PRIORITY THEN MAX_PRIORITY ELSE p

\* What waiter.priority holds: mysema_down leaves it uninitialised.
WaiterPriority(t) ==
    IF pc[t] = "uprio_lock" THEN {Clamp(arg[t].priority)} ELSE StackInts

DownGrant(t) ==
    /\ pc[t] \in {"down_lock", "uprio_lock"}
    /\ Acquire(t)
    /\ count[sid[t]] > 0
    /\ count' = [count EXCEPT ![sid[t]] = @ - 1]
    /\ pc' = [pc EXCEPT ![t] = "unlock"]
    /\ ret' = [ret EXCEPT ![t] = 0]
    /\ UNCHANGED <<state, mode, wait_list, listed, sid, arg, up, prio, task>>

DownSleep(t) ==
    /\ pc[t] \in {"down_lock", "uprio_lock"}
    /\ Acquire(t)
    /\ count[sid[t]] = 0
    /\ sid[t] \in listed
    /\ wait_list' = [wait_list EXCEPT ![sid[t]] = Append(@, t)]
    /\ up' = [up EXCEPT ![t] = 0]
    /\ \E p \in WaiterPriority(t) : prio' = [prio EXCEPT ![t] = p]
    /\ task' = [task EXCEPT ![t] = "UNINTERRUPTIBLE"]
    /\ pc' = [pc EXCEPT ![t] = "sleep"]
    /\ UNCHANGED <<state, mode, count, listed, sid, arg, ret>>

\* list_add_tail through a NULL list head: the task dies with the lock held.
DownOops(t) ==
    /\ pc[t] \in {"down_lock", "uprio_lock"}
    /\ Acquire(t)
    /\ count[sid[t]] = 0
    /\ sid[t] \notin listed
    /\ Goto(t, "oops")
    /\ UNCHANGED <<state, mode, count, wait_list, listed>>

Unlock(t) ==
    /\ lock' = [lock EXCEPT ![sid[t]] = NoThread]
    /\ UNCHANGED <<state, mode, count, wait_list, listed>>

SleepUnlock(t) ==
    /\ pc[t] = "sleep"
    /\ Unlock(t)
    /\ Goto(t, "schedule")

\* schedule_timeout returns once the scheduler finds the task runnable.
Schedule(t) ==
    /\ pc[t] = "schedule"
    /\ task[t] = "RUNNING"
    /\ Goto(t, "relock")
    /\ UNCHANGED semVars

RelockWoken(t) ==
    /\ pc[t] = "relock"
    /\ Acquire(t)
    /\ up[t] = 1
    /\ pc' = [pc EXCEPT ![t] = "unlock"]
    /\ ret' = [ret EXCEPT ![t] = 0]
    /\ UNCHANGED <<state, mode, count, wait_list, listed,
                   sid, arg, up, prio, task>>

RelockStray(t) ==
    /\ pc[t] = "relock"
    /\ Acquire(t)
    /\ up[t] = 0
    /\ pc' = [pc EXCEPT ![t] = "sleep"]
    /\ task' = [task EXCEPT ![t] = "UNINTERRUPTIBLE"]
    /\ UNCHANGED <<state, mode, count, wait_list, listed,
                   sid, arg, up, prio, ret>>

\* The end of every locked section: the lock is dropped and the call returns.
UnlockReturn(t) ==
    /\ pc[t] = "unlock"
    /\ Unlock(t)
    /\ pc' = [pc EXCEPT ![t] = "user"]
    /\ arg' = [arg EXCEPT ![t] = NoArg]
    /\ up' = [up EXCEPT ![t] = 0]
    /\ prio' = [prio EXCEPT ![t] = 0]
    /\ UNCHANGED <<sid, task, ret>>

----------------------------------------------------------------------------
(* mysema_up.  list_sort is a stable sort, and the list stays sorted.      *)

\* Slip: the sort may exchange waiters of equal keys.
InOrderUnstable(q, p, key) ==
    \A i, j \in DOMAIN q : i < j => key[q[p[i]]] <= key[q[p[j]]]

InOrder(q, p, key) ==
    \A i, j \in DOMAIN q :
        i < j => \/ key[q[p[i]]] < key[q[p[j]]]
                 \/ key[q[p[i]]] = key[q[p[j]]] /\ p[i] < p[j]

list_sort(q, key) ==
    {[i \in DOMAIN q |-> q[p[i]]] :
        p \in {b \in Bijection(DOMAIN q, DOMAIN q) : InOrder(q, b, key)}}

\* The wait list as the wake-up finds it: sorted by task->prio in OS mode,
\* by waiter.priority in USER mode, untouched in FIFO mode.
Sorted(s) ==
    IF mode[s] = OS THEN list_sort(wait_list[s], OSPrio)
    ELSE IF mode[s] = USER THEN list_sort(wait_list[s], prio)
    ELSE {wait_list[s]}

UpState(t) ==
    /\ pc[t] = "up_state"
    /\ state[sid[t]] # "INACTIVE"
    /\ Goto(t, "up_lock")
    /\ UNCHANGED semVars

Increment(c) == IF c = UINT_MAX THEN 0 ELSE c + 1

\* Slip: the count goes up whether or not somebody waits.
UpCountAlways(t) ==
    /\ pc[t] = "up_lock"
    /\ Acquire(t)
    /\ sid[t] \in listed
    /\ count' = [count EXCEPT ![sid[t]] = Increment(@)]
    /\ pc' = [pc EXCEPT ![t] = "unlock"]
    /\ UNCHANGED <<state, mode, wait_list, listed, sid, arg, up, prio, task, ret>>

UpCount(t) ==
    /\ pc[t] = "up_lock"
    /\ Acquire(t)
    /\ sid[t] \in listed
    /\ wait_list[sid[t]] = << >>
    /\ count' = [count EXCEPT ![sid[t]] = Increment(@)]
    /\ pc' = [pc EXCEPT ![t] = "unlock"]
    /\ ret' = [ret EXCEPT ![t] = 0]
    /\ UNCHANGED <<state, mode, wait_list, listed, sid, arg, up, prio, task>>

\* Slip: list_del is forgotten.
UpWakeKept(t) ==
    /\ pc[t] = "up_lock"
    /\ Acquire(t)
    /\ sid[t] \in listed
    /\ wait_list[sid[t]] # << >>
    /\ mode[sid[t]] \in {FIFO, OS, USER}
    /\ \E q \in Sorted(sid[t]) :
          /\ wait_list' = [wait_list EXCEPT ![sid[t]] = q]
          /\ up' = [up EXCEPT ![Head(q)] = 1]
          /\ task' = [task EXCEPT ![Head(q)] = "RUNNING"]
    /\ pc' = [pc EXCEPT ![t] = "unlock"]
    /\ ret' = [ret EXCEPT ![t] = 0]
    /\ UNCHANGED <<state, mode, count, listed, sid, arg, prio>>

\* Slip: wake_up_process is forgotten.
UpWakeQuiet(t) ==
    /\ pc[t] = "up_lock"
    /\ Acquire(t)
    /\ sid[t] \in listed
    /\ wait_list[sid[t]] # << >>
    /\ mode[sid[t]] \in {FIFO, OS, USER}
    /\ \E q \in Sorted(sid[t]) :
          /\ wait_list' = [wait_list EXCEPT ![sid[t]] = Tail(q)]
          /\ up' = [up EXCEPT ![Head(q)] = 1]
    /\ pc' = [pc EXCEPT ![t] = "unlock"]
    /\ ret' = [ret EXCEPT ![t] = 0]
    /\ UNCHANGED <<state, mode, count, listed, sid, arg, prio, task>>

\* Slip: a wake-up also raises the count.
UpWakeCount(t) ==
    /\ pc[t] = "up_lock"
    /\ Acquire(t)
    /\ sid[t] \in listed
    /\ wait_list[sid[t]] # << >>
    /\ mode[sid[t]] \in {FIFO, OS, USER}
    /\ \E q \in Sorted(sid[t]) :
          /\ wait_list' = [wait_list EXCEPT ![sid[t]] = Tail(q)]
          /\ up' = [up EXCEPT ![Head(q)] = 1]
          /\ task' = [task EXCEPT ![Head(q)] = "RUNNING"]
    /\ count' = [count EXCEPT ![sid[t]] = Increment(@)]
    /\ pc' = [pc EXCEPT ![t] = "unlock"]
    /\ ret' = [ret EXCEPT ![t] = 0]
    /\ UNCHANGED <<state, mode, listed, sid, arg, prio>>

UpWake(t) ==
    /\ pc[t] = "up_lock"
    /\ Acquire(t)
    /\ sid[t] \in listed
    /\ wait_list[sid[t]] # << >>
    /\ mode[sid[t]] \in {FIFO, OS, USER}
    /\ \E q \in Sorted(sid[t]) :
          /\ wait_list' = [wait_list EXCEPT ![sid[t]] = Tail(q)]
          /\ up' = [up EXCEPT ![Head(q)] = 1]
          /\ task' = [task EXCEPT ![Head(q)] = "RUNNING"]
    /\ pc' = [pc EXCEPT ![t] = "unlock"]
    /\ ret' = [ret EXCEPT ![t] = 0]
    /\ UNCHANGED <<state, mode, count, listed, sid, arg, prio>>

\* A NULL list head is not an empty list either.
UpInvalidMode(t) ==
    /\ pc[t] = "up_lock"
    /\ Acquire(t)
    /\ sid[t] \notin listed \/ wait_list[sid[t]] # << >>
    /\ mode[sid[t]] \notin {FIFO, OS, USER}
    /\ pc' = [pc EXCEPT ![t] = "unlock"]
    /\ ret' = [ret EXCEPT ![t] = -1]
    /\ UNCHANGED <<state, mode, count, wait_list, listed,
                   sid, arg, up, prio, task>>

UpOops(t) ==
    /\ pc[t] = "up_lock"
    /\ Acquire(t)
    /\ sid[t] \notin listed
    /\ mode[sid[t]] \in {FIFO, OS, USER}
    /\ Goto(t, "oops")
    /\ UNCHANGED <<state, mode, count, wait_list, listed>>

----------------------------------------------------------------------------
(* mysema_release: two checks and a store, all without the lock.           *)

RelState(t) ==
    /\ pc[t] = "rel_state"
    /\ state[sid[t]] # "INACTIVE"
    /\ Goto(t, "rel_list")
    /\ UNCHANGED semVars

RelRefused(t) ==
    /\ pc[t] = "rel_list"
    /\ sid[t] \notin listed \/ wait_list[sid[t]] # << >>
    /\ Return(t, -1)
    /\ UNCHANGED semVars

\* Slip: the wait list is not looked at.
RelListAny(t) ==
    /\ pc[t] = "rel_list"
    /\ sid[t] \in listed
    /\ Goto(t, "rel_store")
    /\ UNCHANGED semVars

RelList(t) ==
    /\ pc[t] = "rel_list"
    /\ sid[t] \in listed
    /\ wait_list[sid[t]] = << >>
    /\ Goto(t, "rel_store")
    /\ UNCHANGED semVars

RelStore(t) ==
    /\ pc[t] = "rel_store"
    /\ state' = [state EXCEPT ![sid[t]] = "INACTIVE"]
    /\ Return(t, 0)
    /\ UNCHANGED <<mode, count, wait_list, listed, lock>>

----------------------------------------------------------------------------
(* A wake-up that no mysema_up asked for: the kernel lets any code call    *)
(* wake_up_process on a sleeping task, which is why a down loops.          *)
StrayWakeUp(t) ==
    /\ pc[t] = "schedule"
    /\ task[t] = "UNINTERRUPTIBLE"
    /\ task' = [task EXCEPT ![t] = "RUNNING"]
    /\ UNCHANGED <<semVars, pc, sid, arg, up, prio, ret>>

InitStep(t)  == InitRefused(t) \/ InitAccepted(t) \/ InitMode(t)
                \/ InitCount(t) \/ InitState(t) \/ InitList(t)
CheckStep(t) == Inactive(t) \/ DownState(t) \/ DownMode(t)
                \/ UprioState(t) \/ UprioMode(t) \/ UpState(t)
DownStep(t)  == DownGrant(t) \/ DownSleep(t) \/ DownOops(t)
SleepStep(t) == SleepUnlock(t) \/ Schedule(t) \/ RelockWoken(t)
                \/ RelockStray(t) \/ UnlockReturn(t)
UpStep(t)    == UpCount(t) \/ UpWake(t) \/ UpInvalidMode(t) \/ UpOops(t)
RelStep(t)   == RelState(t) \/ RelRefused(t) \/ RelList(t) \/ RelStore(t)

\* A step of the kernel code, as opposed to a call made from user space.
KernelStep(t) == \/ InitStep(t) \/ CheckStep(t) \/ DownStep(t)
                 \/ SleepStep(t) \/ UpStep(t) \/ RelStep(t)
=============================================================================
