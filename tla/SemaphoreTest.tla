--------------------------- MODULE SemaphoreTest ---------------------------
(***************************************************************************)
(* project3/task3_semaphoretest.c over the system calls of MySemaphore:    *)
(* main is thread 0 and spawns the workers 1 .. MAX_THREAD.  The program   *)
(* is built with ATOMIC_OPERATION defined or without.                      *)
(* at[t] is the next thing a thread does in user space; a thread whose     *)
(* pc[t] is not "user" is still inside the system call before it.          *)
(***************************************************************************)
EXTENDS SemaphoreClients

CONSTANTS
    TARGET_SEMAPHORE,
    MAX_THREAD,
    MAX_LOOP,
    priority   \* the priority main hands to each worker

Main    == 0
Workers == 1 .. MAX_THREAD

ASSUME TestConstants ==
    /\ MAX_THREAD \in Nat \ {0}
    /\ MAX_LOOP \in Nat \ {0}
    /\ Threads = 0 .. MAX_THREAD
    /\ TARGET_SEMAPHORE \in Sems
    /\ priority \in [Workers -> Int]
    /\ TARGET_SEMAPHORE \in Ids /\ {0, 1} \subseteq StartValues
    /\ {FIFO, OS, USER} \subseteq Modes /\ Range(priority) \subseteq Priorities

VARIABLES
    ATOMIC_OPERATION, \* the build: which of its two tests main performs
    at,               \* where each thread stands in user space
    i,                \* the loop counter of each thread
    v,                \* the local v of addFunction
    shared_variable,
    round             \* without/with the semaphore, or main's k

testVars == <<ATOMIC_OPERATION, at, i, v, shared_variable, round>>
allVars  == <<vars, testVars>>

TestInit ==
    /\ SerialInit
    /\ ATOMIC_OPERATION \in BOOLEAN
    /\ at = [t \in Threads |-> IF t = Main THEN "init" ELSE "none"]
    /\ i = [t \in Threads |-> 0]
    /\ v = [t \in Threads |-> 0]
    /\ shared_variable = 0
    /\ round = 0

\* t is in user space, about to do x.
Stands(t, x) == pc[t] = "user" /\ at[t] = x

\* pthread_create of the next worker; the last one ends main's loop.
pthread_create(first, then) ==
    /\ Stands(Main, "spawn")
    /\ LET w    == i[Main] + 1
           last == w = MAX_THREAD
       IN  /\ at' = [at EXCEPT ![w] = first, ![Main] = IF last THEN then ELSE @]
           /\ i' = [i EXCEPT ![w] = 0, ![Main] = IF last THEN 0 ELSE w]
    /\ UNCHANGED <<vars, v, shared_variable, round>>

\* Slip: main goes on without joining its workers.
pthread_join_skipped(then) ==
    /\ Stands(Main, "join")
    /\ at' = [at EXCEPT ![Main] = then]
    /\ UNCHANGED <<vars, i, v, shared_variable, round>>

pthread_join(then) ==
    /\ Stands(Main, "join")
    /\ LET w    == i[Main] + 1
           last == w = MAX_THREAD
       IN  /\ Stands(w, "exited")
           /\ i' = [i EXCEPT ![Main] = IF last THEN 0 ELSE w]
           /\ at' = [at EXCEPT ![w] = "none", ![Main] = IF last THEN then ELSE @]
    /\ UNCHANGED <<vars, v, shared_variable, round>>

Exit == \A t \in Threads : at[t] = IF t = Main THEN "end" ELSE "none"

Done == Exit /\ pc[Main] = "user" /\ UNCHANGED allVars

Release(then) ==
    /\ Stands(Main, "release")
    /\ sys_mysema_release(Main, TARGET_SEMAPHORE)
    /\ at' = [at EXCEPT ![Main] = then]

----------------------------------------------------------------------------
(* The atomic operation test.                                              *)

Body == IF round = 0 THEN "load" ELSE "down"

AtomicInit ==
    /\ Stands(Main, "init")
    /\ sys_mysema_init(Main, TARGET_SEMAPHORE, 1, FIFO)
    /\ at' = [at EXCEPT ![Main] = "spawn"]
    /\ UNCHANGED <<i, v, shared_variable, round>>

\* shared_variable = 0 and on to the pass with the semaphore.
SecondPass ==
    /\ Stands(Main, "release")
    /\ round = 0
    /\ round' = 1
    /\ shared_variable' = 0
    /\ at' = [at EXCEPT ![Main] = "spawn"]
    /\ UNCHANGED <<vars, i, v>>

AtomicRelease ==
    /\ round = 1
    /\ Release("end")
    /\ UNCHANGED <<i, v, shared_variable, round>>

\* Slip: the worker enters addFunction without its mysema_down.
CallDownSkipped(t) ==
    /\ Stands(t, "down")
    /\ at' = [at EXCEPT ![t] = "load"]
    /\ UNCHANGED <<vars, i, v, shared_variable, round>>

CallDown(t) ==
    /\ Stands(t, "down")
    /\ sys_mysema_down(t, TARGET_SEMAPHORE)
    /\ at' = [at EXCEPT ![t] = "load"]
    /\ UNCHANGED <<i, v, shared_variable, round>>

Load(t) ==
    /\ Stands(t, "load")
    /\ v' = [v EXCEPT ![t] = shared_variable]
    /\ at' = [at EXCEPT ![t] = "store"]
    /\ UNCHANGED <<vars, i, shared_variable, round>>

\* The loop of threadfunctionWithoutSemaphore / threadfunctionWithSemaphore.
NextTurn(t, x) ==
    /\ i' = [i EXCEPT ![t] = @ + 1]
    /\ at' = [at EXCEPT ![t] = IF i[t] + 1 < MAX_LOOP THEN x ELSE "exited"]

Store(t) ==
    /\ Stands(t, "store")
    /\ shared_variable' = v[t] + 1
    /\ v' = [v EXCEPT ![t] = 0]
    /\ IF round = 0 THEN NextTurn(t, "load")
                    ELSE at' = [at EXCEPT ![t] = "up"] /\ UNCHANGED i
    /\ UNCHANGED <<vars, round>>

\* Slip: the worker keeps the permit.
CallUpForgotten(t) ==
    /\ Stands(t, "up")
    /\ NextTurn(t, "down")
    /\ UNCHANGED <<vars, v, shared_variable, round>>

CallUp(t) ==
    /\ Stands(t, "up")
    /\ sys_mysema_up(t, TARGET_SEMAPHORE)
    /\ NextTurn(t, "down")
    /\ UNCHANGED <<v, shared_variable, round>>

AtomicUser(t) ==
    \/ t = Main /\ \/ AtomicInit \/ pthread_create(Body, "join")
                   \/ pthread_join("release") \/ SecondPass \/ AtomicRelease
    \/ CallDown(t) \/ Load(t) \/ Store(t) \/ CallUp(t)

----------------------------------------------------------------------------
(* The priority test: one pass for each mode.                              *)

PriorityInit ==
    /\ Stands(Main, "init")
    /\ sys_mysema_init(Main, TARGET_SEMAPHORE, 0, round)
    /\ at' = [at EXCEPT ![Main] = "spawn"]
    /\ UNCHANGED <<i, v, shared_variable, round>>

CallUserprio(t) ==
    /\ Stands(t, "userprio")
    /\ sys_mysema_down_userprio(t, TARGET_SEMAPHORE, priority[t])
    /\ at' = [at EXCEPT ![t] = "exited"]
    /\ UNCHANGED <<i, v, shared_variable, round>>

\* Slip: main posts one time too few.
PostShort ==
    /\ Stands(Main, "post")
    /\ sys_mysema_up(Main, TARGET_SEMAPHORE)
    /\ LET last == i[Main] + 2 >= MAX_THREAD
       IN  /\ i' = [i EXCEPT ![Main] = IF last THEN 0 ELSE @ + 1]
           /\ at' = [at EXCEPT ![Main] = IF last THEN "join" ELSE @]
    /\ UNCHANGED <<v, shared_variable, round>>

Post ==
    /\ Stands(Main, "post")
    /\ sys_mysema_up(Main, TARGET_SEMAPHORE)
    /\ LET last == i[Main] + 1 = MAX_THREAD
       IN  /\ i' = [i EXCEPT ![Main] = IF last THEN 0 ELSE @ + 1]
           /\ at' = [at EXCEPT ![Main] = IF last THEN "join" ELSE @]
    /\ UNCHANGED <<v, shared_variable, round>>

PriorityRelease ==
    /\ Release(IF round = USER THEN "end" ELSE "init")
    /\ round' = IF round = USER THEN round ELSE round + 1
    /\ UNCHANGED <<i, v, shared_variable>>

PriorityUser(t) ==
    \/ t = Main /\ \/ PriorityInit \/ pthread_create("userprio", "post")
                   \/ Post \/ pthread_join("release") \/ PriorityRelease
    \/ CallUserprio(t)

----------------------------------------------------------------------------
User(t) == /\ IF ATOMIC_OPERATION THEN AtomicUser(t) ELSE PriorityUser(t)
           /\ UNCHANGED ATOMIC_OPERATION

Kernel(t) == KernelStep(t) /\ UNCHANGED testVars

TestNext ==
    \/ \E t \in Threads : \/ User(t) \/ Kernel(t)
                          \/ StrayWakeUp(t) /\ UNCHANGED testVars
    \/ Done

TakesLock(t) == (DownStep(t) \/ UpStep(t) \/ RelockWoken(t) \/ RelockStray(t))
                /\ UNCHANGED testVars

\* The scheduler runs every runnable thread, and a ticket spin lock serves
\* every thread that waits for it.
TestSpec ==
    /\ TestInit /\ [][TestNext /\ Arrivals]_<<allVars, older>>
    /\ \A t \in Threads : WF_allVars(User(t) \/ Kernel(t))
    /\ \A t \in Threads : SF_allVars(TakesLock(t))

----------------------------------------------------------------------------
(* The printf of the second pass shows the expected result: no addition    *)
(* under the semaphore is lost.                                            *)
ExpectedResult ==
    ATOMIC_OPERATION /\ round = 1 /\ at[Main] \in {"release", "end"} =>
        shared_variable = MAX_THREAD * MAX_LOOP

(* The program ends: every worker is served, with spin locks contended and *)
(* stray wake-ups at any point.                                            *)
Terminates == <>Exit

(* The program keeps the discipline of SemaphoreClients, so what holds of  *)
(* SerialSpec holds of it.                                                 *)
KeepsDiscipline == SerialSpec
=============================================================================
