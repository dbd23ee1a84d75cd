-------------------------- MODULE SemaphoreClients --------------------------
(***************************************************************************)
(* The system calls of MySemaphore under the programs that make them.      *)
(* SerialSpec is the discipline the repository's own test program keeps    *)
(* through pthread_create and pthread_join: nobody initialises or releases *)
(* a semaphore while another thread is between entering a call on it and   *)
(* the point where that call has got its permit, slept or posted.  Threads *)
(* that sleep or are on their way out of a down do not count, so a release *)
(* may still be tried while others wait.  mysema_init and mysema_release   *)
(* take no lock: they rely on such a discipline, and cannot enforce it.    *)
(***************************************************************************)
EXTENDS MySemaphore

CONSTANTS
    Ids,          \* the semaphore ids that programs pass
    StartValues,  \* the start values they pass
    Modes,        \* the modes they pass
    Priorities    \* the user priorities they pass

ASSUME ClientConstants ==
    /\ Ids \subseteq Int
    /\ StartValues \subseteq Int
    /\ \A v \in StartValues : v <= UINT_MAX
    /\ Modes \subseteq Int
    /\ Priorities \subseteq Int

VARIABLE
    older   \* history: the pairs <<u, w>> of waiters of which u came to its list first

----------------------------------------------------------------------------
SetupCall(t, id) ==
    \/ \E v \in StartValues, m \in Modes : sys_mysema_init(t, id, v, m)
    \/ sys_mysema_release(t, id)

SyncCall(t, id) ==
    \/ sys_mysema_down(t, id)
    \/ \E p \in Priorities : sys_mysema_down_userprio(t, id, p)
    \/ sys_mysema_up(t, id)

----------------------------------------------------------------------------
SetupPCs == InitPCs \cup ReleasePCs
BusyPCs  == SetupPCs \cup DownPCs \cup UpPCs

In(PCset, s) == {t \in Threads : pc[t] \in PCset /\ sid[t] = s}

SerialCall(t) ==
    \E id \in Ids :
        \/ SetupCall(t, id) /\ In(BusyPCs, id) = {}
        \/ SyncCall(t, id) /\ In(SetupPCs, id) = {}
        \/ InvalidId(t, id)

SerialNext == \E t \in Threads : SerialCall(t) \/ KernelStep(t) \/ StrayWakeUp(t)

\* Who waits, and who of them came before whom; a waiter that is woken is forgotten.
Waiting == UNION {Range(wait_list[s]) : s \in Sems}

Arrivals ==
    older' = {p \in Waiting' \X Waiting' :
                 p \in older \/ (p[1] \in Waiting /\ p[2] \notin Waiting)}

SerialInit == Init /\ older = {}

SerialSpec == SerialInit /\ [][SerialNext /\ Arrivals]_<<vars, older>>

----------------------------------------------------------------------------
(* Each waiter is on the list of the semaphore it sleeps on, once, and     *)
(* only until mysema_up has set its up flag: a thread that mysema_down     *)
(* left asleep is always reachable by a later mysema_up.                   *)
QueueInv ==
    /\ \A s \in Sems : IsInjective(wait_list[s])
    /\ \A s \in Sems, t \in Threads :
          t \in Range(wait_list[s])
            <=> sid[t] = s /\ pc[t] \in SleepPCs /\ up[t] = 0

(* The raw spin lock has one holder: a thread between the locking and the  *)
(* unlocking of its call, or one that died there.                          *)
LockInv ==
    /\ \A t \in Threads : pc[t] \in LockedPCs => lock[sid[t]] = t
    /\ \A s \in Sems : lock[s] # NoThread =>
            pc[lock[s]] \in LockedPCs /\ sid[lock[s]] = s

(* No thread sleeps while a permit is there to take: count-- / list_add in *)
(* the downs and count++ / list_del in mysema_up leave a positive count    *)
(* only on a semaphore nobody waits for.                                   *)
NoIdlePermit == \A s \in Sems : count[s] > 0 => wait_list[s] = << >>

(* mysema_down leaves waiter.priority uninitialised, yet USER_mode_cmp     *)
(* only ever compares priorities that mysema_down_userprio stored.         *)
UserPriorityDefined ==
    \A s \in Sems : mode[s] = USER =>
        \A t \in Range(wait_list[s]) : prio[t] \in 0 .. MAX_PRIORITY

(* A thread that mysema_up has picked is runnable: the wake-up is never    *)
(* lost to the __set_task_state of the thread going back to sleep.         *)
NoLostWakeUp ==
    \A t \in Threads : pc[t] = "schedule" /\ up[t] = 1 => task[t] = "RUNNING"

----------------------------------------------------------------------------
(* What the invariants above rest on, in the order of the argument.        *)

\* The discipline of the callers, as seen in the kernel.
DisciplineInv ==
    \A t, u \in Threads :
        t # u /\ pc[t] \in SetupPCs /\ pc[u] \in BusyPCs => sid[t] # sid[u]

\* What each step of a call has already established about its semaphore.
Checked(t) ==
    /\ arg[t].start_value <= UINT_MAX
    /\ pc[t] \in {"init_mode", "init_count", "init_state"} =>
          state[sid[t]] # "ACTIVE" /\ arg[t].start_value >= 0
    /\ pc[t] = "init_list" =>
          state[sid[t]] = "ACTIVE" /\ wait_list[sid[t]] = << >>
    /\ pc[t] = "rel_store" => wait_list[sid[t]] = << >> /\ sid[t] \in listed
    /\ pc[t] \in {"down_mode", "down_lock", "uprio_mode", "uprio_lock",
                  "up_lock", "rel_list", "rel_store"} => state[sid[t]] # "INACTIVE"
    /\ pc[t] = "down_lock" => mode[sid[t]] # USER
    /\ pc[t] = "sleep" => up[t] = 0

CheckedInv == \A t \in Threads : Checked(t)

\* What the state of a semaphore says about its list and its count.
StateInv ==
    \A s \in Sems :
        /\ state[s] = "ZERO" => s \notin listed
        /\ state[s] # "ACTIVE" => wait_list[s] = << >>
        /\ state[s] = "ACTIVE" /\ s \notin listed =>
              \E t \in Threads : pc[t] = "init_list" /\ sid[t] = s
        /\ state[s] = "ZERO" /\ count[s] > 0 =>
              \E t \in Threads : pc[t] = "init_state" /\ sid[t] = s

SerialInv ==
    /\ TypeOK
    /\ LockInv
    /\ QueueInv
    /\ NoIdlePermit
    /\ UserPriorityDefined
    /\ NoLostWakeUp
    /\ DisciplineInv
    /\ CheckedInv
    /\ StateInv

----------------------------------------------------------------------------
KeyOf(s, t) == IF mode[s] = OS THEN OSPrio[t]
               ELSE IF mode[s] = USER THEN prio[t] ELSE 0

\* u is to be woken before w, both waiting for s.
Precedes(s, u, w) ==
    \/ KeyOf(s, u) < KeyOf(s, w)
    \/ KeyOf(s, u) = KeyOf(s, w) /\ <<u, w>> \in older

(* mysema_up wakes the waiter with the least key of the mode, and the one  *)
(* that joined the list first among equals, although list_sort may have    *)
(* reordered it any number of times since.                                 *)
WakeOrder ==
    [][\A s \in Sems :
         \A u \in Range(wait_list[s]) \ Range(wait_list'[s]) :
           \A w \in Range(wait_list'[s]) : Precedes(s, u, w)]_vars

(* A kernel oops needs a semaphore that was never initialised; once        *)
(* mysema_init has returned 0, no later sequence of calls reaches one.     *)
OopsOnlyUninitialised ==
    [][\A t \in Threads :
         pc'[t] = "oops" /\ pc[t] # "oops" => state[sid[t]] = "ZERO"]_vars

----------------------------------------------------------------------------
(* The system calls implement counting semaphores: seen from above, every  *)
(* step is one operation of CountingSemaphore or nothing at all.           *)
Active    == {s \in Sems : state[s] = "ACTIVE"}
Permits   == [s \in Sems |-> IF s \in Active THEN count[s] ELSE 0]
BlockedOn == [s \in Sems |-> Range(wait_list[s])]

CS == INSTANCE CountingSemaphore
        WITH Limit <- UINT_MAX, on <- Active, avail <- Permits,
             blocked <- BlockedOn

ImplementsCounting == CS!Spec
=============================================================================
