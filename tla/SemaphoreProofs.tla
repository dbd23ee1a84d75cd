-------------------------- MODULE SemaphoreProofs --------------------------
(***************************************************************************)
(* Safety of the mysemaphore system calls under SerialSpec, for any number *)
(* of threads and semaphores and any arguments: SerialInv is inductive,    *)
(* and with it ArrivalInv, from which the order of the wake-ups follows.   *)
(* Then their test program, for any number of threads and turns and any    *)
(* priorities: it keeps the discipline of SemaphoreClients, so that all    *)
(* that is proved of SerialSpec holds of it, and no addition under the     *)
(* semaphore is lost.  TestInv is inductive, together with SerialInv.      *)
(***************************************************************************)
EXTENDS SemaphoreTest, SequenceTheorems, NaturalsInduction, WellFoundedInduction, TLAPS

----------------------------------------------------------------------------
(* What the list operations of the kernel do to the members of a list.     *)

\* list_add_tail adds one member, and keeps the members distinct.
LEMMA AppendMembers ==
    ASSUME NEW S, NEW q \in Seq(S), NEW e \in S
    PROVE  /\ Append(q, e) \in Seq(S)
           /\ Range(Append(q, e)) = Range(q) \cup {e}
           /\ IsInjective(q) /\ e \notin Range(q) => IsInjective(Append(q, e))
<1>1. /\ Append(q, e) \in Seq(S)
      /\ DOMAIN Append(q, e) = 1 .. Len(q) + 1
      /\ DOMAIN q = 1 .. Len(q)
      /\ Len(q) \in Nat
      /\ \A k \in 1 .. Len(q) : Append(q, e)[k] = q[k]
      /\ Append(q, e)[Len(q) + 1] = e
  OBVIOUS
<1>2. Range(Append(q, e)) = Range(q) \cup {e}
  <2>1. ASSUME NEW x \in Range(Append(q, e)) PROVE x \in Range(q) \cup {e}
    BY <1>1 DEF Range
  <2>2. ASSUME NEW x \in Range(q) \cup {e} PROVE x \in Range(Append(q, e))
    BY <1>1 DEF Range
  <2> QED
    BY <2>1, <2>2
<1>3. IsInjective(q) /\ e \notin Range(q) => IsInjective(Append(q, e))
  BY <1>1 DEF Range, IsInjective
<1> QED
  BY <1>1, <1>2, <1>3

\* list_del of the first entry removes that member and no other.
LEMMA TailMembers ==
    ASSUME NEW S, NEW q \in Seq(S), q # << >>, IsInjective(q)
    PROVE  /\ Head(q) \in Range(q)
           /\ Head(q) \in S
           /\ Tail(q) \in Seq(S)
           /\ Range(Tail(q)) = Range(q) \ {Head(q)}
           /\ IsInjective(Tail(q))
<1>1. /\ Tail(q) \in Seq(S)
      /\ Len(q) \in Nat \ {0}
      /\ DOMAIN q = 1 .. Len(q)
      /\ DOMAIN Tail(q) = 1 .. Len(q) - 1
      /\ \A k \in 1 .. Len(q) - 1 : Tail(q)[k] = q[k + 1]
      /\ Head(q) = q[1]
      /\ Head(q) \in S
  BY HeadTailProperties, EmptySeq
<1>2. Head(q) \in Range(q)
  BY <1>1 DEF Range
<1>3. Range(Tail(q)) = Range(q) \ {Head(q)}
  <2>1. ASSUME NEW x \in Range(Tail(q)) PROVE x \in Range(q) \ {Head(q)}
    <3>1. PICK k \in 1 .. Len(q) - 1 : x = q[k + 1]
      BY <1>1 DEF Range
    <3> QED
      BY <1>1, <3>1 DEF Range, IsInjective
  <2>2. ASSUME NEW x \in Range(q) \ {Head(q)} PROVE x \in Range(Tail(q))
    <3>1. PICK k \in 1 .. Len(q) : x = q[k] /\ k # 1
      BY <1>1 DEF Range
    <3>2. k - 1 \in DOMAIN Tail(q) /\ Tail(q)[k - 1] = x
      BY <1>1, <3>1
    <3> QED
      BY <3>2 DEF Range
  <2> QED
    BY <2>1, <2>2
<1>4. IsInjective(Tail(q))
  BY <1>1 DEF IsInjective
<1> QED
  BY <1>1, <1>2, <1>3, <1>4

\* list_sort permutes the list.
LEMMA SortMembers ==
    ASSUME NEW S, NEW q \in Seq(S), NEW key, NEW r \in list_sort(q, key)
    PROVE  /\ r \in Seq(S)
           /\ Range(r) = Range(q)
           /\ IsInjective(q) => IsInjective(r)
           /\ q # << >> => r # << >>
<1>1. PICK p \in Bijection(DOMAIN q, DOMAIN q) : r = [k \in DOMAIN q |-> q[p[k]]]
  BY DEF list_sort
<1>2. /\ DOMAIN q = 1 .. Len(q)
      /\ Len(q) \in Nat
      /\ \A k \in DOMAIN q : q[k] \in S
  OBVIOUS
<1>3. /\ p \in [DOMAIN q -> DOMAIN q]
      /\ \A k, j \in DOMAIN q : p[k] = p[j] => k = j
      /\ \A k \in DOMAIN q : \E j \in DOMAIN q : p[j] = k
  BY DEF Bijection, Injection, Surjection, IsInjective
<1>4. r \in Seq(S)
  BY <1>1, <1>2, <1>3, SeqDef
<1>5. Range(r) = Range(q)
  BY <1>1, <1>3 DEF Range
<1>6. IsInjective(q) => IsInjective(r)
  BY <1>1, <1>3 DEF IsInjective
<1>7. q # << >> => r # << >>
  <2>1. ASSUME q # << >> PROVE 1 \in DOMAIN r
    BY <1>1, <1>2, <2>1, EmptySeq
  <2> QED
    BY <2>1
<1> QED
  BY <1>4, <1>5, <1>6, <1>7

\* What mysema_up finds after sorting, whatever the mode.
LEMMA SortedMembers ==
    ASSUME NEW s \in Sems, wait_list[s] \in Seq(Threads), NEW q \in Sorted(s)
    PROVE  /\ q \in Seq(Threads)
           /\ Range(q) = Range(wait_list[s])
           /\ IsInjective(wait_list[s]) => IsInjective(q)
           /\ wait_list[s] # << >> => q # << >>
BY SortMembers DEF Sorted

----------------------------------------------------------------------------
(* Initial states.                                                         *)

LEMMA InitSerial == Init => SerialInv
<1> SUFFICES ASSUME Init PROVE SerialInv
  OBVIOUS
<1>0. 0 \in Sems /\ UINT_MAX \in Nat
  BY SemaphoreConstants DEF Sems
<1>1. TypeOK
  BY <1>0, SemaphoreConstants DEF Init, TypeOK, NoArg, PCs, FIFO
<1>2. \A s \in Sems : Range(wait_list[s]) = {} /\ IsInjective(wait_list[s])
  BY DEF Init, Range, IsInjective
<1>3. LockInv /\ NoIdlePermit /\ NoLostWakeUp /\ DisciplineInv
  BY SemaphoreConstants
     DEF Init, LockInv, NoIdlePermit, NoLostWakeUp, DisciplineInv,
         LockedPCs, SetupPCs, BusyPCs, InitPCs, ReleasePCs
<1>4. QueueInv /\ UserPriorityDefined
  BY <1>2 DEF Init, QueueInv, UserPriorityDefined, SleepPCs
<1>5. CheckedInv /\ StateInv
  BY <1>0 DEF Init, CheckedInv, Checked, StateInv, NoArg
<1> QED
  BY <1>1, <1>3, <1>4, <1>5 DEF SerialInv

----------------------------------------------------------------------------
(* Frame lemmas: what a step has to leave alone for a part to survive it.  *)

\* A step outside the locked sections that leaves the locks alone.
LEMMA LockFrame ==
    ASSUME TypeOK, LockInv, NEW t \in Threads, UNCHANGED lock,
           \A u \in Threads \ {t} : pc'[u] = pc[u] /\ sid'[u] = sid[u],
           pc[t] \notin LockedPCs, pc'[t] \notin LockedPCs
    PROVE  LockInv'
<1>1. ASSUME NEW u \in Threads, pc'[u] \in LockedPCs PROVE lock'[sid'[u]] = u
  BY <1>1 DEF LockInv
<1>2. ASSUME NEW s \in Sems, lock'[s] # NoThread
      PROVE  pc'[lock'[s]] \in LockedPCs /\ sid'[lock'[s]] = s
  <2>1. /\ lock[s] \in Threads /\ lock' = lock
        /\ pc[lock[s]] \in LockedPCs /\ sid[lock[s]] = s
    BY <1>2 DEF TypeOK, LockInv
  <2> QED
    BY <2>1
<1> QED
  BY <1>1, <1>2 DEF LockInv

\* A thread that moves between points outside the locked sections and
\* outside the for(;;) of a down, and touches nothing but its own call.
LEMMA QuietFrame ==
    ASSUME TypeOK, LockInv, QueueInv, NoIdlePermit, UserPriorityDefined,
           NoLostWakeUp, NEW t \in Threads,
           UNCHANGED <<wait_list, count, mode, lock, up, prio, task>>,
           \A u \in Threads \ {t} : pc'[u] = pc[u] /\ sid'[u] = sid[u],
           pc[t] \notin SleepPCs \cup LockedPCs,
           pc'[t] \notin SleepPCs \cup LockedPCs
    PROVE  /\ LockInv' /\ QueueInv' /\ NoIdlePermit'
           /\ UserPriorityDefined' /\ NoLostWakeUp'
<1>1. LockInv'
  BY LockFrame
<1>2. QueueInv'
  BY DEF QueueInv
<1>3. NoIdlePermit' /\ UserPriorityDefined'
  BY DEF NoIdlePermit, UserPriorityDefined
<1>4. NoLostWakeUp'
  BY DEF NoLostWakeUp, SleepPCs
<1> QED
  BY <1>1, <1>2, <1>3, <1>4

\* A kernel step keeps its thread in the same kind of call, or leaves it.
LEMMA DisciplineFrame ==
    ASSUME DisciplineInv, NEW t \in Threads,
           UNCHANGED sid,
           \A u \in Threads \ {t} : pc'[u] = pc[u],
           pc'[t] \in SetupPCs => pc[t] \in SetupPCs,
           pc'[t] \in BusyPCs => pc[t] \in BusyPCs
    PROVE  DisciplineInv'
BY DEF DisciplineInv

\* A step that leaves the semaphores alone keeps what is known of the others.
LEMMA CheckedFrame ==
    ASSUME CheckedInv, NEW t \in Threads,
           UNCHANGED <<state, mode, wait_list, listed>>,
           \A u \in Threads \ {t} : /\ pc'[u] = pc[u] /\ sid'[u] = sid[u]
                                    /\ arg'[u] = arg[u] /\ up'[u] = up[u],
           Checked(t)'
    PROVE  CheckedInv'
BY DEF CheckedInv, Checked

\* A thread outside mysema_init does not matter to StateInv.
LEMMA StateFrame ==
    ASSUME StateInv, NEW t \in Threads,
           UNCHANGED <<state, count, wait_list, listed>>,
           \A u \in Threads \ {t} : pc'[u] = pc[u] /\ sid'[u] = sid[u],
           pc[t] \notin {"init_state", "init_list"}
    PROVE  StateInv'
BY DEF StateInv

----------------------------------------------------------------------------
(* Entering a system call under the discipline of SerialSpec.              *)

LEMMA EnterStep ==
    ASSUME SerialInv, NEW t \in Threads, NEW id, NEW first,
           NEW a \in [start_value : Int, mode : Int, priority : Int],
           Enter(t, id, first, a),
           a.start_value <= UINT_MAX,
           first \in {"init_check", "rel_state", "down_state", "uprio_state",
                      "up_state"},
           In(SetupPCs, id) = {},
           first \in SetupPCs => In(BusyPCs, id) = {}
    PROVE  SerialInv'
<1> USE DEF Enter, semVars
<1>0. /\ pc' = [pc EXCEPT ![t] = first]
      /\ pc'[t] = first /\ sid'[t] = id /\ arg'[t] = a
      /\ \A u \in Threads \ {t} :
            pc'[u] = pc[u] /\ sid'[u] = sid[u] /\ arg'[u] = arg[u]
  BY DEF SerialInv, TypeOK
<1>1. TypeOK'
  <2>1. first \in PCs
    BY DEF PCs, InitPCs, ReleasePCs, DownPCs, UpPCs
  <2> QED
    BY <2>1 DEF SerialInv, TypeOK
<1>2. LockInv' /\ QueueInv' /\ NoIdlePermit' /\ UserPriorityDefined' /\ NoLostWakeUp'
  <2>1. /\ pc[t] \notin SleepPCs \cup LockedPCs
        /\ first \notin SleepPCs \cup LockedPCs
    BY DEF SleepPCs, LockedPCs
  <2> QED
    BY <1>0, <2>1, QuietFrame DEF SerialInv
<1>3. DisciplineInv'
  BY <1>0 DEF SerialInv, DisciplineInv, In, BusyPCs
<1>4. CheckedInv'
  <2>1. Checked(t)'
    BY <1>0 DEF Checked
  <2> QED
    BY <1>0, <2>1, CheckedFrame DEF SerialInv
<1>5. StateInv'
  BY <1>0, StateFrame DEF SerialInv
<1> QED
  BY <1>1, <1>2, <1>3, <1>4, <1>5 DEF SerialInv

LEMMA CallStep ==
    ASSUME SerialInv, NEW t \in Threads, SerialCall(t)
    PROVE  SerialInv'
<1>1. PICK id \in Ids : \/ SetupCall(t, id) /\ In(BusyPCs, id) = {}
                        \/ SyncCall(t, id) /\ In(SetupPCs, id) = {}
                        \/ InvalidId(t, id)
  BY DEF SerialCall
<1>2. CASE SetupCall(t, id) /\ In(BusyPCs, id) = {}
  <2>1. In(SetupPCs, id) = {}
    BY <1>2 DEF In, BusyPCs
  <2>2. ASSUME NEW n \in StartValues, NEW m \in Modes, sys_mysema_init(t, id, n, m)
        PROVE  SerialInv'
    <3>1. n \in Int /\ m \in Int /\ n <= UINT_MAX
      BY ClientConstants
    <3> QED
      BY <1>2, <2>1, <2>2, <3>1, EnterStep DEF sys_mysema_init
  <2>3. CASE sys_mysema_release(t, id)
    BY <1>2, <2>1, <2>3, EnterStep, SemaphoreConstants DEF sys_mysema_release, NoArg
  <2> QED
    BY <1>2, <2>2, <2>3 DEF SetupCall
<1>3. CASE SyncCall(t, id) /\ In(SetupPCs, id) = {}
  <2>0. /\ "down_state" \notin SetupPCs /\ "uprio_state" \notin SetupPCs
        /\ "up_state" \notin SetupPCs
    BY DEF SetupPCs, InitPCs, ReleasePCs
  <2>1. CASE sys_mysema_down(t, id) \/ sys_mysema_up(t, id)
    BY <1>3, <2>0, <2>1, EnterStep, SemaphoreConstants
       DEF sys_mysema_down, sys_mysema_up, NoArg
  <2>2. ASSUME NEW p \in Priorities, sys_mysema_down_userprio(t, id, p)
        PROVE  SerialInv'
    <3>1. /\ [NoArg EXCEPT !.priority = p]
                \in [start_value : Int, mode : Int, priority : Int]
          /\ [NoArg EXCEPT !.priority = p].start_value <= UINT_MAX
      BY ClientConstants, SemaphoreConstants DEF NoArg
    <3> QED
      BY <1>3, <2>0, <2>2, <3>1, EnterStep DEF sys_mysema_down_userprio
  <2> QED
    BY <1>3, <2>1, <2>2 DEF SyncCall
<1>4. CASE InvalidId(t, id)
  BY <1>4 DEF InvalidId, semVars, SerialInv, TypeOK, LockInv, QueueInv,
              NoIdlePermit, UserPriorityDefined, NoLostWakeUp, DisciplineInv,
              CheckedInv, Checked, StateInv
<1> QED
  BY <1>1, <1>2, <1>3, <1>4

----------------------------------------------------------------------------
(* Steps of the kernel code that only look and move on.                    *)

\* A call is refused, or has nothing more to do, before it took the lock.
LEMMA ReturnStep ==
    ASSUME SerialInv, NEW t \in Threads, NEW r \in {-1, 0}, Return(t, r),
           UNCHANGED semVars,
           pc[t] \in {"init_check", "down_state", "uprio_state", "up_state",
                      "rel_state", "rel_list"}
    PROVE  SerialInv'
<1> USE DEF Return, semVars
<1>0. /\ pc'[t] = "user" /\ arg'[t] = NoArg
      /\ \A u \in Threads \ {t} : pc'[u] = pc[u] /\ arg'[u] = arg[u]
  BY DEF SerialInv, TypeOK
<1>1. TypeOK'
  BY DEF SerialInv, TypeOK, PCs, NoArg
<1>2. LockInv' /\ QueueInv' /\ NoIdlePermit' /\ UserPriorityDefined' /\ NoLostWakeUp'
  BY <1>0, QuietFrame DEF SerialInv, SleepPCs, LockedPCs
<1>3. DisciplineInv'
  BY <1>0, DisciplineFrame
     DEF SerialInv, SetupPCs, BusyPCs, InitPCs, ReleasePCs, DownPCs, UpPCs
<1>4. CheckedInv'
  <2>1. Checked(t)'
    BY <1>0, SemaphoreConstants DEF Checked, NoArg
  <2> QED
    BY <1>0, <2>1, CheckedFrame DEF SerialInv
<1>5. StateInv'
  BY <1>0, StateFrame DEF SerialInv
<1> QED
  BY <1>1, <1>2, <1>3, <1>4, <1>5 DEF SerialInv

LEMMA RefusedStep ==
    ASSUME SerialInv, NEW t \in Threads,
           InitRefused(t) \/ Inactive(t) \/ RelRefused(t)
    PROVE  SerialInv'
BY ReturnStep DEF InitRefused, Inactive, RelRefused

\* A call moves on to its next check with what it has just seen.
LEMMA MoveStep ==
    ASSUME SerialInv, NEW t \in Threads, NEW next,
           NEW a \in [start_value : Int, mode : Int, priority : Int],
           UNCHANGED <<semVars, sid, up, prio, task, ret>>,
           pc' = [pc EXCEPT ![t] = next],
           arg' = [arg EXCEPT ![t] = a],
           a.start_value = arg[t].start_value,
           pc[t] \in BusyPCs \ {"init_state", "init_list"},
           next \in {"init_mode", "rel_list", "rel_store", "down_state", "down_mode",
                     "uprio_state", "uprio_mode", "down_lock", "uprio_lock", "up_lock"},
           next \in SetupPCs => pc[t] \in SetupPCs,
           next = "init_mode" => state[sid[t]] # "ACTIVE" /\ a.start_value >= 0,
           next = "rel_store" => wait_list[sid[t]] = << >> /\ sid[t] \in listed,
           next = "down_lock" => mode[sid[t]] # USER,
           next \in {"rel_list", "rel_store", "down_mode", "uprio_mode", "down_lock",
                     "uprio_lock", "up_lock"} => state[sid[t]] # "INACTIVE"
    PROVE  SerialInv'
<1> USE DEF semVars
<1>0. /\ pc'[t] = next /\ arg'[t] = a
      /\ \A u \in Threads \ {t} : pc'[u] = pc[u] /\ arg'[u] = arg[u]
  BY DEF SerialInv, TypeOK
<1>1. TypeOK'
  <2>1. next \in PCs
    BY DEF PCs, InitPCs, ReleasePCs, DownPCs, UpPCs
  <2> QED
    BY <2>1 DEF SerialInv, TypeOK
<1>2. LockInv' /\ QueueInv' /\ NoIdlePermit' /\ UserPriorityDefined' /\ NoLostWakeUp'
  <2>1. /\ pc[t] \notin SleepPCs \cup LockedPCs
        /\ next \notin SleepPCs \cup LockedPCs
    BY DEF SleepPCs, LockedPCs, BusyPCs, SetupPCs, InitPCs, ReleasePCs, DownPCs, UpPCs
  <2> QED
    BY <1>0, <2>1, QuietFrame DEF SerialInv
<1>3. DisciplineInv'
  BY <1>0, DisciplineFrame DEF SerialInv
<1>4. CheckedInv'
  <2>1. Checked(t)'
    BY <1>0 DEF SerialInv, CheckedInv, Checked
  <2> QED
    BY <1>0, <2>1, CheckedFrame DEF SerialInv
<1>5. StateInv'
  BY <1>0, StateFrame DEF SerialInv
<1> QED
  BY <1>1, <1>2, <1>3, <1>4, <1>5 DEF SerialInv

LEMMA CheckMoves ==
    ASSUME SerialInv, NEW t \in Threads,
           \/ InitAccepted(t) \/ DownState(t) \/ DownMode(t) \/ UprioState(t)
           \/ UprioMode(t) \/ UpState(t) \/ RelState(t) \/ RelList(t)
    PROVE  SerialInv'
<1> USE DEF Goto, BusyPCs, SetupPCs, InitPCs, ReleasePCs, DownPCs, UpPCs
<1>0. /\ arg[t] \in [start_value : Int, mode : Int, priority : Int]
      /\ arg = [arg EXCEPT ![t] = arg[t]]
      /\ arg[t].start_value \in Int
  BY DEF SerialInv, TypeOK
<1>1. CASE InitAccepted(t)
  BY <1>0, <1>1, MoveStep DEF InitAccepted
<1>2. CASE DownState(t)
  BY <1>0, <1>2, MoveStep DEF DownState
<1>3. CASE DownMode(t)
  <2>1. state[sid[t]] # "INACTIVE"
    BY <1>3 DEF DownMode, SerialInv, CheckedInv, Checked
  <2>2. CASE mode[sid[t]] = USER
    <3>1. /\ [arg[t] EXCEPT !.priority = MAX_PRIORITY]
                \in [start_value : Int, mode : Int, priority : Int]
          /\ [arg[t] EXCEPT !.priority = MAX_PRIORITY].start_value = arg[t].start_value
          /\ arg' = [arg EXCEPT ![t] = [arg[t] EXCEPT !.priority = MAX_PRIORITY]]
      <4>1. MAX_PRIORITY \in Int
        BY SemaphoreConstants
      <4>2. [arg[t] EXCEPT !.priority = MAX_PRIORITY]
                \in [start_value : Int, mode : Int, priority : Int]
        BY <1>0, <4>1
      <4>3. [arg[t] EXCEPT !.priority = MAX_PRIORITY].start_value = arg[t].start_value
        BY <1>0
      <4>4. arg' = [arg EXCEPT ![t] = [arg[t] EXCEPT !.priority = MAX_PRIORITY]]
        BY <1>3, <2>2 DEF DownMode
      <4> QED
        BY <4>2, <4>3, <4>4
    <3> QED
      BY <1>3, <2>1, <2>2, <3>1, MoveStep DEF DownMode
  <2>3. CASE mode[sid[t]] # USER
    BY <1>0, <1>3, <2>1, <2>3, MoveStep DEF DownMode
  <2> QED
    BY <2>2, <2>3
<1>4. CASE UprioState(t)
  BY <1>0, <1>4, MoveStep DEF UprioState
<1>5. CASE UprioMode(t)
  <2>1. state[sid[t]] # "INACTIVE"
    BY <1>5 DEF UprioMode, SerialInv, CheckedInv, Checked
  <2> QED
    BY <1>0, <1>5, <2>1, MoveStep DEF UprioMode
<1>6. CASE UpState(t)
  BY <1>0, <1>6, MoveStep DEF UpState
<1>7. CASE RelState(t)
  BY <1>0, <1>7, MoveStep DEF RelState
<1>8. CASE RelList(t)
  <2>1. state[sid[t]] # "INACTIVE"
    BY <1>8 DEF RelList, SerialInv, CheckedInv, Checked
  <2> QED
    BY <1>0, <1>8, <2>1, MoveStep DEF RelList
<1> QED
  BY <1>1, <1>2, <1>3, <1>4, <1>5, <1>6, <1>7, <1>8

----------------------------------------------------------------------------
(* The unlocked stores of mysema_init and mysema_release.  Nobody else is  *)
(* in a call on the semaphore that could have looked at it before.         *)

\* Others at work are at work on other semaphores.
LEMMA Alone ==
    ASSUME SerialInv, NEW t \in Threads, pc[t] \in SetupPCs
    PROVE  \A u \in Threads \ {t} : pc[u] \in BusyPCs => sid[u] # sid[t]
BY DEF SerialInv, DisciplineInv

LEMMA InitModeStep ==
    ASSUME SerialInv, NEW t \in Threads, InitMode(t)
    PROVE  SerialInv'
<1> USE DEF InitMode, Goto
<1>0. /\ pc'[t] = "init_count" /\ sid[t] \in Sems
      /\ \A u \in Threads \ {t} : pc'[u] = pc[u]
      /\ \A s \in Sems \ {sid[t]} : mode'[s] = mode[s]
      /\ state[sid[t]] # "ACTIVE" /\ wait_list[sid[t]] = << >>
  BY DEF SerialInv, TypeOK, CheckedInv, Checked, StateInv
<1>1. TypeOK'
  BY DEF SerialInv, TypeOK, PCs, InitPCs
<1>2. LockInv' /\ QueueInv' /\ NoIdlePermit' /\ NoLostWakeUp'
  BY <1>0 DEF SerialInv, TypeOK, LockInv, QueueInv, NoIdlePermit, NoLostWakeUp,
              LockedPCs, SleepPCs
<1>3. UserPriorityDefined'
  <2>1. Range(wait_list[sid[t]]) = {}
    BY <1>0 DEF Range
  <2> QED
    BY <1>0, <2>1 DEF SerialInv, UserPriorityDefined
<1>4. DisciplineInv'
  BY <1>0, DisciplineFrame DEF SerialInv, SetupPCs, BusyPCs, InitPCs
<1>5. CheckedInv'
  <2>1. Checked(t)'
    BY <1>0 DEF SerialInv, CheckedInv, Checked
  <2>2. ASSUME NEW u \in Threads \ {t} PROVE Checked(u)'
    <3>1. pc[u] \in BusyPCs => sid[u] # sid[t]
      BY Alone DEF SetupPCs, InitPCs
    <3> QED
      BY <1>0, <3>1 DEF SerialInv, TypeOK, CheckedInv, Checked, BusyPCs, DownPCs
  <2> QED
    BY <2>1, <2>2 DEF CheckedInv
<1>6. StateInv'
  BY <1>0, StateFrame DEF SerialInv
<1> QED
  BY <1>1, <1>2, <1>3, <1>4, <1>5, <1>6 DEF SerialInv

LEMMA InitCountStep ==
    ASSUME SerialInv, NEW t \in Threads, InitCount(t)
    PROVE  SerialInv'
<1> USE DEF InitCount, Goto
<1>0. /\ pc'[t] = "init_state" /\ sid[t] \in Sems
      /\ \A u \in Threads \ {t} : pc'[u] = pc[u]
      /\ \A s \in Sems \ {sid[t]} : count'[s] = count[s]
      /\ state[sid[t]] # "ACTIVE" /\ wait_list[sid[t]] = << >>
  BY DEF SerialInv, TypeOK, CheckedInv, Checked, StateInv
<1>1. TypeOK'
  <2>1. arg[t].start_value \in 0 .. UINT_MAX
    BY SemaphoreConstants DEF SerialInv, TypeOK, CheckedInv, Checked
  <2> QED
    BY <2>1 DEF SerialInv, TypeOK, PCs, InitPCs
<1>2. LockInv' /\ QueueInv' /\ NoLostWakeUp' /\ UserPriorityDefined'
  BY <1>0 DEF SerialInv, TypeOK, LockInv, QueueInv, NoLostWakeUp,
              UserPriorityDefined, LockedPCs, SleepPCs
<1>3. NoIdlePermit'
  BY <1>0 DEF SerialInv, NoIdlePermit
<1>4. DisciplineInv'
  BY <1>0, DisciplineFrame DEF SerialInv, SetupPCs, BusyPCs, InitPCs
<1>5. CheckedInv'
  <2>1. Checked(t)'
    BY <1>0 DEF SerialInv, CheckedInv, Checked
  <2>2. ASSUME NEW u \in Threads \ {t} PROVE Checked(u)'
    BY <1>0 DEF SerialInv, CheckedInv, Checked
  <2> QED
    BY <2>1, <2>2 DEF CheckedInv
<1>6. StateInv'
  BY <1>0 DEF SerialInv, StateInv
<1> QED
  BY <1>1, <1>2, <1>3, <1>4, <1>5, <1>6 DEF SerialInv

LEMMA InitStateStep ==
    ASSUME SerialInv, NEW t \in Threads, InitState(t)
    PROVE  SerialInv'
<1> USE DEF InitState, Goto
<1>0. /\ pc'[t] = "init_list" /\ sid[t] \in Sems
      /\ \A u \in Threads \ {t} : pc'[u] = pc[u]
      /\ state'[sid[t]] = "ACTIVE"
      /\ \A s \in Sems \ {sid[t]} : state'[s] = state[s]
      /\ wait_list[sid[t]] = << >>
  BY DEF SerialInv, TypeOK, CheckedInv, Checked, StateInv
<1>1. TypeOK'
  BY DEF SerialInv, TypeOK, PCs, InitPCs
<1>2. LockInv' /\ QueueInv' /\ NoLostWakeUp' /\ UserPriorityDefined' /\ NoIdlePermit'
  BY <1>0 DEF SerialInv, TypeOK, LockInv, QueueInv, NoLostWakeUp, NoIdlePermit,
              UserPriorityDefined, LockedPCs, SleepPCs
<1>3. DisciplineInv'
  BY <1>0, DisciplineFrame DEF SerialInv, SetupPCs, BusyPCs, InitPCs
<1>4. CheckedInv'
  <2>1. Checked(t)'
    BY <1>0 DEF SerialInv, CheckedInv, Checked
  <2>2. ASSUME NEW u \in Threads \ {t} PROVE Checked(u)'
    <3>1. pc[u] \in BusyPCs => sid[u] # sid[t]
      BY Alone DEF SetupPCs, InitPCs
    <3> QED
      BY <1>0, <3>1 DEF SerialInv, TypeOK, CheckedInv, Checked, BusyPCs, SetupPCs,
                        InitPCs
  <2> QED
    BY <2>1, <2>2 DEF CheckedInv
<1>5. StateInv'
  BY <1>0 DEF SerialInv, StateInv
<1> QED
  BY <1>1, <1>2, <1>3, <1>4, <1>5 DEF SerialInv

LEMMA InitListStep ==
    ASSUME SerialInv, NEW t \in Threads, InitList(t)
    PROVE  SerialInv'
<1> USE DEF InitList, Return
<1>0. /\ pc'[t] = "user" /\ sid[t] \in Sems /\ arg'[t] = NoArg
      /\ \A u \in Threads \ {t} : pc'[u] = pc[u] /\ arg'[u] = arg[u]
      /\ wait_list' = wait_list
      /\ state[sid[t]] = "ACTIVE"
  <2>1. wait_list[sid[t]] = << >>
    BY DEF SerialInv, CheckedInv, Checked
  <2> QED
    BY <2>1 DEF SerialInv, TypeOK, CheckedInv, Checked
<1>1. TypeOK'
  BY DEF SerialInv, TypeOK, PCs, NoArg
<1>2. LockInv' /\ QueueInv' /\ NoIdlePermit' /\ UserPriorityDefined' /\ NoLostWakeUp'
  BY <1>0, QuietFrame DEF SerialInv, SleepPCs, LockedPCs
<1>3. DisciplineInv'
  BY <1>0, DisciplineFrame DEF SerialInv, SetupPCs, BusyPCs, InitPCs, ReleasePCs, DownPCs, UpPCs
<1>4. CheckedInv'
  <2>1. Checked(t)'
    BY <1>0, SemaphoreConstants DEF NoArg, Checked
  <2>2. ASSUME NEW u \in Threads \ {t} PROVE Checked(u)'
    BY <1>0 DEF SerialInv, CheckedInv, Checked
  <2> QED
    BY <2>1, <2>2 DEF CheckedInv
<1>5. StateInv'
  BY <1>0 DEF SerialInv, StateInv
<1> QED
  BY <1>1, <1>2, <1>3, <1>4, <1>5 DEF SerialInv

LEMMA RelStoreStep ==
    ASSUME SerialInv, NEW t \in Threads, RelStore(t)
    PROVE  SerialInv'
<1> USE DEF RelStore, Return
<1>0. /\ pc'[t] = "user" /\ sid[t] \in Sems /\ arg'[t] = NoArg
      /\ \A u \in Threads \ {t} : pc'[u] = pc[u] /\ arg'[u] = arg[u]
      /\ state'[sid[t]] = "INACTIVE"
      /\ \A s \in Sems \ {sid[t]} : state'[s] = state[s]
      /\ wait_list[sid[t]] = << >>
  BY DEF SerialInv, TypeOK, CheckedInv, Checked
<1>1. TypeOK'
  BY DEF SerialInv, TypeOK, PCs, NoArg
<1>2. LockInv' /\ QueueInv' /\ NoLostWakeUp' /\ UserPriorityDefined' /\ NoIdlePermit'
  BY <1>0 DEF SerialInv, TypeOK, LockInv, QueueInv, NoLostWakeUp, NoIdlePermit,
              UserPriorityDefined, LockedPCs, SleepPCs
<1>3. DisciplineInv'
  BY <1>0, DisciplineFrame DEF SerialInv, SetupPCs, BusyPCs, InitPCs, ReleasePCs, DownPCs, UpPCs
<1>4. CheckedInv'
  <2>1. Checked(t)'
    BY <1>0, SemaphoreConstants DEF NoArg, Checked
  <2>2. ASSUME NEW u \in Threads \ {t} PROVE Checked(u)'
    <3>1. pc[u] \in BusyPCs => sid[u] # sid[t]
      BY Alone DEF SetupPCs, ReleasePCs
    <3> QED
      BY <1>0, <3>1 DEF SerialInv, TypeOK, CheckedInv, Checked, BusyPCs, SetupPCs,
                        InitPCs, ReleasePCs, DownPCs, UpPCs
  <2> QED
    BY <2>1, <2>2 DEF CheckedInv
<1>5. StateInv'
  BY <1>0 DEF SerialInv, StateInv
<1> QED
  BY <1>1, <1>2, <1>3, <1>4, <1>5 DEF SerialInv

----------------------------------------------------------------------------
(* The spin lock.                                                          *)

LEMMA AcquireFrame ==
    ASSUME TypeOK, LockInv, NEW t \in Threads, Acquire(t), UNCHANGED sid,
           \A u \in Threads \ {t} : pc'[u] = pc[u],
           pc'[t] \in LockedPCs
    PROVE  LockInv'
<1> USE DEF Acquire
<1>0. /\ lock[sid[t]] = NoThread /\ sid[t] \in Sems
      /\ lock'[sid[t]] = t
      /\ \A s \in Sems \ {sid[t]} : lock'[s] = lock[s]
  BY DEF TypeOK
<1>1. ASSUME NEW u \in Threads, pc'[u] \in LockedPCs PROVE lock'[sid'[u]] = u
  <2>1. CASE u = t
    BY <1>0, <2>1
  <2>2. CASE u # t
    <3>1. lock[sid[u]] = u /\ sid[u] \in Sems /\ u # NoThread
      BY <1>1, <2>2, SemaphoreConstants DEF TypeOK, LockInv
    <3> QED
      BY <1>0, <3>1
  <2> QED
    BY <2>1, <2>2
<1>2. ASSUME NEW s \in Sems, lock'[s] # NoThread
      PROVE  pc'[lock'[s]] \in LockedPCs /\ sid'[lock'[s]] = s
  <2>1. CASE s = sid[t]
    BY <1>0, <2>1
  <2>2. CASE s # sid[t]
    <3>1. /\ lock'[s] = lock[s] /\ lock[s] \in Threads
          /\ pc[lock[s]] \in LockedPCs /\ sid[lock[s]] = s
      BY <1>0, <1>2, <2>2 DEF TypeOK, LockInv
    <3>2. lock[s] # t
      BY <2>2, <3>1
    <3> QED
      BY <3>1, <3>2
  <2> QED
    BY <2>1, <2>2
<1> QED
  BY <1>1, <1>2 DEF LockInv

LEMMA UnlockFrame ==
    ASSUME TypeOK, LockInv, NEW t \in Threads, Unlock(t), UNCHANGED sid,
           \A u \in Threads \ {t} : pc'[u] = pc[u],
           pc[t] \in LockedPCs, pc'[t] \notin LockedPCs
    PROVE  LockInv'
<1> USE DEF Unlock
<1>0. /\ lock[sid[t]] = t /\ sid[t] \in Sems
      /\ lock'[sid[t]] = NoThread
      /\ \A s \in Sems \ {sid[t]} : lock'[s] = lock[s]
  BY DEF TypeOK, LockInv
<1>1. ASSUME NEW u \in Threads, pc'[u] \in LockedPCs PROVE lock'[sid'[u]] = u
  <2>1. u # t /\ lock[sid[u]] = u /\ sid[u] \in Sems
    BY <1>1 DEF TypeOK, LockInv
  <2> QED
    BY <1>0, <2>1
<1>2. ASSUME NEW s \in Sems, lock'[s] # NoThread
      PROVE  pc'[lock'[s]] \in LockedPCs /\ sid'[lock'[s]] = s
  <2>1. /\ s # sid[t] /\ lock'[s] = lock[s] /\ lock[s] \in Threads
        /\ pc[lock[s]] \in LockedPCs /\ sid[lock[s]] = s
    BY <1>0, <1>2 DEF TypeOK, LockInv
  <2> QED
    BY <2>1
<1> QED
  BY <1>1, <1>2 DEF LockInv

\* While somebody else may take the lock of s, nobody on s is in "sleep".
LEMMA FreeLock ==
    ASSUME TypeOK, LockInv, NEW t \in Threads, Acquire(t)
    PROVE  \A u \in Threads : sid[u] = sid[t] => pc[u] \notin LockedPCs
BY SemaphoreConstants DEF LockInv, Acquire

----------------------------------------------------------------------------
(* mysema_down under the lock.                                             *)

LEMMA DownGrantStep ==
    ASSUME SerialInv, NEW t \in Threads, DownGrant(t)
    PROVE  SerialInv'
<1> USE DEF DownGrant
<1>0. /\ pc'[t] = "unlock" /\ sid[t] \in Sems
      /\ \A u \in Threads \ {t} : pc'[u] = pc[u]
      /\ count[sid[t]] \in 1 .. UINT_MAX /\ UINT_MAX \in Nat
      /\ count'[sid[t]] = count[sid[t]] - 1
      /\ \A s \in Sems \ {sid[t]} : count'[s] = count[s]
  BY SemaphoreConstants DEF SerialInv, TypeOK
<1>1. TypeOK'
  <2>1. count' \in [Sems -> 0 .. UINT_MAX]
    BY <1>0 DEF SerialInv, TypeOK
  <2> QED
    BY <2>1 DEF SerialInv, TypeOK, Acquire, PCs, LockedPCs
<1>2. LockInv'
  BY <1>0, AcquireFrame DEF SerialInv, LockedPCs
<1>3. QueueInv' /\ UserPriorityDefined' /\ NoLostWakeUp'
  BY <1>0 DEF SerialInv, QueueInv, UserPriorityDefined, NoLostWakeUp, SleepPCs
<1>4. NoIdlePermit'
  BY <1>0 DEF SerialInv, NoIdlePermit
<1>5. DisciplineInv'
  BY <1>0, DisciplineFrame
     DEF SerialInv, SetupPCs, BusyPCs, InitPCs, ReleasePCs, DownPCs, UpPCs
<1>6. CheckedInv'
  <2>1. Checked(t)'
    BY <1>0 DEF SerialInv, CheckedInv, Checked
  <2> QED
    BY <1>0, <2>1, CheckedFrame DEF SerialInv
<1>7. StateInv'
  BY <1>0 DEF SerialInv, StateInv
<1> QED
  BY <1>1, <1>2, <1>3, <1>4, <1>5, <1>6, <1>7 DEF SerialInv

LEMMA DownSleepStep ==
    ASSUME SerialInv, NEW t \in Threads, DownSleep(t)
    PROVE  SerialInv'
<1> USE DEF DownSleep
<1> DEFINE s == sid[t]
<1>0. /\ pc'[t] = "sleep" /\ s \in Sems
      /\ \A u \in Threads \ {t} : pc'[u] = pc[u] /\ up'[u] = up[u] /\ task'[u] = task[u]
                                  /\ prio'[u] = prio[u]
      /\ up'[t] = 0
      /\ wait_list'[s] = Append(wait_list[s], t)
      /\ \A r \in Sems \ {s} : wait_list'[r] = wait_list[r]
      /\ wait_list[s] \in Seq(Threads)
  BY DEF SerialInv, TypeOK
<1>1. t \notin Range(wait_list[s])
  BY <1>0 DEF SerialInv, QueueInv, SleepPCs
<1>2. /\ wait_list'[s] \in Seq(Threads)
      /\ Range(wait_list'[s]) = Range(wait_list[s]) \cup {t}
      /\ IsInjective(wait_list'[s])
  BY <1>0, <1>1, AppendMembers DEF SerialInv, QueueInv
<1>3. prio'[t] \in Int /\ (mode[s] = USER => prio'[t] \in 0 .. MAX_PRIORITY)
  <2>1. PICK p \in WaiterPriority(t) : prio' = [prio EXCEPT ![t] = p]
    OBVIOUS
  <2>2. prio'[t] = p
    BY <2>1 DEF SerialInv, TypeOK
  <2>3. CASE pc[t] = "uprio_lock"
    <3>1. p = Clamp(arg[t].priority) /\ arg[t].priority \in Int
      BY <2>3, <2>1 DEF WaiterPriority, SerialInv, TypeOK
    <3> QED
      BY <2>2, <3>1, SemaphoreConstants DEF Clamp
  <2>4. CASE pc[t] = "down_lock"
    <3>1. p \in Int
      BY <2>1, <2>4, SemaphoreConstants DEF WaiterPriority
    <3>2. mode[s] # USER
      BY <2>4 DEF SerialInv, CheckedInv, Checked
    <3> QED
      BY <2>2, <3>1, <3>2
  <2> QED
    BY <2>3, <2>4
<1>4. TypeOK'
  <2>1. wait_list' \in [Sems -> Seq(Threads)]
    BY <1>0, <1>2 DEF SerialInv, TypeOK
  <2>2. prio' \in [Threads -> Int]
    BY <1>3 DEF SerialInv, TypeOK
  <2> QED
    BY <2>1, <2>2 DEF SerialInv, TypeOK, Acquire, PCs, LockedPCs
<1>5. LockInv'
  BY <1>0, AcquireFrame DEF SerialInv, LockedPCs
<1>6. QueueInv'
  <2>1. ASSUME NEW r \in Sems PROVE IsInjective(wait_list'[r])
    BY <1>0, <1>2 DEF SerialInv, QueueInv
  <2>2. ASSUME NEW r \in Sems, NEW u \in Threads
        PROVE  u \in Range(wait_list'[r])
                 <=> sid'[u] = r /\ pc'[u] \in SleepPCs /\ up'[u] = 0
    <3>1. CASE u = t
      BY <1>0, <1>2, <3>1 DEF SerialInv, QueueInv, SleepPCs
    <3>2. CASE u # t
      BY <1>0, <1>2, <3>2 DEF SerialInv, QueueInv
    <3> QED
      BY <3>1, <3>2
  <2> QED
    BY <2>1, <2>2 DEF QueueInv
<1>7. NoIdlePermit' /\ NoLostWakeUp'
  BY <1>0 DEF SerialInv, NoIdlePermit, NoLostWakeUp
<1>8. UserPriorityDefined'
  <2>1. ASSUME NEW r \in Sems, mode[r] = USER, NEW u \in Range(wait_list'[r])
        PROVE  prio'[u] \in 0 .. MAX_PRIORITY
    <3>1. CASE u = t
      <4>1. r = s
        BY <1>0, <3>1, <2>1 DEF SerialInv, QueueInv, SleepPCs
      <4> QED
        BY <1>3, <2>1, <3>1, <4>1
    <3>2. CASE u # t
      <4>1. u \in Range(wait_list[r])
        <5>1. CASE r = s
          BY <1>2, <2>1, <3>2, <5>1
        <5>2. CASE r # s
          <6>1. wait_list'[r] = wait_list[r]
            BY <1>0, <5>2
          <6> QED
            BY <2>1, <6>1
        <5> QED
          BY <5>1, <5>2
      <4>2. u \in Threads
        BY <4>1, RangeOfSeq DEF SerialInv, TypeOK
      <4> QED
        BY <1>0, <2>1, <3>2, <4>1, <4>2 DEF SerialInv, UserPriorityDefined
    <3> QED
      BY <3>1, <3>2
  <2> QED
    BY <2>1 DEF UserPriorityDefined
<1>9. DisciplineInv'
  BY <1>0, DisciplineFrame
     DEF SerialInv, SetupPCs, BusyPCs, InitPCs, ReleasePCs, DownPCs, UpPCs
<1>10. CheckedInv'
  <2>1. Checked(t)'
    BY <1>0 DEF SerialInv, CheckedInv, Checked
  <2>2. ASSUME NEW u \in Threads \ {t} PROVE Checked(u)'
    <3>1. pc[u] \in SetupPCs => sid[u] # s
      BY DEF SerialInv, DisciplineInv, BusyPCs, DownPCs
    <3> QED
      BY <1>0, <3>1
         DEF SerialInv, TypeOK, CheckedInv, Checked, SetupPCs, InitPCs, ReleasePCs
  <2> QED
    BY <2>1, <2>2 DEF CheckedInv
<1>11. StateInv'
  <2>1. state[s] = "ACTIVE"
    BY <1>0 DEF SerialInv, TypeOK, StateInv, CheckedInv, Checked
  <2> QED
    BY <1>0, <2>1 DEF SerialInv, StateInv
<1> QED
  BY <1>4, <1>5, <1>6, <1>7, <1>8, <1>9, <1>10, <1>11 DEF SerialInv

\* A task that died with the lock held: DownOops and UpOops.
LEMMA OopsStep ==
    ASSUME SerialInv, NEW t \in Threads, DownOops(t) \/ UpOops(t)
    PROVE  SerialInv'
<1> USE DEF DownOops, UpOops, Goto
<1>0. /\ Acquire(t) /\ pc'[t] = "oops" /\ pc[t] \in {"down_lock", "uprio_lock", "up_lock"}
      /\ \A u \in Threads \ {t} : pc'[u] = pc[u]
      /\ UNCHANGED <<state, mode, count, wait_list, listed, sid, arg, up, prio, task, ret>>
  BY DEF SerialInv, TypeOK
<1>1. TypeOK'
  BY <1>0 DEF SerialInv, TypeOK, Acquire, PCs, LockedPCs
<1>2. LockInv'
  BY <1>0, AcquireFrame DEF SerialInv, LockedPCs
<1>3. QueueInv' /\ UserPriorityDefined' /\ NoLostWakeUp' /\ NoIdlePermit'
  BY <1>0 DEF SerialInv, QueueInv, UserPriorityDefined, NoLostWakeUp,
              NoIdlePermit, SleepPCs
<1>4. DisciplineInv'
  BY <1>0, DisciplineFrame
     DEF SerialInv, SetupPCs, BusyPCs, InitPCs, ReleasePCs, DownPCs, UpPCs
<1>5. CheckedInv'
  <2>1. Checked(t)'
    BY <1>0 DEF SerialInv, CheckedInv, Checked
  <2> QED
    BY <1>0, <2>1, CheckedFrame DEF SerialInv
<1>6. StateInv'
  BY <1>0, StateFrame DEF SerialInv
<1> QED
  BY <1>1, <1>2, <1>3, <1>4, <1>5, <1>6 DEF SerialInv

----------------------------------------------------------------------------
(* The for(;;) of a down.                                                  *)

LEMMA SleepUnlockStep ==
    ASSUME SerialInv, NEW t \in Threads, SleepUnlock(t)
    PROVE  SerialInv'
<1> USE DEF SleepUnlock, Goto
<1>0. /\ pc'[t] = "schedule" /\ up[t] = 0
      /\ \A u \in Threads \ {t} : pc'[u] = pc[u]
  BY DEF SerialInv, TypeOK, CheckedInv, Checked
<1>1. TypeOK'
  BY DEF SerialInv, TypeOK, Unlock, PCs, SleepPCs
<1>2. LockInv'
  BY <1>0, UnlockFrame DEF SerialInv, LockedPCs
<1>3. QueueInv' /\ UserPriorityDefined' /\ NoLostWakeUp' /\ NoIdlePermit'
  BY <1>0 DEF Unlock, SerialInv, QueueInv, UserPriorityDefined, NoLostWakeUp,
              NoIdlePermit, SleepPCs
<1>4. DisciplineInv'
  BY <1>0, DisciplineFrame
     DEF SerialInv, SetupPCs, BusyPCs, InitPCs, ReleasePCs, DownPCs, UpPCs
<1>5. CheckedInv'
  <2>1. Checked(t)'
    BY <1>0 DEF SerialInv, CheckedInv, Checked
  <2> QED
    BY <1>0, <2>1, CheckedFrame DEF SerialInv, Unlock
<1>6. StateInv'
  BY <1>0, StateFrame DEF SerialInv, Unlock
<1> QED
  BY <1>1, <1>2, <1>3, <1>4, <1>5, <1>6 DEF SerialInv

LEMMA ScheduleStep ==
    ASSUME SerialInv, NEW t \in Threads, Schedule(t)
    PROVE  SerialInv'
<1> USE DEF Schedule, Goto, semVars
<1>0. /\ pc'[t] = "relock"
      /\ \A u \in Threads \ {t} : pc'[u] = pc[u]
  BY DEF SerialInv, TypeOK
<1>1. TypeOK'
  BY DEF SerialInv, TypeOK, PCs, SleepPCs
<1>2. LockInv'
  BY <1>0, LockFrame DEF SerialInv, LockedPCs
<1>3. QueueInv' /\ UserPriorityDefined' /\ NoLostWakeUp' /\ NoIdlePermit'
  BY <1>0 DEF SerialInv, QueueInv, UserPriorityDefined, NoLostWakeUp,
              NoIdlePermit, SleepPCs
<1>4. DisciplineInv'
  BY <1>0, DisciplineFrame
     DEF SerialInv, SetupPCs, BusyPCs, InitPCs, ReleasePCs, DownPCs, UpPCs
<1>5. CheckedInv'
  <2>1. Checked(t)'
    BY <1>0 DEF SerialInv, CheckedInv, Checked
  <2> QED
    BY <1>0, <2>1, CheckedFrame DEF SerialInv
<1>6. StateInv'
  BY <1>0, StateFrame DEF SerialInv
<1> QED
  BY <1>1, <1>2, <1>3, <1>4, <1>5, <1>6 DEF SerialInv

LEMMA RelockStep ==
    ASSUME SerialInv, NEW t \in Threads, RelockWoken(t) \/ RelockStray(t)
    PROVE  SerialInv'
<1> USE DEF RelockWoken, RelockStray
<1>0. /\ Acquire(t) /\ pc[t] = "relock"
      /\ \/ pc'[t] = "unlock" /\ up[t] = 1
         \/ pc'[t] = "sleep" /\ up[t] = 0
      /\ \A u \in Threads \ {t} : pc'[u] = pc[u] /\ task'[u] = task[u]
      /\ UNCHANGED <<state, mode, count, wait_list, listed, sid, arg, up, prio>>
  BY DEF SerialInv, TypeOK
<1>1. TypeOK'
  <2>1. CASE RelockWoken(t)
    BY <2>1 DEF SerialInv, TypeOK, Acquire, PCs, LockedPCs
  <2>2. CASE RelockStray(t)
    BY <2>2 DEF SerialInv, TypeOK, Acquire, PCs, LockedPCs
  <2> QED
    BY <2>1, <2>2
<1>2. LockInv'
  BY <1>0, AcquireFrame DEF SerialInv, LockedPCs
<1>3. QueueInv' /\ UserPriorityDefined' /\ NoLostWakeUp' /\ NoIdlePermit'
  BY <1>0 DEF SerialInv, QueueInv, UserPriorityDefined, NoLostWakeUp,
              NoIdlePermit, SleepPCs
<1>4. DisciplineInv'
  BY <1>0, DisciplineFrame
     DEF SerialInv, SetupPCs, BusyPCs, InitPCs, ReleasePCs, DownPCs, UpPCs
<1>5. CheckedInv'
  <2>1. Checked(t)'
    BY <1>0 DEF SerialInv, CheckedInv, Checked
  <2> QED
    BY <1>0, <2>1, CheckedFrame DEF SerialInv
<1>6. StateInv'
  BY <1>0, StateFrame DEF SerialInv
<1> QED
  BY <1>1, <1>2, <1>3, <1>4, <1>5, <1>6 DEF SerialInv

LEMMA UnlockReturnStep ==
    ASSUME SerialInv, NEW t \in Threads, UnlockReturn(t)
    PROVE  SerialInv'
<1> USE DEF UnlockReturn
<1>0. /\ pc'[t] = "user" /\ arg'[t] = NoArg /\ prio'[t] = 0
      /\ \A u \in Threads \ {t} : /\ pc'[u] = pc[u] /\ up'[u] = up[u]
                                  /\ arg'[u] = arg[u] /\ prio'[u] = prio[u]
      /\ UNCHANGED <<state, mode, count, wait_list, listed, sid, task>>
  BY DEF SerialInv, TypeOK, Unlock
<1>1. TypeOK'
  BY DEF SerialInv, TypeOK, Unlock, PCs, NoArg
<1>2. LockInv'
  BY <1>0, UnlockFrame DEF SerialInv, LockedPCs
<1>3. QueueInv' /\ NoLostWakeUp' /\ NoIdlePermit'
  BY <1>0 DEF SerialInv, QueueInv, NoLostWakeUp, NoIdlePermit, SleepPCs
<1>4. UserPriorityDefined'
  <2>1. \A r \in Sems : Range(wait_list[r]) \subseteq Threads
    BY RangeOfSeq DEF SerialInv, TypeOK
  <2> QED
    BY <1>0, <2>1, SemaphoreConstants DEF SerialInv, UserPriorityDefined
<1>5. DisciplineInv'
  BY <1>0, DisciplineFrame
     DEF SerialInv, SetupPCs, BusyPCs, InitPCs, ReleasePCs, DownPCs, UpPCs
<1>6. CheckedInv'
  <2>1. Checked(t)'
    BY <1>0, SemaphoreConstants DEF Checked, NoArg
  <2> QED
    BY <1>0, <2>1, CheckedFrame DEF SerialInv
<1>7. StateInv'
  BY <1>0, StateFrame DEF SerialInv
<1> QED
  BY <1>1, <1>2, <1>3, <1>4, <1>5, <1>6, <1>7 DEF SerialInv

\* wake_up_process by somebody else.
LEMMA StrayWakeUpStep ==
    ASSUME SerialInv, NEW t \in Threads, StrayWakeUp(t)
    PROVE  SerialInv'
BY DEF StrayWakeUp, semVars, SerialInv, TypeOK, LockInv, QueueInv, NoIdlePermit,
       UserPriorityDefined, NoLostWakeUp, DisciplineInv, CheckedInv, Checked, StateInv

----------------------------------------------------------------------------
(* mysema_up under the lock.                                               *)

LEMMA UpCountStep ==
    ASSUME SerialInv, NEW t \in Threads, UpCount(t)
    PROVE  SerialInv'
<1> USE DEF UpCount
<1>0. /\ pc'[t] = "unlock" /\ sid[t] \in Sems
      /\ \A u \in Threads \ {t} : pc'[u] = pc[u]
      /\ \A s \in Sems \ {sid[t]} : count'[s] = count[s]
      /\ state[sid[t]] # "ZERO"
  BY DEF SerialInv, TypeOK, StateInv
<1>1. TypeOK'
  <2>1. Increment(count[sid[t]]) \in 0 .. UINT_MAX
    BY <1>0, SemaphoreConstants DEF SerialInv, TypeOK, Increment
  <2>2. count' \in [Sems -> 0 .. UINT_MAX]
    BY <2>1 DEF SerialInv, TypeOK
  <2> QED
    BY <2>2 DEF SerialInv, TypeOK, Acquire, PCs, LockedPCs
<1>2. LockInv'
  BY <1>0, AcquireFrame DEF SerialInv, LockedPCs
<1>3. QueueInv' /\ UserPriorityDefined' /\ NoLostWakeUp'
  BY <1>0 DEF SerialInv, QueueInv, UserPriorityDefined, NoLostWakeUp, SleepPCs
<1>4. NoIdlePermit'
  BY <1>0 DEF SerialInv, NoIdlePermit
<1>5. DisciplineInv'
  BY <1>0, DisciplineFrame
     DEF SerialInv, SetupPCs, BusyPCs, InitPCs, ReleasePCs, DownPCs, UpPCs
<1>6. CheckedInv'
  <2>1. Checked(t)'
    BY <1>0 DEF SerialInv, CheckedInv, Checked
  <2> QED
    BY <1>0, <2>1, CheckedFrame DEF SerialInv
<1>7. StateInv'
  BY <1>0 DEF SerialInv, StateInv
<1> QED
  BY <1>1, <1>2, <1>3, <1>4, <1>5, <1>6, <1>7 DEF SerialInv

LEMMA UpInvalidModeStep ==
    ASSUME SerialInv, NEW t \in Threads, UpInvalidMode(t)
    PROVE  SerialInv'
<1> USE DEF UpInvalidMode
<1>0. /\ pc'[t] = "unlock"
      /\ \A u \in Threads \ {t} : pc'[u] = pc[u]
  BY DEF SerialInv, TypeOK
<1>1. TypeOK'
  BY DEF SerialInv, TypeOK, Acquire, PCs, LockedPCs
<1>2. LockInv'
  BY <1>0, AcquireFrame DEF SerialInv, LockedPCs
<1>3. QueueInv' /\ UserPriorityDefined' /\ NoLostWakeUp' /\ NoIdlePermit'
  BY <1>0 DEF SerialInv, QueueInv, UserPriorityDefined, NoLostWakeUp,
              NoIdlePermit, SleepPCs
<1>4. DisciplineInv'
  BY <1>0, DisciplineFrame
     DEF SerialInv, SetupPCs, BusyPCs, InitPCs, ReleasePCs, DownPCs, UpPCs
<1>5. CheckedInv'
  <2>1. Checked(t)'
    BY <1>0 DEF SerialInv, CheckedInv, Checked
  <2> QED
    BY <1>0, <2>1, CheckedFrame DEF SerialInv
<1>6. StateInv'
  BY <1>0, StateFrame DEF SerialInv
<1> QED
  BY <1>1, <1>2, <1>3, <1>4, <1>5, <1>6 DEF SerialInv

LEMMA UpWakeStep ==
    ASSUME SerialInv, NEW t \in Threads, UpWake(t)
    PROVE  SerialInv'
<1> USE DEF UpWake
<1> DEFINE s == sid[t]
<1>0. s \in Sems /\ wait_list[s] \in Seq(Threads) /\ wait_list[s] # << >>
  BY DEF SerialInv, TypeOK
<1>1. PICK q \in Sorted(s) :
         /\ wait_list' = [wait_list EXCEPT ![s] = Tail(q)]
         /\ up' = [up EXCEPT ![Head(q)] = 1]
         /\ task' = [task EXCEPT ![Head(q)] = "RUNNING"]
  OBVIOUS
<1> DEFINE h == Head(q)
<1>2. /\ q \in Seq(Threads) /\ q # << >> /\ IsInjective(q)
      /\ Range(q) = Range(wait_list[s])
  BY <1>0, SortedMembers DEF SerialInv, QueueInv
<1>3. /\ h \in Range(wait_list[s]) /\ h \in Threads
      /\ Tail(q) \in Seq(Threads)
      /\ Range(Tail(q)) = Range(wait_list[s]) \ {h}
      /\ IsInjective(Tail(q))
  BY <1>2, TailMembers
<1> HIDE DEF h
<1>4. /\ wait_list'[s] = Tail(q)
      /\ \A r \in Sems \ {s} : wait_list'[r] = wait_list[r]
      /\ up'[h] = 1 /\ \A u \in Threads \ {h} : up'[u] = up[u]
      /\ task'[h] = "RUNNING" /\ \A u \in Threads \ {h} : task'[u] = task[u]
      /\ pc'[t] = "unlock" /\ \A u \in Threads \ {t} : pc'[u] = pc[u]
  BY <1>0, <1>1, <1>3 DEF SerialInv, TypeOK, h
<1>5. sid[h] = s /\ pc[h] \in {"schedule", "relock"} /\ h # t
  <2>1. sid[h] = s /\ pc[h] \in SleepPCs
    BY <1>0, <1>3 DEF SerialInv, QueueInv
  <2>2. pc[h] \notin LockedPCs
    BY <1>3, <2>1, FreeLock DEF SerialInv
  <2> QED
    BY <2>1, <2>2 DEF SleepPCs, LockedPCs
<1>6. TypeOK'
  <2>1. wait_list' \in [Sems -> Seq(Threads)]
    BY <1>1, <1>3 DEF SerialInv, TypeOK
  <2>2. up' \in [Threads -> {0, 1}] /\ task' \in [Threads -> {"RUNNING", "UNINTERRUPTIBLE"}]
    BY <1>1, <1>3 DEF SerialInv, TypeOK
  <2> QED
    BY <2>1, <2>2 DEF SerialInv, TypeOK, Acquire, PCs, LockedPCs
<1>7. LockInv'
  BY <1>4, AcquireFrame DEF SerialInv, LockedPCs
<1>8. QueueInv'
  <2>1. ASSUME NEW r \in Sems PROVE IsInjective(wait_list'[r])
    <3>1. CASE r = s
      BY <1>3, <1>4, <3>1
    <3>2. CASE r # s
      <4>1. wait_list'[r] = wait_list[r]
        BY <1>4, <3>2
      <4> QED
        BY <4>1 DEF SerialInv, QueueInv
    <3> QED
      BY <3>1, <3>2
  <2>2. ASSUME NEW r \in Sems, NEW u \in Threads
        PROVE  u \in Range(wait_list'[r])
                 <=> sid'[u] = r /\ pc'[u] \in SleepPCs /\ up'[u] = 0
    <3>1. CASE r = s
      <4>1. u \in Range(wait_list'[r]) <=> u \in Range(wait_list[s]) /\ u # h
        BY <1>3, <1>4, <3>1
      <4>2. u \in Range(wait_list[s]) <=> sid[u] = s /\ pc[u] \in SleepPCs /\ up[u] = 0
        BY <1>0 DEF SerialInv, QueueInv
      <4>3. pc[t] \notin SleepPCs /\ pc'[t] \notin SleepPCs
        BY <1>4 DEF SleepPCs
      <4> QED
        BY <1>4, <3>1, <4>1, <4>2, <4>3
    <3>2. CASE r # s
      BY <1>0, <1>3, <1>4, <1>5, <3>2 DEF SerialInv, QueueInv, SleepPCs
    <3> QED
      BY <3>1, <3>2
  <2> QED
    BY <2>1, <2>2 DEF QueueInv
<1>9. NoIdlePermit'
  BY <1>0, <1>4 DEF SerialInv, TypeOK, NoIdlePermit
<1>10. UserPriorityDefined'
  <2>1. ASSUME NEW r \in Sems PROVE Range(wait_list'[r]) \subseteq Range(wait_list[r])
    <3>1. CASE r = s
      BY <1>3, <1>4, <3>1
    <3>2. CASE r # s
      <4>1. wait_list'[r] = wait_list[r]
        BY <1>4, <3>2
      <4> QED
        BY <4>1
    <3> QED
      BY <3>1, <3>2
  <2> QED
    BY <2>1 DEF SerialInv, UserPriorityDefined
<1>11. NoLostWakeUp'
  BY <1>4 DEF SerialInv, NoLostWakeUp
<1>12. DisciplineInv'
  BY <1>4, DisciplineFrame
     DEF SerialInv, SetupPCs, BusyPCs, InitPCs, ReleasePCs, DownPCs, UpPCs
<1>13. CheckedInv'
  <2>1. ASSUME NEW u \in Threads PROVE Checked(u)'
    <3>1. wait_list[sid[u]] = << >> => sid[u] # s
      BY <1>0
    <3>2. sid[u] \in Sems
      BY DEF SerialInv, TypeOK
    <3>3. CASE u = t
      BY <1>4, <3>3 DEF SerialInv, CheckedInv, Checked
    <3>4. CASE u = h
      BY <1>4, <1>5, <3>4 DEF SerialInv, CheckedInv, Checked
    <3>5. CASE u # t /\ u # h
      BY <1>4, <3>1, <3>2, <3>5 DEF SerialInv, CheckedInv, Checked
    <3> QED
      BY <3>3, <3>4, <3>5
  <2> QED
    BY <2>1 DEF CheckedInv
<1>14. StateInv'
  <2>1. state[s] = "ACTIVE"
    BY <1>0 DEF SerialInv, StateInv
  <2> QED
    BY <1>4, <2>1 DEF SerialInv, StateInv
<1> QED
  BY <1>6, <1>7, <1>8, <1>9, <1>10, <1>11, <1>12, <1>13, <1>14 DEF SerialInv

----------------------------------------------------------------------------
\* Every step of SerialSpec keeps SerialInv.
LEMMA SerialStep == SerialInv /\ [SerialNext]_vars => SerialInv'
<1>1. SUFFICES ASSUME SerialInv, [SerialNext]_vars
               PROVE  SerialInv'
  OBVIOUS
<1>2. CASE UNCHANGED vars
  BY <1>1, <1>2
     DEF vars, semVars, threadVars, SerialInv, TypeOK, LockInv, QueueInv,
         NoIdlePermit, UserPriorityDefined, NoLostWakeUp, DisciplineInv,
         CheckedInv, Checked, StateInv
<1>3. CASE SerialNext
  <2>1. PICK t \in Threads : SerialCall(t) \/ KernelStep(t) \/ StrayWakeUp(t)
    BY <1>3 DEF SerialNext
  <2>2. CASE InitStep(t)
    BY <1>1, <2>2, RefusedStep, CheckMoves, InitModeStep, InitCountStep,
       InitStateStep, InitListStep DEF InitStep
  <2>3. CASE CheckStep(t)
    BY <1>1, <2>3, RefusedStep, CheckMoves DEF CheckStep
  <2>4. CASE DownStep(t)
    BY <1>1, <2>4, DownGrantStep, DownSleepStep, OopsStep DEF DownStep
  <2>5. CASE SleepStep(t)
    BY <1>1, <2>5, SleepUnlockStep, ScheduleStep, RelockStep, UnlockReturnStep
       DEF SleepStep
  <2>6. CASE UpStep(t)
    BY <1>1, <2>6, UpCountStep, UpWakeStep, UpInvalidModeStep, OopsStep DEF UpStep
  <2>7. CASE RelStep(t)
    BY <1>1, <2>7, RefusedStep, CheckMoves, RelStoreStep DEF RelStep
  <2> QED
    BY <1>1, <2>1, <2>2, <2>3, <2>4, <2>5, <2>6, <2>7, CallStep, StrayWakeUpStep
       DEF KernelStep
<1> QED
  BY <1>1, <1>2, <1>3

\* A behaviour of SerialSpec without its history of arrivals.
LEMMA SerialSafety == SerialSpec => Init /\ [][SerialNext]_vars
<1>1. [SerialNext /\ Arrivals]_<<vars, older>> => [SerialNext]_vars
  OBVIOUS
<1> QED
  BY <1>1, PTL DEF SerialSpec, SerialInit

\* SerialInv, and with it type correctness, the single holder of the spin
\* lock and the rest of its parts, holds in every state of SerialSpec.
THEOREM SerialInvariant == SerialSpec => []SerialInv
BY SerialSafety, InitSerial, SerialStep, PTL

\* Every sleeper is on the list of its semaphore, once, until an up picked
\* it: no thread is ever out of reach of mysema_up.
THEOREM SleepersAreQueued == SerialSpec => []QueueInv
<1>1. SerialInv => QueueInv
  BY DEF SerialInv
<1> QED
  BY SerialInvariant, <1>1, PTL

\* A semaphore with a permit left has nobody waiting for it.
THEOREM PermitsAreNotIdle == SerialSpec => []NoIdlePermit
<1>1. SerialInv => NoIdlePermit
  BY DEF SerialInv
<1> QED
  BY SerialInvariant, <1>1, PTL

\* The thread an up has picked is runnable when it schedules.
THEOREM WakeUpsAreNotLost == SerialSpec => []NoLostWakeUp
<1>1. SerialInv => NoLostWakeUp
  BY DEF SerialInv
<1> QED
  BY SerialInvariant, <1>1, PTL

\* The uninitialised priority of a plain down is never compared.
THEOREM PrioritiesAreDefined == SerialSpec => []UserPriorityDefined
<1>1. SerialInv => UserPriorityDefined
  BY DEF SerialInv
<1> QED
  BY SerialInvariant, <1>1, PTL

\* Where an oops comes from.
LEMMA OopsSource ==
    ASSUME TypeOK, NEW t \in Threads, SerialNext, pc'[t] = "oops", pc[t] # "oops"
    PROVE  DownOops(t) \/ UpOops(t)
<1>1. PICK u \in Threads : SerialCall(u) \/ KernelStep(u) \/ StrayWakeUp(u)
  BY DEF SerialNext
<1>2. ASSUME NEW x, pc' = [pc EXCEPT ![u] = x] PROVE x = "oops" /\ u = t
  BY <1>2 DEF TypeOK
<1>3. pc' # pc
  OBVIOUS
<1>4. ~SerialCall(u) /\ ~StrayWakeUp(u)
  BY <1>2, <1>3
     DEF SerialCall, StrayWakeUp, SetupCall, SyncCall, InvalidId, Enter,
         sys_mysema_init, sys_mysema_release, sys_mysema_down,
         sys_mysema_down_userprio, sys_mysema_up
<1>5. ~InitStep(u) /\ ~RelStep(u)
  BY <1>2 DEF InitStep, InitRefused, InitAccepted, InitMode, InitCount, InitState,
              InitList, RelStep, RelState, RelRefused, RelList, RelStore, Goto, Return
<1>6. ~CheckStep(u)
  BY <1>2 DEF CheckStep, Inactive, DownState, DownMode, UprioState, UprioMode,
              UpState, Goto, Return
<1>7. ~SleepStep(u)
  BY <1>2 DEF SleepStep, SleepUnlock, Schedule, RelockWoken, RelockStray,
              UnlockReturn, Goto
<1>8. CASE DownStep(u)
  BY <1>2, <1>8 DEF DownStep, DownGrant, DownSleep, DownOops, Goto
<1>9. CASE UpStep(u)
  BY <1>2, <1>9 DEF UpStep, UpCount, UpWake, UpInvalidMode, UpOops, Goto
<1> QED
  BY <1>1, <1>4, <1>5, <1>6, <1>7, <1>8, <1>9 DEF KernelStep

\* Only a semaphore that never went through mysema_init makes a call oops.
THEOREM OopsNeedsZeroState == SerialSpec => OopsOnlyUninitialised
<1>1. ASSUME SerialInv, SerialNext, NEW t \in Threads, pc'[t] = "oops", pc[t] # "oops"
      PROVE  state[sid[t]] = "ZERO"
  <2>1. /\ pc[t] \in {"down_lock", "uprio_lock", "up_lock"}
        /\ sid[t] \notin listed
    BY <1>1, OopsSource DEF SerialInv, DownOops, UpOops
  <2>2. /\ state[sid[t]] \in {"ZERO", "ACTIVE", "INACTIVE"} /\ sid[t] \in Sems
        /\ state[sid[t]] # "INACTIVE"
    BY <1>1, <2>1 DEF SerialInv, TypeOK, CheckedInv, Checked
  <2>3. state[sid[t]] # "ACTIVE"
    <3>1. SUFFICES ASSUME state[sid[t]] = "ACTIVE" PROVE FALSE
      OBVIOUS
    <3>2. PICK u \in Threads : pc[u] = "init_list" /\ sid[u] = sid[t]
      BY <1>1, <2>1, <2>2, <3>1 DEF SerialInv, StateInv
    <3> QED
      BY <1>1, <2>1, <3>2
         DEF SerialInv, DisciplineInv, BusyPCs, SetupPCs, InitPCs, DownPCs, UpPCs
  <2> QED
    BY <2>2, <2>3
<1>2. SerialInv /\ [SerialNext]_vars =>
        [\A t \in Threads :
           pc'[t] = "oops" /\ pc[t] # "oops" => state[sid[t]] = "ZERO"]_vars
  BY <1>1
<1> QED
  BY SerialSafety, SerialInvariant, <1>2, PTL DEF OopsOnlyUninitialised

----------------------------------------------------------------------------
(* The steps that programs can tell: all the others leave the state, the   *)
(* count and the wait list of every semaphore as they are.                 *)

\* The steps that store to a semaphore.
StoreStep(t) == \/ InitCount(t) \/ InitState(t) \/ InitList(t) \/ RelStore(t)
                \/ DownGrant(t) \/ DownSleep(t) \/ UpCount(t) \/ UpWake(t)

\* Every step is one of those, or stores nothing.
LEMMA StoreSteps ==
    ASSUME [SerialNext]_vars
    PROVE  UNCHANGED <<state, count, wait_list>> \/ \E t \in Threads : StoreStep(t)
<1>1. CASE UNCHANGED vars
  BY <1>1 DEF vars, semVars
<1>2. CASE SerialNext
  <2>1. PICK t \in Threads : SerialCall(t) \/ KernelStep(t) \/ StrayWakeUp(t)
    BY <1>2 DEF SerialNext
  <2>2. CASE SerialCall(t) \/ StrayWakeUp(t)
    BY <2>2 DEF SerialCall, StrayWakeUp, SetupCall, SyncCall, InvalidId, Enter, semVars,
                sys_mysema_init, sys_mysema_release, sys_mysema_down,
                sys_mysema_down_userprio, sys_mysema_up
  <2>3. CASE InitStep(t) \/ RelStep(t)
    BY <2>3 DEF InitStep, InitRefused, InitAccepted, InitMode, RelStep, RelState, RelRefused,
                RelList, semVars, StoreStep
  <2>4. CASE CheckStep(t)
    BY <2>4 DEF CheckStep, Inactive, DownState, DownMode, UprioState, UprioMode, UpState, semVars
  <2>5. CASE SleepStep(t)
    BY <2>5 DEF SleepStep, SleepUnlock, Schedule, RelockWoken, RelockStray, UnlockReturn,
                Unlock, semVars
  <2>6. CASE DownStep(t) \/ UpStep(t)
    BY <2>6 DEF DownStep, DownOops, UpStep, UpInvalidMode, UpOops, StoreStep
  <2> QED
    BY <2>1, <2>2, <2>3, <2>4, <2>5, <2>6 DEF KernelStep
<1> QED
  BY <1>1, <1>2

\* A call that reached the lock, and finds a permit, a waiter or a list
\* there, is on a semaphore that mysema_init has made.
LEMMA LockedIsActive ==
    ASSUME SerialInv, NEW t \in Threads, NEW s \in Sems, s = sid[t],
           pc[t] \in {"down_lock", "uprio_lock", "up_lock", "rel_store"},
           count[s] > 0 \/ s \in listed
    PROVE  state[s] = "ACTIVE"
<1>1. state[s] \in {"ZERO", "ACTIVE", "INACTIVE"} /\ state[s] # "INACTIVE"
  BY DEF SerialInv, TypeOK, CheckedInv, Checked
<1>2. SUFFICES ASSUME state[s] = "ZERO" PROVE FALSE
  BY <1>1
<1>3. PICK u \in Threads : pc[u] = "init_state" /\ sid[u] = s
  BY <1>2 DEF SerialInv, StateInv
<1> QED
  BY <1>3 DEF SerialInv, DisciplineInv, BusyPCs, SetupPCs, InitPCs, ReleasePCs, DownPCs, UpPCs

\* Nothing is seen of a step that keeps state, count and members of the list.
LEMMA AbstractStutter ==
    ASSUME UNCHANGED <<state, count>>,
           \A s \in Sems : Range(wait_list'[s]) = Range(wait_list[s])
    PROVE  UNCHANGED <<Active, Permits, BlockedOn>>
<1>1. Active' = Active
  BY DEF Active
<1>2. Permits' = Permits
  BY <1>1 DEF Permits
<1>3. BlockedOn' = BlockedOn
  BY DEF BlockedOn
<1> QED
  BY <1>1, <1>2, <1>3

\* mysema_init: the store to the count is not seen, the store to the state
\* creates the semaphore, and the list was empty already.
LEMMA InitAbstract ==
    ASSUME SerialInv, NEW t \in Threads, InitCount(t) \/ InitState(t) \/ InitList(t)
    PROVE  CS!Next \/ UNCHANGED <<Active, Permits, BlockedOn>>
<1>1. PICK s \in Sems : s = sid[t]
  BY DEF SerialInv, TypeOK
<1>2. CASE InitCount(t)
  <2>1. state[s] # "ACTIVE" /\ state' = state /\ wait_list' = wait_list
        /\ \A r \in Sems : r # s => count'[r] = count[r]
    BY <1>1, <1>2 DEF InitCount, SerialInv, CheckedInv, Checked, TypeOK
  <2>2. Active' = Active
    BY <2>1 DEF Active
  <2>3. Permits' = Permits
    BY <2>1, <2>2 DEF Permits, Active
  <2>4. BlockedOn' = BlockedOn
    BY <2>1 DEF BlockedOn
  <2> QED
    BY <2>2, <2>3, <2>4
<1>3. CASE InitState(t)
  <2>1. /\ state[s] # "ACTIVE" /\ state' = [state EXCEPT ![s] = "ACTIVE"]
        /\ count' = count /\ wait_list' = wait_list /\ count[s] \in 0 .. UINT_MAX
    BY <1>1, <1>3 DEF InitState, SerialInv, CheckedInv, Checked, TypeOK
  <2>2. state'[s] = "ACTIVE" /\ \A r \in Sems : r # s => state'[r] = state[r]
    BY <2>1 DEF SerialInv, TypeOK
  <2>3. s \notin Active /\ Active' = Active \cup {s}
    BY <2>1, <2>2 DEF Active
  <2>4. Permits' = [Permits EXCEPT ![s] = count[s]]
    BY <2>1, <2>2, <2>3 DEF Permits, Active
  <2>5. BlockedOn' = BlockedOn
    BY <2>1 DEF BlockedOn
  <2>6. CS!Create(s)
    BY <2>1, <2>3, <2>4, <2>5 DEF CS!Create
  <2> QED
    BY <2>6 DEF CS!Next
<1>4. CASE InitList(t)
  <2>1. /\ state' = state /\ count' = count /\ wait_list[s] = << >>
        /\ wait_list' = [wait_list EXCEPT ![s] = << >>]
    BY <1>1, <1>4 DEF InitList, SerialInv, CheckedInv, Checked
  <2>2. \A r \in Sems : wait_list'[r] = wait_list[r]
    BY <2>1 DEF SerialInv, TypeOK
  <2> QED
    BY <2>1, <2>2, AbstractStutter
<1> QED
  BY <1>2, <1>3, <1>4

\* mysema_release destroys a semaphore that nobody waits for.
LEMMA ReleaseAbstract ==
    ASSUME SerialInv, NEW t \in Threads, RelStore(t)
    PROVE  CS!Next
<1>1. PICK s \in Sems : s = sid[t]
  BY DEF SerialInv, TypeOK
<1>2. /\ state' = [state EXCEPT ![s] = "INACTIVE"] /\ count' = count /\ wait_list' = wait_list
      /\ wait_list[s] = << >> /\ s \in listed /\ pc[t] = "rel_store"
  BY <1>1 DEF RelStore, SerialInv, CheckedInv, Checked
<1>3. state[s] = "ACTIVE"
  BY <1>1, <1>2, LockedIsActive
<1>4. state'[s] = "INACTIVE" /\ \A r \in Sems : r # s => state'[r] = state[r]
  BY <1>2 DEF SerialInv, TypeOK
<1>5. s \in Active /\ Active' = Active \ {s}
  BY <1>3, <1>4 DEF Active
<1>6. Permits' = [Permits EXCEPT ![s] = 0]
  BY <1>2, <1>4, <1>5 DEF Permits, Active
<1>7. BlockedOn' = BlockedOn /\ BlockedOn[s] = {}
  BY <1>2 DEF BlockedOn, Range
<1>8. CS!Destroy(s)
  BY <1>5, <1>6, <1>7 DEF CS!Destroy
<1> QED
  BY <1>8 DEF CS!Next

\* A granted down takes a permit.
LEMMA GrantAbstract ==
    ASSUME SerialInv, NEW t \in Threads, DownGrant(t)
    PROVE  CS!Next
<1>1. PICK s \in Sems : s = sid[t]
  BY DEF SerialInv, TypeOK
<1>2. /\ count' = [count EXCEPT ![s] = count[s] - 1] /\ count[s] > 0 /\ count[s] \in Nat
      /\ state' = state /\ wait_list' = wait_list /\ pc[t] \in {"down_lock", "uprio_lock"}
  BY <1>1 DEF DownGrant, SerialInv, TypeOK
<1>3. state[s] = "ACTIVE"
  BY <1>1, <1>2, LockedIsActive
<1>4. count'[s] = count[s] - 1 /\ \A r \in Sems : r # s => count'[r] = count[r]
  BY <1>2 DEF SerialInv, TypeOK
<1>5. s \in Active /\ Active' = Active
  BY <1>2, <1>3 DEF Active
<1>6. Permits[s] = count[s] /\ Permits' = [Permits EXCEPT ![s] = count[s] - 1]
  BY <1>4, <1>5 DEF Permits
<1>7. BlockedOn' = BlockedOn
  BY <1>2 DEF BlockedOn
<1>8. CS!Take(s)
  BY <1>2, <1>5, <1>6, <1>7 DEF CS!Take
<1> QED
  BY <1>8 DEF CS!Next

\* A down that finds no permit blocks its thread.
LEMMA SleepAbstract ==
    ASSUME SerialInv, NEW t \in Threads, DownSleep(t)
    PROVE  CS!Next
<1>1. PICK s \in Sems : s = sid[t]
  BY DEF SerialInv, TypeOK
<1>2. /\ wait_list' = [wait_list EXCEPT ![s] = Append(wait_list[s], t)]
      /\ count[s] = 0 /\ s \in listed /\ wait_list[s] \in Seq(Threads)
      /\ state' = state /\ count' = count /\ pc[t] \in {"down_lock", "uprio_lock"}
  BY <1>1 DEF DownSleep, SerialInv, TypeOK
<1>3. state[s] = "ACTIVE"
  BY <1>1, <1>2, LockedIsActive
<1>4. /\ Range(wait_list'[s]) = Range(wait_list[s]) \cup {t}
      /\ \A r \in Sems : r # s => wait_list'[r] = wait_list[r]
  BY <1>2, AppendMembers DEF SerialInv, TypeOK
<1>5. s \in Active /\ Active' = Active
  BY <1>2, <1>3 DEF Active
<1>6. Permits[s] = 0 /\ Permits' = Permits
  BY <1>2, <1>5 DEF Permits
<1>7. BlockedOn' = [BlockedOn EXCEPT ![s] = BlockedOn[s] \cup {t}]
  BY <1>4 DEF BlockedOn
<1>8. \A r \in Sems : t \notin BlockedOn[r]
  BY <1>2 DEF BlockedOn, SerialInv, QueueInv, SleepPCs
<1>9. CS!Block(s, t)
  BY <1>5, <1>6, <1>7, <1>8 DEF CS!Block
<1> QED
  BY <1>9 DEF CS!Next

\* An up that finds nobody puts a permit back.
LEMMA CountAbstract ==
    ASSUME SerialInv, NEW t \in Threads, UpCount(t)
    PROVE  CS!Next
<1>1. PICK s \in Sems : s = sid[t]
  BY DEF SerialInv, TypeOK
<1>2. /\ count' = [count EXCEPT ![s] = Increment(count[s])] /\ count[s] \in Nat
      /\ s \in listed /\ wait_list[s] = << >>
      /\ state' = state /\ wait_list' = wait_list /\ pc[t] = "up_lock"
  BY <1>1 DEF UpCount, SerialInv, TypeOK
<1>3. state[s] = "ACTIVE"
  BY <1>1, <1>2, LockedIsActive
<1>4. count'[s] = Increment(count[s]) /\ \A r \in Sems : r # s => count'[r] = count[r]
  BY <1>2 DEF SerialInv, TypeOK
<1>5. s \in Active /\ Active' = Active
  BY <1>2, <1>3 DEF Active
<1>6. Permits[s] = count[s] /\ Permits' = [Permits EXCEPT ![s] = Increment(count[s])]
  BY <1>4, <1>5 DEF Permits
<1>7. BlockedOn' = BlockedOn /\ BlockedOn[s] = {}
  BY <1>2 DEF BlockedOn, Range
<1>8. CS!Post(s)
  BY <1>5, <1>6, <1>7 DEF CS!Post, Increment
<1> QED
  BY <1>8 DEF CS!Next

\* An up that finds waiters hands its permit to the one it wakes.
LEMMA WakeAbstract ==
    ASSUME SerialInv, NEW t \in Threads, UpWake(t)
    PROVE  CS!Next
<1>1. PICK s \in Sems : s = sid[t]
  BY DEF SerialInv, TypeOK
<1>2. /\ s \in listed /\ wait_list[s] # << >> /\ wait_list[s] \in Seq(Threads)
      /\ IsInjective(wait_list[s])
      /\ state' = state /\ count' = count /\ pc[t] = "up_lock"
  BY <1>1 DEF UpWake, SerialInv, TypeOK, QueueInv
<1>3. state[s] = "ACTIVE"
  BY <1>1, <1>2, LockedIsActive
<1>4. PICK q \in Sorted(s) : wait_list' = [wait_list EXCEPT ![s] = Tail(q)]
  BY <1>1 DEF UpWake
<1>5. q \in Seq(Threads) /\ Range(q) = Range(wait_list[s]) /\ IsInjective(q) /\ q # << >>
  BY <1>2, SortedMembers
<1>6. PICK h \in Threads : h \in Range(wait_list[s]) /\ Range(Tail(q)) = Range(wait_list[s]) \ {h}
  BY <1>5, TailMembers
<1>7. wait_list'[s] = Tail(q) /\ \A r \in Sems : r # s => wait_list'[r] = wait_list[r]
  BY <1>4 DEF SerialInv, TypeOK
<1>8. s \in Active /\ Active' = Active
  BY <1>2, <1>3 DEF Active
<1>9. count[s] = 0
  BY <1>2 DEF SerialInv, TypeOK, NoIdlePermit
<1>10. Permits[s] = 0 /\ Permits' = Permits
  BY <1>2, <1>8, <1>9 DEF Permits
<1>11. h \in BlockedOn[s] /\ BlockedOn' = [BlockedOn EXCEPT ![s] = BlockedOn[s] \ {h}]
  BY <1>6, <1>7 DEF BlockedOn
<1>12. CS!HandOver(s, h)
  BY <1>8, <1>10, <1>11 DEF CS!HandOver
<1> QED
  BY <1>12 DEF CS!Next

\* The system calls implement counting semaphores: mysema_init creates one,
\* mysema_release destroys it, a down takes a permit or blocks, an up puts a
\* permit back or hands it to a blocked thread, and nothing else is seen.
THEOREM SerialImplementsCounting == SerialSpec => ImplementsCounting
<1>1. Init => CS!Init
  <2> SUFFICES ASSUME Init PROVE CS!Init
    OBVIOUS
  <2>1. Active = {}
    BY DEF Init, Active
  <2>2. Permits = [s \in Sems |-> 0]
    BY <2>1 DEF Permits
  <2>3. BlockedOn = [s \in Sems |-> {}]
    BY DEF Init, BlockedOn, Range
  <2> QED
    BY <2>1, <2>2, <2>3 DEF CS!Init
<1>2. SerialInv /\ [SerialNext]_vars => [CS!Next]_<<Active, Permits, BlockedOn>>
  <2> SUFFICES ASSUME SerialInv, [SerialNext]_vars
               PROVE  CS!Next \/ UNCHANGED <<Active, Permits, BlockedOn>>
    OBVIOUS
  <2>1. CASE UNCHANGED <<state, count, wait_list>>
    BY <2>1, AbstractStutter
  <2>2. ASSUME NEW t \in Threads, StoreStep(t)
        PROVE  CS!Next \/ UNCHANGED <<Active, Permits, BlockedOn>>
    BY <2>2, InitAbstract, ReleaseAbstract, GrantAbstract, SleepAbstract, CountAbstract,
       WakeAbstract DEF StoreStep
  <2> QED
    BY <2>1, <2>2, StoreSteps
<1> QED
  BY <1>1, <1>2, SerialSafety, SerialInvariant, PTL DEF ImplementsCounting, CS!Spec

----------------------------------------------------------------------------
(* The order in which mysema_up wakes the waiters.  The list tells only    *)
(* part of who came first: an up has sorted it before.  ArrivalInv says    *)
(* what it still tells.                                                    *)

KeysSame(s, u, w) == KeyOf(s, u) = KeyOf(s, w)

\* Of two waiters with equal keys the one that came first is further ahead.
Ranked(s) ==
    \A m, n \in DOMAIN wait_list[s] :
        m < n /\ KeysSame(s, wait_list[s][m], wait_list[s][n])
            => <<wait_list[s][m], wait_list[s][n]>> \in older

ArrivalInv == \A s \in Sems : Ranked(s)

\* The history is about threads that wait.
OlderInv == older \subseteq Waiting \X Waiting

\* A pair of waiters stays in the history as long as both wait.
LEMMA StillOlder ==
    ASSUME Arrivals, NEW u \in Waiting', NEW w \in Waiting',
           <<u, w>> \in older \/ (u \in Waiting /\ w \notin Waiting)
    PROVE  <<u, w>> \in older'
BY DEF Arrivals

\* Keys are numbers.
LEMMA KeysAreInts ==
    ASSUME SerialInv, NEW s \in Sems, NEW u \in Threads
    PROVE  KeyOf(s, u) \in Int
BY SemaphoreConstants DEF SerialInv, TypeOK, KeyOf

\* list_sort leaves the list in the order in which its waiters are woken.
LEMMA SortedPrecedes ==
    ASSUME SerialInv, NEW s \in Sems, Ranked(s), mode[s] \in {FIFO, OS, USER},
           NEW q \in Sorted(s), NEW m \in DOMAIN q, NEW n \in DOMAIN q, m < n
    PROVE  Precedes(s, q[m], q[n])
<1> DEFINE l == wait_list[s]
<1>1. l \in Seq(Threads)
  BY DEF SerialInv, TypeOK
<1>2. ASSUME NEW key, q \in list_sort(l, key), \A u \in Threads : KeyOf(s, u) = key[u]
      PROVE  Precedes(s, q[m], q[n])
  <2>1. PICK p \in Bijection(DOMAIN l, DOMAIN l) :
           q = [k \in DOMAIN l |-> l[p[k]]] /\ InOrder(l, p, key)
    BY <1>2 DEF list_sort
  <2>2. m \in DOMAIN l /\ n \in DOMAIN l /\ q[m] = l[p[m]] /\ q[n] = l[p[n]]
    BY <2>1
  <2>3. p[m] \in DOMAIN l /\ p[n] \in DOMAIN l
    BY <2>2 DEF Bijection, Injection
  <2>4. l[p[m]] \in Threads /\ l[p[n]] \in Threads
    BY <1>1, <2>3
  <2>5. \/ key[l[p[m]]] < key[l[p[n]]]
        \/ key[l[p[m]]] = key[l[p[n]]] /\ p[m] < p[n]
    BY <2>1, <2>2 DEF InOrder
  <2>6. p[m] < p[n] /\ KeysSame(s, l[p[m]], l[p[n]]) => <<l[p[m]], l[p[n]]>> \in older
    BY <2>3 DEF Ranked
  <2> QED
    BY <1>2, <2>2, <2>4, <2>5, <2>6 DEF Precedes, KeysSame
<1>3. CASE mode[s] = FIFO
  <2>1. q = l
    BY <1>3 DEF Sorted, FIFO, OS, USER
  <2>2. KeysSame(s, q[m], q[n])
    BY <1>3 DEF KeysSame, KeyOf, FIFO, OS, USER
  <2> QED
    BY <2>1, <2>2 DEF Precedes, KeysSame, Ranked
<1>4. CASE mode[s] = OS
  BY <1>2, <1>4 DEF Sorted, KeyOf, OS, USER
<1>5. CASE mode[s] = USER
  BY <1>2, <1>5 DEF Sorted, KeyOf, OS, USER
<1> QED
  BY <1>3, <1>4, <1>5

KeysStay == \A s \in Sems : \A u \in Range(wait_list[s]) : KeyOf(s, u)' = KeyOf(s, u)

\* Of the steps that change a mode or a waiter.priority none is about a
\* thread on a list, so the keys of the waiters stay.
LEMMA KeysOfWaitersStay ==
    ASSUME SerialInv, SerialNext
    PROVE  KeysStay
<1>1. ASSUME UNCHANGED <<mode, prio>> PROVE KeysStay
  BY <1>1 DEF KeysStay, KeyOf
<1>2. ASSUME NEW t \in Threads, InitMode(t) PROVE KeysStay
  <2>1. PICK r \in Sems : r = sid[t]
    BY DEF SerialInv, TypeOK
  <2>2. prio' = prio /\ mode' = [mode EXCEPT ![r] = arg[t].mode] /\ pc[t] = "init_mode"
    BY <1>2, <2>1 DEF InitMode, Goto
  <2>3. wait_list[r] = << >>
    BY <2>1, <2>2 DEF SerialInv, CheckedInv, Checked, StateInv
  <2>4. ASSUME NEW s \in Sems, NEW u \in Range(wait_list[s]) PROVE mode'[s] = mode[s]
    <3>1. s # r
      BY <2>3, <2>4 DEF Range
    <3> QED
      BY <2>2, <3>1 DEF SerialInv, TypeOK
  <2> QED
    BY <2>2, <2>4 DEF KeysStay, KeyOf
<1>3. ASSUME NEW t \in Threads, DownSleep(t) \/ UnlockReturn(t) PROVE KeysStay
  <2>1. PICK y : mode' = mode /\ prio' = [prio EXCEPT ![t] = y]
    BY <1>3 DEF DownSleep, UnlockReturn, Unlock
  <2>2. pc[t] \notin SleepPCs
    BY <1>3 DEF DownSleep, UnlockReturn, SleepPCs
  <2>3. ASSUME NEW s \in Sems, NEW u \in Range(wait_list[s]) PROVE prio'[u] = prio[u]
    <3>1. t \notin Range(wait_list[s])
      BY <2>2 DEF SerialInv, QueueInv
    <3>2. u \in Threads /\ u # t
      BY <2>3, <3>1 DEF SerialInv, TypeOK, Range
    <3> QED
      BY <2>1, <3>2 DEF SerialInv, TypeOK
  <2> QED
    BY <2>1, <2>3 DEF KeysStay, KeyOf
<1>4. PICK t \in Threads : SerialCall(t) \/ KernelStep(t) \/ StrayWakeUp(t)
  BY DEF SerialNext
<1>5. CASE SerialCall(t) \/ StrayWakeUp(t)
  <2>1. UNCHANGED <<mode, prio>>
    BY <1>5 DEF SerialCall, StrayWakeUp, SetupCall, SyncCall, InvalidId, Enter, semVars,
                sys_mysema_init, sys_mysema_release, sys_mysema_down,
                sys_mysema_down_userprio, sys_mysema_up
  <2> QED
    BY <1>1, <2>1
<1>6. CASE InitStep(t) \/ RelStep(t)
  <2>1. UNCHANGED <<mode, prio>> \/ InitMode(t)
    BY <1>6 DEF InitStep, InitRefused, InitAccepted, InitCount, InitState, InitList, RelStep,
                RelState, RelRefused, RelList, RelStore, Goto, Return, semVars
  <2> QED
    BY <1>1, <1>2, <2>1
<1>7. CASE CheckStep(t)
  <2>1. UNCHANGED <<mode, prio>>
    BY <1>7 DEF CheckStep, Inactive, DownState, DownMode, UprioState, UprioMode, UpState,
                Goto, Return, semVars
  <2> QED
    BY <1>1, <2>1
<1>8. CASE SleepStep(t)
  <2>1. UNCHANGED <<mode, prio>> \/ UnlockReturn(t)
    BY <1>8 DEF SleepStep, SleepUnlock, Schedule, RelockWoken, RelockStray, Unlock, Goto, semVars
  <2> QED
    BY <1>1, <1>3, <2>1
<1>9. CASE DownStep(t) \/ UpStep(t)
  <2>1. UNCHANGED <<mode, prio>> \/ DownSleep(t)
    BY <1>9 DEF DownStep, DownGrant, DownOops, UpStep, UpCount, UpWake, UpInvalidMode, UpOops, Goto
  <2> QED
    BY <1>1, <1>3, <2>1
<1> QED
  BY <1>4, <1>5, <1>6, <1>7, <1>8, <1>9 DEF KernelStep

\* What one step does to one list: nothing, a newcomer at its end, or the
\* first of the sorted list taken off.
ListKept(s) == wait_list'[s] = wait_list[s]

ListJoined(s) ==
    \E t \in Threads : t \notin Waiting /\ wait_list'[s] = Append(wait_list[s], t)

ListServed(s) ==
    /\ mode[s] \in {FIFO, OS, USER} /\ wait_list[s] # << >>
    /\ \E q \in Sorted(s) : wait_list'[s] = Tail(q)

\* There is no other step.
LEMMA ListSteps ==
    ASSUME SerialInv, [SerialNext]_vars, NEW s \in Sems
    PROVE  ListKept(s) \/ ListJoined(s) \/ ListServed(s)
<1>1. CASE wait_list' = wait_list
  BY <1>1 DEF ListKept
<1>2. ASSUME NEW t \in Threads, StoreStep(t), wait_list' # wait_list
      PROVE  ListKept(s) \/ ListJoined(s) \/ ListServed(s)
  <2>1. PICK r \in Sems : r = sid[t]
    BY DEF SerialInv, TypeOK
  <2>2. InitList(t) \/ DownSleep(t) \/ UpWake(t)
    BY <1>2 DEF StoreStep, InitCount, InitState, RelStore, DownGrant, UpCount
  <2>3. PICK y : wait_list' = [wait_list EXCEPT ![r] = y]
    BY <2>1, <2>2 DEF InitList, DownSleep, UpWake
  <2>4. wait_list'[r] = y /\ (s # r => ListKept(s))
    BY <2>3 DEF SerialInv, TypeOK, ListKept
  <2>5. CASE InitList(t)
    <3>1. wait_list[r] = << >> /\ wait_list' = [wait_list EXCEPT ![r] = << >>]
      BY <2>1, <2>5 DEF InitList, SerialInv, CheckedInv, Checked
    <3>2. wait_list'[r] = wait_list[r]
      BY <3>1 DEF SerialInv, TypeOK
    <3> QED
      BY <2>4, <3>2 DEF ListKept
  <2>6. CASE DownSleep(t)
    <3>1. wait_list' = [wait_list EXCEPT ![r] = Append(wait_list[r], t)] /\ pc[t] \notin SleepPCs
      BY <2>1, <2>6 DEF DownSleep, SleepPCs
    <3>2. wait_list'[r] = Append(wait_list[r], t)
      BY <3>1 DEF SerialInv, TypeOK
    <3>3. t \notin Waiting
      BY <3>1 DEF SerialInv, QueueInv, Waiting
    <3> QED
      BY <2>4, <3>2, <3>3 DEF ListJoined
  <2>7. CASE UpWake(t)
    <3>1. mode[r] \in {FIFO, OS, USER} /\ wait_list[r] # << >>
      BY <2>1, <2>7 DEF UpWake
    <3>2. PICK q \in Sorted(r) : wait_list' = [wait_list EXCEPT ![r] = Tail(q)]
      BY <2>1, <2>7 DEF UpWake
    <3>3. wait_list'[r] = Tail(q)
      BY <3>2 DEF SerialInv, TypeOK
    <3> QED
      BY <2>4, <3>1, <3>3 DEF ListServed
  <2> QED
    BY <2>2, <2>5, <2>6, <2>7
<1> QED
  BY <1>1, <1>2, StoreSteps

\* No step lets a waiter overtake one that came before it with its key.
LEMMA ArrivalStep ==
    ASSUME SerialInv, ArrivalInv, SerialNext, Arrivals
    PROVE  ArrivalInv'
<1>1. SUFFICES ASSUME NEW s \in Sems, NEW m \in DOMAIN wait_list'[s], NEW n \in DOMAIN wait_list'[s],
                      NEW u, NEW w, u = wait_list'[s][m], w = wait_list'[s][n],
                      m < n, KeysSame(s, u, w)'
               PROVE  <<u, w>> \in older'
  BY DEF ArrivalInv, Ranked, KeysSame, KeyOf
<1> DEFINE l == wait_list[s]
<1>2. l \in Seq(Threads) /\ IsInjective(l) /\ Ranked(s)
  BY DEF SerialInv, TypeOK, QueueInv, ArrivalInv
<1>3. u \in Waiting' /\ w \in Waiting'
  BY <1>1 DEF Waiting, Range
<1>4. SUFFICES <<u, w>> \in older \/ (u \in Waiting /\ w \notin Waiting)
  BY <1>3, StillOlder
<1>5. ASSUME u \in Range(l), w \in Range(l) PROVE KeysSame(s, u, w)
  <2>1. KeyOf(s, u)' = KeyOf(s, u) /\ KeyOf(s, w)' = KeyOf(s, w)
    BY <1>5, KeysOfWaitersStay DEF KeysStay
  <2> QED
    BY <1>1, <2>1 DEF KeysSame
<1>6. CASE ListKept(s)
  <2>1. m \in DOMAIN l /\ n \in DOMAIN l /\ u = l[m] /\ w = l[n]
    BY <1>1, <1>6 DEF ListKept
  <2>2. u \in Range(l) /\ w \in Range(l)
    BY <2>1 DEF Range
  <2> QED
    BY <1>1, <1>2, <1>5, <2>1, <2>2 DEF Ranked
<1>7. CASE ListJoined(s)
  <2>1. PICK t \in Threads : t \notin Waiting /\ wait_list'[s] = Append(l, t)
    BY <1>7 DEF ListJoined
  <2>2. /\ DOMAIN wait_list'[s] = 1 .. Len(l) + 1 /\ DOMAIN l = 1 .. Len(l) /\ Len(l) \in Nat
        /\ \A k \in 1 .. Len(l) : wait_list'[s][k] = l[k]
        /\ wait_list'[s][Len(l) + 1] = t
    BY <1>2, <2>1
  <2>3. m \in DOMAIN l /\ u = l[m] /\ u \in Range(l)
    BY <1>1, <2>2 DEF Range
  <2>4. CASE n \in DOMAIN l
    <3>1. w = l[n] /\ w \in Range(l)
      BY <1>1, <2>2, <2>4 DEF Range
    <3> QED
      BY <1>1, <1>2, <1>5, <2>3, <2>4, <3>1 DEF Ranked
  <2>5. CASE n \notin DOMAIN l
    <3>1. w = t
      BY <1>1, <2>2, <2>5
    <3>2. u \in Waiting
      BY <2>3 DEF Waiting
    <3> QED
      BY <2>1, <3>1, <3>2
  <2> QED
    BY <2>4, <2>5
<1>8. CASE ListServed(s)
  <2>1. PICK q \in Sorted(s) : wait_list'[s] = Tail(q)
    BY <1>8 DEF ListServed
  <2>2. q \in Seq(Threads) /\ q # << >> /\ Range(q) = Range(l)
    BY <1>2, <1>8, SortedMembers DEF ListServed
  <2>3. /\ DOMAIN q = 1 .. Len(q) /\ Len(q) \in Nat /\ DOMAIN wait_list'[s] = 1 .. Len(q) - 1
        /\ \A k \in 1 .. Len(q) - 1 : wait_list'[s][k] = q[k + 1]
    BY <2>1, <2>2, HeadTailProperties
  <2>4. m + 1 \in DOMAIN q /\ n + 1 \in DOMAIN q /\ m + 1 < n + 1 /\ u = q[m + 1] /\ w = q[n + 1]
    BY <1>1, <2>3
  <2>5. u \in Range(l) /\ w \in Range(l) /\ u \in Threads /\ w \in Threads
    <3>1. u \in Range(q) /\ w \in Range(q)
      BY <2>4, Zenon DEF Range
    <3>2. u \in Threads /\ w \in Threads
      BY <2>2, <2>4, ElementOfSeq
    <3> QED
      BY <2>2, <3>1, <3>2
  <2>6. Precedes(s, u, w)
    BY <1>2, <1>8, <2>4, SortedPrecedes DEF ListServed
  <2>7. KeyOf(s, u) \in Int /\ KeyOf(s, w) \in Int /\ KeyOf(s, u) = KeyOf(s, w)
    BY <1>5, <2>5, KeysAreInts DEF KeysSame
  <2> QED
    BY <2>6, <2>7 DEF Precedes
<1> QED
  BY <1>6, <1>7, <1>8, ListSteps

\* The list of waiters agrees with the order of arrival, in every state of
\* SerialSpec and however often it was sorted.
THEOREM ArrivalsAreKept == SerialSpec => [](ArrivalInv /\ OlderInv)
<1>1. SerialInit => ArrivalInv /\ OlderInv
  BY DEF SerialInit, Init, ArrivalInv, Ranked, OlderInv
<1>2. ASSUME SerialInv, ArrivalInv, OlderInv, [SerialNext /\ Arrivals]_<<vars, older>>
      PROVE  ArrivalInv' /\ OlderInv'
  <2>1. CASE SerialNext /\ Arrivals
    BY <1>2, <2>1, ArrivalStep DEF OlderInv, Arrivals
  <2>2. CASE UNCHANGED <<vars, older>>
    BY <1>2, <2>2 DEF vars, semVars, threadVars, ArrivalInv, Ranked, KeysSame, KeyOf, OlderInv, Waiting
  <2> QED
    BY <1>2, <2>1, <2>2
<1> QED
  BY <1>1, <1>2, SerialInvariant, PTL DEF SerialSpec

\* mysema_up wakes the waiter with the least key of the semaphore's mode,
\* and the one that joined the list first among equals, for any number of
\* waiters and of ups that sorted the list before.
THEOREM WakesInOrder == SerialSpec => WakeOrder
<1>1. ASSUME SerialInv, ArrivalInv, [SerialNext]_vars, NEW s \in Sems,
             NEW u \in Range(wait_list[s]) \ Range(wait_list'[s]), NEW w \in Range(wait_list'[s])
      PROVE  Precedes(s, u, w)
  <2>1. wait_list[s] \in Seq(Threads) /\ IsInjective(wait_list[s]) /\ Ranked(s)
    BY <1>1 DEF SerialInv, TypeOK, QueueInv, ArrivalInv
  <2>2. ~ ListKept(s)
    BY DEF ListKept
  <2>3. ~ ListJoined(s)
    BY <2>1, AppendMembers DEF ListJoined
  <2>4. ListServed(s)
    BY <1>1, <2>2, <2>3, ListSteps
  <2>5. PICK q \in Sorted(s) : wait_list'[s] = Tail(q)
    BY <2>4 DEF ListServed
  <2>6. q \in Seq(Threads) /\ Range(q) = Range(wait_list[s]) /\ IsInjective(q) /\ q # << >>
    BY <2>1, <2>4, SortedMembers DEF ListServed
  <2>7. Range(Tail(q)) = Range(wait_list[s]) \ {Head(q)}
    BY <2>6, TailMembers
  <2>8. u = Head(q) /\ w \in Range(Tail(q))
    BY <2>5, <2>7
  <2>9. /\ Head(q) = q[1] /\ DOMAIN q = 1 .. Len(q) /\ Len(q) \in Nat \ {0}
        /\ DOMAIN Tail(q) = 1 .. Len(q) - 1 /\ \A k \in 1 .. Len(q) - 1 : Tail(q)[k] = q[k + 1]
    BY <2>6, EmptySeq, HeadTailProperties
  <2>10. PICK k \in 1 .. Len(q) - 1 : w = q[k + 1]
    BY <2>8, <2>9 DEF Range
  <2>11. 1 \in DOMAIN q /\ k + 1 \in DOMAIN q /\ 1 < k + 1
    BY <2>9
  <2> QED
    BY <1>1, <2>1, <2>4, <2>8, <2>9, <2>10, <2>11, SortedPrecedes DEF ListServed
<1>2. SerialInv /\ ArrivalInv /\ [SerialNext]_vars =>
        [\A s \in Sems :
           \A u \in Range(wait_list[s]) \ Range(wait_list'[s]) :
             \A w \in Range(wait_list'[s]) : Precedes(s, u, w)]_vars
  BY <1>1
<1> QED
  BY SerialSafety, SerialInvariant, ArrivalsAreKept, <1>2, PTL DEF WakeOrder

----------------------------------------------------------------------------
(* The test program.                                                       *)

MainPlaces   == {"init", "spawn", "post", "join", "release", "end"}
WorkerPlaces == {"none", "down", "load", "store", "up", "userprio", "exited"}

TestType ==
    /\ ATOMIC_OPERATION \in BOOLEAN
    /\ at \in [Threads -> MainPlaces \cup WorkerPlaces]
    /\ at[Main] \in MainPlaces
    /\ \A w \in Workers : at[w] \in WorkerPlaces
    /\ i \in [Threads -> Nat]
    /\ v \in [Threads -> Int]
    /\ shared_variable \in Int
    /\ round \in 0 .. 2
    /\ pc \in [Threads -> PCs]

\* Which workers run, by where main is in its loops: each is spawned once
\* and joined once, and is out of its last call by then.
RunningInv ==
    /\ i[Main] < MAX_THREAD
    /\ at[Main] \notin {"spawn", "post", "join"} => i[Main] = 0
    /\ at[Main] \in {"init", "release", "end"} => \A w \in Workers : at[w] = "none"
    /\ at[Main] = "spawn" => \A w \in Workers : w > i[Main] => at[w] = "none"
    /\ at[Main] = "join" => \A w \in Workers : w <= i[Main] => at[w] = "none"
    /\ \A w \in Workers : at[w] = "none" => pc[w] = "user"

\* Only main sets up and releases, before it spawns and after it joined.
SetupInv ==
    /\ \A t \in Threads : pc[t] \in SetupPCs => t = Main
    /\ pc[Main] \in InitPCs => at[Main] = "spawn" /\ i[Main] = 0
    /\ pc[Main] \in ReleasePCs => at[Main] \in {"init", "end"}

CallersInv == TestType /\ RunningInv /\ SetupInv

----------------------------------------------------------------------------
(* Threads and what the program passes.                                    *)
LEMMA TestFacts ==
    /\ Main \in Threads /\ Main \notin Workers /\ Threads = Workers \cup {Main}
    /\ MAX_THREAD \in Nat \ {0} /\ MAX_LOOP \in Nat \ {0}
    /\ \A w \in Workers : w \in Nat /\ w >= 1 /\ w <= MAX_THREAD
    /\ TARGET_SEMAPHORE \in Sems /\ TARGET_SEMAPHORE \in Ids
    /\ 0 \in StartValues /\ 1 \in StartValues
    /\ \A m \in 0 .. 2 : m \in Modes
    /\ \A w \in Workers : priority[w] \in Priorities
<1>1. Threads = 0 .. MAX_THREAD /\ MAX_THREAD \in Nat \ {0} /\ MAX_LOOP \in Nat \ {0}
  BY TestConstants
<1>2. \A m \in 0 .. 2 : m \in Modes
  BY TestConstants DEF FIFO, OS, USER
<1>3. \A w \in Workers : priority[w] \in Priorities
  BY TestConstants DEF Range
<1> QED
  BY <1>1, <1>2, <1>3, TestConstants DEF Main, Workers

(* A step inside the kernel moves one thread that is in a call, and only a *)
(* thread in mysema_init or mysema_release stays there.                    *)
LEMMA KernelMoves ==
    ASSUME pc \in [Threads -> PCs], NEW t \in Threads, KernelStep(t) \/ StrayWakeUp(t)
    PROVE  /\ pc[t] # "user"
           /\ \E x \in PCs : /\ pc' = [pc EXCEPT ![t] = x]
                             /\ x \in InitPCs => pc[t] \in InitPCs
                             /\ x \in ReleasePCs => pc[t] \in ReleasePCs
<1> USE DEF PCs, InitPCs, ReleasePCs, DownPCs, UpPCs, SleepPCs, LockedPCs
<1>1. CASE InitStep(t)
  BY <1>1 DEF InitStep, InitRefused, InitAccepted, InitMode, InitCount, InitState, InitList,
              Return, Goto
<1>2. CASE CheckStep(t)
  BY <1>2 DEF CheckStep, Inactive, DownState, DownMode, UprioState, UprioMode, UpState,
              Return, Goto
<1>3. CASE DownStep(t)
  BY <1>3 DEF DownStep, DownGrant, DownSleep, DownOops, Goto
<1>4. CASE SleepStep(t)
  BY <1>4 DEF SleepStep, SleepUnlock, Schedule, RelockWoken, RelockStray, UnlockReturn, Goto
<1>5. CASE UpStep(t)
  BY <1>5 DEF UpStep, UpCount, UpWake, UpInvalidMode, UpOops, Goto
<1>6. CASE RelStep(t)
  BY <1>6 DEF RelStep, RelState, RelRefused, RelList, RelStore, Return, Goto
<1>7. CASE StrayWakeUp(t)
  BY <1>7 DEF StrayWakeUp
<1> QED
  BY <1>1, <1>2, <1>3, <1>4, <1>5, <1>6, <1>7 DEF KernelStep

(* Initially main stands before its first call.                            *)
LEMMA InitCallers == TestInit => CallersInv
  BY TestFacts
     DEF TestInit, SerialInit, Init, CallersInv, TestType, RunningInv, SetupInv, MainPlaces, WorkerPlaces,
         PCs, SetupPCs, InitPCs, ReleasePCs, Main

(* The kernel leaves the program where it is.                              *)
LEMMA KernelCallers ==
    ASSUME CallersInv, NEW t \in Threads, KernelStep(t) \/ StrayWakeUp(t), UNCHANGED testVars
    PROVE  CallersInv'
<1> USE DEF CallersInv, TestType
<1>1. pc[t] # "user"
  BY KernelMoves
<1>2. PICK x \in PCs : /\ pc' = [pc EXCEPT ![t] = x]
                       /\ x \in InitPCs => pc[t] \in InitPCs
                       /\ x \in ReleasePCs => pc[t] \in ReleasePCs
  BY KernelMoves
<1>3. TestType'
  BY <1>2 DEF testVars
<1>4. RunningInv'
  BY <1>1, <1>2, TestFacts DEF testVars, RunningInv
<1>5. SetupInv'
  BY <1>2, TestFacts DEF testVars, SetupInv, SetupPCs
<1> QED
  BY <1>3, <1>4, <1>5

(* What main does: each call is made when nobody is in the way of it.      *)
LEMMA MainCallers ==
    ASSUME CallersInv,
           \/ AtomicInit \/ SecondPass \/ AtomicRelease \/ pthread_create(Body, "join")
           \/ PriorityInit \/ Post \/ PriorityRelease \/ pthread_create("userprio", "post")
           \/ pthread_join("release"),
           UNCHANGED ATOMIC_OPERATION
    PROVE  CallersInv' /\ (SerialNext \/ UNCHANGED vars)
<1> USE DEF CallersInv, TestType, MainPlaces, WorkerPlaces, Stands
<1>1. CASE AtomicInit \/ PriorityInit
  <2>1. /\ pc[Main] = "user" /\ at[Main] = "init"
        /\ at' = [at EXCEPT ![Main] = "spawn"]
        /\ pc' = [pc EXCEPT ![Main] = "init_check"]
        /\ UNCHANGED <<i, v, shared_variable, round>>
    BY <1>1 DEF AtomicInit, PriorityInit, sys_mysema_init, Enter
  <2>2. \A t \in Threads : pc[t] = "user"
    BY <2>1, TestFacts DEF RunningInv
  <2>3. In(BusyPCs, TARGET_SEMAPHORE) = {}
    BY <2>2 DEF In, BusyPCs, SetupPCs, InitPCs, ReleasePCs, DownPCs, UpPCs
  <2>4. SetupCall(Main, TARGET_SEMAPHORE)
    BY <1>1, TestFacts DEF AtomicInit, PriorityInit, SetupCall, FIFO
  <2>5. SerialNext
    BY <2>3, <2>4, TestFacts DEF SerialNext, SerialCall
  <2>6. TestType'
    BY <2>1, TestFacts DEF PCs, InitPCs
  <2>7. RunningInv'
    BY <2>1, TestFacts DEF RunningInv
  <2>8. SetupInv'
    BY <2>1, TestFacts DEF SetupInv, SetupPCs, RunningInv, ReleasePCs
  <2> QED
    BY <2>5, <2>6, <2>7, <2>8
<1>2. CASE AtomicRelease \/ PriorityRelease
  <2>1. PICK then \in {"init", "end"} : at' = [at EXCEPT ![Main] = then]
    BY <1>2 DEF AtomicRelease, PriorityRelease, Release
  <2>2. /\ pc[Main] = "user" /\ at[Main] = "release"
        /\ pc' = [pc EXCEPT ![Main] = "rel_state"]
        /\ UNCHANGED <<i, v, shared_variable>> /\ round' \in 0 .. 2
    BY <1>2 DEF AtomicRelease, PriorityRelease, Release, sys_mysema_release, Enter, USER
  <2>3. \A t \in Threads : pc[t] = "user"
    BY <2>2, TestFacts DEF RunningInv
  <2>4. In(BusyPCs, TARGET_SEMAPHORE) = {}
    BY <2>3 DEF In, BusyPCs, SetupPCs, InitPCs, ReleasePCs, DownPCs, UpPCs
  <2>5. SetupCall(Main, TARGET_SEMAPHORE)
    BY <1>2, TestFacts DEF AtomicRelease, PriorityRelease, Release, SetupCall
  <2>6. SerialNext
    BY <2>4, <2>5, TestFacts DEF SerialNext, SerialCall
  <2>7. TestType'
    BY <2>1, <2>2, TestFacts DEF PCs, ReleasePCs
  <2>8. RunningInv'
    BY <2>1, <2>2, TestFacts DEF RunningInv
  <2>9. SetupInv'
    BY <2>1, <2>2, TestFacts DEF SetupInv, SetupPCs, RunningInv, InitPCs
  <2> QED
    BY <2>6, <2>7, <2>8, <2>9
<1>3. CASE pthread_create(Body, "join") \/ pthread_create("userprio", "post")
  <2>1. PICK first \in WorkerPlaces \ {"none"} :
          \E then \in {"join", "post"} : pthread_create(first, then)
    BY <1>3 DEF Body
  <2>2. PICK then \in {"join", "post"} : pthread_create(first, then)
    BY <2>1
  <2>3. PICK w : w = i[Main] + 1
    OBVIOUS
  <2>4. /\ pc[Main] = "user" /\ at[Main] = "spawn" /\ UNCHANGED <<vars, v, shared_variable, round>>
        /\ at' = [at EXCEPT ![w] = first, ![Main] = IF w = MAX_THREAD THEN then ELSE @]
        /\ i' = [i EXCEPT ![w] = 0, ![Main] = IF w = MAX_THREAD THEN 0 ELSE w]
    BY <2>2, <2>3 DEF pthread_create
  <2>5. w \in Workers /\ w # Main /\ i[Main] \in Nat
    BY <2>3, TestFacts DEF RunningInv, Workers
  <2>6. pc' = pc
    BY <2>4 DEF vars, threadVars
  <2>7. /\ at'[w] = first /\ at'[Main] = IF w = MAX_THREAD THEN then ELSE "spawn"
        /\ i'[Main] = IF w = MAX_THREAD THEN 0 ELSE w
        /\ \A x \in Workers : x # w => at'[x] = at[x]
    BY <2>4, <2>5, TestFacts
  <2>8. TestType'
    BY <2>4, <2>5, <2>6, TestFacts
  <2>9. RunningInv'
    <3>1. i'[Main] < MAX_THREAD
      BY <2>5, <2>7, TestFacts
    <3>2. \A x \in Workers : at'[x] = "none" => pc'[x] = "user"
      BY <2>6, <2>7 DEF RunningInv
    <3>3. at'[Main] = "spawn" => \A x \in Workers : x > i'[Main] => at'[x] = "none"
      BY <2>3, <2>4, <2>5, <2>7, TestFacts DEF RunningInv
    <3>4. at'[Main] = "join" => \A x \in Workers : x <= i'[Main] => at'[x] = "none"
      BY <2>4, <2>5, <2>7, TestFacts
    <3>5. at'[Main] \in {"spawn", "join", "post"}
      BY <2>7
    <3> QED
      BY <3>1, <3>2, <3>3, <3>4, <3>5 DEF RunningInv
  <2>10. SetupInv'
    BY <2>4, <2>6, TestFacts DEF SetupInv, SetupPCs, InitPCs, ReleasePCs
  <2> QED
    BY <2>4, <2>8, <2>9, <2>10
<1>4. CASE pthread_join("release")
  <2>1. PICK w : w = i[Main] + 1
    OBVIOUS
  <2>2. /\ pc[Main] = "user" /\ at[Main] = "join" /\ UNCHANGED <<vars, v, shared_variable, round>>
        /\ pc[w] = "user" /\ at[w] = "exited"
        /\ at' = [at EXCEPT ![w] = "none", ![Main] = IF w = MAX_THREAD THEN "release" ELSE @]
        /\ i' = [i EXCEPT ![Main] = IF w = MAX_THREAD THEN 0 ELSE w]
    BY <1>4, <2>1 DEF pthread_join
  <2>3. w \in Workers /\ w # Main /\ i[Main] \in Nat
    BY <2>1, TestFacts DEF RunningInv, Workers
  <2>4. pc' = pc
    BY <2>2 DEF vars, threadVars
  <2>5. /\ at'[w] = "none" /\ at'[Main] = IF w = MAX_THREAD THEN "release" ELSE "join"
        /\ i'[Main] = IF w = MAX_THREAD THEN 0 ELSE w
        /\ \A x \in Workers : x # w => at'[x] = at[x]
    BY <2>2, <2>3, TestFacts
  <2>6. TestType'
    BY <2>2, <2>3, <2>4, TestFacts
  <2>7. RunningInv'
    <3>1. i'[Main] < MAX_THREAD
      BY <2>3, <2>5, TestFacts
    <3>2. \A x \in Workers : at'[x] = "none" => pc'[x] = "user"
      BY <2>2, <2>4, <2>5 DEF RunningInv
    <3>3. \A x \in Workers : x <= w => at'[x] = "none"
      BY <2>1, <2>2, <2>3, <2>5, TestFacts DEF RunningInv
    <3>4. w = MAX_THREAD => \A x \in Workers : at'[x] = "none"
      BY <3>3, TestFacts
    <3> QED
      BY <2>5, <3>1, <3>2, <3>3, <3>4 DEF RunningInv
  <2>8. SetupInv'
    BY <2>2, <2>4, TestFacts DEF SetupInv, SetupPCs, InitPCs, ReleasePCs
  <2> QED
    BY <2>2, <2>6, <2>7, <2>8
<1>5. CASE SecondPass
  <2>1. /\ pc[Main] = "user" /\ at[Main] = "release" /\ UNCHANGED <<vars, i, v>>
        /\ at' = [at EXCEPT ![Main] = "spawn"] /\ shared_variable' = 0 /\ round' = 1
    BY <1>5 DEF SecondPass
  <2>2. pc' = pc
    BY <2>1 DEF vars, threadVars
  <2>3. TestType' /\ RunningInv' /\ SetupInv'
    BY <2>1, <2>2, TestFacts DEF RunningInv, SetupInv, SetupPCs, InitPCs, ReleasePCs
  <2> QED
    BY <2>1, <2>3
<1>6. CASE Post
  <2>1. /\ pc[Main] = "user" /\ at[Main] = "post" /\ UNCHANGED <<v, shared_variable, round>>
        /\ pc' = [pc EXCEPT ![Main] = "up_state"]
        /\ i' = [i EXCEPT ![Main] = IF i[Main] + 1 = MAX_THREAD THEN 0 ELSE @ + 1]
        /\ at' = [at EXCEPT ![Main] = IF i[Main] + 1 = MAX_THREAD THEN "join" ELSE @]
    BY <1>6 DEF Post, sys_mysema_up, Enter
  <2>2. In(SetupPCs, TARGET_SEMAPHORE) = {}
    BY <2>1 DEF In, SetupPCs, InitPCs, ReleasePCs, SetupInv
  <2>3. SerialNext
    BY <1>6, <2>2, TestFacts DEF Post, SerialNext, SerialCall, SyncCall
  <2>4. TestType'
    BY <2>1, TestFacts DEF PCs, UpPCs
  <2>5. RunningInv'
    BY <2>1, TestFacts DEF RunningInv
  <2>6. SetupInv'
    BY <2>1, TestFacts DEF SetupInv, SetupPCs, InitPCs, ReleasePCs
  <2> QED
    BY <2>3, <2>4, <2>5, <2>6
<1> QED
  BY <1>1, <1>2, <1>3, <1>4, <1>5, <1>6

(* What a worker does: main is not setting up or releasing meanwhile.      *)
LEMMA WorkerCallers ==
    ASSUME CallersInv, NEW w \in Threads,
           CallDown(w) \/ Load(w) \/ Store(w) \/ CallUp(w) \/ CallUserprio(w),
           UNCHANGED ATOMIC_OPERATION
    PROVE  CallersInv' /\ (SerialNext \/ UNCHANGED vars)
<1> USE DEF CallersInv, TestType, MainPlaces, WorkerPlaces, Stands
<1>1. pc[w] = "user" /\ at[w] \in {"down", "load", "store", "up", "userprio"}
  BY DEF CallDown, Load, Store, CallUp, CallUserprio
<1>2. w \in Workers
  BY <1>1, TestFacts
<1>3. at[Main] \notin {"init", "release", "end"}
  BY <1>1, <1>2 DEF RunningInv
<1>4. at[Main] = "spawn" => w <= i[Main]
  BY <1>1, <1>2, TestFacts DEF RunningInv
<1>5. \A t \in Threads : pc[t] \notin SetupPCs
  BY <1>2, <1>3, <1>4, TestFacts DEF SetupInv, SetupPCs
<1>6. PICK x \in WorkerPlaces \ {"none"} : at' = [at EXCEPT ![w] = x]
  BY DEF CallDown, Load, Store, CallUp, CallUserprio, NextTurn
<1>7. i'[Main] = i[Main] /\ i' \in [Threads -> Nat]
  BY <1>2, TestFacts DEF CallDown, Load, Store, CallUp, CallUserprio, NextTurn
<1>8. v' \in [Threads -> Int] /\ shared_variable' \in Int /\ round' = round
  BY DEF CallDown, Load, Store, CallUp, CallUserprio
<1>9. PICK p \in {"user", "down_state", "up_state", "uprio_state"} : pc' = [pc EXCEPT ![w] = p]
  BY <1>1 DEF CallDown, Load, Store, CallUp, CallUserprio, sys_mysema_down, sys_mysema_up,
              sys_mysema_down_userprio, Enter, vars, threadVars
<1>10. SerialNext \/ UNCHANGED vars
  <2>1. In(SetupPCs, TARGET_SEMAPHORE) = {}
    BY <1>5 DEF In
  <2>2. CASE CallDown(w) \/ CallUp(w) \/ CallUserprio(w)
    <3>1. SyncCall(w, TARGET_SEMAPHORE)
      BY <1>2, <2>2, TestFacts DEF CallDown, CallUp, CallUserprio, SyncCall
    <3> QED
      BY <2>1, <3>1, TestFacts DEF SerialNext, SerialCall
  <2>3. CASE Load(w) \/ Store(w)
    BY <2>3 DEF Load, Store
  <2> QED
    BY <2>2, <2>3
<1>11. TestType'
  BY <1>2, <1>6, <1>7, <1>8, <1>9, TestFacts DEF PCs, DownPCs, UpPCs
<1>12. RunningInv'
  BY <1>1, <1>2, <1>6, <1>7, <1>9, TestFacts DEF RunningInv
<1>13. SetupInv'
  BY <1>2, <1>5, <1>6, <1>7, <1>9, TestFacts DEF SetupInv, SetupPCs, InitPCs, ReleasePCs
<1> QED
  BY <1>10, <1>11, <1>12, <1>13

(* Every step of the program is one of SerialSpec, or is not seen by the   *)
(* kernel at all.                                                          *)
LEMMA TestStepIsSerial ==
    CallersInv /\ [TestNext]_allVars => CallersInv' /\ [SerialNext]_vars
<1>1. SUFFICES ASSUME CallersInv, [TestNext]_allVars
               PROVE  CallersInv' /\ (SerialNext \/ UNCHANGED vars)
  OBVIOUS
<1>2. CASE UNCHANGED allVars
  BY <1>1, <1>2
     DEF allVars, testVars, vars, threadVars, CallersInv, TestType, RunningInv, SetupInv
<1>3. CASE Done
  BY <1>2, <1>3 DEF Done
<1>4. ASSUME NEW t \in Threads, User(t)
      PROVE  CallersInv' /\ (SerialNext \/ UNCHANGED vars)
  <2>1. UNCHANGED ATOMIC_OPERATION
    BY <1>4 DEF User
  <2> QED
    BY <1>1, <1>4, <2>1, MainCallers, WorkerCallers DEF User, AtomicUser, PriorityUser
<1>5. ASSUME NEW t \in Threads, KernelStep(t) \/ StrayWakeUp(t), UNCHANGED testVars
      PROVE  CallersInv' /\ SerialNext
  BY <1>1, <1>5, KernelCallers DEF SerialNext
<1> QED
  BY <1>1, <1>2, <1>3, <1>4, <1>5 DEF TestNext, Kernel

\* The safety part of the specification.
LEMMA TestSafety == TestSpec => TestInit /\ [][TestNext]_allVars
<1>1. [TestNext /\ Arrivals]_<<allVars, older>> => [TestNext]_allVars
  OBVIOUS
<1> QED
  BY <1>1, PTL DEF TestSpec

(* The test program keeps the discipline that mysema_init and              *)
(* mysema_release rely on and cannot enforce: it calls them only while no  *)
(* worker is in a call (task3_semaphoretest.c, main, around its loops of   *)
(* pthread_create and pthread_join).  All that is proved of SerialSpec     *)
(* holds of the program.                                                   *)
THEOREM TestKeepsDiscipline == TestSpec => KeepsDiscipline
<1>1. TestInit => SerialInit /\ OlderInv
  BY DEF TestInit, SerialInit, OlderInv
<1>2. ASSUME OlderInv, [TestNext /\ Arrivals]_<<allVars, older>>
      PROVE  OlderInv' /\ (Arrivals \/ UNCHANGED older) /\ (UNCHANGED vars => UNCHANGED older)
  <2>1. CASE Arrivals
    <3>1. UNCHANGED vars => Waiting' = Waiting
      BY DEF vars, semVars, Waiting
    <3> QED
      BY <1>2, <2>1, <3>1 DEF OlderInv, Arrivals
  <2>2. CASE UNCHANGED <<allVars, older>>
    BY <1>2, <2>2 DEF OlderInv, Waiting, allVars, vars, semVars
  <2> QED
    BY <1>2, <2>1, <2>2
<1>3. ASSUME CallersInv, OlderInv, [TestNext /\ Arrivals]_<<allVars, older>>
      PROVE  CallersInv' /\ OlderInv' /\ [SerialNext /\ Arrivals]_<<vars, older>>
  <2>1. CallersInv' /\ (SerialNext \/ UNCHANGED vars)
    BY <1>3, TestStepIsSerial
  <2>2. CASE Arrivals
    BY <1>2, <1>3, <2>1, <2>2
  <2>3. CASE UNCHANGED <<allVars, older>>
    BY <1>2, <1>3, <2>1, <2>3 DEF allVars
  <2> QED
    BY <1>3, <2>2, <2>3
<1> QED
  BY <1>1, <1>3, InitCallers, PTL DEF TestSpec, KeepsDiscipline, SerialSpec

----------------------------------------------------------------------------
(* The test with the semaphore.                                            *)

Target == TARGET_SEMAPHORE

\* Where the threads of this build may be, and the one semaphore they use.
PlacesInv ==
    /\ at[Main] # "post" /\ round \in {0, 1}
    /\ at[Main] \in {"init", "join", "release"} => pc[Main] = "user"
    /\ at[Main] = "spawn" /\ round = 1 => pc[Main] = "user"
    /\ at[Main] = "init" => round = 0
    /\ pc[Main] \in {"user"} \cup SetupPCs
    /\ \A t \in Threads : pc[t] # "user" => sid[t] = Target
    /\ \A w \in Workers :
          /\ at[w] # "userprio"
          /\ round = 0 => pc[w] = "user" /\ at[w] \notin {"down", "up"}
          /\ pc[w] \in {"user", "down_state", "down_mode", "down_lock", "unlock"}
                       \cup SleepPCs \cup UpPCs
          /\ pc[w] \in DownPCs \cup SleepPCs => at[w] = "load"
          /\ pc[w] \in UpPCs => at[w] \in {"down", "exited"}
          /\ pc[w] = "unlock" => at[w] \in {"load", "down", "exited"}

\* mysema_init is let in, and has stored what the stores so far are for.
MadeInv ==
    /\ at[Main] = "init" \/ pc[Main] \in {"init_check", "init_mode"}
          => state[Target] = "ZERO"
    /\ pc[Main] \in InitPCs => arg[Main].start_value = 1 /\ arg[Main].mode = FIFO
    /\ pc[Main] \in {"init_count", "init_state", "init_list"} => mode[Target] = FIFO
    /\ pc[Main] \in {"init_state", "init_list"} => count[Target] = 1
    /\ pc[Main] = "init_list" => state[Target] = "ACTIVE"

\* What is there from the return of mysema_init to the call of mysema_release.
ReadyInv ==
    at[Main] \in {"spawn", "join", "release"} /\ pc[Main] \notin InitPCs =>
        /\ state[Target] = "ACTIVE" /\ mode[Target] = FIFO /\ Target \in listed
        /\ count[Target] \in {0, 1}

\* w has the permit of the semaphore.
HasPermit(w) ==
    \/ pc[w] = "user" /\ at[w] \in {"load", "store", "up"}
    \/ pc[w] = "unlock" /\ at[w] = "load"
    \/ pc[w] \in SleepPCs /\ up[w] = 1
    \/ pc[w] \in UpPCs

\* There is one permit: in the count, or with one worker.
PermitInv ==
    round = 1 =>
        /\ \A w \in Workers : HasPermit(w) => count[Target] = 0
        /\ \A w, x \in Workers : HasPermit(w) /\ HasPermit(x) => w = x
        /\ \A w \in Workers : at[w] = "store" => v[w] = shared_variable

\* The turns of the loops, and the additions w has made in this pass.
TurnsInv ==
    \A w \in Workers :
        /\ i[w] \in 0 .. MAX_LOOP
        /\ at[w] \in {"down", "load", "store", "up"} => i[w] < MAX_LOOP
        /\ at[w] = "exited" => i[w] = MAX_LOOP
        /\ at[Main] \in {"release", "end"} => i[w] = MAX_LOOP
        /\ at[Main] = "join" /\ w <= i[Main] => i[w] = MAX_LOOP

Added(w) ==
    IF at[Main] = "spawn" /\ w > i[Main] THEN 0
    ELSE IF at[w] = "up" THEN i[w] + 1 ELSE i[w]

\* sums[n] is what the workers 1 .. n have added.
AddsUp(sums) ==
    /\ sums \in [0 .. MAX_THREAD -> Int]
    /\ sums[0] = 0
    /\ \A w \in Workers : sums[w] = sums[w - 1] + Added(w)
    /\ sums[MAX_THREAD] = shared_variable

SumInv == round = 1 => \E sums \in [0 .. MAX_THREAD -> Int] : AddsUp(sums)

AtomicInv == PlacesInv /\ MadeInv /\ ReadyInv /\ PermitInv /\ TurnsInv /\ SumInv

TestInv == CallersInv /\ (ATOMIC_OPERATION => AtomicInv)

(* Initially nothing has been made and nothing added.                      *)
LEMMA InitAtomic == TestInit => AtomicInv
<1> SUFFICES ASSUME TestInit PROVE AtomicInv
  OBVIOUS
<1>1. /\ at[Main] = "init" /\ round = 0 /\ \A t \in Threads : pc[t] = "user" /\ i[t] = 0
      /\ \A w \in Workers : at[w] = "none"
      /\ state[TARGET_SEMAPHORE] = "ZERO"
  BY TestFacts DEF TestInit, SerialInit, Init
<1>2. PlacesInv /\ MadeInv /\ ReadyInv
  BY <1>1, TestFacts
     DEF PlacesInv, MadeInv, ReadyInv, SetupPCs, InitPCs, ReleasePCs, DownPCs, UpPCs,
         SleepPCs, Target
<1>3. PermitInv /\ TurnsInv /\ SumInv
  BY <1>1, TestFacts DEF PermitInv, TurnsInv, SumInv
<1> QED
  BY <1>2, <1>3 DEF AtomicInv

(* The kernel leaves the turns and the sum alone.                          *)
LEMMA CountedStays ==
    ASSUME AtomicInv, UNCHANGED testVars
    PROVE  TurnsInv' /\ SumInv'
  BY DEF AtomicInv, testVars, TurnsInv, SumInv, AddsUp, Added

(* mysema_init and mysema_release run while no worker does.                *)
LEMMA MainKernel ==
    ASSUME SerialInv, CallersInv, CallersInv', AtomicInv, ATOMIC_OPERATION,
           KernelStep(Main) \/ StrayWakeUp(Main), UNCHANGED testVars
    PROVE  PlacesInv' /\ MadeInv' /\ ReadyInv' /\ PermitInv'
<1> USE TestFacts
<1> USE DEF SetupPCs, InitPCs, ReleasePCs, DownPCs, UpPCs, SleepPCs
<1>1. /\ pc \in [Threads -> PCs] /\ sid \in [Threads -> Sems] /\ Target \in Sems
      /\ DOMAIN state = Sems /\ DOMAIN mode = Sems /\ DOMAIN count = Sems
  BY DEF CallersInv, TestType, SerialInv, TypeOK, Target
<1>2. pc[Main] # "user"
  BY <1>1, KernelMoves
<1>3. pc[Main] \in SetupPCs /\ sid[Main] = Target
  BY <1>2 DEF AtomicInv, PlacesInv
<1>4. PICK p : pc' = [pc EXCEPT ![Main] = p]
  BY <1>1, KernelMoves
<1>5. at[Main] \in {"spawn", "end"} /\ (pc[Main] \in InitPCs => at[Main] = "spawn" /\ round = 0)
  BY <1>3 DEF CallersInv, TestType, SetupInv, AtomicInv, PlacesInv
<1>6. \A w \in Workers : at[w] = "none" /\ pc[w] = "user"
  <2>1. CASE at[Main] = "end"
    BY <2>1 DEF CallersInv, RunningInv
  <2>2. CASE at[Main] = "spawn"
    <3>1. i[Main] = 0
      BY <1>3, <2>2 DEF CallersInv, SetupInv
    <3>2. \A w \in Workers : w > 0
      OBVIOUS
    <3> QED
      BY <2>2, <3>1, <3>2 DEF CallersInv, RunningInv
  <2> QED
    BY <1>5, <2>1, <2>2
<1>7. \A w \in Workers : at'[w] = "none" /\ pc'[w] = "user"
  BY <1>1, <1>4, <1>6 DEF testVars
<1>8. PermitInv'
  BY <1>7 DEF PermitInv, HasPermit
<1>9. p \in {"user"} \cup SetupPCs /\ (p \in InitPCs => pc[Main] \in InitPCs)
      /\ (p \in ReleasePCs => pc[Main] \in ReleasePCs) /\ UNCHANGED sid
  <2>1. p = pc'[Main]
    BY <1>1, <1>4
  <2>2. p \in {"user"} \cup SetupPCs /\ UNCHANGED sid
    <3>1. CASE InitStep(Main)
      BY <1>1, <2>1, <3>1 DEF InitStep, InitRefused, InitAccepted, InitMode, InitCount, InitState,
                        InitList, Return, Goto
    <3>2. CASE RelStep(Main)
      BY <1>1, <2>1, <3>2 DEF RelStep, RelState, RelRefused, RelList, RelStore, Return, Goto
    <3>3. CASE Inactive(Main)
      BY <1>1, <2>1, <3>3 DEF Inactive, Return
    <3>4. ~DownStep(Main) /\ ~UpStep(Main) /\ ~SleepStep(Main) /\ ~StrayWakeUp(Main)
      BY <1>3 DEF DownStep, DownGrant, DownSleep, DownOops, UpStep, UpCount, UpWake,
                  UpInvalidMode, UpOops, SleepStep, SleepUnlock, Schedule, RelockWoken,
                  RelockStray, UnlockReturn, StrayWakeUp
    <3>5. CheckStep(Main) => Inactive(Main)
      BY <1>3 DEF CheckStep, DownState, DownMode, UprioState, UprioMode, UpState
    <3> QED
      BY <3>1, <3>2, <3>3, <3>4, <3>5 DEF KernelStep
  <2> QED
    BY <1>1, <2>1, <2>2, KernelMoves
<1>10. PlacesInv'
  <2>1. at'[Main] = at[Main] /\ round' = round /\ pc'[Main] = p
    BY <1>1, <1>4 DEF testVars
  <2>2. round' \in {0, 1} /\ at'[Main] # "post"
    BY <2>1 DEF AtomicInv, PlacesInv
  <2>3. at'[Main] = "spawn" /\ round' = 1 => pc'[Main] = "user"
    BY <1>2, <2>1 DEF AtomicInv, PlacesInv
  <2>4. \A t \in Threads : pc'[t] # "user" => sid'[t] = Target
    BY <1>3, <1>7, <1>9
  <2> QED
    BY <1>5, <1>7, <1>9, <2>1, <2>2, <2>3, <2>4 DEF PlacesInv, Target
<1>11. MadeInv' /\ ReadyInv'
  <2>1. at'[Main] = at[Main] /\ pc'[Main] = p
    BY <1>1, <1>4 DEF testVars
  <2>2. CASE at[Main] = "end"
    <3>1. p \notin InitPCs
      BY <1>5, <1>9, <2>2
    <3> QED
      BY <2>1, <2>2, <3>1 DEF MadeInv, ReadyInv
  <2>3. CASE at[Main] = "spawn"
    <3>1. pc[Main] \in InitPCs /\ ~RelStep(Main) /\ ~CheckStep(Main)
      <4>1. pc[Main] \in InitPCs
        BY <1>3, <2>3 DEF CallersInv, SetupInv
      <4> QED
        BY <4>1 DEF RelStep, RelState, RelRefused, RelList, RelStore, CheckStep, Inactive,
                    DownState, DownMode, UprioState, UprioMode, UpState
    <3>2. InitStep(Main)
      BY <1>3, <3>1 DEF KernelStep, DownStep, DownGrant, DownSleep, DownOops, UpStep, UpCount,
                  UpWake, UpInvalidMode, UpOops, SleepStep, SleepUnlock, Schedule,
                  RelockWoken, RelockStray, UnlockReturn, StrayWakeUp
    <3>3. arg[Main].start_value = 1 /\ arg[Main].mode = FIFO
      BY <3>1 DEF AtomicInv, MadeInv
    <3>4. MadeInv
      BY DEF AtomicInv
    <3>5. CASE InitRefused(Main)
      BY <3>3, <3>4, <3>5, <1>3 DEF InitRefused, MadeInv
    <3>6. CASE InitAccepted(Main)
      BY <1>1, <2>1, <2>3, <3>3, <3>4, <3>6
         DEF InitAccepted, Goto, semVars, MadeInv, ReadyInv, Target
    <3>7. CASE InitMode(Main)
      <4>1. mode'[Target] = FIFO /\ arg' = arg /\ pc'[Main] = "init_count"
        BY <1>1, <1>3, <3>3, <3>7 DEF InitMode, Goto
      <4> QED
        BY <2>3, <2>1, <3>3, <4>1 DEF MadeInv, ReadyInv, Target
    <3>8. CASE InitCount(Main)
      <4>1. /\ count'[Target] = 1 /\ arg' = arg /\ pc'[Main] = "init_state"
            /\ mode'[Target] = FIFO
        BY <1>1, <1>3, <3>3, <3>4, <3>8 DEF InitCount, Goto, MadeInv, Target
      <4> QED
        BY <2>3, <2>1, <3>3, <4>1 DEF MadeInv, ReadyInv, Target
    <3>9. CASE InitState(Main)
      <4>1. /\ count'[Target] = 1 /\ arg' = arg /\ pc'[Main] = "init_list"
            /\ mode'[Target] = FIFO /\ state'[Target] = "ACTIVE"
        BY <1>1, <1>3, <3>3, <3>4, <3>9 DEF InitState, Goto, MadeInv, Target
      <4> QED
        BY <2>3, <2>1, <3>3, <4>1 DEF MadeInv, ReadyInv, Target
    <3>10. CASE InitList(Main)
      <4>1. /\ count'[Target] = 1 /\ pc'[Main] = "user"
            /\ mode'[Target] = FIFO /\ state'[Target] = "ACTIVE" /\ Target \in listed'
        BY <1>1, <1>3, <3>4, <3>10 DEF InitList, Return, MadeInv, Target
      <4> QED
        BY <2>3, <2>1, <4>1 DEF MadeInv, ReadyInv, Target
    <3> QED
      BY <3>2, <3>5, <3>6, <3>7, <3>8, <3>9, <3>10 DEF InitStep
  <2> QED
    BY <1>5, <2>2, <2>3
<1> QED
  BY <1>8, <1>10, <1>11

\* What a worker in a call finds: the semaphore, made and with its one permit.
LEMMA WorkerInCall ==
    ASSUME SerialInv, CallersInv, AtomicInv, NEW w \in Workers, pc[w] # "user"
    PROVE  /\ round = 1 /\ at[Main] \in {"spawn", "join"} /\ pc[Main] = "user"
           /\ sid[w] = Target /\ Target \in Sems /\ at[w] \in {"load", "down", "exited"}
           /\ state[Target] = "ACTIVE" /\ mode[Target] = FIFO /\ Target \in listed
           /\ count[Target] \in {0, 1}
<1> USE TestFacts
<1>1. round = 1 /\ sid[w] = Target /\ at[w] \in {"load", "down", "exited"}
  BY DEF AtomicInv, PlacesInv, DownPCs, SleepPCs, UpPCs
<1>2. at[Main] \in {"spawn", "join"}
  BY <1>1 DEF CallersInv, TestType, RunningInv, MainPlaces, AtomicInv, PlacesInv
<1>3. pc[Main] = "user"
  BY <1>1, <1>2 DEF AtomicInv, PlacesInv
<1> QED
  BY <1>1, <1>2, <1>3 DEF AtomicInv, ReadyInv, Target, InitPCs

\* The parts that a step of a worker in the kernel leaves as they are, once
\* it is known where it goes and that it keeps the one permit in its range.
LEMMA WorkerFrame ==
    ASSUME SerialInv, CallersInv, AtomicInv, UNCHANGED testVars,
           NEW w \in Workers, pc[w] # "user",
           NEW p, pc' = [pc EXCEPT ![w] = p], UNCHANGED sid,
           p \in {"user", "down_state", "down_mode", "down_lock", "unlock"}
                 \cup SleepPCs \cup UpPCs,
           p \in DownPCs \cup SleepPCs => at[w] = "load",
           p \in UpPCs => at[w] \in {"down", "exited"},
           UNCHANGED <<state, mode, listed>>, count'[Target] \in {0, 1}
    PROVE  PlacesInv' /\ MadeInv' /\ ReadyInv'
<1> USE TestFacts
<1>1. /\ round = 1 /\ at[Main] \in {"spawn", "join"} /\ pc[Main] = "user"
      /\ sid[w] = Target /\ at[w] \in {"load", "down", "exited"}
      /\ state[Target] = "ACTIVE" /\ mode[Target] = FIFO /\ Target \in listed
  BY WorkerInCall
<1>2. pc'[w] = p /\ \A t \in Threads : t # w => pc'[t] = pc[t]
  BY DEF CallersInv, TestType
<1>3. pc'[Main] = "user" /\ at' = at /\ round' = round /\ Target' = Target
  BY <1>1, <1>2 DEF testVars, Target
<1>4. PlacesInv'
  BY <1>1, <1>2, <1>3 DEF AtomicInv, PlacesInv
<1>5. MadeInv' /\ ReadyInv'
  BY <1>1, <1>3 DEF MadeInv, ReadyInv, InitPCs
<1> QED
  BY <1>4, <1>5

\* Nobody gains the permit and the count stays.
LEMMA PermitStays ==
    ASSUME CallersInv, AtomicInv, UNCHANGED testVars,
           count'[Target] = count[Target],
           \A w \in Workers : HasPermit(w)' => HasPermit(w)
    PROVE  PermitInv'
  BY DEF AtomicInv, PermitInv, testVars, Target

(* The worker in a call passes the permit on through the count or to the   *)
(* first of the list, and takes it only when nobody has it.                *)
LEMMA WorkerKernel ==
    ASSUME SerialInv, CallersInv, CallersInv', AtomicInv, ATOMIC_OPERATION, NEW w \in Workers,
           KernelStep(w) \/ StrayWakeUp(w), UNCHANGED testVars
    PROVE  PlacesInv' /\ MadeInv' /\ ReadyInv' /\ PermitInv'
<1> USE TestFacts
<1>1. /\ pc \in [Threads -> PCs] /\ up \in [Threads -> {0, 1}] /\ w \in Threads
      /\ DOMAIN count = Sems
  BY DEF CallersInv, TestType, SerialInv, TypeOK
<1>2. pc[w] # "user"
  BY <1>1, KernelMoves
<1>3. /\ round = 1 /\ at[Main] \in {"spawn", "join"} /\ pc[Main] = "user"
      /\ sid[w] = Target /\ Target \in Sems /\ at[w] \in {"load", "down", "exited"}
      /\ state[Target] = "ACTIVE" /\ mode[Target] = FIFO /\ Target \in listed
      /\ count[Target] \in {0, 1}
  BY <1>2, WorkerInCall
<1>4. /\ pc[w] \in {"down_state", "down_mode", "down_lock", "unlock"} \cup SleepPCs \cup UpPCs
      /\ pc[w] \in DownPCs \cup SleepPCs => at[w] = "load"
      /\ pc[w] \in UpPCs => at[w] \in {"down", "exited"}
  BY <1>2 DEF AtomicInv, PlacesInv
<1>5. PermitInv /\ Target' = Target /\ at' = at /\ v' = v /\ UNCHANGED <<round, shared_variable>>
  BY DEF AtomicInv, testVars, Target
<1> USE DEF SetupPCs, InitPCs, ReleasePCs, DownPCs, UpPCs, SleepPCs, LockedPCs
<1>6. ASSUME NEW p, pc' = [pc EXCEPT ![w] = p]
      PROVE  pc'[w] = p /\ \A t \in Threads : t # w => pc'[t] = pc[t]
  BY <1>1, <1>6
<1>7. CASE \/ DownState(w) \/ DownMode(w) \/ UpState(w)
           \/ SleepUnlock(w) \/ Schedule(w) \/ RelockStray(w) \/ RelockWoken(w) \/ StrayWakeUp(w)
  <2>1. UNCHANGED <<state, mode, listed, sid, up, count>>
    BY <1>7 DEF DownState, DownMode, UpState, SleepUnlock, Schedule, RelockStray, RelockWoken,
                StrayWakeUp, Goto, Unlock, semVars
  <2>2. PICK p : /\ pc' = [pc EXCEPT ![w] = p]
                 /\ \/ pc[w] = "down_state" /\ p = "down_mode"
                    \/ pc[w] = "down_mode" /\ p = "down_lock"
                    \/ pc[w] = "up_state" /\ p = "up_lock"
                    \/ pc[w] \in SleepPCs /\ p \in SleepPCs
                    \/ pc[w] = "relock" /\ up[w] = 1 /\ p = "unlock"
    <3>1. CASE DownState(w) \/ DownMode(w) \/ UpState(w)
      BY <1>3, <3>1 DEF DownState, DownMode, UpState, Goto, FIFO, USER
    <3>2. CASE SleepUnlock(w) \/ Schedule(w) \/ RelockStray(w) \/ RelockWoken(w)
      BY <3>2 DEF SleepUnlock, Schedule, RelockStray, RelockWoken, Goto
    <3>3. CASE StrayWakeUp(w)
      BY <1>1, <3>3 DEF StrayWakeUp
    <3> QED
      BY <1>7, <3>1, <3>2, <3>3
  <2>3. pc'[w] = p /\ \A t \in Threads : t # w => pc'[t] = pc[t]
    BY <1>6, <2>2
  <2>4. \A x \in Workers : HasPermit(x)' => HasPermit(x)
    BY <1>4, <1>5, <2>1, <2>2, <2>3 DEF HasPermit
  <2>5. PermitInv'
    BY <2>1, <2>4, PermitStays
  <2> QED
    BY <1>2, <1>3, <1>4, <2>1, <2>2, <2>5, WorkerFrame
<1>8. CASE DownGrant(w)
  <2>1. /\ UNCHANGED <<state, mode, listed, sid, up>> /\ pc' = [pc EXCEPT ![w] = "unlock"]
        /\ count[Target] = 1 /\ count'[Target] = 0
        /\ pc[w] = "down_lock"
    BY <1>1, <1>3, <1>4, <1>8 DEF DownGrant
  <2>2. pc'[w] = "unlock" /\ \A t \in Threads : t # w => pc'[t] = pc[t]
    BY <1>6, <2>1
  <2>3. \A x \in Workers : ~HasPermit(x)
    BY <1>3, <1>5, <2>1 DEF PermitInv
  <2>4. \A x \in Workers : HasPermit(x)' => x = w
    BY <1>5, <2>1, <2>2, <2>3 DEF HasPermit
  <2>5. PermitInv'
    BY <1>5, <2>1, <2>4 DEF PermitInv
  <2> QED
    BY <1>2, <1>3, <1>4, <2>1, <2>5, WorkerFrame
<1>9. CASE DownSleep(w)
  <2>1. /\ UNCHANGED <<state, mode, listed, sid, count>> /\ pc' = [pc EXCEPT ![w] = "sleep"]
        /\ up' = [up EXCEPT ![w] = 0] /\ pc[w] = "down_lock"
    BY <1>4, <1>9 DEF DownSleep
  <2>2. pc'[w] = "sleep" /\ \A t \in Threads : t # w => pc'[t] = pc[t]
    BY <1>6, <2>1
  <2>3. up'[w] = 0 /\ \A t \in Threads : t # w => up'[t] = up[t]
    BY <1>1, <2>1
  <2>4. \A x \in Workers : HasPermit(x)' => HasPermit(x)
    BY <1>5, <2>1, <2>2, <2>3 DEF HasPermit
  <2>5. PermitInv'
    BY <2>1, <2>4, PermitStays
  <2> QED
    BY <1>2, <1>3, <1>4, <2>1, <2>5, WorkerFrame
<1>10. CASE UnlockReturn(w)
  <2>1. /\ UNCHANGED <<state, mode, listed, sid, count>> /\ pc' = [pc EXCEPT ![w] = "user"]
        /\ up' = [up EXCEPT ![w] = 0] /\ pc[w] = "unlock"
    BY <1>10 DEF UnlockReturn, Unlock
  <2>2. pc'[w] = "user" /\ \A t \in Threads : t # w => pc'[t] = pc[t]
    BY <1>6, <2>1
  <2>3. up'[w] = 0 /\ \A t \in Threads : t # w => up'[t] = up[t]
    BY <1>1, <2>1
  <2>4. \A x \in Workers : HasPermit(x)' => HasPermit(x)
    BY <1>3, <1>5, <2>1, <2>2, <2>3 DEF HasPermit
  <2>5. PermitInv'
    BY <2>1, <2>4, PermitStays
  <2> QED
    BY <1>2, <1>3, <1>4, <2>1, <2>5, WorkerFrame
<1>11. CASE UpCount(w)
  <2>1. HasPermit(w) /\ count[Target] = 0
    BY <1>3, <1>5, <1>11 DEF UpCount, HasPermit, PermitInv
  <2>2. UINT_MAX \in Nat /\ UINT_MAX >= 1
    BY SemaphoreConstants, ClientConstants
  <2>3. /\ UNCHANGED <<state, mode, listed, sid, up>> /\ pc' = [pc EXCEPT ![w] = "unlock"]
        /\ pc[w] = "up_lock" /\ count'[Target] = 1
    BY <1>1, <1>3, <1>11, <2>1, <2>2 DEF UpCount, Increment
  <2>4. pc'[w] = "unlock" /\ \A t \in Threads : t # w => pc'[t] = pc[t]
    BY <1>6, <2>3
  <2>5. \A x \in Workers : HasPermit(x) => x = w
    BY <1>3, <1>5, <2>1 DEF PermitInv
  <2>6. ~HasPermit(w)'
    BY <1>4, <1>5, <2>3, <2>4 DEF HasPermit
  <2>7. \A x \in Workers : ~HasPermit(x)'
    BY <1>5, <2>3, <2>4, <2>5, <2>6 DEF HasPermit
  <2>8. at[w] # "store" /\ \A x \in Workers : at[x] # "store"
    <3>1. \A x \in Workers : at[x] = "store" => HasPermit(x)
      BY DEF AtomicInv, PlacesInv, HasPermit
    <3> QED
      BY <1>3, <2>5, <3>1
  <2>9. PermitInv'
    BY <1>5, <2>7, <2>8 DEF PermitInv
  <2> QED
    BY <1>2, <1>3, <1>4, <2>3, <2>9, WorkerFrame
<1>12. CASE UpWake(w)
  <2>1. wait_list[Target] # << >> /\ wait_list[Target] \in Seq(Threads)
    BY <1>3, <1>12 DEF UpWake, SerialInv, TypeOK
  <2>2. PICK h : h = Head(wait_list[Target])
    OBVIOUS
  <2>3. h \in Threads /\ h \in Range(wait_list[Target])
    BY <2>1, <2>2 DEF Range
  <2>4. pc[h] \in SleepPCs /\ up[h] = 0
    BY <1>3, <2>3 DEF SerialInv, QueueInv
  <2>5. h \in Workers /\ pc[w] = "up_lock" /\ h # w
    BY <1>3, <1>12, <2>3, <2>4 DEF UpWake
  <2>6. /\ UNCHANGED <<state, mode, listed, sid, count>> /\ pc' = [pc EXCEPT ![w] = "unlock"]
        /\ up' = [up EXCEPT ![h] = 1]
    <3>1. Sorted(Target) = {wait_list[Target]}
      BY <1>3 DEF Sorted, FIFO, OS, USER
    <3>2. PICK q \in Sorted(sid[w]) : up' = [up EXCEPT ![Head(q)] = 1]
      BY <1>12 DEF UpWake
    <3>3. q = wait_list[Target]
      BY <1>3, <3>1, <3>2
    <3> QED
      BY <1>12, <2>2, <3>2, <3>3 DEF UpWake
  <2>7. pc'[w] = "unlock" /\ \A t \in Threads : t # w => pc'[t] = pc[t]
    BY <1>6, <2>6
  <2>8. up'[h] = 1 /\ \A t \in Threads : t # h => up'[t] = up[t]
    BY <1>1, <2>3, <2>6
  <2>9. HasPermit(w) /\ count[Target] = 0
    BY <1>3, <1>5, <2>5 DEF HasPermit, PermitInv
  <2>10. \A x \in Workers : HasPermit(x) => x = w
    BY <1>3, <1>5, <2>9 DEF PermitInv
  <2>11. ~HasPermit(w)'
    BY <1>4, <1>5, <2>5, <2>7 DEF HasPermit
  <2>12. \A x \in Workers : HasPermit(x)' => x = h
    BY <1>5, <2>7, <2>8, <2>10, <2>11 DEF HasPermit
  <2>13. \A x \in Workers : at[x] # "store"
    <3>1. \A x \in Workers : at[x] = "store" => HasPermit(x)
      BY DEF AtomicInv, PlacesInv, HasPermit
    <3> QED
      BY <1>3, <2>10, <3>1
  <2>14. PermitInv'
    BY <1>5, <2>6, <2>9, <2>12, <2>13 DEF PermitInv
  <2> QED
    BY <1>2, <1>3, <1>4, <2>6, <2>14, WorkerFrame
<1>13. ~DownOops(w) /\ ~UpOops(w) /\ ~UpInvalidMode(w) /\ ~UprioState(w) /\ ~UprioMode(w)
       /\ ~Inactive(w)
  BY <1>3, <1>4 DEF DownOops, UpOops, UpInvalidMode, UprioState, UprioMode, Inactive
<1>14. ~InitStep(w) /\ ~RelStep(w)
  BY <1>4 DEF InitStep, InitRefused, InitAccepted, InitMode, InitCount, InitState, InitList,
              RelStep, RelState, RelRefused, RelList, RelStore
<1> QED
  BY <1>7, <1>8, <1>9, <1>10, <1>11, <1>12, <1>13, <1>14
     DEF KernelStep, CheckStep, DownStep, SleepStep, UpStep

\* What counts as added after a step.
LEMMA AddedNext ==
    ASSUME NEW x \in Workers
    PROVE  /\ at'[Main] = "spawn" /\ x > i'[Main] => Added(x)' = 0
           /\ ~(at'[Main] = "spawn" /\ x > i'[Main]) =>
                 Added(x)' = IF at'[x] = "up" THEN i'[x] + 1 ELSE i'[x]
           /\ at[Main] = "spawn" /\ x > i[Main] => Added(x) = 0
           /\ ~(at[Main] = "spawn" /\ x > i[Main]) =>
                 Added(x) = IF at[x] = "up" THEN i[x] + 1 ELSE i[x]
  BY DEF Added

\* The sum stays while nobody adds and nobody's additions are forgotten.
LEMMA SumFrame ==
    ASSUME SumInv, round' = round, shared_variable' = shared_variable,
           \A x \in Workers : Added(x)' = Added(x)
    PROVE  SumInv'
  BY DEF SumInv, AddsUp

\* One more addition of w counts for w and all the prefixes that have it.
LEMMA SumGrows ==
    ASSUME SumInv, round = 1, round' = 1, NEW w \in Workers,
           \A x \in Workers : Added(x) \in Int,
           shared_variable' = shared_variable + 1, Added(w)' = Added(w) + 1,
           \A x \in Workers : x # w => Added(x)' = Added(x)
    PROVE  SumInv'
<1> USE TestFacts
<1>1. PICK sums \in [0 .. MAX_THREAD -> Int] : AddsUp(sums)
  BY DEF SumInv
<1>2. PICK more : more = [n \in 0 .. MAX_THREAD |-> IF n >= w THEN sums[n] + 1 ELSE sums[n]]
  OBVIOUS
<1>3. /\ more \in [0 .. MAX_THREAD -> Int]
      /\ \A n \in 0 .. MAX_THREAD : more[n] = IF n >= w THEN sums[n] + 1 ELSE sums[n]
  BY <1>2
<1>4. more[0] = 0 /\ more[MAX_THREAD] = shared_variable'
  <2>1. 0 \in 0 .. MAX_THREAD /\ MAX_THREAD \in 0 .. MAX_THREAD /\ ~(0 >= w) /\ MAX_THREAD >= w
    OBVIOUS
  <2> QED
    BY <1>1, <1>3, <2>1 DEF AddsUp
<1>5. ASSUME NEW x \in Workers PROVE more[x] = more[x - 1] + Added(x)'
  <2>1. x \in 0 .. MAX_THREAD /\ x - 1 \in 0 .. MAX_THREAD /\ x \in Nat /\ w \in Nat
    OBVIOUS
  <2>2. PICK d \in Int : d = Added(x)
    OBVIOUS
  <2>3. PICK e : e = Added(x)'
    OBVIOUS
  <2>4. PICK p \in Int, q \in Int : p = sums[x] /\ q = sums[x - 1]
    BY <1>1, <2>1
  <2>5. p = q + d
    BY <1>1, <2>1, <2>2, <2>4 DEF AddsUp
  <2>6. e = IF x = w THEN d + 1 ELSE d
    BY <2>2, <2>3
  <2>7. /\ more[x] = IF x >= w THEN p + 1 ELSE p
        /\ more[x - 1] = IF x - 1 >= w THEN q + 1 ELSE q
    BY <1>3, <2>1, <2>4
  <2>8. more[x] = more[x - 1] + e
    <3>1. CASE x = w
      <4>1. x >= w /\ ~ (x - 1 >= w)
        BY <2>1, <3>1
      <4>2. more[x] = p + 1 /\ more[x - 1] = q /\ e = d + 1
        BY <2>6, <2>7, <3>1, <4>1, Zenon
      <4> QED
        BY <2>5, <4>2
    <3>2. CASE x < w
      <4>1. x # w /\ ~ (x >= w) /\ ~ (x - 1 >= w)
        BY <2>1, <3>2
      <4>2. more[x] = p /\ more[x - 1] = q /\ e = d
        BY <2>6, <2>7, <4>1, Zenon
      <4> QED
        BY <2>5, <4>2
    <3>3. CASE x > w
      <4>1. x # w /\ x >= w /\ x - 1 >= w
        BY <2>1, <3>3
      <4>2. more[x] = p + 1 /\ more[x - 1] = q + 1 /\ e = d
        BY <2>6, <2>7, <4>1, Zenon
      <4> QED
        BY <2>5, <4>2
    <3> QED
      BY <2>1, <3>1, <3>2, <3>3
  <2> QED
    BY <2>3, <2>8
<1> QED
  BY <1>3, <1>4, <1>5 DEF SumInv, AddsUp

\* Additions are numbers.
LEMMA AddedType == CallersInv => \A x \in Workers : Added(x) \in Int
  BY TestFacts DEF CallersInv, TestType, Added

(* What main does between the calls: it makes the semaphore once, starts   *)
(* each pass with nothing added, and joins workers that have added all     *)
(* they had to.                                                            *)
LEMMA MainAtomic ==
    ASSUME SerialInv, CallersInv, CallersInv', AtomicInv, ATOMIC_OPERATION,
           \/ AtomicInit \/ SecondPass \/ AtomicRelease
           \/ pthread_create(Body, "join") \/ pthread_join("release")
    PROVE  AtomicInv'
<1> USE TestFacts
<1> USE DEF SetupPCs, InitPCs, ReleasePCs, DownPCs, UpPCs, SleepPCs, Stands
<1>1. /\ PlacesInv /\ MadeInv /\ ReadyInv /\ PermitInv /\ TurnsInv /\ SumInv
      /\ RunningInv /\ RunningInv' /\ Target' = Target /\ TestType /\ TestType'
  BY DEF AtomicInv, CallersInv, Target
<1>2. /\ at \in [Threads -> MainPlaces \cup WorkerPlaces] /\ i \in [Threads -> Nat]
      /\ pc \in [Threads -> PCs] /\ sid \in [Threads -> Sems] /\ DOMAIN arg = Threads
  BY <1>1 DEF TestType, SerialInv, TypeOK
<1>3. CASE AtomicInit
  <2>1. /\ pc[Main] = "user" /\ at[Main] = "init" /\ UNCHANGED <<i, v, shared_variable, round>>
        /\ pc' = [pc EXCEPT ![Main] = "init_check"] /\ sid' = [sid EXCEPT ![Main] = Target]
        /\ arg' = [arg EXCEPT ![Main] = [start_value |-> 1, mode |-> FIFO, priority |-> 0]]
        /\ at' = [at EXCEPT ![Main] = "spawn"] /\ UNCHANGED semVars
    BY <1>3 DEF AtomicInit, sys_mysema_init, Enter, Target
  <2>2. /\ pc'[Main] = "init_check" /\ at'[Main] = "spawn" /\ sid'[Main] = Target
        /\ arg'[Main].start_value = 1 /\ arg'[Main].mode = FIFO /\ round' = 0
        /\ state'[Target] = "ZERO"
    BY <1>1, <1>2, <2>1 DEF PlacesInv, MadeInv, semVars
  <2>3. \A w \in Workers : /\ at'[w] = "none" /\ pc'[w] = "user" /\ i'[w] = i[w]
    BY <1>1, <1>2, <2>1 DEF RunningInv
  <2>4. PlacesInv'
    BY <1>1, <2>2, <2>3 DEF PlacesInv
  <2>5. MadeInv' /\ ReadyInv' /\ PermitInv' /\ SumInv'
    BY <1>1, <2>2 DEF MadeInv, ReadyInv, PermitInv, SumInv
  <2>6. TurnsInv'
    BY <1>1, <2>2, <2>3 DEF TurnsInv
  <2> QED
    BY <2>4, <2>5, <2>6 DEF AtomicInv
<1>4. CASE SecondPass
  <2>1. /\ pc[Main] = "user" /\ at[Main] = "release" /\ UNCHANGED <<vars, i, v>>
        /\ at' = [at EXCEPT ![Main] = "spawn"] /\ shared_variable' = 0 /\ round' = 1
    BY <1>4 DEF SecondPass
  <2>2. UNCHANGED <<state, mode, count, listed, pc, sid, arg, up>>
    BY <2>1 DEF vars, semVars, threadVars
  <2>3. /\ at'[Main] = "spawn" /\ i[Main] = 0
        /\ \A w \in Workers : at'[w] = "none" /\ at[w] = "none" /\ pc[w] = "user"
    BY <1>1, <1>2, <2>1 DEF RunningInv
  <2>4. PlacesInv' /\ MadeInv' /\ ReadyInv' /\ TurnsInv'
    BY <1>1, <2>1, <2>2, <2>3 DEF PlacesInv, MadeInv, ReadyInv, TurnsInv
  <2>5. PermitInv'
    BY <2>2, <2>3 DEF PermitInv, HasPermit
  <2>6. SumInv'
    <3>1. \A w \in Workers : Added(w)' = 0
      BY <2>1, <2>3 DEF Added
    <3>2. PICK sums : sums = [n \in 0 .. MAX_THREAD |-> 0]
      OBVIOUS
    <3>3. /\ sums \in [0 .. MAX_THREAD -> Int]
          /\ \A n \in 0 .. MAX_THREAD : sums[n] = 0
      BY <3>2
    <3>4. \A w \in Workers : w \in 0 .. MAX_THREAD /\ w - 1 \in 0 .. MAX_THREAD
      OBVIOUS
    <3>5. sums[0] = 0 /\ sums[MAX_THREAD] = shared_variable'
      BY <2>1, <3>3
    <3>6. \A w \in Workers : sums[w] = sums[w - 1] + Added(w)'
      BY <3>1, <3>3, <3>4
    <3> QED
      BY <3>3, <3>5, <3>6 DEF SumInv, AddsUp
  <2> QED
    BY <2>4, <2>5, <2>6 DEF AtomicInv
<1>5. CASE AtomicRelease
  <2>1. /\ pc[Main] = "user" /\ at[Main] = "release" /\ UNCHANGED <<i, v, shared_variable, round>>
        /\ pc' = [pc EXCEPT ![Main] = "rel_state"] /\ sid' = [sid EXCEPT ![Main] = Target]
        /\ at' = [at EXCEPT ![Main] = "end"] /\ round = 1
    BY <1>5 DEF AtomicRelease, Release, sys_mysema_release, Enter, Target
  <2>2. /\ at'[Main] = "end" /\ pc'[Main] = "rel_state" /\ sid'[Main] = Target
        /\ \A w \in Workers : at'[w] = "none" /\ at[w] = "none" /\ pc'[w] = "user"
    BY <1>1, <1>2, <2>1 DEF RunningInv
  <2>3. PlacesInv' /\ MadeInv' /\ ReadyInv' /\ TurnsInv'
    BY <1>1, <2>1, <2>2 DEF PlacesInv, MadeInv, ReadyInv, TurnsInv
  <2>4. PermitInv'
    BY <2>2 DEF PermitInv, HasPermit
  <2>5. SumInv'
    BY <1>1, <2>1, <2>2, SumFrame DEF Added
  <2> QED
    BY <2>3, <2>4, <2>5 DEF AtomicInv
<1>6. CASE pthread_create(Body, "join")
  <2>1. PICK w : w = i[Main] + 1
    OBVIOUS
  <2>2. /\ pc[Main] = "user" /\ at[Main] = "spawn" /\ UNCHANGED <<vars, v, shared_variable, round>>
        /\ at' = [at EXCEPT ![w] = Body, ![Main] = IF w = MAX_THREAD THEN "join" ELSE @]
        /\ i' = [i EXCEPT ![w] = 0, ![Main] = IF w = MAX_THREAD THEN 0 ELSE w]
    BY <1>6, <2>1 DEF pthread_create
  <2>3. w \in Workers /\ w # Main /\ i[Main] \in Nat
    BY <1>1, <1>2, <2>1 DEF RunningInv, Workers
  <2>4. UNCHANGED <<state, mode, count, listed, pc, sid, arg, up>>
    BY <2>2 DEF vars, semVars, threadVars
  <2>5. /\ at'[w] = Body /\ at'[Main] = IF w = MAX_THREAD THEN "join" ELSE "spawn"
        /\ i'[w] = 0 /\ i'[Main] = IF w = MAX_THREAD THEN 0 ELSE w
        /\ \A x \in Workers : x # w => at'[x] = at[x] /\ i'[x] = i[x]
    BY <1>2, <2>2, <2>3
  <2>6. at[w] = "none" /\ pc[w] = "user" /\ Body = IF round = 0 THEN "load" ELSE "down"
    BY <1>1, <2>1, <2>2, <2>3 DEF RunningInv, Body
  <2>7. PlacesInv'
    <3>1. at'[Main] \in {"spawn", "join"} /\ round' = round /\ pc' = pc /\ sid' = sid
      BY <2>2, <2>4, <2>5
    <3>2. at'[w] \notin {"up", "userprio"} /\ (round = 0 => at'[w] = "load") /\ pc[w] = "user"
      BY <2>5, <2>6
    <3> QED
      BY <1>1, <2>2, <2>5, <3>1, <3>2 DEF PlacesInv
  <2>8. MadeInv' /\ ReadyInv'
    BY <1>1, <2>2, <2>4, <2>5 DEF MadeInv, ReadyInv
  <2>9. PermitInv'
    <3>1. round = 1 => \A x \in Workers : HasPermit(x)' => HasPermit(x)
      BY <2>4, <2>5, <2>6 DEF HasPermit
    <3>2. round = 1 => \A x \in Workers : at'[x] = "store" => at[x] = "store"
      BY <2>5, <2>6
    <3> QED
      BY <1>1, <2>2, <2>4, <3>1, <3>2 DEF PermitInv
  <2>10. TurnsInv'
    <3>1. \A x \in Workers : x # w => i'[x] = i[x] /\ at'[x] = at[x]
      BY <2>5
    <3>2. at'[Main] \notin {"release", "end"} /\ (at'[Main] = "join" => i'[Main] = 0)
      BY <2>5
    <3>3. i'[w] = 0 /\ at'[w] \in {"load", "down"}
      BY <2>5, <2>6
    <3> QED
      BY <1>1, <3>1, <3>2, <3>3 DEF TurnsInv
  <2>11. SumInv'
    <3>1. ASSUME NEW x \in Workers PROVE Added(x)' = Added(x)
      <4>1. CASE x = w
        <5>1. w > i[Main] /\ ~(w > w) /\ Body # "up"
          BY <2>1, <2>3, <2>6
        <5>2. Added(x) = 0
          BY <2>2, <4>1, <5>1, AddedNext
        <5>3. ~(at'[Main] = "spawn" /\ x > i'[Main]) /\ at'[x] # "up" /\ i'[x] = 0
          BY <2>5, <4>1, <5>1
        <5>4. Added(x)' = 0
          BY <5>3, AddedNext
        <5> QED
          BY <5>2, <5>4
      <4>2. CASE x # w
        <5>1. x > i[Main] <=> x > w
          BY <2>1, <2>3, <4>2
        <5>2. w = MAX_THREAD => ~(x > w)
          OBVIOUS
        <5> QED
          <6>1. at'[x] = at[x] /\ i'[x] = i[x]
            BY <2>5, <4>2
          <6>2. at'[Main] = "spawn" /\ x > i'[Main] <=> x > i[Main]
            BY <2>5, <5>1, <5>2
          <6>3. CASE x > i[Main]
            BY <2>2, <6>2, <6>3, AddedNext
          <6>4. CASE ~(x > i[Main])
            <7>1. ~(at'[Main] = "spawn" /\ x > i'[Main]) /\ ~(at[Main] = "spawn" /\ x > i[Main])
              BY <6>2, <6>4
            <7>2. /\ Added(x) = IF at[x] = "up" THEN i[x] + 1 ELSE i[x]
                  /\ Added(x)' = IF at'[x] = "up" THEN i'[x] + 1 ELSE i'[x]
              BY <7>1, AddedNext
            <7> QED
              BY <6>1, <7>2
          <6> QED
            BY <6>3, <6>4
      <4> QED
        BY <4>1, <4>2
    <3> QED
      BY <1>1, <2>2, <3>1, SumFrame
  <2> QED
    BY <2>7, <2>8, <2>9, <2>10, <2>11 DEF AtomicInv
<1>7. CASE pthread_join("release")
  <2>1. PICK w : w = i[Main] + 1
    OBVIOUS
  <2>2. /\ pc[Main] = "user" /\ at[Main] = "join" /\ UNCHANGED <<vars, v, shared_variable, round>>
        /\ pc[w] = "user" /\ at[w] = "exited"
        /\ at' = [at EXCEPT ![w] = "none", ![Main] = IF w = MAX_THREAD THEN "release" ELSE @]
        /\ i' = [i EXCEPT ![Main] = IF w = MAX_THREAD THEN 0 ELSE w]
    BY <1>7, <2>1 DEF pthread_join
  <2>3. w \in Workers /\ w # Main /\ i[Main] \in Nat
    BY <1>1, <1>2, <2>1 DEF RunningInv, Workers
  <2>4. UNCHANGED <<state, mode, count, listed, pc, sid, arg, up>>
    BY <2>2 DEF vars, semVars, threadVars
  <2>5. /\ at'[w] = "none" /\ at'[Main] = IF w = MAX_THREAD THEN "release" ELSE "join"
        /\ i'[Main] = IF w = MAX_THREAD THEN 0 ELSE w
        /\ \A x \in Workers : i'[x] = i[x]
        /\ \A x \in Workers : x # w => at'[x] = at[x]
    BY <1>2, <2>2, <2>3
  <2>6. PlacesInv'
    <3>1. at'[Main] \in {"release", "join"} /\ round' = round /\ pc' = pc /\ sid' = sid
      BY <2>2, <2>4, <2>5
    <3>2. pc[Main] = "user" /\ pc[w] = "user" /\ at'[w] = "none"
      BY <2>2, <2>5
    <3>3. \A x \in Workers : x = w \/ at'[x] = at[x]
      BY <2>5
    <3> QED
      BY <1>1, <3>1, <3>2, <3>3 DEF PlacesInv
  <2>7. MadeInv' /\ ReadyInv'
    BY <1>1, <2>2, <2>4, <2>5 DEF MadeInv, ReadyInv
  <2>8. PermitInv'
    <3>1. \A x \in Workers : HasPermit(x)' => HasPermit(x)
      BY <2>4, <2>5 DEF HasPermit
    <3>2. \A x \in Workers : at'[x] = "store" => at[x] = "store"
      BY <2>5
    <3> QED
      BY <1>1, <2>2, <2>4, <3>1, <3>2 DEF PermitInv
  <2>9. TurnsInv'
    <3>1. \A x \in Workers : x <= w => i[x] = MAX_LOOP
      BY <1>1, <2>1, <2>2, <2>3 DEF TurnsInv
    <3>2. at'[Main] \in {"release", "end"} => \A x \in Workers : i[x] = MAX_LOOP
      BY <2>5, <3>1
    <3>3. at'[Main] = "join" => i'[Main] = w
      BY <2>5
    <3>4. \A x \in Workers : at'[x] = at[x] \/ at'[x] = "none"
      BY <2>5
    <3> QED
      BY <1>1, <2>5, <3>1, <3>2, <3>3, <3>4 DEF TurnsInv
  <2>10. SumInv'
    <3>1. ASSUME NEW x \in Workers PROVE Added(x)' = Added(x)
      <4>1. at'[Main] # "spawn" /\ at[Main] # "spawn" /\ i'[x] = i[x]
        BY <2>2, <2>5
      <4>2. at'[x] = "up" <=> at[x] = "up"
        BY <2>2, <2>5
      <4> QED
        BY <4>1, <4>2, AddedNext
    <3> QED
      BY <1>1, <2>2, <3>1, SumFrame
  <2> QED
    BY <2>6, <2>7, <2>8, <2>9, <2>10 DEF AtomicInv
<1> QED
  BY <1>3, <1>4, <1>5, <1>6, <1>7

(* What a worker does between its calls: it adds one while it has the      *)
(* permit, to the value that it has read with it.                          *)
LEMMA WorkerAtomic ==
    ASSUME SerialInv, CallersInv, CallersInv', AtomicInv, ATOMIC_OPERATION, NEW w \in Threads,
           CallDown(w) \/ Load(w) \/ Store(w) \/ CallUp(w)
    PROVE  AtomicInv'
<1> USE TestFacts
<1> USE DEF SetupPCs, InitPCs, ReleasePCs, DownPCs, UpPCs, SleepPCs, Stands
<1>1. /\ PlacesInv /\ MadeInv /\ ReadyInv /\ PermitInv /\ TurnsInv /\ SumInv
      /\ RunningInv /\ RunningInv' /\ Target' = Target /\ TestType /\ TestType'
  BY DEF AtomicInv, CallersInv, Target
<1>2. /\ at \in [Threads -> MainPlaces \cup WorkerPlaces] /\ i \in [Threads -> Nat]
      /\ pc \in [Threads -> PCs] /\ sid \in [Threads -> Sems] /\ DOMAIN arg = Threads
      /\ v \in [Threads -> Int] /\ shared_variable \in Int
  BY <1>1 DEF TestType, SerialInv, TypeOK
<1>3. pc[w] = "user" /\ at[w] \in {"down", "load", "store", "up"}
  BY DEF CallDown, Load, Store, CallUp
<1>4. w \in Workers /\ w # Main
  BY <1>1, <1>3 DEF TestType, MainPlaces
<1>5. at[Main] \in {"spawn", "join"} /\ ~(at[Main] = "spawn" /\ w > i[Main])
      /\ (at[Main] = "join" => ~(w <= i[Main]))
  BY <1>1, <1>3, <1>4 DEF TestType, MainPlaces, RunningInv, PlacesInv
<1>6. i[w] \in 0 .. MAX_LOOP /\ i[w] < MAX_LOOP
  BY <1>1, <1>3, <1>4 DEF TurnsInv
<1>7. PICK x : at' = [at EXCEPT ![w] = x]
  BY DEF CallDown, Load, Store, CallUp, NextTurn
<1>8. at'[w] = x /\ at'[Main] = at[Main] /\ \A y \in Workers : y # w => at'[y] = at[y]
  BY <1>2, <1>4, <1>7
<1>9. UNCHANGED <<state, mode, count, listed, up, round>>
  BY DEF CallDown, Load, Store, CallUp, sys_mysema_down, sys_mysema_up, Enter, vars, semVars,
         threadVars
<1>10. PICK p \in {"user", "down_state", "up_state"} :
          /\ pc' = [pc EXCEPT ![w] = p]
          /\ p # "user" => sid' = [sid EXCEPT ![w] = Target]
          /\ p = "user" => sid' = sid
          /\ p = "down_state" <=> at[w] = "down"
          /\ p = "up_state" <=> at[w] = "up"
          /\ arg'[Main] = arg[Main]
  BY <1>2, <1>3, <1>4
     DEF CallDown, Load, Store, CallUp, sys_mysema_down, sys_mysema_up, Enter, vars, semVars,
         threadVars, Target
<1>11. /\ pc'[w] = p /\ \A t \in Threads : t # w => pc'[t] = pc[t] /\ sid'[t] = sid[t]
       /\ p # "user" => sid'[w] = Target
  BY <1>2, <1>4, <1>10
<1>12. /\ at[w] = "down" => x = "load"
       /\ at[w] = "load" => x = "store"
       /\ at[w] = "store" => x = IF round = 1 THEN "up"
                                ELSE IF i[w] + 1 < MAX_LOOP THEN "load" ELSE "exited"
       /\ at[w] = "up" => x = IF i[w] + 1 < MAX_LOOP THEN "down" ELSE "exited"
  <2>1. x = at'[w] /\ round \in {0, 1}
    BY <1>1, <1>8 DEF PlacesInv
  <2> QED
    BY <1>2, <1>3, <1>4, <2>1 DEF CallDown, Load, Store, CallUp, NextTurn
<1>13. /\ i'[w] = IF at[w] = "up" \/ (at[w] = "store" /\ round = 0) THEN i[w] + 1 ELSE i[w]
       /\ i'[Main] = i[Main] /\ \A y \in Workers : y # w => i'[y] = i[y]
  BY <1>1, <1>2, <1>3, <1>4 DEF CallDown, Load, Store, CallUp, NextTurn, PlacesInv
<1>14. PlacesInv'
  <2>1. pc'[Main] = pc[Main] /\ round \in {0, 1}
    BY <1>1, <1>4, <1>11 DEF PlacesInv
  <2>2. \A t \in Threads : pc'[t] # "user" => sid'[t] = Target
    BY <1>1, <1>11 DEF PlacesInv
  <2>3. /\ x # "userprio" /\ (round = 0 => p = "user" /\ x \notin {"down", "up"})
        /\ p \in DownPCs \cup SleepPCs => x = "load"
        /\ p \in UpPCs => x \in {"down", "exited"} /\ p # "unlock"
    BY <1>1, <1>3, <1>4, <1>10, <1>12 DEF PlacesInv
  <2> QED
    BY <1>1, <1>4, <1>8, <1>9, <1>10, <1>11, <2>1, <2>2, <2>3 DEF PlacesInv
<1>15. MadeInv' /\ ReadyInv'
  BY <1>1, <1>4, <1>5, <1>8, <1>9, <1>10, <1>11 DEF MadeInv, ReadyInv
<1>16. TurnsInv'
  <2>1. i'[w] \in 0 .. MAX_LOOP /\ (x \in {"down", "load", "store", "up"} => i'[w] < MAX_LOOP)
        /\ (x = "exited" => i'[w] = MAX_LOOP)
    BY <1>1, <1>3, <1>6, <1>12, <1>13 DEF PlacesInv
  <2> QED
    BY <1>1, <1>4, <1>5, <1>8, <1>13, <2>1 DEF TurnsInv
<1>17. round = 1 => \A y \in Workers : HasPermit(y)' => HasPermit(y)
  <2>1. round = 1 => (HasPermit(w)' => HasPermit(w))
    BY <1>3, <1>8, <1>9, <1>10, <1>11, <1>12 DEF HasPermit
  <2>2. \A y \in Workers : y # w => (HasPermit(y)' => HasPermit(y))
    BY <1>8, <1>9, <1>11 DEF HasPermit
  <2> QED
    BY <2>1, <2>2
<1>18. PermitInv'
  <2>1. SUFFICES ASSUME round = 1 PROVE PermitInv'
    BY <1>9 DEF PermitInv
  <2>2. ASSUME NEW y \in Workers, at'[y] = "store" PROVE v'[y] = shared_variable'
    <3>1. CASE y = w
      <4>1. at[w] = "load"
        BY <1>3, <1>8, <1>12, <2>1, <2>2, <3>1
      <4> QED
        BY <1>2, <1>4, <3>1, <4>1 DEF CallDown, Load, Store, CallUp
    <3>2. CASE y # w
      <4>1. at[y] = "store" /\ v[y] = shared_variable
        BY <1>1, <1>8, <2>1, <2>2, <3>2 DEF PermitInv
      <4>2. pc[y] = "user" /\ HasPermit(y)
        BY <1>1, <4>1 DEF PlacesInv, HasPermit
      <4>3. ~HasPermit(w)
        BY <1>1, <1>4, <2>1, <3>2, <4>2 DEF PermitInv
      <4>4. at[w] = "down"
        BY <1>3, <4>3 DEF HasPermit
      <4>5. UNCHANGED <<v, shared_variable>>
        BY <4>4 DEF CallDown, Load, Store, CallUp
      <4> QED
        BY <4>1, <4>5
    <3> QED
      BY <3>1, <3>2
  <2> QED
    BY <1>1, <1>9, <1>17, <2>1, <2>2 DEF PermitInv
<1>19. SumInv'
  <2>1. SUFFICES ASSUME round = 1 PROVE SumInv'
    BY <1>9 DEF SumInv
  <2>2. ASSUME NEW y \in Workers, y # w PROVE Added(y)' = Added(y)
    <3>1. at'[y] = at[y] /\ i'[y] = i[y] /\ at'[Main] = at[Main] /\ i'[Main] = i[Main]
      BY <1>8, <1>13, <2>2
    <3> QED
      BY <3>1 DEF Added
  <2>3. /\ Added(w) = IF at[w] = "up" THEN i[w] + 1 ELSE i[w]
        /\ Added(w)' = IF x = "up" THEN i'[w] + 1 ELSE i'[w]
    <3>1. ~(at'[Main] = "spawn" /\ w > i'[Main])
      BY <1>5, <1>8, <1>13
    <3> QED
      BY <1>4, <1>5, <1>8, <3>1, AddedNext
  <2>4. CASE at[w] = "store"
    <3>1. shared_variable' = v[w] + 1 /\ v[w] = shared_variable
      BY <1>1, <1>4, <2>1, <2>4 DEF CallDown, Load, Store, CallUp, PermitInv
    <3>2. x = "up" /\ i'[w] = i[w]
      BY <1>12, <1>13, <2>1, <2>4
    <3>3. Added(w)' = Added(w) + 1
      BY <2>3, <2>4, <3>2
    <3>4. \A y \in Workers : Added(y) \in Int
      BY AddedType
    <3> QED
      BY <1>1, <1>4, <1>9, <2>1, <2>2, <3>1, <3>3, <3>4, SumGrows
  <2>5. CASE at[w] # "store"
    <3>1. shared_variable' = shared_variable
      BY <2>5 DEF CallDown, Load, Store, CallUp
    <3>2. Added(w)' = Added(w)
      BY <1>3, <1>6, <1>12, <1>13, <2>1, <2>3, <2>5
    <3> QED
      BY <1>1, <1>9, <2>2, <3>1, <3>2, SumFrame
  <2> QED
    BY <2>4, <2>5
<1> QED
  BY <1>14, <1>15, <1>16, <1>18, <1>19 DEF AtomicInv

(* TestInv is inductive, given what SerialSpec already gives.              *)
LEMMA TestInvStep ==
    TestInv /\ SerialInv /\ SerialInv' /\ [TestNext]_allVars => TestInv'
<1> SUFFICES ASSUME TestInv, SerialInv, SerialInv', [TestNext]_allVars
             PROVE  TestInv'
  OBVIOUS
<1>1. CallersInv /\ CallersInv'
  BY TestStepIsSerial DEF TestInv
<1>2. ATOMIC_OPERATION' = ATOMIC_OPERATION
  BY DEF TestNext, User, Kernel, Done, testVars, allVars
<1>3. SUFFICES ASSUME ATOMIC_OPERATION PROVE AtomicInv'
  BY <1>1, <1>2 DEF TestInv
<1>4. AtomicInv
  BY <1>3 DEF TestInv
<1>5. CASE UNCHANGED allVars
  <2>1. UNCHANGED <<at, i, v, shared_variable, round, pc, sid, arg, up, state, mode, count, listed>>
    BY <1>5 DEF allVars, testVars, vars, semVars, threadVars
  <2>2. PlacesInv' /\ MadeInv' /\ ReadyInv' /\ TurnsInv' /\ SumInv'
    BY <1>4, <2>1 DEF AtomicInv, PlacesInv, MadeInv, ReadyInv, TurnsInv, SumInv, AddsUp, Added,
                      Target
  <2>3. PermitInv'
    BY <1>4, <2>1 DEF AtomicInv, PermitInv, HasPermit, Target
  <2> QED
    BY <2>2, <2>3 DEF AtomicInv
<1>6. ASSUME NEW t \in Threads, User(t) PROVE AtomicInv'
  BY <1>1, <1>3, <1>4, <1>6, MainAtomic, WorkerAtomic DEF User, AtomicUser
<1>7. ASSUME NEW t \in Threads, KernelStep(t) \/ StrayWakeUp(t), UNCHANGED testVars
      PROVE  AtomicInv'
  <2>1. TurnsInv' /\ SumInv'
    BY <1>4, <1>7, CountedStays
  <2>2. CASE t = Main
    BY <1>1, <1>3, <1>4, <1>7, <2>1, <2>2, MainKernel DEF AtomicInv
  <2>3. CASE t # Main
    BY <1>1, <1>3, <1>4, <1>7, <2>1, <2>3, TestFacts, WorkerKernel DEF AtomicInv
  <2> QED
    BY <2>2, <2>3
<1> QED
  BY <1>5, <1>6, <1>7 DEF TestNext, Kernel, Done

(* The program's inductive invariant: who runs and who calls what, and in  *)
(* the atomic test who has the one permit and what has been added so far.  *)
THEOREM TestInvariant == TestSpec => []TestInv
<1>1. TestInit => TestInv
  BY InitCallers, InitAtomic DEF TestInv
<1>2. TestSpec => []SerialInv
  BY TestKeepsDiscipline, SerialInvariant, PTL DEF KeepsDiscipline
<1> QED
  BY <1>1, <1>2, TestSafety, TestInvStep, PTL

(* A nonempty set of naturals has a least one.                             *)
LEMMA LeastNatural ==
    ASSUME NEW T, T \subseteq Nat, T # {}
    PROVE  \E x \in T : \A y \in T : x <= y
<1>1. PICK R : IsWellFoundedOn(R, Nat) /\ \A x, y \in Nat : <<x, y>> \in R <=> x < y
  <2> DEFINE R == OpToRel(<, Nat)
  <2>1. IsWellFoundedOn(R, Nat)
    BY NatLessThanWellFounded
  <2>2. \A x, y \in Nat : <<x, y>> \in R <=> x < y
    BY DEF OpToRel
  <2> HIDE DEF R
  <2> QED
    BY <2>1, <2>2
<1>2. PICK x \in T : \A y \in T : ~ (<<y, x>> \in R)
  <2>1. IsWellFoundedOn(R, Nat)
    BY <1>1
  <2>2. \A V : V \subseteq Nat /\ V # {} => \E z \in V : \A y \in V : ~ (<<y, z>> \in R)
    BY <2>1, WFMin, Zenon
  <2> QED
    BY <2>2, Zenon
<1>3. ASSUME NEW y \in T PROVE x <= y
  <2>1. x \in Nat /\ y \in Nat /\ ~ (y < x)
    BY <1>1, <1>2
  <2> QED
    BY <2>1
<1> QED
  BY <1>3

\* Sums of equal parts.
LEMMA EqualParts ==
    ASSUME NEW sums, AddsUp(sums), \A w \in Workers : Added(w) = MAX_LOOP
    PROVE  shared_variable = MAX_THREAD * MAX_LOOP
<1> USE TestFacts
<1>1. /\ sums \in [0 .. MAX_THREAD -> Int] /\ sums[0] = 0 /\ sums[MAX_THREAD] = shared_variable
      /\ \A w \in Workers : sums[w] = sums[w - 1] + MAX_LOOP
  BY DEF AddsUp
<1>2. PICK W : W = {n \in 0 .. MAX_THREAD : sums[n] # n * MAX_LOOP}
  OBVIOUS
<1>3. W = {}
  <2>1. SUFFICES ASSUME W # {} PROVE FALSE
    OBVIOUS
  <2>2. PICK n \in W : \A m \in W : n <= m
    BY <1>2, <2>1, LeastNatural
  <2>3. n \in 0 .. MAX_THREAD /\ sums[n] # n * MAX_LOOP
    BY <1>2, <2>2
  <2>4. 0 * MAX_LOOP = 0
    OBVIOUS
  <2>5. n \in Workers /\ n - 1 \in 0 .. MAX_THREAD /\ ~(n <= n - 1)
    BY <1>1, <2>3, <2>4 DEF Workers
  <2>6. sums[n - 1] = (n - 1) * MAX_LOOP
    BY <1>2, <2>2, <2>5
  <2>7. (n - 1) * MAX_LOOP + MAX_LOOP = n * MAX_LOOP
    BY <2>3
  <2> QED
    BY <1>1, <2>3, <2>5, <2>6, <2>7
<1>4. MAX_THREAD \in 0 .. MAX_THREAD
  OBVIOUS
<1> QED
  BY <1>1, <1>2, <1>3, <1>4

(* No addition under the semaphore is lost: when the second pass of the    *)
(* atomic operation test prints shared_variable, it is the expected        *)
(* MAX_THREAD * MAX_LOOP, for any number of threads and of turns and for   *)
(* every interleaving of them (task3_semaphoretest.c, addFunction under    *)
(* mysema_down and mysema_up).                                             *)
THEOREM NoAdditionIsLost == TestSpec => []ExpectedResult
<1>1. TestInv => ExpectedResult
  <2> SUFFICES ASSUME TestInv, ATOMIC_OPERATION, round = 1, at[Main] \in {"release", "end"}
               PROVE  shared_variable = MAX_THREAD * MAX_LOOP
    BY DEF ExpectedResult
  <2>1. \A w \in Workers : i[w] = MAX_LOOP /\ at[w] = "none"
    BY DEF TestInv, AtomicInv, TurnsInv, CallersInv, RunningInv
  <2>2. \A w \in Workers : Added(w) = MAX_LOOP
    BY <2>1 DEF Added
  <2>3. PICK sums \in [0 .. MAX_THREAD -> Int] : AddsUp(sums)
    BY DEF TestInv, AtomicInv, SumInv
  <2> QED
    BY <2>2, <2>3, EqualParts
<1> QED
  BY <1>1, TestInvariant, PTL
=============================================================================
