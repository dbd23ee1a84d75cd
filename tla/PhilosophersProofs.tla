------------------------- MODULE PhilosophersProofs -------------------------
(***************************************************************************)
(* Safety of the dining philosophers for any number of them.  TableInv is  *)
(* inductive: the mutex makes the state array the property of whoever is   *)
(* inside, the state array never shows two neighbours eating, and a post   *)
(* of sem[i] or the forks in hand are what EATING stands for.              *)
(***************************************************************************)
EXTENDS Philosophers, TLAPS

USE DEF Phil

\* getLeft and getRight stay at the table and undo each other.
LEMMA Neighbours ==
    ASSUME NEW i \in Phil
    PROVE  /\ getLeft(i) \in Phil
           /\ getRight(i) \in Phil
           /\ getLeft(i) # i
           /\ getRight(i) # i
           /\ getLeft(getRight(i)) = i
           /\ getRight(getLeft(i)) = i
BY PhilosopherAssumption DEF getLeft, getRight

\* The table before the first philosopher thinks.
LEMMA InitTable == Init => TableInv
BY PhilosopherAssumption, Neighbours
   DEF Init, TableInv, TypeOK, MutexInv, LocalInv, PostMatchesState,
       StatesExclusive, MissedInv, MayEat, Inside, HasForks, TakePCs, PutPCs

----------------------------------------------------------------------------
\* sem_wait(&mutex), from take_forks and from put_forks.
LEMMA LockStep ==
    ASSUME TableInv, NEW i \in Phil, NEW from, NEW to,
           \/ from = "think" /\ to = "hungry"
           \/ from = "eat" /\ to = "thinking",
           Lock(i, from, to)
    PROVE  TableInv'
<1> USE DEF Lock, Goto
<1>1. TypeOK'
  BY DEF TableInv, TypeOK, TakePCs, PutPCs
<1>2. MutexInv'
  BY DEF TableInv, TypeOK, MutexInv, Inside, TakePCs, PutPCs
<1>3. LocalInv'
  BY DEF TableInv, TypeOK, LocalInv, HasForks
<1>4. PostMatchesState'
  BY DEF TableInv, TypeOK, PostMatchesState, HasForks
<1>5. StatesExclusive'
  BY DEF TableInv, StatesExclusive
<1>6. MissedInv'
  BY DEF TableInv, TypeOK, MissedInv, MayEat
<1> QED
  BY <1>1, <1>2, <1>3, <1>4, <1>5, <1>6 DEF TableInv

\* sem_post(&mutex).
LEMMA UnlockStep ==
    ASSUME TableInv, NEW i \in Phil, NEW from, NEW to,
           \/ from = "unlock" /\ to = "wait"
           \/ from = "leave" /\ to = "think",
           Unlock(i, from, to)
    PROVE  TableInv'
<1> USE DEF Unlock, Goto
<1>0. Inside(i) /\ mutex = 0
  BY DEF TableInv, TypeOK, MutexInv, Inside, TakePCs, PutPCs
<1>1. TypeOK'
  BY <1>0 DEF TableInv, TypeOK, TakePCs, PutPCs
<1>2. MutexInv'
  BY <1>0 DEF TableInv, TypeOK, MutexInv, Inside, TakePCs, PutPCs
<1>3. LocalInv'
  BY DEF TableInv, TypeOK, LocalInv, HasForks
<1>4. PostMatchesState'
  BY DEF TableInv, TypeOK, PostMatchesState, HasForks
<1>5. StatesExclusive'
  BY DEF TableInv, StatesExclusive
<1>6. MissedInv'
  BY DEF TableInv, TypeOK, MissedInv, MayEat
<1> QED
  BY <1>1, <1>2, <1>3, <1>4, <1>5, <1>6 DEF TableInv

\* The stores state[i] = HUNGRY and state[i] = THINKING.
LEMMA SetStateStep ==
    ASSUME TableInv, NEW i \in Phil, NEW s, NEW from, NEW to,
           \/ from = "hungry" /\ to = "test" /\ s = "HUNGRY"
           \/ from = "thinking" /\ to = "left" /\ s = "THINKING",
           SetState(i, s, from, to)
    PROVE  TableInv'
<1> USE DEF SetState, Goto
<1>1. TypeOK'
  BY DEF TableInv, TypeOK, TakePCs, PutPCs
<1>2. MutexInv'
  BY DEF TableInv, TypeOK, MutexInv, Inside, TakePCs, PutPCs
<1>3. LocalInv'
  BY DEF TableInv, TypeOK, LocalInv, HasForks
<1>4. PostMatchesState'
  BY DEF TableInv, TypeOK, PostMatchesState, LocalInv, HasForks
<1>5. StatesExclusive'
  BY Neighbours DEF TableInv, TypeOK, StatesExclusive
<1>6. MissedInv'
  <2>1. SUFFICES ASSUME NEW j \in Phil, MayEat(j)'
                 PROVE  \E k \in Phil :
                           \/ pc'[k] = "test" /\ j = k
                           \/ pc'[k] = "left" /\ j \in {getLeft(k), getRight(k)}
                           \/ pc'[k] = "right" /\ j = getRight(k)
    BY DEF MissedInv
  <2>2. CASE MayEat(j)
    <3>1. PICK k \in Phil : \/ pc[k] = "test" /\ j = k
                            \/ pc[k] = "left" /\ j \in {getLeft(k), getRight(k)}
                            \/ pc[k] = "right" /\ j = getRight(k)
      BY <2>2 DEF TableInv, MissedInv
    <3>2. k # i
      BY <3>1
    <3> QED
      BY <3>1, <3>2 DEF TableInv, TypeOK
  <2>3. CASE ~MayEat(j)
    <3>1. \/ s = "HUNGRY" /\ j = i
          \/ s = "THINKING" /\ j \in {getLeft(i), getRight(i)}
      <4>1. /\ getLeft(j) \in Phil /\ getRight(j) \in Phil
            /\ j = getRight(getLeft(j)) /\ j = getLeft(getRight(j))
        BY Neighbours
      <4>2. s = "HUNGRY" => state[i] = "THINKING"
        BY DEF TableInv, LocalInv
      <4> QED
        BY <2>1, <2>3, <4>1, <4>2 DEF TableInv, TypeOK, MayEat
    <3> QED
      BY <3>1 DEF TableInv, TypeOK
  <2> QED
    BY <2>2, <2>3
<1> QED
  BY <1>1, <1>2, <1>3, <1>4, <1>5, <1>6 DEF TableInv

\* test(j) called by philosopher i inside: on itself in take_forks, on its
\* left and then its right neighbour in put_forks.
LEMMA TestStep ==
    ASSUME TableInv, NEW i \in Phil, NEW j \in Phil, NEW from, NEW to,
           \/ from = "test" /\ to = "unlock" /\ j = i
           \/ from = "left" /\ to = "right" /\ j = getLeft(i)
           \/ from = "right" /\ to = "leave" /\ j = getRight(i),
           Test(i, j, from, to)
    PROVE  TableInv'
<1> USE DEF Test, Goto
<1>0. Inside(i) /\ getLeft(j) \in Phil /\ getRight(j) \in Phil
  BY Neighbours DEF TableInv, TypeOK, Inside, TakePCs, PutPCs
<1>1. \/ /\ MayEat(j)
         /\ state' = [state EXCEPT ![j] = "EATING"]
         /\ sem' = [sem EXCEPT ![j] = @ + 1]
         /\ sem[j] = 0
      \/ /\ ~MayEat(j)
         /\ UNCHANGED <<state, sem>>
  BY DEF TableInv, TypeOK, PostMatchesState, test, MayEat
<1>2. TypeOK'
  BY <1>1 DEF TableInv, TypeOK, TakePCs, PutPCs
<1>3. MutexInv'
  BY <1>0 DEF TableInv, TypeOK, MutexInv, Inside, TakePCs, PutPCs
<1>4. LocalInv'
  <2>1. CASE MayEat(j)
    <3>1. /\ pc[j] \in {"test", "unlock", "wait"}
          /\ pc'[j] \in {"unlock", "wait"}
      BY <2>1, <1>0 DEF TableInv, TypeOK, LocalInv, MutexInv, Inside, MayEat,
                        PostMatchesState, HasForks, TakePCs, PutPCs
    <3> QED
      BY <1>1, <2>1, <3>1 DEF TableInv, TypeOK, LocalInv, HasForks
  <2>2. CASE ~MayEat(j)
    BY <1>1, <2>2 DEF TableInv, TypeOK, LocalInv, HasForks
  <2> QED
    BY <2>1, <2>2
<1>5. PostMatchesState'
  <2>1. \A k \in Phil : HasForks(k)' <=> HasForks(k)
    BY DEF TableInv, TypeOK, HasForks
  <2>2. CASE MayEat(j)
    <3>1. state'[j] = "EATING" /\ sem'[j] = 1
      <4>1. state'[j] = "EATING"
        BY <1>1, <2>2 DEF TableInv, TypeOK
      <4>2. sem' = [sem EXCEPT ![j] = sem[j] + 1] /\ sem[j] = 0
        BY <1>1, <2>2
      <4>3. sem'[j] = 0 + 1
        BY <4>2 DEF TableInv, TypeOK
      <4> QED
        BY <4>1, <4>3
    <3>2. \A k \in Phil \ {j} : state'[k] = state[k] /\ sem'[k] = sem[k]
      BY <1>1, <2>2 DEF TableInv, TypeOK
    <3> QED
      BY <2>1, <3>1, <3>2 DEF TableInv, PostMatchesState
  <2>3. CASE ~MayEat(j)
    BY <1>1, <2>1, <2>3 DEF TableInv, PostMatchesState
  <2> QED
    BY <2>2, <2>3
<1>6. StatesExclusive'
  <2>1. ASSUME NEW k \in Phil, state'[k] = "EATING", state'[getRight(k)] = "EATING"
        PROVE  FALSE
    <3>1. /\ getRight(k) \in Phil /\ getRight(k) # k
          /\ getLeft(getRight(k)) = k
      BY Neighbours
    <3>2. CASE MayEat(j)
      <4>1. /\ \A l \in Phil \ {j} : state'[l] = state[l]
            /\ state[getLeft(j)] # "EATING" /\ state[getRight(j)] # "EATING"
        BY <1>1, <3>2 DEF TableInv, TypeOK, MayEat
      <4> QED
        BY <2>1, <3>1, <4>1 DEF TableInv, StatesExclusive
    <3>3. CASE ~MayEat(j)
      BY <1>1, <2>1, <3>3 DEF TableInv, StatesExclusive
    <3> QED
      BY <3>2, <3>3
  <2> QED
    BY <2>1 DEF StatesExclusive
<1>7. MissedInv'
  <2>1. SUFFICES ASSUME NEW k \in Phil, MayEat(k)'
                 PROVE  \E l \in Phil :
                           \/ pc'[l] = "test" /\ k = l
                           \/ pc'[l] = "left" /\ k \in {getLeft(l), getRight(l)}
                           \/ pc'[l] = "right" /\ k = getRight(l)
    BY DEF MissedInv
  <2>2. MayEat(k) /\ k # j
    BY <1>1, <2>1, Neighbours DEF TableInv, TypeOK, MayEat
  <2>3. PICK l \in Phil : \/ pc[l] = "test" /\ k = l
                          \/ pc[l] = "left" /\ k \in {getLeft(l), getRight(l)}
                          \/ pc[l] = "right" /\ k = getRight(l)
    BY <2>2 DEF TableInv, MissedInv
  <2>4. l = i
    BY <1>0, <2>3 DEF TableInv, MutexInv, Inside, TakePCs, PutPCs
  <2>5. pc[i] = "left" /\ k = getRight(i) /\ pc'[i] = "right"
    BY <2>2, <2>3, <2>4 DEF TableInv, TypeOK
  <2> QED
    BY <2>5
<1> QED
  BY <1>2, <1>3, <1>4, <1>5, <1>6, <1>7 DEF TableInv

\* sem_wait(&sem[i]), outside the mutex.
LEMMA WaitForksStep ==
    ASSUME TableInv, NEW i \in Phil, WaitForks(i)
    PROVE  TableInv'
<1> USE DEF WaitForks, Goto
<1>0. sem[i] = 1 /\ state[i] = "EATING"
  BY DEF TableInv, TypeOK, PostMatchesState
<1>1. TypeOK'
  BY <1>0 DEF TableInv, TypeOK, TakePCs, PutPCs
<1>2. MutexInv'
  BY DEF TableInv, TypeOK, MutexInv, Inside, TakePCs, PutPCs
<1>3. LocalInv'
  BY <1>0 DEF TableInv, TypeOK, LocalInv, HasForks
<1>4. PostMatchesState'
  BY <1>0 DEF TableInv, TypeOK, PostMatchesState, HasForks
<1>5. StatesExclusive'
  BY DEF TableInv, StatesExclusive
<1>6. MissedInv'
  BY DEF TableInv, TypeOK, MissedInv, MayEat
<1> QED
  BY <1>1, <1>2, <1>3, <1>4, <1>5, <1>6 DEF TableInv

----------------------------------------------------------------------------
\* TableInv is inductive: every statement of take_forks and put_forks, run
\* by any philosopher, keeps it.
THEOREM TableInvariant == Spec => []TableInv
<1>1. TableInv /\ [Next]_vars => TableInv'
  <2>1. SUFFICES ASSUME TableInv, [Next]_vars
                 PROVE  TableInv'
    OBVIOUS
  <2>2. CASE UNCHANGED vars
    BY <2>1, <2>2
       DEF vars, TableInv, TypeOK, MutexInv, LocalInv, PostMatchesState,
           StatesExclusive, MissedInv, MayEat, Inside, HasForks
  <2>3. CASE Next
    <3>1. PICK i \in Phil : philosopher(i)
      BY <2>3 DEF Next
    <3>2. CASE take_forks(i)
      BY <2>1, <3>2, LockStep, SetStateStep, TestStep, UnlockStep, WaitForksStep
         DEF take_forks
    <3>3. CASE put_forks(i)
      BY <2>1, <3>3, Neighbours, LockStep, SetStateStep, TestStep, UnlockStep
         DEF put_forks
    <3> QED
      BY <3>1, <3>2, <3>3 DEF philosopher
  <2> QED
    BY <2>1, <2>2, <2>3
<1> QED
  BY InitTable, <1>1, PTL DEF Spec

\* Of any two neighbours at most one is past the sem_wait of take_forks,
\* for every number of philosophers.
THEOREM ForksAreExclusive == Spec => []ForksExclusive
<1>1. TableInv => ForksExclusive
  BY Neighbours DEF TableInv, PostMatchesState, StatesExclusive, ForksExclusive
<1> QED
  BY TableInvariant, <1>1, PTL

\* Whenever the mutex is free, put_forks has told everybody it had to.
THEOREM ForksAreNotMissed == Spec => []NoMissedForks
<1>1. TableInv => NoMissedForks
  BY DEF TableInv, MutexInv, MissedInv, NoMissedForks, Inside, TakePCs, PutPCs
<1> QED
  BY TableInvariant, <1>1, PTL
=============================================================================
