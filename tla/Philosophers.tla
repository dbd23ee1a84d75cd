---------------------------- MODULE Philosophers ----------------------------
(***************************************************************************)
(* project3/task1_dining_philosopher.c: MAX_PHILOSOPHER_NUM philosophers   *)
(* numbered from 1, a mutex over the state array, and a semaphore for each *)
(* on which it waits for its forks.  Every statement between the sem_wait  *)
(* and the sem_post of mutex is a step of its own.                         *)
(*                                                                         *)
(* state has MAX_PHILOSOPHER_NUM entries and is indexed from 1, so its     *)
(* last entry lies beyond the array.  The committed build places sem[0]    *)
(* there, which no philosopher uses once main has initialised it: state is *)
(* modelled with an entry for each philosopher.                            *)
(***************************************************************************)
EXTENDS Integers

CONSTANT MAX_PHILOSOPHER_NUM

ASSUME PhilosopherAssumption == MAX_PHILOSOPHER_NUM \in Nat \ {0, 1}

Phil == 1 .. MAX_PHILOSOPHER_NUM

VARIABLES
    mutex,  \* the value of the semaphore mutex
    sem,    \* the value of each philosopher's semaphore
    state,  \* the shared state array
    pc      \* where each philosopher stands

vars == <<mutex, sem, state, pc>>

getLeft(i)  == IF i = 1 THEN MAX_PHILOSOPHER_NUM ELSE i - 1
getRight(i) == IF i = MAX_PHILOSOPHER_NUM THEN 1 ELSE i + 1

TakePCs == {"hungry", "test", "unlock"}             \* take_forks, mutex held
PutPCs  == {"thinking", "left", "right", "leave"}   \* put_forks, mutex held

TypeOK ==
    /\ mutex \in {0, 1}
    /\ sem \in [Phil -> {0, 1}]
    /\ state \in [Phil -> {"THINKING", "HUNGRY", "EATING"}]
    /\ pc \in [Phil -> {"think", "wait", "eat"} \cup TakePCs \cup PutPCs]

Init ==
    /\ mutex = 1
    /\ sem = [i \in Phil |-> 0]
    /\ state = [i \in Phil |-> "THINKING"]
    /\ pc = [i \in Phil |-> "think"]

Goto(i, from, to) == pc[i] = from /\ pc' = [pc EXCEPT ![i] = to]

----------------------------------------------------------------------------
Lock(i, from, to) ==
    /\ Goto(i, from, to)
    /\ mutex > 0
    /\ mutex' = mutex - 1
    /\ UNCHANGED <<sem, state>>

Unlock(i, from, to) ==
    /\ Goto(i, from, to)
    /\ mutex' = mutex + 1
    /\ UNCHANGED <<sem, state>>

SetState(i, s, from, to) ==
    /\ Goto(i, from, to)
    /\ state' = [state EXCEPT ![i] = s]
    /\ UNCHANGED <<mutex, sem>>

MayEat(j) ==
    /\ state[j] = "HUNGRY"
    /\ state[getLeft(j)] # "EATING"
    /\ state[getRight(j)] # "EATING"

\* Slip: only one neighbour is looked at.
testOneSide(j) ==
    IF state[j] = "HUNGRY" /\ state[getLeft(j)] # "EATING"
    THEN /\ state' = [state EXCEPT ![j] = "EATING"]
         /\ sem' = [sem EXCEPT ![j] = @ + 1]
    ELSE UNCHANGED <<state, sem>>

\* Slip: the index of the semaphore wraps as the C array would.
testWraps(j) ==
    IF MayEat(j)
    THEN /\ state' = [state EXCEPT ![j] = "EATING"]
         /\ sem' = [k \in Phil |-> IF k = j % MAX_PHILOSOPHER_NUM THEN sem[k] + 1 ELSE sem[k]]
    ELSE UNCHANGED <<state, sem>>

test(j) ==
    IF MayEat(j)
    THEN /\ state' = [state EXCEPT ![j] = "EATING"]
         /\ sem' = [sem EXCEPT ![j] = @ + 1]
    ELSE UNCHANGED <<state, sem>>

Test(i, j, from, to) ==
    /\ Goto(i, from, to)
    /\ test(j)
    /\ UNCHANGED mutex

\* sem_wait(&sem[i]): the end of take_forks.
WaitForks(i) ==
    /\ Goto(i, "wait", "eat")
    /\ sem[i] > 0
    /\ sem' = [sem EXCEPT ![i] = @ - 1]
    /\ UNCHANGED <<mutex, state>>

take_forks(i) ==
    \/ Lock(i, "think", "hungry")
    \/ SetState(i, "HUNGRY", "hungry", "test")
    \/ Test(i, i, "test", "unlock")
    \/ Unlock(i, "unlock", "wait")
    \/ WaitForks(i)

\* Slip: the right neighbour is not told.
put_forks_left(i) ==
    \/ Lock(i, "eat", "thinking")
    \/ SetState(i, "THINKING", "thinking", "left")
    \/ Test(i, getLeft(i), "left", "leave")
    \/ Unlock(i, "leave", "think")

put_forks(i) ==
    \/ Lock(i, "eat", "thinking")
    \/ SetState(i, "THINKING", "thinking", "left")
    \/ Test(i, getLeft(i), "left", "right")
    \/ Test(i, getRight(i), "right", "leave")
    \/ Unlock(i, "leave", "think")

philosopher(i) == take_forks(i) \/ put_forks(i)

Next == \E i \in Phil : philosopher(i)

Spec == Init /\ [][Next]_vars /\ \A i \in Phil : WF_vars(philosopher(i))

----------------------------------------------------------------------------
(* Two neighbours are never past their sem_wait for the forks at the same  *)
(* time, although it is another philosopher's test that posts a semaphore. *)
HasForks(i) == pc[i] \in {"eat", "thinking"}
ForksExclusive ==
    \A i \in Phil : HasForks(i) => ~HasForks(getRight(i))

(* A philosopher's semaphore holds at most one post, and it has one just   *)
(* as long as the philosopher was given the forks and has not seen it yet. *)
PostMatchesState ==
    \A i \in Phil :
        (state[i] = "EATING") <=> (sem[i] = 1 \/ HasForks(i))

(* No missed fork: whenever the mutex is free, everybody who is hungry has *)
(* a neighbour that eats, so every put_forks has told whom it had to.      *)
NoMissedForks == mutex = 1 => \A i \in Phil : ~MayEat(i)

----------------------------------------------------------------------------
(* What the invariants above rest on.                                      *)

\* Between the sem_wait and the sem_post of mutex.
Inside(i) == pc[i] \in TakePCs \cup PutPCs

\* mutex is a lock: at most one philosopher is inside, nobody while it is 1.
MutexInv ==
    /\ \A i \in Phil : Inside(i) => mutex = 0
    /\ \A i, j \in Phil : Inside(i) /\ Inside(j) => i = j

\* What a philosopher's own position says about its entry and its semaphore.
LocalInv ==
    \A i \in Phil :
        /\ pc[i] \in {"think", "hungry", "left", "right", "leave"} =>
              state[i] = "THINKING"
        /\ pc[i] = "test" => state[i] = "HUNGRY"
        /\ pc[i] \in {"unlock", "wait"} => state[i] # "THINKING"
        /\ HasForks(i) => sem[i] = 0

\* The state array never shows two neighbours eating.
StatesExclusive ==
    \A i \in Phil : state[i] = "EATING" => state[getRight(i)] # "EATING"

\* Whoever could eat is about to be tested by the philosopher inside.
MissedInv ==
    \A j \in Phil : MayEat(j) =>
        \E i \in Phil :
            \/ pc[i] = "test" /\ j = i
            \/ pc[i] = "left" /\ j \in {getLeft(i), getRight(i)}
            \/ pc[i] = "right" /\ j = getRight(i)

TableInv ==
    /\ TypeOK
    /\ MutexInv
    /\ LocalInv
    /\ PostMatchesState
    /\ StatesExclusive
    /\ MissedInv

----------------------------------------------------------------------------
(* The forks arrive: a philosopher that its own test, or a neighbour's,    *)
(* made EATING gets past its sem_wait and eats.                            *)
ForksArrive == \A i \in Phil : (state[i] = "EATING") ~> HasForks(i)
=============================================================================
