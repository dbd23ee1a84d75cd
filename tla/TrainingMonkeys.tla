-------------------------- MODULE TrainingMonkeys --------------------------
(***************************************************************************)
(* project3/task1_training_monkeys.c.  main admits a monkey whenever       *)
(* maxMonkeys allows; the monkey takes the two balls it needs, thinks,     *)
(* goes outside, and eats a banana from one of two bowls that the trainer  *)
(* fills, or an apple if both bowls are taken.  The program exits when     *)
(* TARGET_TRAINING monkeys have finished.                                  *)
(*                                                                         *)
(* Monkeys is a pool of thread slots: a finished thread leaves its slot to *)
(* a later monkey (POOL: main waits when every slot is taken, where the    *)
(* program goes on creating threads), and main admits nobody any more once *)
(* the target is met and the exit is due (ADMIT).  A section under a mutex *)
(* that only touches data of that mutex is one step; the ball check, which *)
(* reads and waits for semaphores others post without it, is not.          *)
(***************************************************************************)
EXTENDS Integers, FiniteSets

CONSTANTS
    Monkeys,          \* the thread slots
    Balls,            \* the colours (four in the program)
    MAX_MONKEYS,
    TARGET_TRAINING,
    Nobody            \* the holder of a free ballCheckingMutex

ASSUME MonkeyConstants ==
    /\ IsFiniteSet(Monkeys)
    /\ MAX_MONKEYS \in Nat \ {0}
    /\ TARGET_TRAINING \in Nat \ {0}
    /\ Nobody \notin Monkeys
    /\ \E a, b \in Balls : a # b

Bowls == {0, 1}

VARIABLES
    maxMonkeys, balls, bowls_full, bowls_empty, bowls_detail,  \* semaphores
    ballCheckingMutex,   \* the monkey inside the ball check
    bowls_usage,         \* the shared array
    trainingCounter,
    main, trainer,       \* where main and the trainer stand
    mstate,              \* where each monkey stands
    requireBalls,        \* the balls each monkey needs, in order
    b1,                  \* its local b1
    bowlNumber,          \* its local bowlNumber, -1 when acquireProperBowl fails
    errors,              \* the "something is wrong" messages printed
    finished             \* how often finishTraining was entered

sems == <<maxMonkeys, balls, bowls_full, bowls_empty, bowls_detail>>
vars == <<sems, ballCheckingMutex, bowls_usage, trainingCounter, main, trainer,
          mstate, requireBalls, b1, bowlNumber, errors, finished>>

NoBalls == <<>>
Pairs == {p \in Balls \X Balls : p[1] # p[2]}

Init ==
    /\ maxMonkeys = MAX_MONKEYS
    /\ balls = [b \in Balls |-> 1]
    /\ bowls_full = 2
    /\ bowls_empty = 0
    /\ bowls_detail = [b \in Bowls |-> 0]
    /\ ballCheckingMutex = Nobody
    /\ bowls_usage = [b \in Bowls |-> 0]
    /\ trainingCounter = 0
    /\ main = "wait"
    /\ trainer = "wait"
    /\ mstate = [m \in Monkeys |-> "none"]
    /\ requireBalls = [m \in Monkeys |-> NoBalls]
    /\ b1 = [m \in Monkeys |-> 0]
    /\ bowlNumber = [m \in Monkeys |-> 0]
    /\ errors = 0
    /\ finished = 0

Goto(m, from, to) == mstate[m] = from /\ mstate' = [mstate EXCEPT ![m] = to]
First(m)  == requireBalls[m][1]
Second(m) == requireBalls[m][2]

roomRest == <<maxMonkeys, bowls_full, bowls_empty, bowls_detail, bowls_usage,
              trainingCounter, main, trainer, requireBalls, bowlNumber, errors, finished>>
bowlRest == <<balls, ballCheckingMutex, main, requireBalls, b1, finished>>

----------------------------------------------------------------------------
(* main                                                                    *)

WaitMaxMonkeys ==
    /\ main = "wait"
    /\ maxMonkeys > 0
    /\ maxMonkeys' = maxMonkeys - 1
    /\ main' = "spawn"
    /\ UNCHANGED <<balls, bowls_full, bowls_empty, bowls_detail, ballCheckingMutex,
                   bowls_usage, trainingCounter, trainer, mstate, requireBalls, b1,
                   bowlNumber, errors, finished>>

\* getNanoTimeRandomNumber draws two different balls.
spawnMonkeyThread ==
    /\ main = "spawn"
    /\ trainingCounter < TARGET_TRAINING   \* bound ADMIT
    /\ main' = "wait"
    /\ \E m \in Monkeys, p \in Pairs :
          /\ mstate[m] = "none"
          /\ mstate' = [mstate EXCEPT ![m] = "NEW_MONKEY"]
          /\ requireBalls' = [requireBalls EXCEPT ![m] = p]
    /\ UNCHANGED <<sems, ballCheckingMutex, bowls_usage, trainingCounter, trainer, b1,
                   bowlNumber, errors, finished>>

----------------------------------------------------------------------------
(* A monkey in the room                                                    *)

ComeInside(m) ==
    /\ Goto(m, "NEW_MONKEY", "INSIDE_THE_ROOM")
    /\ UNCHANGED <<balls, ballCheckingMutex, b1, roomRest>>

StartChecking(m) ==
    /\ Goto(m, "INSIDE_THE_ROOM", "CHECKING")
    /\ UNCHANGED <<balls, ballCheckingMutex, b1, roomRest>>

\* Slip: the ball check takes no mutex.
CheckUnlocked(m) ==
    /\ Goto(m, "CHECKING", "b1")
    /\ UNCHANGED <<balls, ballCheckingMutex, b1, roomRest>>

Check(m) ==
    /\ Goto(m, "CHECKING", "b1")
    /\ ballCheckingMutex = Nobody
    /\ ballCheckingMutex' = m
    /\ UNCHANGED <<balls, b1, roomRest>>

GetValue1(m) ==
    /\ Goto(m, "b1", "b2")
    /\ b1' = [b1 EXCEPT ![m] = balls[First(m)]]
    /\ UNCHANGED <<balls, ballCheckingMutex, roomRest>>

\* The second sem_getvalue and the decision: take both, or check again.
GetValue2(m) ==
    /\ LET both == b1[m] = 1 /\ balls[Second(m)] = 1
       IN  /\ Goto(m, "b2", IF both THEN "take1" ELSE "CHECKING")
           /\ ballCheckingMutex' = IF both THEN ballCheckingMutex ELSE Nobody
    /\ b1' = [b1 EXCEPT ![m] = 0]
    /\ UNCHANGED <<balls, roomRest>>

Take1(m) ==
    /\ Goto(m, "take1", "take2")
    /\ balls[First(m)] > 0
    /\ balls' = [balls EXCEPT ![First(m)] = @ - 1]
    /\ UNCHANGED <<ballCheckingMutex, b1, roomRest>>

Take2(m) ==
    /\ Goto(m, "take2", "TAKES_FIRST_BALL")
    /\ balls[Second(m)] > 0
    /\ balls' = [balls EXCEPT ![Second(m)] = @ - 1]
    /\ ballCheckingMutex' = Nobody
    /\ UNCHANGED <<b1, roomRest>>

Think(m) ==
    /\ Goto(m, "TAKES_FIRST_BALL", "TAKES_SECOND_BALL")
    /\ UNCHANGED <<balls, ballCheckingMutex, b1, roomRest>>

Post1(m) ==
    /\ Goto(m, "TAKES_SECOND_BALL", "post2")
    /\ balls' = [balls EXCEPT ![First(m)] = @ + 1]
    /\ UNCHANGED <<ballCheckingMutex, b1, roomRest>>

\* Slip: the second ball is kept.
Post2Forgotten(m) ==
    /\ Goto(m, "post2", "OUTSIDE_THE_ROOM")
    /\ UNCHANGED <<balls, ballCheckingMutex, b1, roomRest>>

Post2(m) ==
    /\ Goto(m, "post2", "OUTSIDE_THE_ROOM")
    /\ balls' = [balls EXCEPT ![Second(m)] = @ + 1]
    /\ UNCHANGED <<ballCheckingMutex, b1, roomRest>>

InRoom(m) == \/ ComeInside(m) \/ StartChecking(m) \/ Check(m) \/ GetValue1(m)
             \/ GetValue2(m) \/ Take1(m) \/ Take2(m) \/ Think(m) \/ Post1(m) \/ Post2(m)

----------------------------------------------------------------------------
(* A monkey outside the room                                               *)

GoOutside(m) ==
    /\ Goto(m, "OUTSIDE_THE_ROOM", "trywait")
    /\ maxMonkeys' = maxMonkeys + 1
    /\ UNCHANGED <<bowls_full, bowls_empty, bowls_detail, bowls_usage,
                   trainingCounter, trainer, bowlNumber, errors, bowlRest>>

\* sem_trywait(&bowls_full): errno is EAGAIN exactly when it fails.
TryBowl(m) ==
    /\ Goto(m, "trywait", IF bowls_full > 0 THEN "acquire" ELSE "EAT_APPLES")
    /\ bowls_full' = IF bowls_full > 0 THEN bowls_full - 1 ELSE bowls_full
    /\ UNCHANGED <<maxMonkeys, bowls_empty, bowls_detail, bowls_usage,
                   trainingCounter, trainer, bowlNumber, errors, bowlRest>>

\* Slip: the bowl found free is not marked.
acquireProperBowlUnmarked(m) ==
    /\ Goto(m, "acquire", "wake")
    /\ bowlNumber' = [bowlNumber EXCEPT ![m] = IF bowls_usage[0] = 0 THEN 0 ELSE 1]
    /\ UNCHANGED <<sems, ballCheckingMutex, bowls_usage, trainingCounter, main, trainer,
                   requireBalls, b1, errors, finished>>

\* Under bowlCheckingMutex.
acquireProperBowl(m) ==
    /\ Goto(m, "acquire", "wake")
    /\ IF \E b \in Bowls : bowls_usage[b] = 0
       THEN LET b == IF bowls_usage[0] = 0 THEN 0 ELSE 1
            IN  /\ bowls_usage' = [bowls_usage EXCEPT ![b] = 1]
                /\ bowlNumber' = [bowlNumber EXCEPT ![m] = b]
                /\ UNCHANGED errors
       ELSE /\ bowlNumber' = [bowlNumber EXCEPT ![m] = -1]
            /\ errors' = 1
            /\ UNCHANGED bowls_usage
    /\ UNCHANGED <<sems, ballCheckingMutex, trainingCounter, main, trainer,
                   requireBalls, b1, finished>>

\* sem_post(&bowls_empty): make trainer wake up.
WakeTrainer(m) ==
    /\ Goto(m, "wake", "seated")
    /\ bowls_empty' = bowls_empty + 1
    /\ UNCHANGED <<maxMonkeys, bowls_full, bowls_detail, bowls_usage,
                   trainingCounter, trainer, bowlNumber, errors, bowlRest>>

\* sem_wait(&bowls_detail[bowlNumber]): wait for trainer's feeding.
Fed(m) ==
    /\ Goto(m, "seated", "release")
    /\ bowlNumber[m] \in Bowls
    /\ bowls_detail[bowlNumber[m]] > 0
    /\ bowls_detail' = [bowls_detail EXCEPT ![bowlNumber[m]] = @ - 1]
    /\ UNCHANGED <<maxMonkeys, bowls_full, bowls_empty, bowls_usage,
                   trainingCounter, trainer, bowlNumber, errors, bowlRest>>

\* Slip: the bowl stays marked.
releaseBowlForgotten(m) ==
    /\ Goto(m, "release", "return")
    /\ UNCHANGED <<maxMonkeys, bowls_full, bowls_empty, bowls_detail, bowls_usage,
                   trainingCounter, trainer, bowlNumber, errors, bowlRest>>

\* Under bowlCheckingMutex.
releaseBowl(m) ==
    /\ Goto(m, "release", "return")
    /\ IF bowls_usage[bowlNumber[m]] = 1
       THEN bowls_usage' = [bowls_usage EXCEPT ![bowlNumber[m]] = 0] /\ UNCHANGED errors
       ELSE errors' = 1 /\ UNCHANGED bowls_usage
    /\ UNCHANGED <<sems, ballCheckingMutex, trainingCounter, main, trainer,
                   requireBalls, b1, bowlNumber, finished>>

ReturnBowl(m) ==
    /\ Goto(m, "return", "EAT_BANANAS")
    /\ bowls_full' = bowls_full + 1
    /\ bowlNumber' = [bowlNumber EXCEPT ![m] = 0]
    /\ UNCHANGED <<maxMonkeys, bowls_empty, bowls_detail, bowls_usage,
                   trainingCounter, trainer, errors, bowlRest>>

Eat(m) ==
    /\ mstate[m] \in {"EAT_APPLES", "EAT_BANANAS"}
    /\ mstate' = [mstate EXCEPT ![m] = "END_TRAINING"]
    /\ UNCHANGED <<maxMonkeys, bowls_full, bowls_empty, bowls_detail, bowls_usage,
                   trainingCounter, trainer, bowlNumber, errors, bowlRest>>

\* modifyValue(&trainingCounter, 1, &currentTrainingCounter), then the test.
modifyValue(m) ==
    /\ mstate[m] = "END_TRAINING"
    /\ trainingCounter' = trainingCounter + 1
    /\ mstate' = [mstate EXCEPT ![m] =
                    IF trainingCounter + 1 = TARGET_TRAINING THEN "finish" ELSE "none"]
    /\ requireBalls' = [requireBalls EXCEPT ![m] = NoBalls]
    /\ UNCHANGED <<sems, ballCheckingMutex, bowls_usage, main, trainer, b1,
                   bowlNumber, errors, finished>>

\* exit(0) ends every thread.
finishTraining(m) ==
    /\ mstate[m] = "finish"
    /\ finished' = finished + 1
    /\ mstate' = [mstate EXCEPT ![m] = "none"]
    /\ UNCHANGED <<sems, ballCheckingMutex, bowls_usage, trainingCounter, main, trainer,
                   requireBalls, b1, bowlNumber, errors>>

Outside(m) == \/ GoOutside(m) \/ TryBowl(m) \/ acquireProperBowl(m) \/ WakeTrainer(m)
              \/ Fed(m) \/ releaseBowl(m) \/ ReturnBowl(m) \/ Eat(m)
              \/ modifyValue(m) \/ finishTraining(m)

----------------------------------------------------------------------------
(* The trainer reads bowls_usage without bowlCheckingMutex, one bowl after *)
(* the other, and posts to the first bowl it finds in use.                 *)
trainerRest == <<maxMonkeys, balls, bowls_full, ballCheckingMutex, bowls_usage,
                 trainingCounter, main, mstate, requireBalls, b1, bowlNumber,
                 errors, finished>>

TrainerWait ==
    /\ trainer = "wait"
    /\ bowls_empty > 0
    /\ bowls_empty' = bowls_empty - 1
    /\ trainer' = "look0"
    /\ UNCHANGED <<bowls_detail, trainerRest>>

Look0 ==
    /\ trainer = "look0"
    /\ trainer' = IF bowls_usage[0] = 1 THEN "feed0" ELSE "look1"
    /\ UNCHANGED <<bowls_empty, bowls_detail, trainerRest>>

Look1 ==
    /\ trainer = "look1"
    /\ trainer' = IF bowls_usage[1] = 1 THEN "feed1" ELSE "wait"
    /\ UNCHANGED <<bowls_empty, bowls_detail, trainerRest>>

Feed(b, at) ==
    /\ trainer = at
    /\ trainer' = "wait"
    /\ bowls_detail' = [bowls_detail EXCEPT ![b] = @ + 1]
    /\ UNCHANGED <<bowls_empty, trainerRest>>

trainerStep == TrainerWait \/ Look0 \/ Look1 \/ Feed(0, "feed0") \/ Feed(1, "feed1")

mainStep == WaitMaxMonkeys \/ spawnMonkeyThread

monkeyStep(m) == InRoom(m) \/ Outside(m)

Next == \/ /\ finished = 0
           /\ mainStep \/ trainerStep \/ \E m \in Monkeys : monkeyStep(m)
        \/ finished > 0 /\ UNCHANGED vars

Running(A) == finished = 0 /\ A

Spec == /\ Init /\ [][Next]_vars
        /\ WF_vars(Running(mainStep)) /\ WF_vars(Running(trainerStep))
        /\ \A m \in Monkeys : WF_vars(Running(monkeyStep(m)))

----------------------------------------------------------------------------
(* A monkey that saw both balls free under ballCheckingMutex gets them     *)
(* without waiting, although balls are posted outside the mutex: the check *)
(* never sleeps with the mutex held, which would stop every other monkey.  *)
CheckNeverWaits ==
    \A m \in Monkeys :
        /\ mstate[m] = "take1" => balls[First(m)] > 0
        /\ mstate[m] \in {"take1", "take2"} => balls[Second(m)] > 0

(* Neither "something is wrong" message is ever printed: a monkey that got *)
(* past bowls_full finds a bowl, and returns the one it used.              *)
NothingIsWrong == errors = 0

(* Two monkeys never sit at the same bowl.                                 *)
AtBowl(b) == {m \in Monkeys : mstate[m] \in {"wake", "seated", "release"}
                              /\ bowlNumber[m] = b}
OneMonkeyPerBowl == \A b \in Bowls : Cardinality(AtBowl(b)) = bowls_usage[b]

(* The training ends: the count reaches TARGET_TRAINING in exactly one     *)
(* thread, whatever the trainer misreads on the way.                       *)
TrainingEnds == <>(finished = 1)
=============================================================================
