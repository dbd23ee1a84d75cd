----------------------- MODULE TrainingMonkeysProofs -----------------------
(***************************************************************************)
(* Safety of the training monkeys for any finite number of threads, any    *)
(* number of balls and any target.  TrainInv is inductive.  In the room: a *)
(* ball that is taken has one owner, and only the holder of                *)
(* ballCheckingMutex takes balls.  Outside: the monkeys past bowls_full    *)
(* and its value add up to the two bowls, and a bowl is marked exactly     *)
(* while one monkey is at it.                                              *)
(***************************************************************************)
EXTENDS TrainingMonkeys, FiniteSetTheorems, TLAPS

Checking == {"b1", "b2", "take1", "take2"}
WithFirst  == {"take2", "TAKES_FIRST_BALL", "TAKES_SECOND_BALL"}
WithSecond == {"TAKES_FIRST_BALL", "TAKES_SECOND_BALL", "post2"}
Idle == {"none", "finish"}
Eating == {"wake", "seated", "release"}
PastFull == {"acquire", "return"} \cup Eating

MStates == Checking \cup WithFirst \cup WithSecond \cup PastFull \cup Idle \cup
    {"NEW_MONKEY", "INSIDE_THE_ROOM", "CHECKING", "OUTSIDE_THE_ROOM", "trywait",
     "EAT_APPLES", "EAT_BANANAS", "END_TRAINING"}

Owned(m) == {b \in Balls : \/ mstate[m] \in WithFirst /\ b = First(m)
                           \/ mstate[m] \in WithSecond /\ b = Second(m)}

Users == {m \in Monkeys : mstate[m] \in PastFull}

TypeInv ==
    /\ balls \in [Balls -> {0, 1}]
    /\ b1 \in [Monkeys -> {0, 1}]
    /\ mstate \in [Monkeys -> MStates]
    /\ requireBalls \in [Monkeys -> Pairs \cup {NoBalls}]
    /\ \A m \in Monkeys : mstate[m] \notin Idle => requireBalls[m] \in Pairs
    /\ bowls_full \in Nat
    /\ bowls_usage \in [Bowls -> {0, 1}]
    /\ bowlNumber \in [Monkeys -> Bowls]
    /\ errors = 0

(* The owner of the mutex is the one that checks.                          *)
MutexInv == \A m \in Monkeys : mstate[m] \in Checking <=> ballCheckingMutex = m

(* A ball is gone while one monkey has it.                                 *)
OwnerInv ==
    /\ \A b \in Balls : balls[b] = 0 <=> \E m \in Monkeys : b \in Owned(m)
    /\ \A m, n \in Monkeys : \A b \in Balls : b \in Owned(m) /\ b \in Owned(n) => m = n

(* A ball that was seen stays there until it is taken.                     *)
SeenInv ==
    \A m \in Monkeys :
        /\ mstate[m] = "b2" /\ b1[m] = 1 => balls[First(m)] = 1
        /\ mstate[m] = "take1" => balls[First(m)] = 1
        /\ mstate[m] \in {"take1", "take2"} => balls[Second(m)] = 1

RoomInv == MutexInv /\ OwnerInv /\ SeenInv

(* bowls_full counts the bowls that nobody has asked for.                  *)
UsersInv == Cardinality(Users) + bowls_full = 2

(* A bowl is in use by one monkey exactly while it is marked.              *)
MarkInv ==
    \A b \in Bowls : /\ bowls_usage[b] = 0 <=> AtBowl(b) = {}
                     /\ \A m, n \in AtBowl(b) : m = n

BowlInv == UsersInv /\ MarkInv

TrainInv == TypeInv /\ RoomInv /\ BowlInv
----------------------------------------------------------------------------
RoomFree == MStates \ (Checking \cup WithFirst \cup WithSecond)

\* Monkey m goes to another place and the others stay where they are.
Moved(m, to) ==
    /\ mstate' \in [Monkeys -> MStates]
    /\ mstate'[m] = to
    /\ \A n \in Monkeys : n # m => mstate'[n] = mstate[n]

(* Goto moves one monkey.                                                  *)
LEMMA GotoMoves ==
    ASSUME TrainInv, NEW m \in Monkeys, NEW from, NEW to \in MStates, Goto(m, from, to)
    PROVE  mstate[m] = from /\ Moved(m, to)
  BY DEF Goto, Moved, TrainInv, TypeInv

(* A monkey at work needs two different balls.                             *)
LEMMA TwoBalls ==
    ASSUME TypeInv, NEW m \in Monkeys, mstate[m] \notin Idle
    PROVE  First(m) \in Balls /\ Second(m) \in Balls /\ First(m) # Second(m)
  BY DEF TypeInv, Pairs, First, Second

(* The types when one monkey moves and nothing else of the model changes   *)
(* but the balls and the mutex.                                            *)
LEMMA TypeStays ==
    ASSUME TrainInv, NEW m \in Monkeys, NEW to, Moved(m, to), mstate[m] \notin Idle,
           balls' \in [Balls -> {0, 1}], b1' \in [Monkeys -> {0, 1}],
           UNCHANGED <<requireBalls, bowls_full, bowls_usage, bowlNumber, errors>>
    PROVE  TypeInv'
  BY DEF TrainInv, TypeInv, Moved

(* A move outside the room changes nothing inside.                         *)
LEMMA RoomStays ==
    ASSUME TrainInv, NEW m \in Monkeys, NEW to \in RoomFree, Moved(m, to),
           mstate[m] \in RoomFree,
           UNCHANGED <<balls, ballCheckingMutex, b1>>,
           \A n \in Monkeys : n # m => requireBalls'[n] = requireBalls[n]
    PROVE  RoomInv'
<1>1. \A n \in Monkeys : Owned(n)' = Owned(n)
  BY DEF Owned, Moved, First, Second, RoomFree
<1>2. MutexInv'
  BY DEF TrainInv, RoomInv, MutexInv, Moved, RoomFree
<1>3. OwnerInv'
  BY <1>1 DEF TrainInv, RoomInv, OwnerInv
<1>4. SeenInv'
  BY DEF TrainInv, RoomInv, SeenInv, Moved, First, Second, RoomFree, Checking
<1> QED
  BY <1>2, <1>3, <1>4 DEF RoomInv

(* A move away from the bowls changes nothing at them.                     *)
LEMMA BowlsStay ==
    ASSUME TrainInv, NEW m \in Monkeys, NEW to, Moved(m, to),
           mstate[m] \notin PastFull, to \notin PastFull,
           UNCHANGED <<bowls_full, bowls_usage, bowlNumber>>
    PROVE  BowlInv'
<1>1. Users' = Users
  BY DEF Users, Moved
<1>2. \A b \in Bowls : AtBowl(b)' = AtBowl(b)
  BY DEF AtBowl, Moved, PastFull, Eating
<1> QED
  BY <1>1, <1>2 DEF TrainInv, BowlInv, UsersInv, MarkInv

(* The start.                                                              *)
LEMMA InitTrain == Init => TrainInv
<1> SUFFICES ASSUME Init PROVE TrainInv
  OBVIOUS
<1>1. TypeInv
  BY DEF Init, TypeInv, MStates, Idle, Bowls
<1>2. RoomInv
  BY MonkeyConstants DEF Init, RoomInv, MutexInv, OwnerInv, SeenInv, Owned, Checking, WithFirst, WithSecond
<1>3. BowlInv
  <2>1. Users = {} /\ \A b \in Bowls : AtBowl(b) = {}
    BY DEF Init, Users, AtBowl, PastFull, Eating
  <2> QED
    BY <2>1, FS_EmptySet DEF Init, BowlInv, UsersInv, MarkInv
<1> QED
  BY <1>1, <1>2, <1>3 DEF TrainInv
----------------------------------------------------------------------------
(* In the room                                                             *)

(* The moves that leave the bowls alone.                                   *)
LEMMA InRoomStep ==
    ASSUME TrainInv, NEW m \in Monkeys, NEW to \in MStates, Moved(m, to),
           mstate[m] \notin PastFull \cup Idle, to \notin PastFull,
           UNCHANGED roomRest,
           balls' \in [Balls -> {0, 1}], b1' \in [Monkeys -> {0, 1}],
           RoomInv'
    PROVE  TrainInv'
<1>1. TypeInv'
  BY TypeStays DEF roomRest
<1>2. BowlInv'
  BY BowlsStay DEF roomRest
<1> QED
  BY <1>1, <1>2 DEF TrainInv

(* Coming in.                                                              *)
LEMMA WalkStep ==
    ASSUME TrainInv, NEW m \in Monkeys, ComeInside(m) \/ StartChecking(m)
    PROVE  TrainInv'
<1>1. PICK from, to \in {"NEW_MONKEY", "INSIDE_THE_ROOM", "CHECKING"} :
         Goto(m, from, to) /\ UNCHANGED <<balls, ballCheckingMutex, b1, roomRest>>
  BY DEF ComeInside, StartChecking
<1>2. mstate[m] = from /\ Moved(m, to)
  BY <1>1, GotoMoves DEF MStates
<1>3. from \in RoomFree /\ to \in RoomFree /\ from \notin PastFull \cup Idle /\ to \notin PastFull
      /\ to \in MStates
  BY DEF RoomFree, MStates, Checking, WithFirst, WithSecond, PastFull, Idle, Eating
<1>4. RoomInv'
  BY <1>1, <1>2, <1>3, RoomStays DEF roomRest
<1> QED
  BY <1>1, <1>2, <1>3, <1>4, InRoomStep DEF TrainInv, TypeInv

(* Taking ballCheckingMutex.                                               *)
LEMMA CheckStep ==
    ASSUME TrainInv, NEW m \in Monkeys, Check(m)
    PROVE  TrainInv'
<1>1. /\ Goto(m, "CHECKING", "b1") /\ ballCheckingMutex = Nobody /\ ballCheckingMutex' = m
      /\ UNCHANGED <<balls, b1, roomRest>>
  BY DEF Check
<1>2. mstate[m] = "CHECKING" /\ Moved(m, "b1")
  BY <1>1, GotoMoves DEF MStates, Checking
<1>3. \A n \in Monkeys : Owned(n)' = Owned(n)
  BY <1>1, <1>2 DEF Owned, Moved, First, Second, roomRest, WithFirst, WithSecond
<1>4. MutexInv'
  BY <1>1, <1>2, MonkeyConstants DEF TrainInv, RoomInv, MutexInv, Moved, Checking
<1>5. OwnerInv'
  BY <1>1, <1>3 DEF TrainInv, RoomInv, OwnerInv
<1>6. SeenInv'
  BY <1>1, <1>2 DEF TrainInv, RoomInv, SeenInv, Moved, First, Second, roomRest
<1> QED
  BY <1>1, <1>2, <1>4, <1>5, <1>6, InRoomStep
     DEF TrainInv, TypeInv, RoomInv, MStates, PastFull, Idle, Eating, Checking

(* The first sem_getvalue.                                                 *)
LEMMA GetValue1Step ==
    ASSUME TrainInv, NEW m \in Monkeys, GetValue1(m)
    PROVE  TrainInv'
<1>1. /\ Goto(m, "b1", "b2") /\ b1' = [b1 EXCEPT ![m] = balls[First(m)]]
      /\ UNCHANGED <<balls, ballCheckingMutex, roomRest>>
  BY DEF GetValue1
<1>2. mstate[m] = "b1" /\ Moved(m, "b2")
  BY <1>1, GotoMoves DEF MStates, Checking
<1>3. First(m) \in Balls
  BY <1>2, TwoBalls DEF TrainInv, Idle
<1>4. \A n \in Monkeys : Owned(n)' = Owned(n)
  BY <1>1, <1>2 DEF Owned, Moved, First, Second, roomRest, WithFirst, WithSecond
<1>5. b1' \in [Monkeys -> {0, 1}] /\ b1'[m] = balls[First(m)]
      /\ \A n \in Monkeys : n # m => b1'[n] = b1[n]
  BY <1>1, <1>3 DEF TrainInv, TypeInv
<1>6. MutexInv'
  BY <1>1, <1>2 DEF TrainInv, RoomInv, MutexInv, Moved, Checking
<1>7. OwnerInv'
  BY <1>1, <1>4 DEF TrainInv, RoomInv, OwnerInv
<1>8. SeenInv'
  BY <1>1, <1>2, <1>5 DEF TrainInv, RoomInv, SeenInv, Moved, First, Second, roomRest
<1> QED
  BY <1>1, <1>2, <1>5, <1>6, <1>7, <1>8, InRoomStep
     DEF TrainInv, TypeInv, RoomInv, MStates, PastFull, Idle, Eating, Checking

(* The second sem_getvalue and the decision.                               *)
LEMMA GetValue2Step ==
    ASSUME TrainInv, NEW m \in Monkeys, GetValue2(m)
    PROVE  TrainInv'
<1>1. PICK to \in {"take1", "CHECKING"} :
      /\ Goto(m, "b2", to)
      /\ to = "take1" => b1[m] = 1 /\ balls[Second(m)] = 1 /\ ballCheckingMutex' = ballCheckingMutex
      /\ to = "CHECKING" => ballCheckingMutex' = Nobody
      /\ b1' = [b1 EXCEPT ![m] = 0]
      /\ UNCHANGED <<balls, roomRest>>
  <2>1. CASE b1[m] = 1 /\ balls[Second(m)] = 1
    BY <2>1 DEF GetValue2
  <2>2. CASE ~ (b1[m] = 1 /\ balls[Second(m)] = 1)
    BY <2>2 DEF GetValue2
  <2> QED
    BY <2>1, <2>2
<1>2. mstate[m] = "b2" /\ Moved(m, to)
  BY <1>1, GotoMoves DEF MStates, Checking
<1>3. \A n \in Monkeys : Owned(n)' = Owned(n)
  BY <1>1, <1>2 DEF Owned, Moved, First, Second, roomRest, WithFirst, WithSecond
<1>4. b1' \in [Monkeys -> {0, 1}] /\ \A n \in Monkeys : n # m => b1'[n] = b1[n]
  BY <1>1 DEF TrainInv, TypeInv
<1>5. MutexInv'
  BY <1>1, <1>2, MonkeyConstants DEF TrainInv, RoomInv, MutexInv, Moved, Checking
<1>6. OwnerInv'
  BY <1>1, <1>3 DEF TrainInv, RoomInv, OwnerInv
<1>7. SeenInv'
  BY <1>1, <1>2, <1>4 DEF TrainInv, RoomInv, SeenInv, Moved, First, Second, roomRest
<1> QED
  BY <1>1, <1>2, <1>4, <1>5, <1>6, <1>7, InRoomStep
     DEF TrainInv, TypeInv, RoomInv, MStates, PastFull, Idle, Eating, Checking

(* A ball that was there gets an owner.                                    *)
LEMMA TakeBall ==
    ASSUME TrainInv, NEW m \in Monkeys, NEW b \in Balls, balls[b] = 1,
           balls' = [balls EXCEPT ![b] = balls[b] - 1],
           Owned(m)' = Owned(m) \cup {b},
           \A n \in Monkeys : n # m => Owned(n)' = Owned(n)
    PROVE  OwnerInv' /\ balls' \in [Balls -> {0, 1}]
<1>1. balls' \in [Balls -> {0, 1}] /\ balls'[b] = 0 /\ \A c \in Balls : c # b => balls'[c] = balls[c]
  BY DEF TrainInv, TypeInv
<1>2. \A n \in Monkeys : b \notin Owned(n)
  BY DEF TrainInv, RoomInv, OwnerInv
<1>3. OwnerInv'
  BY <1>1, <1>2 DEF TrainInv, RoomInv, OwnerInv
<1> QED
  BY <1>1, <1>3

(* A ball that had an owner is put back.                                   *)
LEMMA PostBall ==
    ASSUME TrainInv, NEW m \in Monkeys, NEW b \in Balls, b \in Owned(m),
           balls' = [balls EXCEPT ![b] = balls[b] + 1],
           Owned(m)' = Owned(m) \ {b},
           \A n \in Monkeys : n # m => Owned(n)' = Owned(n)
    PROVE  /\ OwnerInv' /\ balls' \in [Balls -> {0, 1}]
           /\ \A c \in Balls : balls[c] = 1 => balls'[c] = 1
<1>1. balls[b] = 0
  BY DEF TrainInv, RoomInv, OwnerInv
<1>2. balls' \in [Balls -> {0, 1}] /\ balls'[b] = 1 /\ \A c \in Balls : c # b => balls'[c] = balls[c]
  BY <1>1 DEF TrainInv, TypeInv
<1>3. OwnerInv'
  BY <1>1, <1>2 DEF TrainInv, RoomInv, OwnerInv
<1> QED
  BY <1>2, <1>3

(* The first sem_wait.                                                     *)
LEMMA Take1Step ==
    ASSUME TrainInv, NEW m \in Monkeys, Take1(m)
    PROVE  TrainInv'
<1>1. /\ Goto(m, "take1", "take2")
      /\ balls' = [balls EXCEPT ![First(m)] = balls[First(m)] - 1]
      /\ UNCHANGED <<ballCheckingMutex, b1, roomRest>>
  BY DEF Take1
<1>2. mstate[m] = "take1" /\ Moved(m, "take2")
  BY <1>1, GotoMoves DEF MStates, Checking
<1>3. PICK f, s \in Balls : f = First(m) /\ s = Second(m) /\ f # s
  BY <1>2, TwoBalls DEF TrainInv, Idle
<1>4. Owned(m) = {} /\ Owned(m)' = {f} /\ \A n \in Monkeys : n # m => Owned(n)' = Owned(n)
  BY <1>1, <1>2, <1>3 DEF Owned, Moved, First, Second, roomRest, WithFirst, WithSecond
<1>5. balls[f] = 1 /\ balls[s] = 1
  BY <1>2, <1>3 DEF TrainInv, RoomInv, SeenInv
<1>6. OwnerInv' /\ balls' \in [Balls -> {0, 1}]
  BY <1>1, <1>3, <1>4, <1>5, TakeBall
<1>7. MutexInv'
  BY <1>1, <1>2 DEF TrainInv, RoomInv, MutexInv, Moved, Checking
<1>8. SeenInv'
  <2>1. balls'[s] = 1
    BY <1>1, <1>3, <1>5 DEF TrainInv, TypeInv
  <2>2. \A n \in Monkeys : n # m => mstate'[n] \notin Checking
    BY <1>2 DEF TrainInv, RoomInv, MutexInv, Moved, Checking
  <2>3. mstate'[m] = "take2" /\ Second(m)' = s
    BY <1>1, <1>2, <1>3 DEF Moved, Second, roomRest
  <2> QED
    BY <2>1, <2>2, <2>3 DEF SeenInv, Checking
<1> QED
  BY <1>1, <1>2, <1>6, <1>7, <1>8, InRoomStep
     DEF TrainInv, TypeInv, RoomInv, MStates, PastFull, Idle, Eating, Checking

(* The second sem_wait and the unlock.                                     *)
LEMMA Take2Step ==
    ASSUME TrainInv, NEW m \in Monkeys, Take2(m)
    PROVE  TrainInv'
<1>1. /\ Goto(m, "take2", "TAKES_FIRST_BALL")
      /\ balls' = [balls EXCEPT ![Second(m)] = balls[Second(m)] - 1]
      /\ ballCheckingMutex' = Nobody
      /\ UNCHANGED <<b1, roomRest>>
  BY DEF Take2
<1>2. mstate[m] = "take2" /\ Moved(m, "TAKES_FIRST_BALL")
  BY <1>1, GotoMoves DEF MStates, WithFirst
<1>3. PICK f, s \in Balls : f = First(m) /\ s = Second(m) /\ f # s
  BY <1>2, TwoBalls DEF TrainInv, Idle
<1>4. Owned(m) = {f} /\ Owned(m)' = {f, s} /\ \A n \in Monkeys : n # m => Owned(n)' = Owned(n)
  BY <1>1, <1>2, <1>3 DEF Owned, Moved, First, Second, roomRest, WithFirst, WithSecond
<1>5. balls[s] = 1
  BY <1>2, <1>3 DEF TrainInv, RoomInv, SeenInv
<1>6. OwnerInv' /\ balls' \in [Balls -> {0, 1}]
  <2>1. Owned(m)' = Owned(m) \cup {s}
    BY <1>4
  <2> QED
    BY <2>1, <1>1, <1>3, <1>4, <1>5, TakeBall
<1>7. \A n \in Monkeys : mstate'[n] \notin Checking
  BY <1>2 DEF TrainInv, RoomInv, MutexInv, Moved, Checking
<1>8. MutexInv'
  BY <1>1, <1>7, MonkeyConstants DEF MutexInv
<1>9. SeenInv'
  BY <1>7 DEF SeenInv, Checking
<1> QED
  BY <1>1, <1>2, <1>6, <1>8, <1>9, InRoomStep
     DEF TrainInv, TypeInv, RoomInv, MStates, PastFull, Idle, Eating, WithFirst

(* Thinking.                                                               *)
LEMMA ThinkStep ==
    ASSUME TrainInv, NEW m \in Monkeys, Think(m)
    PROVE  TrainInv'
<1>1. /\ Goto(m, "TAKES_FIRST_BALL", "TAKES_SECOND_BALL")
      /\ UNCHANGED <<balls, ballCheckingMutex, b1, roomRest>>
  BY DEF Think
<1>2. mstate[m] = "TAKES_FIRST_BALL" /\ Moved(m, "TAKES_SECOND_BALL")
  BY <1>1, GotoMoves DEF MStates, WithFirst
<1>3. \A n \in Monkeys : Owned(n)' = Owned(n)
  BY <1>1, <1>2 DEF Owned, Moved, First, Second, roomRest, WithFirst, WithSecond
<1>4. MutexInv'
  BY <1>1, <1>2 DEF TrainInv, RoomInv, MutexInv, Moved, Checking
<1>5. OwnerInv'
  BY <1>1, <1>3 DEF TrainInv, RoomInv, OwnerInv
<1>6. SeenInv'
  BY <1>1, <1>2 DEF TrainInv, RoomInv, SeenInv, Moved, First, Second, roomRest
<1> QED
  BY <1>1, <1>2, <1>4, <1>5, <1>6, InRoomStep
     DEF TrainInv, TypeInv, RoomInv, MStates, PastFull, Idle, Eating, WithFirst

(* What was seen stays there when a ball is put back.                      *)
LEMMA SeenStays ==
    ASSUME TrainInv, NEW m \in Monkeys, NEW to \in MStates \ Checking, Moved(m, to),
           mstate[m] \notin Checking,
           \A c \in Balls : balls[c] = 1 => balls'[c] = 1,
           UNCHANGED <<ballCheckingMutex, b1, requireBalls>>
    PROVE  SeenInv' /\ MutexInv'
<1>1. MutexInv'
  BY DEF TrainInv, RoomInv, MutexInv, Moved
<1>2. ASSUME NEW n \in Monkeys, mstate'[n] \in Checking
      PROVE  /\ mstate[n] = mstate'[n] /\ First(n)' = First(n) /\ Second(n)' = Second(n)
             /\ First(n) \in Balls /\ Second(n) \in Balls
  BY <1>2, TwoBalls DEF Moved, First, Second, Checking, Idle, TrainInv
<1>3. SeenInv'
  BY <1>2 DEF TrainInv, RoomInv, SeenInv, Checking
<1> QED
  BY <1>1, <1>3

(* The first sem_post.                                                     *)
LEMMA Post1Step ==
    ASSUME TrainInv, NEW m \in Monkeys, Post1(m)
    PROVE  TrainInv'
<1>1. /\ Goto(m, "TAKES_SECOND_BALL", "post2")
      /\ balls' = [balls EXCEPT ![First(m)] = balls[First(m)] + 1]
      /\ UNCHANGED <<ballCheckingMutex, b1, roomRest>>
  BY DEF Post1
<1>2. mstate[m] = "TAKES_SECOND_BALL" /\ Moved(m, "post2")
  BY <1>1, GotoMoves DEF MStates, WithSecond
<1>3. PICK f, s \in Balls : f = First(m) /\ s = Second(m) /\ f # s
  BY <1>2, TwoBalls DEF TrainInv, Idle
<1>4. Owned(m) = {f, s} /\ Owned(m)' = {s} /\ \A n \in Monkeys : n # m => Owned(n)' = Owned(n)
  BY <1>1, <1>2, <1>3 DEF Owned, Moved, First, Second, roomRest, WithFirst, WithSecond
<1>5. /\ OwnerInv' /\ balls' \in [Balls -> {0, 1}]
      /\ \A c \in Balls : balls[c] = 1 => balls'[c] = 1
  <2>1. Owned(m)' = Owned(m) \ {f} /\ f \in Owned(m)
    BY <1>3, <1>4
  <2> QED
    BY <2>1, <1>1, <1>3, <1>4, PostBall
<1>6. "post2" \in MStates \ Checking /\ "TAKES_SECOND_BALL" \notin Checking
  BY DEF MStates, Checking, WithSecond
<1>7. SeenInv' /\ MutexInv'
  BY <1>1, <1>2, <1>5, <1>6, SeenStays DEF roomRest
<1> QED
  BY <1>1, <1>2, <1>5, <1>6, <1>7, InRoomStep
     DEF TrainInv, TypeInv, RoomInv, PastFull, Idle, Eating

(* The second sem_post.                                                    *)
LEMMA Post2Step ==
    ASSUME TrainInv, NEW m \in Monkeys, Post2(m)
    PROVE  TrainInv'
<1>1. /\ Goto(m, "post2", "OUTSIDE_THE_ROOM")
      /\ balls' = [balls EXCEPT ![Second(m)] = balls[Second(m)] + 1]
      /\ UNCHANGED <<ballCheckingMutex, b1, roomRest>>
  BY DEF Post2
<1>2. mstate[m] = "post2" /\ Moved(m, "OUTSIDE_THE_ROOM")
  BY <1>1, GotoMoves DEF MStates
<1>3. PICK s \in Balls : s = Second(m)
  BY <1>2, TwoBalls DEF TrainInv, Idle
<1>4. Owned(m) = {s} /\ Owned(m)' = {} /\ \A n \in Monkeys : n # m => Owned(n)' = Owned(n)
  BY <1>1, <1>2, <1>3 DEF Owned, Moved, First, Second, roomRest, WithFirst, WithSecond
<1>5. /\ OwnerInv' /\ balls' \in [Balls -> {0, 1}]
      /\ \A c \in Balls : balls[c] = 1 => balls'[c] = 1
  <2>1. Owned(m)' = Owned(m) \ {s} /\ s \in Owned(m)
    BY <1>4
  <2> QED
    BY <2>1, <1>1, <1>3, <1>4, PostBall
<1>6. "OUTSIDE_THE_ROOM" \in MStates \ Checking /\ "post2" \notin Checking
  BY DEF MStates, Checking
<1>7. SeenInv' /\ MutexInv'
  BY <1>1, <1>2, <1>5, <1>6, SeenStays DEF roomRest
<1> QED
  BY <1>1, <1>2, <1>5, <1>6, <1>7, InRoomStep
     DEF TrainInv, TypeInv, RoomInv, PastFull, Idle, Eating

(* Every step in the room.                                                 *)
LEMMA InRoomKeeps ==
    ASSUME TrainInv, NEW m \in Monkeys, InRoom(m)
    PROVE  TrainInv'
  BY WalkStep, CheckStep, GetValue1Step, GetValue2Step, Take1Step, Take2Step, ThinkStep,
     Post1Step, Post2Step DEF InRoom
----------------------------------------------------------------------------
(* Outside                                                                 *)

(* The moves outside the room, given what they do to the bowls.            *)
LEMMA OutsideStep ==
    ASSUME TrainInv, NEW m \in Monkeys, NEW to \in RoomFree, Moved(m, to),
           mstate[m] \in RoomFree, mstate[m] \notin Idle,
           bowls_full' \in Nat, bowls_usage' \in [Bowls -> {0, 1}],
           bowlNumber' \in [Monkeys -> Bowls],
           UNCHANGED <<balls, ballCheckingMutex, b1, requireBalls, errors>>,
           BowlInv'
    PROVE  TrainInv'
<1>1. TypeInv'
  BY DEF TrainInv, TypeInv, Moved
<1>2. RoomInv'
  BY RoomStays
<1> QED
  BY <1>1, <1>2 DEF TrainInv

(* The states outside the room.                                            *)
LEMMA OutsideStates ==
    /\ {"OUTSIDE_THE_ROOM", "trywait", "EAT_APPLES", "EAT_BANANAS", "END_TRAINING"} \cup PastFull
         \subseteq RoomFree \ Idle
    /\ {"OUTSIDE_THE_ROOM", "trywait", "EAT_APPLES", "EAT_BANANAS", "END_TRAINING",
        "none", "finish", "NEW_MONKEY"} \subseteq RoomFree \ PastFull
    /\ RoomFree \subseteq MStates
  BY DEF RoomFree, MStates, PastFull, Eating, Idle, Checking, WithFirst, WithSecond

(* Leaving the room and eating.                                            *)
LEMMA AwayStep ==
    ASSUME TrainInv, NEW m \in Monkeys, GoOutside(m) \/ Eat(m)
    PROVE  TrainInv'
<1>1. PICK from, to \in {"OUTSIDE_THE_ROOM", "trywait", "EAT_APPLES", "EAT_BANANAS", "END_TRAINING"} :
        /\ Goto(m, from, to)
        /\ UNCHANGED <<bowls_full, bowls_usage, bowlNumber, errors, bowlRest>>
  BY DEF GoOutside, Eat, Goto
<1>2. from \in RoomFree /\ to \in RoomFree /\ from \notin Idle /\ from \notin PastFull /\ to \notin PastFull
      /\ to \in MStates
  BY OutsideStates
<1>3. mstate[m] = from /\ Moved(m, to)
  BY <1>1, <1>2, GotoMoves
<1>4. BowlInv'
  BY <1>1, <1>2, <1>3, BowlsStay
<1> QED
  BY <1>1, <1>2, <1>3, <1>4, OutsideStep DEF bowlRest, TrainInv, TypeInv

(* The monkeys past bowls_full are finitely many.                          *)
LEMMA UsersFinite == IsFiniteSet(Users) /\ Cardinality(Users) \in Nat
<1>1. Users \subseteq Monkeys
  BY DEF Users
<1> QED
  BY <1>1, MonkeyConstants, FS_Subset, FS_CardinalityType

(* sem_trywait: the monkey counts as a user exactly when it succeeds.      *)
LEMMA TryBowlStep ==
    ASSUME TrainInv, NEW m \in Monkeys, TryBowl(m)
    PROVE  TrainInv'
<1>1. PICK to \in {"acquire", "EAT_APPLES"} :
        /\ Goto(m, "trywait", to)
        /\ to = "acquire" => bowls_full > 0 /\ bowls_full' = bowls_full - 1
        /\ to = "EAT_APPLES" => bowls_full' = bowls_full
        /\ UNCHANGED <<bowls_usage, bowlNumber, errors, bowlRest>>
  <2>1. CASE bowls_full > 0
    BY <2>1 DEF TryBowl
  <2>2. CASE ~ (bowls_full > 0)
    BY <2>2 DEF TryBowl
  <2> QED
    BY <2>1, <2>2
<1>2. "trywait" \in RoomFree /\ to \in RoomFree /\ "trywait" \notin Idle /\ "trywait" \notin PastFull
      /\ to \in MStates
  BY OutsideStates DEF PastFull
<1>3. mstate[m] = "trywait" /\ Moved(m, to)
  BY <1>1, <1>2, GotoMoves
<1>4. bowls_full \in Nat /\ bowls_full' \in Nat
  BY <1>1 DEF TrainInv, TypeInv
<1>5. CASE to = "EAT_APPLES"
  <2>1. BowlInv'
    BY <1>1, <1>2, <1>3, <1>5, OutsideStates, BowlsStay
  <2> QED
    BY <2>1, <1>1, <1>2, <1>3, <1>4, OutsideStep DEF bowlRest, TrainInv, TypeInv
<1>6. CASE to = "acquire"
  <2>1. m \notin Users /\ Users' = Users \cup {m}
    BY <1>2, <1>3, <1>6 DEF Users, Moved, PastFull
  <2>2. Cardinality(Users') = Cardinality(Users) + 1
    BY <2>1, UsersFinite, FS_AddElement
  <2>3. UsersInv'
    BY <2>2, <1>1, <1>4, <1>6, UsersFinite DEF TrainInv, BowlInv, UsersInv
  <2>4. \A b \in Bowls : AtBowl(b)' = AtBowl(b)
    BY <1>1, <1>3, <1>6 DEF AtBowl, Moved
  <2>5. BowlInv'
    BY <2>3, <2>4, <1>1 DEF TrainInv, BowlInv, MarkInv
  <2> QED
    BY <2>5, <1>1, <1>2, <1>3, <1>4, OutsideStep DEF bowlRest, TrainInv, TypeInv
<1> QED
  BY <1>5, <1>6

(* A monkey that goes on past bowls_full stays a user.                     *)
LEMMA UsersStay ==
    ASSUME TrainInv, NEW m \in Monkeys, NEW to \in PastFull, Moved(m, to),
           mstate[m] \in PastFull, UNCHANGED bowls_full
    PROVE  UsersInv'
<1>1. Users' = Users
  BY DEF Users, Moved
<1> QED
  BY <1>1 DEF TrainInv, BowlInv, UsersInv

(* A monkey that is past bowls_full and not yet at a bowl finds a free one:*)
(* two marked bowls have two other users.                                  *)
LEMMA FreeBowl ==
    ASSUME TrainInv, NEW m \in Monkeys, mstate[m] = "acquire"
    PROVE  \E b \in Bowls : bowls_usage[b] = 0
<1> SUFFICES ASSUME \A b \in Bowls : bowls_usage[b] # 0
             PROVE  FALSE
  OBVIOUS
<1>1. AtBowl(0) # {} /\ AtBowl(1) # {}
  BY DEF TrainInv, BowlInv, MarkInv, Bowls
<1>2. PICK x \in AtBowl(0), y \in AtBowl(1) : TRUE
  BY <1>1
<1>3. x # y /\ x # m /\ y # m /\ {m, x, y} \subseteq Users
  BY DEF AtBowl, Users, PastFull, Eating
<1>4. IsFiniteSet({x}) /\ IsFiniteSet({x, y}) /\ Cardinality({x}) = 1
  <2>1. IsFiniteSet({x}) /\ Cardinality({x}) = 1
    BY FS_Singleton, Zenon
  <2>2. {x, y} = {x} \cup {y}
    OBVIOUS
  <2> QED
    BY <2>1, <2>2, FS_AddElement
<1>5. Cardinality({x, y}) = 2
  <2>1. y \notin {x} /\ {x, y} = {x} \cup {y}
    BY <1>3
  <2>2. Cardinality({x, y}) = Cardinality({x}) + 1
    BY <2>1, <1>4, FS_AddElement
  <2> QED
    BY <2>2, <1>4
<1>6. Cardinality({m, x, y}) = 3
  <2>1. m \notin {x, y} /\ {m, x, y} = {x, y} \cup {m}
    BY <1>3
  <2>2. Cardinality({m, x, y}) = Cardinality({x, y}) + 1
    BY <2>1, <1>4, FS_AddElement
  <2> QED
    BY <2>2, <1>5
<1>7. Cardinality({m, x, y}) <= Cardinality(Users)
  BY <1>3, UsersFinite, FS_Subset
<1>8. Cardinality(Users) + bowls_full = 2 /\ bowls_full \in Nat /\ Cardinality(Users) \in Nat
  BY UsersFinite DEF TrainInv, TypeInv, BowlInv, UsersInv
<1> QED
  BY <1>6, <1>7, <1>8

(* acquireProperBowl marks a free bowl.                                    *)
LEMMA AcquireStep ==
    ASSUME TrainInv, NEW m \in Monkeys, acquireProperBowl(m)
    PROVE  TrainInv'
<1>1. Goto(m, "acquire", "wake") /\ UNCHANGED <<sems, ballCheckingMutex, requireBalls, b1>>
  BY DEF acquireProperBowl
<1>2. "acquire" \in RoomFree /\ "wake" \in RoomFree /\ "acquire" \notin Idle
      /\ "acquire" \in PastFull /\ "wake" \in PastFull /\ "wake" \in MStates
  BY OutsideStates DEF PastFull, Eating
<1>3. mstate[m] = "acquire" /\ Moved(m, "wake")
  BY <1>1, <1>2, GotoMoves
<1>4. \E b \in Bowls : bowls_usage[b] = 0
  BY <1>3, FreeBowl
<1>5. PICK b \in Bowls : /\ bowls_usage[b] = 0
                         /\ bowls_usage' = [bowls_usage EXCEPT ![b] = 1]
                         /\ bowlNumber' = [bowlNumber EXCEPT ![m] = b]
                         /\ errors' = errors
  BY <1>4 DEF acquireProperBowl, Bowls
<1>6. /\ bowls_usage' \in [Bowls -> {0, 1}] /\ bowls_usage'[b] = 1
      /\ \A c \in Bowls : c # b => bowls_usage'[c] = bowls_usage[c]
      /\ bowlNumber' \in [Monkeys -> Bowls] /\ bowlNumber'[m] = b
      /\ \A n \in Monkeys : n # m => bowlNumber'[n] = bowlNumber[n]
  BY <1>5 DEF TrainInv, TypeInv
<1>7. MarkInv'
  <2>1. AtBowl(b) = {}
    BY <1>5 DEF TrainInv, BowlInv, MarkInv
  <2>2. AtBowl(b)' = {m}
    BY <2>1, <1>3, <1>6 DEF AtBowl, Moved
  <2>3. \A c \in Bowls : c # b => AtBowl(c)' = AtBowl(c)
    BY <1>3, <1>6 DEF AtBowl, Moved
  <2> QED
    BY <2>2, <2>3, <1>6 DEF TrainInv, BowlInv, MarkInv
<1>8. UsersInv'
  BY <1>1, <1>2, <1>3, UsersStay DEF sems
<1> QED
  BY <1>1, <1>2, <1>3, <1>5, <1>6, <1>7, <1>8, OutsideStep DEF sems, TrainInv, TypeInv, BowlInv

(* Waking the trainer and being fed leave the bowls as they are.           *)
LEMMA AtBowlStep ==
    ASSUME TrainInv, NEW m \in Monkeys, WakeTrainer(m) \/ Fed(m)
    PROVE  TrainInv'
<1>1. PICK from, to \in Eating :
        /\ Goto(m, from, to)
        /\ UNCHANGED <<bowls_full, bowls_usage, bowlNumber, errors, bowlRest>>
  BY DEF WakeTrainer, Fed, Eating
<1>2. from \in RoomFree /\ to \in RoomFree /\ from \notin Idle /\ from \in PastFull /\ to \in PastFull
      /\ to \in MStates
  BY OutsideStates DEF PastFull
<1>3. mstate[m] = from /\ Moved(m, to)
  BY <1>1, <1>2, GotoMoves
<1>4. UsersInv'
  BY <1>1, <1>2, <1>3, UsersStay
<1>5. \A b \in Bowls : AtBowl(b)' = AtBowl(b)
  BY <1>1, <1>3 DEF AtBowl, Moved, Eating
<1>6. BowlInv'
  BY <1>1, <1>4, <1>5 DEF TrainInv, BowlInv, MarkInv
<1> QED
  BY <1>1, <1>2, <1>3, <1>6, OutsideStep DEF bowlRest, TrainInv, TypeInv

(* releaseBowl finds the bowl marked and clears it.                        *)
LEMMA ReleaseStep ==
    ASSUME TrainInv, NEW m \in Monkeys, releaseBowl(m)
    PROVE  TrainInv'
<1>1. /\ Goto(m, "release", "return")
      /\ UNCHANGED <<sems, ballCheckingMutex, requireBalls, b1, bowlNumber>>
  BY DEF releaseBowl
<1>2. "release" \in RoomFree /\ "return" \in RoomFree /\ "release" \notin Idle
      /\ "release" \in PastFull /\ "return" \in PastFull /\ "return" \in MStates
  BY OutsideStates DEF PastFull, Eating
<1>3. mstate[m] = "release" /\ Moved(m, "return")
  BY <1>1, <1>2, GotoMoves
<1>4. PICK b \in Bowls : b = bowlNumber[m]
  BY DEF TrainInv, TypeInv
<1>5. m \in AtBowl(b)
  BY <1>3, <1>4 DEF AtBowl
<1>6. bowls_usage[b] = 1
  BY <1>5 DEF TrainInv, TypeInv, BowlInv, MarkInv
<1>7. bowls_usage' = [bowls_usage EXCEPT ![b] = 0] /\ errors' = errors
  BY <1>4, <1>6 DEF releaseBowl
<1>8. /\ bowls_usage' \in [Bowls -> {0, 1}] /\ bowls_usage'[b] = 0
      /\ \A c \in Bowls : c # b => bowls_usage'[c] = bowls_usage[c]
  BY <1>7 DEF TrainInv, TypeInv
<1>9. MarkInv'
  <2>1. AtBowl(b) = {m}
    BY <1>5 DEF TrainInv, BowlInv, MarkInv
  <2>2. AtBowl(b)' = {}
    BY <2>1, <1>1, <1>3 DEF AtBowl, Moved
  <2>3. \A c \in Bowls : c # b => AtBowl(c)' = AtBowl(c)
    BY <1>1, <1>3, <1>4 DEF AtBowl, Moved
  <2> QED
    BY <2>2, <2>3, <1>8 DEF TrainInv, BowlInv, MarkInv
<1>10. UsersInv'
  BY <1>1, <1>2, <1>3, UsersStay DEF sems
<1> QED
  BY <1>1, <1>2, <1>3, <1>7, <1>8, <1>9, <1>10, OutsideStep
     DEF sems, TrainInv, TypeInv, BowlInv

(* sem_post(&bowls_full): the monkey is no longer a user.                  *)
LEMMA ReturnStep ==
    ASSUME TrainInv, NEW m \in Monkeys, ReturnBowl(m)
    PROVE  TrainInv'
<1>1. /\ Goto(m, "return", "EAT_BANANAS")
      /\ bowls_full' = bowls_full + 1
      /\ bowlNumber' = [bowlNumber EXCEPT ![m] = 0]
      /\ UNCHANGED <<bowls_usage, errors, bowlRest>>
  BY DEF ReturnBowl
<1>2. "return" \in RoomFree /\ "EAT_BANANAS" \in RoomFree /\ "return" \notin Idle
      /\ "return" \in PastFull /\ "EAT_BANANAS" \notin PastFull /\ "EAT_BANANAS" \in MStates
  BY OutsideStates DEF PastFull, Eating
<1>3. mstate[m] = "return" /\ Moved(m, "EAT_BANANAS")
  BY <1>1, <1>2, GotoMoves
<1>4. /\ bowls_full \in Nat /\ bowls_full' \in Nat /\ bowlNumber' \in [Monkeys -> Bowls]
      /\ \A n \in Monkeys : n # m => bowlNumber'[n] = bowlNumber[n]
  BY <1>1 DEF TrainInv, TypeInv, Bowls
<1>5. UsersInv'
  <2>1. m \in Users /\ Users' = Users \ {m}
    BY <1>2, <1>3 DEF Users, Moved
  <2>2. Cardinality(Users') = Cardinality(Users) - 1
    BY <2>1, UsersFinite, FS_RemoveElement
  <2> QED
    BY <2>2, <1>1, <1>4, UsersFinite DEF TrainInv, BowlInv, UsersInv
<1>6. \A b \in Bowls : AtBowl(b)' = AtBowl(b)
  BY <1>3, <1>4 DEF AtBowl, Moved
<1>7. BowlInv'
  BY <1>1, <1>5, <1>6 DEF TrainInv, BowlInv, MarkInv
<1> QED
  BY <1>1, <1>2, <1>3, <1>4, <1>7, OutsideStep DEF bowlRest, TrainInv, TypeInv

(* A thread that ends or starts, with the balls it needs.                  *)
LEMMA SlotStep ==
    ASSUME TrainInv, NEW m \in Monkeys,
           NEW to \in {"none", "finish", "NEW_MONKEY"},
           mstate[m] \in {"none", "finish", "END_TRAINING"},
           mstate' = [mstate EXCEPT ![m] = to],
           requireBalls' \in [Monkeys -> Pairs \cup {NoBalls}],
           \A n \in Monkeys : n # m => requireBalls'[n] = requireBalls[n],
           to = "NEW_MONKEY" => requireBalls'[m] \in Pairs,
           UNCHANGED <<balls, ballCheckingMutex, b1, bowls_full, bowls_usage, bowlNumber, errors>>
    PROVE  TrainInv'
<1>1. /\ to \in RoomFree /\ to \notin PastFull /\ to \in MStates
      /\ mstate[m] \in RoomFree /\ mstate[m] \notin PastFull
  BY OutsideStates
<1>2. Moved(m, to)
  BY <1>1 DEF Moved, TrainInv, TypeInv
<1>3. TypeInv'
  BY <1>2 DEF TrainInv, TypeInv, Moved, Idle
<1>4. RoomInv'
  BY <1>1, <1>2, RoomStays
<1>5. BowlInv'
  BY <1>1, <1>2, BowlsStay
<1> QED
  BY <1>3, <1>4, <1>5 DEF TrainInv

(* The count and the end of a thread.                                      *)
LEMMA EndStep ==
    ASSUME TrainInv, NEW m \in Monkeys, modifyValue(m) \/ finishTraining(m)
    PROVE  TrainInv'
<1>1. CASE modifyValue(m)
  <2>1. PICK to \in {"none", "finish"} :
           mstate[m] = "END_TRAINING" /\ mstate' = [mstate EXCEPT ![m] = to]
    BY <1>1 DEF modifyValue
  <2>2. /\ requireBalls' \in [Monkeys -> Pairs \cup {NoBalls}]
        /\ \A n \in Monkeys : n # m => requireBalls'[n] = requireBalls[n]
    BY <1>1 DEF modifyValue, TrainInv, TypeInv
  <2> QED
    BY <2>1, <2>2, <1>1, SlotStep DEF modifyValue, sems
<1>2. CASE finishTraining(m)
  <2>1. mstate[m] = "finish" /\ mstate' = [mstate EXCEPT ![m] = "none"]
    BY <1>2 DEF finishTraining
  <2>2. requireBalls' = requireBalls /\ requireBalls \in [Monkeys -> Pairs \cup {NoBalls}]
    BY <1>2 DEF finishTraining, TrainInv, TypeInv
  <2> QED
    BY <2>1, <2>2, <1>2, SlotStep DEF finishTraining, sems
<1> QED
  BY <1>1, <1>2

(* Every step outside.                                                     *)
LEMMA OutsideKeeps ==
    ASSUME TrainInv, NEW m \in Monkeys, Outside(m)
    PROVE  TrainInv'
  BY AwayStep, TryBowlStep, AcquireStep, AtBowlStep, ReleaseStep, ReturnStep, EndStep DEF Outside

(* spawnMonkeyThread.                                                      *)
LEMMA SpawnStep ==
    ASSUME TrainInv, spawnMonkeyThread
    PROVE  TrainInv'
<1>1. PICK m \in Monkeys, p \in Pairs :
         /\ mstate[m] = "none"
         /\ mstate' = [mstate EXCEPT ![m] = "NEW_MONKEY"]
         /\ requireBalls' = [requireBalls EXCEPT ![m] = p]
  BY DEF spawnMonkeyThread
<1>2. /\ requireBalls' \in [Monkeys -> Pairs \cup {NoBalls}] /\ requireBalls'[m] \in Pairs
      /\ \A n \in Monkeys : n # m => requireBalls'[n] = requireBalls[n]
  BY <1>1 DEF TrainInv, TypeInv
<1>3. UNCHANGED <<balls, ballCheckingMutex, b1, bowls_full, bowls_usage, bowlNumber, errors>>
  BY DEF spawnMonkeyThread, sems
<1> QED
  BY <1>1, <1>2, <1>3, SlotStep

(* The trainer's misreading and main's wait touch nothing of the           *)
(* invariant.                                                              *)
LEMMA IdleStep ==
    ASSUME TrainInv,
           UNCHANGED <<balls, ballCheckingMutex, b1, bowls_full, bowls_usage, bowlNumber, errors,
                       mstate, requireBalls>>
    PROVE  TrainInv'
<1>1. TypeInv'
  BY DEF TrainInv, TypeInv
<1>2. RoomInv'
  BY DEF TrainInv, RoomInv, MutexInv, OwnerInv, SeenInv, Owned, First, Second
<1>3. BowlInv'
  BY DEF TrainInv, BowlInv, UsersInv, MarkInv, Users, AtBowl
<1> QED
  BY <1>1, <1>2, <1>3 DEF TrainInv

(* Every step keeps TrainInv.                                              *)
LEMMA TrainStep == TrainInv /\ [Next]_vars => TrainInv'
<1> SUFFICES ASSUME TrainInv, [Next]_vars PROVE TrainInv'
  OBVIOUS
<1>1. CASE WaitMaxMonkeys
  BY <1>1, IdleStep DEF WaitMaxMonkeys
<1>2. CASE spawnMonkeyThread
  BY <1>2, SpawnStep
<1>3. CASE trainerStep
  BY <1>3, IdleStep DEF trainerStep, TrainerWait, Look0, Look1, Feed, trainerRest
<1>4. ASSUME NEW m \in Monkeys, monkeyStep(m) PROVE TrainInv'
  BY <1>4, InRoomKeeps, OutsideKeeps DEF monkeyStep
<1>5. CASE UNCHANGED vars
  BY <1>5, IdleStep DEF vars, sems
<1> QED
  BY <1>1, <1>2, <1>3, <1>4, <1>5 DEF Next, mainStep

(* The inductive invariant holds, for every number of monkeys and balls.   *)
THEOREM TrainInvariant == Spec => []TrainInv
  BY InitTrain, TrainStep, PTL DEF Spec

(* A monkey that saw both balls free inside the check takes them without   *)
(* sleeping on a semaphore while it holds ballCheckingMutex.               *)
THEOREM ChecksNeverWait == Spec => []CheckNeverWaits
<1>1. TrainInv => CheckNeverWaits
  BY DEF TrainInv, RoomInv, SeenInv, CheckNeverWaits
<1> QED
  BY <1>1, TrainInvariant, PTL

(* Neither acquireProperBowl nor releaseBowl ever prints its error.        *)
THEOREM NothingGoesWrong == Spec => []NothingIsWrong
<1>1. TrainInv => NothingIsWrong
  BY DEF TrainInv, TypeInv, NothingIsWrong
<1> QED
  BY <1>1, TrainInvariant, PTL

(* Two monkeys never sit at the same bowl, and the marks say who sits.     *)
THEOREM BowlsHaveOneMonkey == Spec => []OneMonkeyPerBowl
<1>1. ASSUME TrainInv, NEW b \in Bowls
      PROVE  Cardinality(AtBowl(b)) = bowls_usage[b]
  <2>1. CASE AtBowl(b) = {}
    BY <1>1, <2>1, FS_EmptySet DEF TrainInv, BowlInv, MarkInv
  <2>2. CASE AtBowl(b) # {}
    <3>1. PICK m : m \in AtBowl(b)
      BY <2>2
    <3>2. AtBowl(b) = {m}
      BY <1>1, <3>1 DEF TrainInv, BowlInv, MarkInv
    <3>3. Cardinality(AtBowl(b)) = 1
      BY <3>2, FS_Singleton, Zenon
    <3> QED
      BY <3>3, <2>2, <1>1 DEF TrainInv, TypeInv, BowlInv, MarkInv
  <2> QED
    BY <2>1, <2>2
<1>2. TrainInv => OneMonkeyPerBowl
  BY <1>1 DEF OneMonkeyPerBowl
<1> QED
  BY <1>2, TrainInvariant, PTL
=============================================================================
