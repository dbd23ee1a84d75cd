----------------------------- MODULE Hw1Driver -----------------------------
(***************************************************************************)
(* hw1: hw1_driver.c, a character device that is a stack of bytes, and the *)
(* programs that use it: provider.c pushes, consumer.c pops, cleaner.c     *)
(* empties.  Each step of modifyStack that touches stack or stackpointer   *)
(* is an action of its own; only my_mutex keeps the callers apart.         *)
(***************************************************************************)
EXTENDS Integers, Sequences

CONSTANTS Providers, Consumers, Cleaners,
          Bytes,    \* what the provider writes
          TopIndex, \* full() compares stackpointer with it: 255
          Nobody    \* my_mutex is free

(* The provider writes p%127, which is no char below zero.                 *)
ASSUME Hw1Assumption ==
    /\ Providers \cap Consumers = {} /\ Providers \cap Cleaners = {}
    /\ Consumers \cap Cleaners = {}
    /\ Nobody \notin Providers \cup Consumers \cup Cleaners
    /\ Bytes \subseteq 0 .. 126 /\ TopIndex \in Nat

VARIABLES
    stack, stackpointer, my_mutex,
    hwPc,    \* where each process is in its call
    hwWord   \* its argument, and then its result r

hwVars == <<stack, stackpointer, my_mutex, hwPc, hwWord>>

Procs == Providers \cup Consumers \cup Cleaners

Sentinel == 2147483647   \* 0x7fffffff

HwInit ==
    /\ stack = [k \in 0 .. TopIndex + 1 |-> 0] /\ stackpointer = -1
    /\ my_mutex = Nobody
    /\ hwPc = [p \in Procs |-> "idle"]
    /\ hwWord = [p \in Procs |-> 0]

empty == stackpointer = -1

\* Slip: one place too many.
fullLate == stackpointer = TopIndex + 1

full == stackpointer = TopIndex

HwAt(p, pc) == hwPc[p] = pc
HwGoto(p, pc) == hwPc' = [hwPc EXCEPT ![p] = pc]
HwHolds(p, v) == hwWord' = [hwWord EXCEPT ![p] = v]

----------------------------------------------------------------------------
(* The calls.  pop, push and hw1_ioctl lock, call modifyStack and unlock.  *)

hw1_write(p) ==
    /\ p \in Providers /\ HwAt(p, "idle")
    /\ \E v \in Bytes : HwHolds(p, v)
    /\ HwGoto(p, "lock")
    /\ UNCHANGED <<stack, stackpointer, my_mutex>>

hw1_read(p) ==
    /\ p \in Consumers /\ HwAt(p, "idle")
    /\ HwGoto(p, "lock")
    /\ UNCHANGED <<stack, stackpointer, my_mutex, hwWord>>

hw1_ioctl(p) ==
    /\ p \in Cleaners /\ HwAt(p, "idle")
    /\ HwGoto(p, "lock")
    /\ UNCHANGED <<stack, stackpointer, my_mutex, hwWord>>

mutex_lock(p) ==
    /\ HwAt(p, "lock") /\ my_mutex = Nobody
    /\ my_mutex' = p
    /\ HwGoto(p, "modify")
    /\ UNCHANGED <<stack, stackpointer, hwWord>>

\* The call returns; what hw1_read makes of the sentinel is hw1_result.
mutex_unlock(p) ==
    /\ HwAt(p, "unlock")
    /\ my_mutex' = Nobody
    /\ HwGoto(p, "idle")
    /\ HwHolds(p, 0)
    /\ UNCHANGED <<stack, stackpointer>>

hw1_result(p) == IF p \in Consumers /\ hwWord[p] = Sentinel THEN -1 ELSE hwWord[p]

----------------------------------------------------------------------------
(* modifyStack.                                                            *)

PushFull(p) ==
    /\ p \in Providers /\ HwAt(p, "modify") /\ full
    /\ HwHolds(p, Sentinel)
    /\ HwGoto(p, "unlock")
    /\ UNCHANGED <<stack, stackpointer, my_mutex>>

PushMove(p) ==
    /\ p \in Providers /\ HwAt(p, "modify") /\ ~full
    /\ stackpointer' = stackpointer + 1
    /\ HwGoto(p, "store")
    /\ UNCHANGED <<stack, my_mutex, hwWord>>

PushStore(p) ==
    /\ HwAt(p, "store")
    /\ stack' = [stack EXCEPT ![stackpointer] = hwWord[p]]
    /\ HwHolds(p, stackpointer + 1)
    /\ HwGoto(p, "unlock")
    /\ UNCHANGED <<stackpointer, my_mutex>>

PopEmpty(p) ==
    /\ p \in Consumers /\ HwAt(p, "modify") /\ empty
    /\ HwHolds(p, Sentinel)
    /\ HwGoto(p, "unlock")
    /\ UNCHANGED <<stack, stackpointer, my_mutex>>

PopLoad(p) ==
    /\ p \in Consumers /\ HwAt(p, "modify") /\ ~empty
    /\ HwHolds(p, stack[stackpointer])
    /\ HwGoto(p, "drop")
    /\ UNCHANGED <<stack, stackpointer, my_mutex>>

PopMove(p) ==
    /\ HwAt(p, "drop")
    /\ stackpointer' = stackpointer - 1
    /\ HwGoto(p, "unlock")
    /\ UNCHANGED <<stack, my_mutex, hwWord>>

CleanAll(p) ==
    /\ p \in Cleaners /\ HwAt(p, "modify")
    /\ stackpointer' = -1
    /\ HwGoto(p, "unlock")
    /\ UNCHANGED <<stack, my_mutex, hwWord>>

----------------------------------------------------------------------------
HwStep(p) ==
    \/ hw1_write(p) \/ hw1_read(p) \/ hw1_ioctl(p)
    \/ mutex_lock(p) \/ mutex_unlock(p)
    \/ PushFull(p) \/ PushMove(p) \/ PushStore(p)
    \/ PopEmpty(p) \/ PopLoad(p) \/ PopMove(p)
    \/ CleanAll(p)

HwNext == \E p \in Procs : HwStep(p)

\* rmmod and insmod: the module's memory is new.
hw1_exit ==
    /\ \A p \in Procs : HwAt(p, "idle")
    /\ stack' = [k \in 0 .. TopIndex + 1 |-> 0] /\ stackpointer' = -1
    /\ UNCHANGED <<my_mutex, hwPc, hwWord>>

HwSpec == HwInit /\ [][HwNext \/ hw1_exit]_hwVars
----------------------------------------------------------------------------
\* How many of the entries of stack count: not the one that is yet to be stored.
Depth == IF \E p \in Procs : HwAt(p, "store") THEN stackpointer ELSE stackpointer + 1

\* A word popped but not yet taken off is not yet a result.
Stack == INSTANCE BoundedStack WITH
    Pushers <- Providers, Poppers <- Consumers, Emptiers <- Cleaners, Values <- Bytes,
    Limit <- TopIndex + 1, FullMark <- Sentinel, EmptyMark <- -1,
    items <- [k \in 1 .. Depth |-> stack[k - 1]],
    phase <- [p \in Procs |-> IF HwAt(p, "idle") THEN "idle"
                              ELSE IF HwAt(p, "unlock") THEN "told" ELSE "asked"],
    word <- [p \in Procs |-> IF HwAt(p, "drop") THEN 0 ELSE hw1_result(p)]

(* The device is a stack with room for 256 bytes: whatever provider,       *)
(* consumer and cleaner do at once, a pop returns the byte pushed last and *)
(* not popped since, each byte is popped at most once, a push reports the  *)
(* new size, and the sentinel and -1 are reported for a full and an empty  *)
(* stack only.                                                             *)
ImplementsStack == Stack!StackSpec
=============================================================================
