------------------------------- MODULE ProCon -------------------------------
(***************************************************************************)
(* hw2/pro_con.c: producers and consumers over a stack of N items guarded  *)
(* by the POSIX semaphores mutex, empty and full.  Every semaphore         *)
(* operation is a step; buffer[count++] and buffer[--count] read and write *)
(* count in two steps.  An item is named by the producer that made it and  *)
(* the turn of its loop, where the program draws a random number.          *)
(***************************************************************************)
EXTENDS Integers, FiniteSets, Functions

CONSTANTS
    Producers,
    Consumers,
    LOOPS,     \* turns of every thread's loop (100 in the program)
    N          \* size of buffer (100 in the program)

Threads == Producers \cup Consumers

ASSUME ProConConstants ==
    /\ IsFiniteSet(Producers) /\ IsFiniteSet(Consumers)
    /\ Producers \cap Consumers = {}
    /\ LOOPS \in Nat \ {0}
    /\ N \in Nat \ {0}

VARIABLES
    mutex, empty, full,  \* the values of the three semaphores
    buffer,              \* buffer[0] .. buffer[N-1]
    count,               \* the stack pointer
    pc,                  \* where each thread stands in its loop body
    i,                   \* the turn of its loop
    item,                \* its local item
    top,                 \* the value of count it has read
    consumed             \* the items given to consume_item, in all

vars == <<mutex, empty, full, buffer, count, pc, i, item, top, consumed>>

NoItem == <<>>
Items == Producers \X (1 .. LOOPS)

Init ==
    /\ mutex = 1
    /\ empty = N
    /\ full = 0
    /\ buffer = [k \in 0 .. N - 1 |-> NoItem]
    /\ count = 0
    /\ pc = [t \in Threads |-> "wait"]
    /\ i = [t \in Threads |-> 1]
    /\ item = [t \in Threads |-> NoItem]
    /\ top = [t \in Threads |-> 0]
    /\ consumed = {}

Goto(t, x) == pc' = [pc EXCEPT ![t] = x]

----------------------------------------------------------------------------
\* Slip: the producer does not wait for a free slot.
ProduceUnchecked(p) ==
    /\ pc[p] = "wait"
    /\ item' = [item EXCEPT ![p] = <<p, i[p]>>]
    /\ Goto(p, "lock")
    /\ UNCHANGED <<mutex, empty, full, buffer, count, i, top, consumed>>

\* produce_item and sem_wait(&empty)
Produce(p) ==
    /\ pc[p] = "wait"
    /\ empty > 0
    /\ empty' = empty - 1
    /\ item' = [item EXCEPT ![p] = <<p, i[p]>>]
    /\ Goto(p, "lock")
    /\ UNCHANGED <<mutex, full, buffer, count, i, top, consumed>>

\* sem_wait(&full)
WaitFull(c) ==
    /\ pc[c] = "wait"
    /\ full > 0
    /\ full' = full - 1
    /\ Goto(c, "lock")
    /\ UNCHANGED <<mutex, empty, buffer, count, i, item, top, consumed>>

Lock(t) ==
    /\ pc[t] = "lock"
    /\ mutex > 0
    /\ mutex' = mutex - 1
    /\ Goto(t, "read")
    /\ UNCHANGED <<empty, full, buffer, count, i, item, top, consumed>>

\* insert_item and remove_item, first half: count is loaded.
ReadCount(t) ==
    /\ pc[t] = "read"
    /\ top' = [top EXCEPT ![t] = count]
    /\ Goto(t, "write")
    /\ UNCHANGED <<mutex, empty, full, buffer, count, i, item, consumed>>

insert_item(p) ==
    /\ pc[p] = "write"
    /\ buffer' = [buffer EXCEPT ![top[p]] = item[p]]
    /\ count' = top[p] + 1
    /\ item' = [item EXCEPT ![p] = NoItem]
    /\ Goto(p, "unlock")
    /\ UNCHANGED <<mutex, empty, full, i, top, consumed>>

\* Slip: buffer[count--] instead of buffer[--count].
remove_item_post(c) ==
    /\ pc[c] = "write"
    /\ count' = top[c] - 1
    /\ item' = [item EXCEPT ![c] = buffer[top[c] % N]]
    /\ Goto(c, "unlock")
    /\ UNCHANGED <<mutex, empty, full, buffer, i, top, consumed>>

\* The slot keeps its old value; only count moves below it.
remove_item(c) ==
    /\ pc[c] = "write"
    /\ count' = top[c] - 1
    /\ item' = [item EXCEPT ![c] = buffer[top[c] - 1]]
    /\ Goto(c, "unlock")
    /\ UNCHANGED <<mutex, empty, full, buffer, i, top, consumed>>

Unlock(t) ==
    /\ pc[t] = "unlock"
    /\ mutex' = mutex + 1
    /\ top' = [top EXCEPT ![t] = 0]
    /\ Goto(t, "post")
    /\ UNCHANGED <<empty, full, buffer, count, i, item, consumed>>

NextTurn(t) ==
    /\ i' = [i EXCEPT ![t] = @ + 1]
    /\ Goto(t, IF i[t] = LOOPS THEN "done" ELSE "wait")

\* Slip: the producer posts the semaphore it waited for.
PostEmptyTwice(p) ==
    /\ pc[p] = "post"
    /\ empty' = empty + 1
    /\ NextTurn(p)
    /\ UNCHANGED <<mutex, full, buffer, count, item, top, consumed>>

PostFull(p) ==
    /\ pc[p] = "post"
    /\ full' = full + 1
    /\ NextTurn(p)
    /\ UNCHANGED <<mutex, empty, buffer, count, item, top, consumed>>

\* sem_post(&empty) and consume_item
Consume(c) ==
    /\ pc[c] = "post"
    /\ empty' = empty + 1
    /\ consumed' = consumed \cup {item[c]}
    /\ item' = [item EXCEPT ![c] = NoItem]
    /\ NextTurn(c)
    /\ UNCHANGED <<mutex, full, buffer, count, top>>

Shared(t) == Lock(t) \/ ReadCount(t) \/ Unlock(t)
producer(p) == Produce(p) \/ Shared(p) \/ insert_item(p) \/ PostFull(p)
consumer(c) == WaitFull(c) \/ Shared(c) \/ remove_item(c) \/ Consume(c)

AllDone == \A t \in Threads : pc[t] = "done"

Next == \/ \E p \in Producers : producer(p)
        \/ \E c \in Consumers : consumer(c)
        \/ AllDone /\ UNCHANGED vars

Spec == /\ Init /\ [][Next]_vars
        /\ \A p \in Producers : WF_vars(producer(p))
        /\ \A c \in Consumers : WF_vars(consumer(c))

----------------------------------------------------------------------------
(* The index of every access of insert_item and remove_item is inside      *)
(* buffer, although count itself is never compared with the size.          *)
InBounds ==
    /\ \A p \in Producers : pc[p] = "write" => top[p] \in 0 .. N - 1
    /\ \A c \in Consumers : pc[c] = "write" => top[c] \in 1 .. N

Inside == {t \in Threads : pc[t] \in {"read", "write", "unlock"}}

Made == {x \in Items : x[2] < i[x[1]] \/ (x[2] = i[x[1]] /\ pc[x[1]] # "wait")}
Held == {item[t] : t \in Threads} \ {NoItem}
Stacked == {buffer[k] : k \in 0 .. count - 1}

(* No item is lost or consumed twice: outside the critical section every   *)
(* item made is in exactly one place, a hand, the stack or consumed.       *)
ItemsConserved ==
    Inside = {} =>
        /\ Made = Held \cup Stacked \cup consumed
        /\ Cardinality(Made) =
             Cardinality({t \in Threads : item[t] # NoItem})
             + count + Cardinality(consumed)

(* Every thread finishes its loop, so main's pthread_join calls return.    *)
Terminates == <>AllDone
=============================================================================
