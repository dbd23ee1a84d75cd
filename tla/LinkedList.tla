----------------------------- MODULE LinkedList -----------------------------
(***************************************************************************)
(* project5/task1: linkedlist_skel.c, a driver that keeps a singly linked  *)
(* list behind one semaphore, and reader_writer_skel.c, whose threads      *)
(* write and read through one descriptor.  The heap is a function from the *)
(* nodes that are allocated; a pointer is a node or NULL.  Another process *)
(* (Other) has the device open too and may close it at any time.           *)
(***************************************************************************)
EXTENDS Integers, FiniteSets, Functions

CONSTANTS Readers, Writers, Main, Other,
          Sent,      \* the bytes passed to read and write: 0 .. 9 by these programs,
                     \* any byte by other programs
          NUMLOOP

(* The threads are different, and some value is passed.                    *)
ASSUME ListAssumption ==
    /\ Readers \cap Writers = {} /\ {Main, Other} \cap (Readers \cup Writers) = {} /\ Main # Other
    /\ Sent # {} /\ Sent \subseteq Nat /\ NUMLOOP \in Nat \ {0}

VARIABLES
    heap,    \* the allocated nodes: next and v
    head, size,
    sem,     \* the semaphore's count
    user     \* per thread: where it is, its v, cur, loop counter, turn and result

listVars == <<heap, head, size, sem, user>>

Null == 0
Closing == {Main, Other}
ListUsers == Readers \cup Writers \cup Closing

Fresh(t) ==
    [pc |-> IF t \in Closing THEN "open" ELSE "new", v |-> 0, cur |-> Null, n |-> 0,
     turn |-> 0, ret |-> 0]

ListInit ==
    /\ heap = << >> /\ head = Null /\ size = 0 /\ sem = 1
    /\ user = [t \in ListUsers |-> Fresh(t)]

At(t, pc) == user[t].pc = pc
Set(t, u) == user' = [user EXCEPT ![t] = u]
Goto(t, pc) == Set(t, [user[t] EXCEPT !.pc = pc])

\* The memory allocator hands out the first node that is free, and so reuses a freed one.
kzalloc ==
    CHOOSE n \in 1 .. Cardinality(DOMAIN heap) + 1 :
        n \notin DOMAIN heap /\ 1 .. n - 1 \subseteq DOMAIN heap

\* The new node n is filled in.
NewNode(h, n, next, v) ==
    [m \in DOMAIN h \cup {n} |-> IF m = n THEN [next |-> next, v |-> v] ELSE h[m]]

kfree(h, n) == Restrict(h, DOMAIN h \ {n})

----------------------------------------------------------------------------
(* reader_writer_skel.c: main creates the readers, then the writers, joins *)
(* them all and closes the device; a thread makes NUMLOOP turns.           *)

pthread_create(t) ==
    /\ At(Main, "open") /\ At(t, "new")
    /\ t \in Writers => \A r \in Readers : ~At(r, "new")
    /\ Goto(t, "idle")
    /\ UNCHANGED <<heap, head, size, sem>>

dummy_release(t) ==
    /\ t \in Closing /\ At(t, "open")
    /\ t = Main => \A r \in Readers \cup Writers : At(r, "done")
    /\ Goto(t, "down")
    /\ UNCHANGED <<heap, head, size, sem>>

\* After the last turn the thread ends; each turn draws a new value.
NextTurnOf(u) ==
    [u EXCEPT !.turn = @ + 1, !.v = 0, !.ret = 0, !.pc = IF u.turn + 1 = NUMLOOP THEN "done" ELSE "idle"]

dummy_read(t) ==
    /\ t \in Readers /\ At(t, "idle")
    /\ \E v \in Sent : Set(t, [user[t] EXCEPT !.v = v, !.pc = "down"])
    /\ UNCHANGED <<heap, head, size, sem>>

dummy_write(t) ==
    /\ t \in Writers /\ At(t, "idle")
    /\ \E v \in Sent :
           Set(t, IF v \in 0 .. 9 THEN [user[t] EXCEPT !.v = v, !.pc = "down"]
                                  ELSE NextTurnOf(user[t]))
    /\ UNCHANGED <<heap, head, size, sem>>

down(t) ==
    /\ At(t, "down") /\ sem > 0
    /\ sem' = sem - 1
    /\ Goto(t, "enter")
    /\ UNCHANGED <<heap, head, size>>

up(t) ==
    /\ At(t, "up")
    /\ sem' = sem + 1
    /\ Set(t, IF t \in Closing THEN [user[t] EXCEPT !.pc = "closed"] ELSE NextTurnOf(user[t]))
    /\ UNCHANGED <<heap, head, size>>

----------------------------------------------------------------------------
(* allocLinkedListRandomly.                                                *)

Done(t, ret) == Set(t, [user[t] EXCEPT !.pc = "up", !.ret = ret, !.cur = Null, !.n = 0])

AllocHead(t) ==
    /\ t \in Writers /\ At(t, "enter") /\ head = Null
    /\ head' = kzalloc
    /\ heap' = NewNode(heap, kzalloc, Null, user[t].v)
    /\ size' = size + 1
    /\ Done(t, 1)
    /\ UNCHANGED sem

\* pos is a random number modulo size.
AllocPosition(t) ==
    /\ t \in Writers /\ At(t, "enter") /\ head # Null
    /\ \E pos \in 0 .. size - 1 :
           Set(t, [user[t] EXCEPT !.pc = "walk", !.cur = head, !.n = pos])
    /\ UNCHANGED <<heap, head, size, sem>>

AllocWalk(t) ==
    /\ At(t, "walk") /\ user[t].n > 0
    /\ Set(t, [user[t] EXCEPT !.n = @ - 1, !.cur = heap[@].next])
    /\ UNCHANGED <<heap, head, size, sem>>

\* Slip: the nodes behind the new one are cut off.
AllocLinkCuts(t) ==
    /\ At(t, "walk") /\ user[t].n = 0
    /\ heap' = NewNode([heap EXCEPT ![user[t].cur].next = kzalloc], kzalloc, Null, user[t].v)
    /\ size' = size + 1
    /\ Done(t, 1)
    /\ UNCHANGED <<head, sem>>

AllocLink(t) ==
    /\ At(t, "walk") /\ user[t].n = 0
    /\ heap' = NewNode([heap EXCEPT ![user[t].cur].next = kzalloc],
                       kzalloc, heap[user[t].cur].next, user[t].v)
    /\ size' = size + 1
    /\ Done(t, 1)
    /\ UNCHANGED <<head, sem>>

----------------------------------------------------------------------------
(* getFirstMatchedSllNodeWithDeleteOperation.                              *)

GetEmpty(t) ==
    /\ t \in Readers /\ At(t, "enter") /\ size = 0
    /\ Done(t, -1)
    /\ UNCHANGED <<heap, head, size, sem>>

GetHead(t) ==
    /\ t \in Readers /\ At(t, "enter") /\ size > 0 /\ heap[head].v = user[t].v
    /\ head' = heap[head].next
    /\ heap' = kfree(heap, head)
    /\ size' = size - 1
    /\ Done(t, user[t].v)
    /\ UNCHANGED sem

GetSearch(t) ==
    /\ t \in Readers /\ At(t, "enter") /\ size > 0 /\ heap[head].v # user[t].v
    /\ Set(t, [user[t] EXCEPT !.pc = "search", !.cur = head, !.n = 0])
    /\ UNCHANGED <<heap, head, size, sem>>

\* Slip: the loop leaves out the last node.
MoreNodesShort(t) == user[t].n < size - 2

\* The loop goes on: there is a node behind cur.
MoreNodes(t) == user[t].n < size - 1

GetNext(t) ==
    /\ At(t, "search") /\ MoreNodes(t)
    /\ heap[heap[user[t].cur].next].v # user[t].v
    /\ Set(t, [user[t] EXCEPT !.n = @ + 1, !.cur = heap[@].next])
    /\ UNCHANGED <<heap, head, size, sem>>

GetUnlink(t) ==
    /\ At(t, "search") /\ MoreNodes(t)
    /\ LET cur  == user[t].cur
           temp == heap[cur].next
       IN  /\ heap[temp].v = user[t].v
           /\ heap' = kfree([heap EXCEPT ![cur].next = heap[temp].next], temp)
    /\ size' = size - 1
    /\ Done(t, user[t].v)
    /\ UNCHANGED <<head, sem>>

GetNone(t) ==
    /\ At(t, "search") /\ ~MoreNodes(t)
    /\ Done(t, -1)
    /\ UNCHANGED <<heap, head, size, sem>>

----------------------------------------------------------------------------
(* releaseSll.                                                             *)

ReleaseFirst(t) ==
    /\ t \in Closing /\ At(t, "enter")
    /\ Set(t, [user[t] EXCEPT !.pc = "free", !.cur = head])
    /\ UNCHANGED <<heap, head, size, sem>>

ReleaseNode(t) ==
    /\ At(t, "free") /\ user[t].n < size
    /\ heap' = kfree(heap, user[t].cur)
    /\ Set(t, [user[t] EXCEPT !.cur = heap[@].next, !.n = @ + 1])
    /\ UNCHANGED <<head, size, sem>>

ReleaseEnd(t) ==
    /\ At(t, "free") /\ user[t].n = size
    /\ size' = 0 /\ head' = Null
    /\ Done(t, 0)
    /\ UNCHANGED <<heap, sem>>

----------------------------------------------------------------------------
ListStep(t) ==
    \/ pthread_create(t) \/ dummy_read(t) \/ dummy_write(t) \/ dummy_release(t)
    \/ down(t) \/ up(t)
    \/ AllocHead(t) \/ AllocPosition(t) \/ AllocWalk(t) \/ AllocLink(t)
    \/ GetEmpty(t) \/ GetHead(t) \/ GetSearch(t) \/ GetNext(t) \/ GetUnlink(t) \/ GetNone(t)
    \/ ReleaseFirst(t) \/ ReleaseNode(t) \/ ReleaseEnd(t)

ListNext == \E t \in ListUsers : ListStep(t)

\* rmmod, when no process has the device open.
dummy_exit ==
    /\ \A t \in Closing : At(t, "closed")
    /\ heap' = << >> /\ head' = Null /\ size' = 0 /\ sem' = 1
    /\ user' = [t \in ListUsers |-> Fresh(t)]
----------------------------------------------------------------------------
\* The thread that frees the list, if any.
Freeing == {t \in Closing : At(t, "free")}

\* Where the list begins, or what is left of it while it is being freed, and how long it is.
First == IF Freeing = {} THEN head ELSE user[CHOOSE t \in Freeing : TRUE].cur
Rest  == IF Freeing = {} THEN size ELSE size - user[CHOOSE t \in Freeing : TRUE].n

\* What following next leads to, step by step.
Reached[k \in 0 .. Rest] ==
    IF k = 0 THEN First
    ELSE IF Reached[k - 1] \in DOMAIN heap THEN heap[Reached[k - 1]].next ELSE -1

(* The pointers, the allocated memory and size belong together whatever    *)
(* writers, readers and closing processes do, and in the middle of their   *)
(* work too: following next from head (from the node to be freed next,     *)
(* when the list is being released) meets every allocated node exactly     *)
(* once, in size steps, and ends at NULL.  So nothing is leaked, freed     *)
(* twice or used after it was freed.                                       *)
ListShape ==
    /\ {Reached[k] : k \in 0 .. Rest - 1} = DOMAIN heap
    /\ Cardinality(DOMAIN heap) = Rest
    /\ Reached[Rest] = Null
    /\ \A t \in ListUsers : At(t, "walk") \/ At(t, "search") => user[t].cur \in DOMAIN heap

\* How many nodes hold each value.  The pool is empty as soon as the list begins to be freed.
Stored ==
    [v \in Sent \cup {0} |->
        IF Freeing = {} THEN Cardinality({n \in DOMAIN heap : heap[n].v = v}) ELSE 0]

\* A call has taken effect when its work on the list is done.
CallOf(u) ==
    IF u.pc \in {"new", "open", "idle", "done", "closed"} THEN [st |-> "idle"]
    ELSE IF u.pc \in {"free", "up"} THEN [st |-> "told", v |-> u.v, ret |-> u.ret]
    ELSE [st |-> "asked", v |-> u.v]

Calls == [t \in ListUsers |-> CallOf(user[t])]

Pool == INSTANCE ValuePool WITH
    Takers <- Readers, Putters <- Writers, Closers <- Closing, Words <- Sent \cup {0},
    pool <- Stored, call <- Calls

(* The driver is a pool of values: writes are never lost, a value is read  *)
(* as often as it was written, and a read fails only when no copy of its   *)
(* value is there, although the search walks the list while other threads  *)
(* wait and other processes close the device.                              *)
ImplementsPool == Pool!PoolSpec
=============================================================================
