---------------------------- MODULE ProConProofs ----------------------------
(***************************************************************************)
(* Safety of the producers and consumers for any finite numbers of them,   *)
(* any number of turns and any size of the buffer.  PCInv is inductive:    *)
(* the semaphores empty and full, together with the threads between a wait *)
(* and a post, account for every place of the buffer; mutex has one owner, *)
(* so the count it has read is not stale; and every item made is in one    *)
(* place.                                                                  *)
(***************************************************************************)
EXTENDS ProCon, FiniteSetTheorems, TLAPS

PCs == {"wait", "lock", "read", "write", "unlock", "post", "done"}
InMutex == {"read", "write", "unlock"}

\* The threads of S that have waited and not yet moved count, or not yet posted.
Before(S) == {t \in S : pc[t] \in {"lock", "read", "write"}}
After(S)  == {t \in S : pc[t] \in {"unlock", "post"}}

TypeInv ==
    /\ mutex \in {0, 1} /\ empty \in Nat /\ full \in Nat
    /\ buffer \in [0 .. N - 1 -> Items \cup {NoItem}]
    /\ count \in Int
    /\ pc \in [Threads -> PCs]
    /\ i \in [Threads -> 1 .. LOOPS + 1]
    /\ item \in [Threads -> Items \cup {NoItem}]
    /\ top \in [Threads -> Int]
    /\ consumed \subseteq Items

(* mutex has at most one owner, and its copy of count is fresh.            *)
MutexInv ==
    /\ \A t \in Threads : pc[t] \in InMutex => mutex = 0
    /\ \A t, u \in Threads : pc[t] \in InMutex /\ pc[u] \in InMutex => t = u
    /\ \A t \in Threads : pc[t] = "write" => top[t] = count

(* full, and the threads that have taken from it or owe it a post, add up  *)
(* to count; so do empty and the rest to the free places.                  *)
PlacesInv ==
    /\ count = full + Cardinality(After(Producers)) + Cardinality(Before(Consumers))
    /\ N - count = empty + Cardinality(Before(Producers)) + Cardinality(After(Consumers))

(* What each thread has in its hands at each place of its loop.            *)
HandsInv ==
    /\ \A t \in Threads : pc[t] # "done" => i[t] <= LOOPS
    /\ \A p \in Producers :
          item[p] = IF pc[p] \in {"lock", "read", "write"} THEN <<p, i[p]>> ELSE NoItem
    /\ \A c \in Consumers : item[c] # NoItem <=> pc[c] \in {"unlock", "post"}

(* Every item made is in one place only.                                   *)
OnePlaceInv ==
    /\ \A k \in 0 .. count - 1 : buffer[k] # NoItem
    /\ Made = Held \cup Stacked \cup consumed
    /\ Held \cap Stacked = {} /\ Held \cap consumed = {} /\ Stacked \cap consumed = {}
    /\ \A t, u \in Threads : item[t] = item[u] /\ item[t] # NoItem => t = u
    /\ \A k, l \in 0 .. count - 1 : buffer[k] = buffer[l] => k = l

PCInv == TypeInv /\ MutexInv /\ PlacesInv /\ HandsInv /\ OnePlaceInv
----------------------------------------------------------------------------
\* Thread t goes to another place and the others stay where they are.
Moved(t, to) ==
    /\ pc' \in [Threads -> PCs]
    /\ pc'[t] = to
    /\ \A u \in Threads : u # t => pc'[u] = pc[u]

(* Goto moves one thread.                                                  *)
LEMMA Moves ==
    ASSUME PCInv, NEW t \in Threads, NEW to \in PCs, Goto(t, to)
    PROVE  Moved(t, to)
  BY DEF Moved, Goto, PCInv, TypeInv

(* It moves between the sets of threads that the semaphores account for.   *)
LEMMA ProducerSets ==
    ASSUME NEW p \in Producers, NEW to, Moved(p, to)
    PROVE  /\ Before(Producers)' = IF to \in {"lock", "read", "write"}
                                   THEN Before(Producers) \cup {p} ELSE Before(Producers) \ {p}
           /\ After(Producers)' = IF to \in {"unlock", "post"}
                                  THEN After(Producers) \cup {p} ELSE After(Producers) \ {p}
           /\ Before(Consumers)' = Before(Consumers) /\ After(Consumers)' = After(Consumers)
  BY ProConConstants DEF Moved, Before, After, Threads

(* The same for a consumer.                                                *)
LEMMA ConsumerSets ==
    ASSUME NEW c \in Consumers, NEW to, Moved(c, to)
    PROVE  /\ Before(Consumers)' = IF to \in {"lock", "read", "write"}
                                   THEN Before(Consumers) \cup {c} ELSE Before(Consumers) \ {c}
           /\ After(Consumers)' = IF to \in {"unlock", "post"}
                                  THEN After(Consumers) \cup {c} ELSE After(Consumers) \ {c}
           /\ Before(Producers)' = Before(Producers) /\ After(Producers)' = After(Producers)
  BY ProConConstants DEF Moved, Before, After, Threads

(* The sets are finite.                                                    *)
LEMMA SetsFinite ==
    ASSUME NEW S, IsFiniteSet(S)
    PROVE  /\ IsFiniteSet(Before(S)) /\ Cardinality(Before(S)) \in Nat
           /\ IsFiniteSet(After(S)) /\ Cardinality(After(S)) \in Nat
<1>1. Before(S) \in SUBSET S /\ After(S) \in SUBSET S
  BY DEF Before, After
<1> QED
  BY <1>1, FS_Subset, FS_CardinalityType

(* An item has a maker and a turn, and is not the empty hand.              *)
LEMMA ItemParts ==
    /\ NoItem \notin Items
    /\ \A x \in Items : x[1] \in Producers /\ x[2] \in 1 .. LOOPS /\ x = <<x[1], x[2]>>
    /\ \A p \in Producers, n \in 1 .. LOOPS :
          <<p, n>> \in Items /\ <<p, n>>[1] = p /\ <<p, n>>[2] = n
  BY DEF Items, NoItem

(* A step that does not begin a turn makes no item.                        *)
LEMMA MadeStays ==
    ASSUME PCInv, NEW t \in Threads, NEW to, Moved(t, to),
           \/ t \in Consumers /\ \A p \in Producers : i'[p] = i[p]
           \/ UNCHANGED i /\ pc[t] # "wait" /\ to # "wait"
    PROVE  Made' = Made
<1>1. \A p \in Producers : p \in Threads /\ i'[p] = i[p] /\ (pc'[p] # "wait" <=> pc[p] # "wait")
  BY ProConConstants DEF Moved, Threads
<1>2. \A x \in Items : x[1] \in Producers
  BY ItemParts
<1> QED
  BY <1>1, <1>2 DEF Made

(* Items stay where they are when no step moves them.                      *)
LEMMA PlacesStay ==
    ASSUME PCInv, UNCHANGED <<buffer, count, item, consumed>>, Made' = Made
    PROVE  OnePlaceInv'
<1>1. Held' = Held /\ Stacked' = Stacked
  BY DEF Held, Stacked
<1> QED
  BY <1>1 DEF PCInv, OnePlaceInv

(* The start.                                                              *)
LEMMA InitPC == Init => PCInv
<1> SUFFICES ASSUME Init PROVE PCInv
  OBVIOUS
<1> USE ProConConstants DEF Init
<1>1. TypeInv
  BY DEF TypeInv, Threads, PCs
<1>2. MutexInv
  BY DEF MutexInv, InMutex
<1>3. PlacesInv
  <2>1. /\ Before(Producers) = {} /\ After(Producers) = {}
        /\ Before(Consumers) = {} /\ After(Consumers) = {}
    BY DEF Before, After, Threads
  <2> QED
    BY <2>1, FS_EmptySet DEF PlacesInv
<1>4. HandsInv
  BY DEF HandsInv, Threads
<1>5. OnePlaceInv
  <2>1. Held = {} /\ Stacked = {}
    BY DEF Held, Stacked
  <2>2. Made = {}
    BY ItemParts DEF Made, Threads
  <2> QED
    BY <2>1, <2>2 DEF OnePlaceInv
<1> QED
  BY <1>1, <1>2, <1>3, <1>4, <1>5 DEF PCInv
----------------------------------------------------------------------------
\* sem_wait(&mutex), the load of count, sem_post(&mutex).
LEMMA SharedStep ==
    ASSUME PCInv, NEW t \in Threads, Shared(t)
    PROVE  PCInv'
<1> USE ProConConstants
<1>1. PICK to \in PCs : /\ Goto(t, to) /\ UNCHANGED <<empty, full, buffer, count, i, item, consumed>>
                        /\ \/ pc[t] = "lock" /\ to = "read"
                           \/ pc[t] = "read" /\ to = "write"
                           \/ pc[t] = "unlock" /\ to = "post"
  BY DEF Shared, Lock, ReadCount, Unlock, PCs
<1>2. Moved(t, to)
  BY <1>1, Moves
<1>3. TypeInv'
  BY <1>1, <1>2 DEF PCInv, TypeInv, MutexInv, InMutex, Moved, Shared, Lock, ReadCount, Unlock
<1>4. MutexInv'
  <2>1. CASE Lock(t)
    <3>1. pc[t] = "lock" /\ mutex = 1 /\ mutex' = 0 /\ top' = top /\ to = "read"
      BY <1>1, <2>1 DEF Lock, PCInv, TypeInv
    <3> QED
      BY <1>1, <1>2, <3>1 DEF PCInv, MutexInv, InMutex, Moved
  <2>2. CASE ReadCount(t)
    <3>1. pc[t] = "read" /\ mutex' = mutex /\ top' = [top EXCEPT ![t] = count] /\ to = "write"
      BY <1>1, <2>2 DEF ReadCount
    <3>2. top'[t] = count /\ \A u \in Threads : u # t => top'[u] = top[u]
      BY <3>1 DEF PCInv, TypeInv
    <3> QED
      BY <1>1, <1>2, <3>1, <3>2 DEF PCInv, MutexInv, InMutex, Moved
  <2>3. CASE Unlock(t)
    <3>1. pc[t] = "unlock" /\ mutex' = mutex + 1 /\ to = "post"
      BY <1>1, <2>3 DEF Unlock
    <3>2. \A u \in Threads : pc'[u] \notin InMutex
      BY <1>2, <3>1 DEF PCInv, MutexInv, InMutex, Moved
    <3> QED
      BY <3>2 DEF MutexInv, InMutex
  <2> QED
    BY <2>1, <2>2, <2>3 DEF Shared
<1>5. PlacesInv'
  <2>1. \A S \in SUBSET Threads : Before(S)' = Before(S) /\ After(S)' = After(S)
    BY <1>1, <1>2 DEF Before, After, Moved
  <2> QED
    BY <1>1, <2>1 DEF PCInv, PlacesInv, Threads
<1>6. HandsInv'
  BY <1>1, <1>2 DEF PCInv, HandsInv, Moved, Threads
<1>7. OnePlaceInv'
  BY <1>1, <1>2, MadeStays, PlacesStay
<1> QED
  BY <1>3, <1>4, <1>5, <1>6, <1>7 DEF PCInv

\* produce_item and sem_wait(&empty).
LEMMA ProduceStep ==
    ASSUME PCInv, NEW p \in Producers, Produce(p)
    PROVE  PCInv'
<1> USE ProConConstants
<1>1. /\ p \in Threads /\ p \notin Consumers
      /\ pc[p] = "wait" /\ empty > 0 /\ empty' = empty - 1 /\ Goto(p, "lock")
      /\ item' = [item EXCEPT ![p] = <<p, i[p]>>]
      /\ UNCHANGED <<mutex, full, buffer, count, i, top, consumed>>
  BY DEF Produce, Threads
<1> DEFINE x == <<p, i[p]>>
<1>2. Moved(p, "lock")
  BY <1>1, Moves DEF PCs
<1>3. x \in Items /\ x # NoItem /\ x[1] = p /\ x[2] = i[p] /\ i[p] \in 1 .. LOOPS
  BY <1>1, ItemParts DEF PCInv, TypeInv, HandsInv
<1>4. item[p] = NoItem
  BY <1>1 DEF PCInv, HandsInv
<1> HIDE DEF x
<1>5. item'[p] = x /\ \A t \in Threads : t # p => item'[t] = item[t]
  BY <1>1 DEF PCInv, TypeInv, x
<1>6. TypeInv'
  <2>1. item' \in [Threads -> Items \cup {NoItem}]
    BY <1>1, <1>3 DEF PCInv, TypeInv, x
  <2> QED
    BY <1>1, <1>2, <2>1 DEF PCInv, TypeInv, Moved
<1>7. MutexInv'
  BY <1>1, <1>2 DEF PCInv, MutexInv, InMutex, Moved
<1>8. PlacesInv'
  <2>1. p \notin Before(Producers) /\ p \notin After(Producers) /\ p \notin After(Consumers)
        /\ p \notin Before(Consumers)
    BY <1>1 DEF Before, After
  <2>2. /\ Before(Producers)' = Before(Producers) \cup {p} /\ After(Producers)' = After(Producers)
        /\ Before(Consumers)' = Before(Consumers) /\ After(Consumers)' = After(Consumers)
    BY <1>2, <2>1, ProducerSets
  <2>3. Cardinality(Before(Producers) \cup {p}) = Cardinality(Before(Producers)) + 1
    BY <2>1, SetsFinite, FS_AddElement
  <2> QED
    BY <1>1, <2>2, <2>3, SetsFinite DEF PCInv, PlacesInv, TypeInv
<1>9. HandsInv'
  BY <1>1, <1>2, <1>5 DEF PCInv, HandsInv, Moved, Threads, x
<1>10. OnePlaceInv'
  <2>1. x \notin Made
    BY <1>1, <1>3 DEF Made
  <2>2. Made' = Made \cup {x}
    <3>1. \A q \in Producers : i'[q] = i[q] /\ (q # p => pc'[q] = pc[q]) /\ pc'[p] # "wait"
      BY <1>1, <1>2 DEF Moved, Threads
    <3>2. \A y \in Items : y = x <=> y[1] = p /\ y[2] = i[p]
      BY <1>3, ItemParts DEF x
    <3> QED
      BY <1>1, <1>3, <3>1, <3>2, ItemParts DEF Made
  <2>3. Held' = Held \cup {x}
    BY <1>1, <1>3, <1>4, <1>5 DEF Held
  <2>4. Stacked' = Stacked
    BY <1>1 DEF Stacked
  <2>5. x \notin Held /\ x \notin Stacked /\ x \notin consumed
    BY <2>1 DEF PCInv, OnePlaceInv
  <2>6. \A t \in Threads : t # p => item[t] # x
    BY <1>3, <2>5 DEF Held
  <2> QED
    BY <1>1, <1>5, <2>2, <2>3, <2>4, <2>5, <2>6 DEF PCInv, OnePlaceInv
<1> QED
  BY <1>6, <1>7, <1>8, <1>9, <1>10 DEF PCInv

\* sem_wait(&full).
LEMMA WaitFullStep ==
    ASSUME PCInv, NEW c \in Consumers, WaitFull(c)
    PROVE  PCInv'
<1> USE ProConConstants
<1>1. /\ c \in Threads /\ c \notin Producers
      /\ pc[c] = "wait" /\ full > 0 /\ full' = full - 1 /\ Goto(c, "lock")
      /\ UNCHANGED <<mutex, empty, buffer, count, i, item, top, consumed>>
  BY DEF WaitFull, Threads
<1>2. Moved(c, "lock")
  BY <1>1, Moves DEF PCs
<1>3. TypeInv'
  BY <1>1, <1>2 DEF PCInv, TypeInv, Moved
<1>4. MutexInv'
  BY <1>1, <1>2 DEF PCInv, MutexInv, InMutex, Moved
<1>5. PlacesInv'
  <2>1. c \notin Before(Producers) /\ c \notin After(Producers) /\ c \notin After(Consumers)
        /\ c \notin Before(Consumers)
    BY <1>1 DEF Before, After
  <2>2. /\ Before(Producers)' = Before(Producers) /\ After(Producers)' = After(Producers)
        /\ Before(Consumers)' = Before(Consumers) \cup {c} /\ After(Consumers)' = After(Consumers)
    BY <1>2, <2>1, ConsumerSets
  <2>3. Cardinality(Before(Consumers) \cup {c}) = Cardinality(Before(Consumers)) + 1
    BY <2>1, SetsFinite, FS_AddElement
  <2> QED
    BY <1>1, <2>2, <2>3, SetsFinite DEF PCInv, PlacesInv, TypeInv
<1>6. HandsInv'
  BY <1>1, <1>2 DEF PCInv, HandsInv, Moved, Threads
<1>7. OnePlaceInv'
  BY <1>1, <1>2, MadeStays, PlacesStay
<1> QED
  BY <1>3, <1>4, <1>5, <1>6, <1>7 DEF PCInv

(* What the semaphores say of count: an inserting producer has a place, a  *)
(* removing consumer an entry.                                             *)
LEMMA CountRange ==
    ASSUME PCInv
    PROVE  /\ count \in 0 .. N
           /\ \A p \in Producers : pc[p] = "write" => count < N
           /\ \A c \in Consumers : pc[c] = "write" => count > 0
<1> USE ProConConstants
<1>1. count \in 0 .. N
  BY SetsFinite DEF PCInv, TypeInv, PlacesInv
<1>2. ASSUME NEW p \in Producers, pc[p] = "write"
      PROVE  count < N
  <2>1. p \in Before(Producers)
    BY <1>2 DEF Before
  <2>2. Cardinality(Before(Producers)) # 0
    BY <2>1, SetsFinite, FS_EmptySet
  <2> QED
    BY <2>2, SetsFinite DEF PCInv, TypeInv, PlacesInv
<1>3. ASSUME NEW c \in Consumers, pc[c] = "write"
      PROVE  count > 0
  <2>1. c \in Before(Consumers)
    BY <1>3 DEF Before
  <2>2. Cardinality(Before(Consumers)) # 0
    BY <2>1, SetsFinite, FS_EmptySet
  <2> QED
    BY <2>2, SetsFinite DEF PCInv, TypeInv, PlacesInv
<1> QED
  BY <1>1, <1>2, <1>3

\* buffer[count++] = item.
LEMMA InsertStep ==
    ASSUME PCInv, NEW p \in Producers, insert_item(p)
    PROVE  PCInv'
<1> USE ProConConstants
<1>1. /\ p \in Threads /\ p \notin Consumers /\ pc[p] = "write" /\ top[p] = count
      /\ buffer' = [buffer EXCEPT ![count] = item[p]] /\ count' = count + 1
      /\ item' = [item EXCEPT ![p] = NoItem] /\ Goto(p, "unlock")
      /\ UNCHANGED <<mutex, empty, full, i, top, consumed>>
  BY DEF insert_item, Threads, PCInv, MutexInv
<1>2. Moved(p, "unlock")
  BY <1>1, Moves DEF PCs
<1>3. count \in 0 .. N - 1
  BY <1>1, CountRange
<1>4. PICK x \in Items : x = item[p] /\ x # NoItem
  <2>1. item[p] = <<p, i[p]>>
    BY <1>1 DEF PCInv, HandsInv
  <2>2. i[p] \in 1 .. LOOPS
    BY <1>1 DEF PCInv, TypeInv, HandsInv
  <2> QED
    BY <2>1, <2>2, ItemParts
<1>5. item'[p] = NoItem /\ \A t \in Threads : t # p => item'[t] = item[t]
  BY <1>1 DEF PCInv, TypeInv
<1>6. /\ buffer'[count] = x /\ buffer' \in [0 .. N - 1 -> Items \cup {NoItem}]
      /\ \A k \in 0 .. N - 1 : k # count => buffer'[k] = buffer[k]
  BY <1>1, <1>3, <1>4 DEF PCInv, TypeInv
<1>7. TypeInv'
  <2>1. item' \in [Threads -> Items \cup {NoItem}]
    BY <1>1 DEF PCInv, TypeInv
  <2> QED
    BY <1>1, <1>2, <1>3, <1>6, <2>1 DEF PCInv, TypeInv, Moved
<1>8. MutexInv'
  <2>1. \A t \in Threads : pc'[t] # "write"
    BY <1>1, <1>2 DEF PCInv, MutexInv, InMutex, Moved
  <2> QED
    BY <1>1, <1>2, <2>1 DEF PCInv, MutexInv, InMutex, Moved
<1>9. PlacesInv'
  <2>1. p \in Before(Producers) /\ p \notin After(Producers)
    BY <1>1 DEF Before, After
  <2>2. /\ Before(Producers)' = Before(Producers) \ {p} /\ After(Producers)' = After(Producers) \cup {p}
        /\ Before(Consumers)' = Before(Consumers) /\ After(Consumers)' = After(Consumers)
    BY <1>2, ProducerSets
  <2>3. /\ Cardinality(Before(Producers) \ {p}) = Cardinality(Before(Producers)) - 1
        /\ Cardinality(After(Producers) \cup {p}) = Cardinality(After(Producers)) + 1
    BY <2>1, SetsFinite, FS_AddElement, FS_RemoveElement
  <2>4. /\ Cardinality(Before(Producers)) \in Nat /\ Cardinality(After(Producers)) \in Nat
        /\ Cardinality(Before(Consumers)) \in Nat /\ Cardinality(After(Consumers)) \in Nat
        /\ count \in Int /\ empty \in Nat /\ full \in Nat
    BY SetsFinite DEF PCInv, TypeInv
  <2> QED
    BY <1>1, <2>2, <2>3, <2>4 DEF PCInv, PlacesInv
<1>10. HandsInv'
  BY <1>1, <1>2, <1>5 DEF PCInv, HandsInv, Moved, Threads
<1>11. OnePlaceInv'
  <2>1. Made' = Made
    BY <1>1, <1>2, MadeStays
  <2>2. Held' = Held \ {x}
    BY <1>1, <1>4, <1>5 DEF Held, PCInv, OnePlaceInv
  <2>3. Stacked' = Stacked \cup {x}
    <3>1. 0 .. count' - 1 = (0 .. count - 1) \cup {count}
      BY <1>1, <1>3
    <3>2. \A k \in 0 .. count - 1 : buffer'[k] = buffer[k]
      BY <1>3, <1>6
    <3> QED
      BY <1>6, <3>1, <3>2 DEF Stacked
  <2>4. x \in Held /\ x \notin Stacked /\ x \notin consumed
    BY <1>1, <1>4 DEF Held, PCInv, OnePlaceInv
  <2>5. \A k \in 0 .. count - 1 : buffer[k] # x
    BY <2>4 DEF Stacked
  <2>6. \A k, l \in 0 .. count' - 1 : buffer'[k] = buffer'[l] => k = l
    BY <1>1, <1>3, <1>6, <2>5 DEF PCInv, OnePlaceInv
  <2>7. \A k \in 0 .. count' - 1 : buffer'[k] # NoItem
    BY <1>1, <1>3, <1>4, <1>6 DEF PCInv, OnePlaceInv
  <2>8. \A t, u \in Threads : item'[t] = item'[u] /\ item'[t] # NoItem => t = u
    BY <1>5 DEF PCInv, OnePlaceInv
  <2>9. /\ Made' = Held' \cup Stacked' \cup consumed'
        /\ Held' \cap Stacked' = {} /\ Held' \cap consumed' = {} /\ Stacked' \cap consumed' = {}
    BY <1>1, <2>1, <2>2, <2>3, <2>4 DEF PCInv, OnePlaceInv
  <2> QED
    BY <2>6, <2>7, <2>8, <2>9 DEF OnePlaceInv
<1> QED
  BY <1>7, <1>8, <1>9, <1>10, <1>11 DEF PCInv

\* item = buffer[--count].
LEMMA RemoveStep ==
    ASSUME PCInv, NEW c \in Consumers, remove_item(c)
    PROVE  PCInv'
<1> USE ProConConstants
<1>1. /\ c \in Threads /\ c \notin Producers /\ pc[c] = "write" /\ top[c] = count
      /\ count' = count - 1 /\ item' = [item EXCEPT ![c] = buffer[count - 1]]
      /\ Goto(c, "unlock")
      /\ UNCHANGED <<mutex, empty, full, buffer, i, top, consumed>>
  BY DEF remove_item, Threads, PCInv, MutexInv
<1>2. Moved(c, "unlock")
  BY <1>1, Moves DEF PCs
<1>3. count \in 1 .. N
  BY <1>1, CountRange
<1>4. count - 1 \in 0 .. N - 1 /\ count - 1 \in 0 .. count - 1
  BY <1>3
<1>5. PICK x \in Items : x = buffer[count - 1] /\ x # NoItem
  <2>1. buffer[count - 1] \in Items \cup {NoItem}
    BY <1>4 DEF PCInv, TypeInv
  <2>2. buffer[count - 1] # NoItem
    BY <1>4 DEF PCInv, OnePlaceInv
  <2> QED
    BY <2>1, <2>2
<1>6. item[c] = NoItem
  BY <1>1 DEF PCInv, HandsInv
<1>7. item'[c] = x /\ \A t \in Threads : t # c => item'[t] = item[t]
  BY <1>1, <1>5 DEF PCInv, TypeInv
<1>8. TypeInv'
  <2>1. item' \in [Threads -> Items \cup {NoItem}]
    BY <1>1, <1>5 DEF PCInv, TypeInv
  <2> QED
    BY <1>1, <1>2, <1>3, <2>1 DEF PCInv, TypeInv, Moved
<1>9. MutexInv'
  <2>1. \A t \in Threads : pc'[t] # "write"
    BY <1>1, <1>2 DEF PCInv, MutexInv, InMutex, Moved
  <2> QED
    BY <1>1, <1>2, <2>1 DEF PCInv, MutexInv, InMutex, Moved
<1>10. PlacesInv'
  <2>1. c \in Before(Consumers) /\ c \notin After(Consumers)
    BY <1>1 DEF Before, After
  <2>2. /\ Before(Consumers)' = Before(Consumers) \ {c} /\ After(Consumers)' = After(Consumers) \cup {c}
        /\ Before(Producers)' = Before(Producers) /\ After(Producers)' = After(Producers)
    BY <1>2, ConsumerSets
  <2>3. /\ Cardinality(Before(Consumers) \ {c}) = Cardinality(Before(Consumers)) - 1
        /\ Cardinality(After(Consumers) \cup {c}) = Cardinality(After(Consumers)) + 1
    BY <2>1, SetsFinite, FS_AddElement, FS_RemoveElement
  <2>4. /\ Cardinality(Before(Producers)) \in Nat /\ Cardinality(After(Producers)) \in Nat
        /\ Cardinality(Before(Consumers)) \in Nat /\ Cardinality(After(Consumers)) \in Nat
        /\ count \in Int /\ empty \in Nat /\ full \in Nat
    BY SetsFinite DEF PCInv, TypeInv
  <2> QED
    BY <1>1, <2>2, <2>3, <2>4 DEF PCInv, PlacesInv
<1>11. HandsInv'
  BY <1>1, <1>2, <1>5, <1>7 DEF PCInv, HandsInv, Moved, Threads
<1>12. OnePlaceInv'
  <2>1. Made' = Made
    BY <1>1, <1>2, MadeStays
  <2>2. Held' = Held \cup {x}
    BY <1>1, <1>5, <1>6, <1>7 DEF Held
  <2>3. Stacked' = Stacked \ {x}
    <3>1. 0 .. count - 1 = (0 .. count' - 1) \cup {count - 1}
      BY <1>1, <1>3
    <3>2. \A k \in 0 .. count' - 1 : buffer[k] # x
      BY <1>1, <1>3, <1>4, <1>5 DEF PCInv, OnePlaceInv
    <3> QED
      BY <1>1, <1>5, <3>1, <3>2 DEF Stacked
  <2>4. x \in Stacked /\ x \notin Held /\ x \notin consumed
    BY <1>4, <1>5 DEF Stacked, PCInv, OnePlaceInv
  <2>5. \A t \in Threads : item[t] # x
    BY <1>5, <2>4 DEF Held
  <2>6. \A k \in 0 .. count' - 1 : k \in 0 .. count - 1
    BY <1>1, <1>3
  <2>7. /\ \A k \in 0 .. count' - 1 : buffer'[k] # NoItem
        /\ \A k, l \in 0 .. count' - 1 : buffer'[k] = buffer'[l] => k = l
    BY <1>1, <2>6 DEF PCInv, OnePlaceInv
  <2>8. \A t, u \in Threads : item'[t] = item'[u] /\ item'[t] # NoItem => t = u
    BY <1>7, <2>5 DEF PCInv, OnePlaceInv
  <2>9. /\ Made' = Held' \cup Stacked' \cup consumed'
        /\ Held' \cap Stacked' = {} /\ Held' \cap consumed' = {} /\ Stacked' \cap consumed' = {}
    BY <1>1, <2>1, <2>2, <2>3, <2>4 DEF PCInv, OnePlaceInv
  <2> QED
    BY <2>7, <2>8, <2>9 DEF OnePlaceInv
<1> QED
  BY <1>8, <1>9, <1>10, <1>11, <1>12 DEF PCInv

\* sem_post(&full) and the next turn.
LEMMA PostFullStep ==
    ASSUME PCInv, NEW p \in Producers, PostFull(p)
    PROVE  PCInv'
<1> USE ProConConstants
<1>1. PICK to \in {"wait", "done"} :
        /\ p \in Threads /\ p \notin Consumers /\ pc[p] = "post" /\ full' = full + 1
        /\ to = (IF i[p] = LOOPS THEN "done" ELSE "wait")
        /\ Goto(p, to) /\ i' = [i EXCEPT ![p] = @ + 1]
        /\ UNCHANGED <<mutex, empty, buffer, count, item, top, consumed>>
  BY DEF PostFull, NextTurn, Threads
<1>2. Moved(p, to)
  BY <1>1, Moves DEF PCs
<1>3. i[p] \in 1 .. LOOPS /\ i'[p] = i[p] + 1 /\ \A t \in Threads : t # p => i'[t] = i[t]
  BY <1>1 DEF PCInv, TypeInv, HandsInv
<1>4. TypeInv'
  <2>1. i' \in [Threads -> 1 .. LOOPS + 1]
    BY <1>1, <1>3 DEF PCInv, TypeInv
  <2> QED
    BY <1>1, <1>2, <2>1 DEF PCInv, TypeInv, Moved
<1>5. MutexInv'
  BY <1>1, <1>2 DEF PCInv, MutexInv, InMutex, Moved
<1>6. PlacesInv'
  <2>1. p \notin Before(Producers) /\ p \in After(Producers)
    BY <1>1 DEF Before, After
  <2>2. /\ Before(Producers)' = Before(Producers) /\ After(Producers)' = After(Producers) \ {p}
        /\ Before(Consumers)' = Before(Consumers) /\ After(Consumers)' = After(Consumers)
    BY <1>1, <1>2, <2>1, ProducerSets
  <2>3. Cardinality(After(Producers) \ {p}) = Cardinality(After(Producers)) - 1
    BY <2>1, SetsFinite, FS_RemoveElement
  <2>4. /\ Cardinality(Before(Producers)) \in Nat /\ Cardinality(After(Producers)) \in Nat
        /\ Cardinality(Before(Consumers)) \in Nat /\ Cardinality(After(Consumers)) \in Nat
        /\ count \in Int /\ empty \in Nat /\ full \in Nat
    BY SetsFinite DEF PCInv, TypeInv
  <2> QED
    BY <1>1, <2>2, <2>3, <2>4 DEF PCInv, PlacesInv
<1>7. HandsInv'
  <2>1. \A t \in Threads : pc'[t] # "done" => i'[t] <= LOOPS
    BY <1>1, <1>2, <1>3 DEF PCInv, HandsInv, Moved
  <2>2. item[p] = NoItem /\ item' = item
    BY <1>1 DEF PCInv, HandsInv
  <2>3. ASSUME NEW q \in Producers
        PROVE  item'[q] = IF pc'[q] \in {"lock", "read", "write"} THEN <<q, i'[q]>> ELSE NoItem
    <3>1. CASE q = p
      BY <1>1, <1>2, <2>2, <3>1 DEF Moved
    <3>2. CASE q # p
      BY <1>2, <1>3, <2>2, <3>2 DEF PCInv, HandsInv, Moved, Threads
    <3> QED
      BY <3>1, <3>2
  <2>4. \A c \in Consumers : item'[c] # NoItem <=> pc'[c] \in {"unlock", "post"}
    BY <1>1, <1>2, <2>2 DEF PCInv, HandsInv, Moved, Threads
  <2> QED
    BY <2>1, <2>3, <2>4 DEF HandsInv
<1>8. OnePlaceInv'
  <2>1. ASSUME NEW x \in Items
        PROVE  (x[2] < i'[x[1]] \/ (x[2] = i'[x[1]] /\ pc'[x[1]] # "wait"))
                 <=> (x[2] < i[x[1]] \/ (x[2] = i[x[1]] /\ pc[x[1]] # "wait"))
    <3>1. x[1] \in Producers /\ x[1] \in Threads /\ x[2] \in 1 .. LOOPS
      BY ItemParts DEF Threads
    <3>2. CASE x[1] = p
      BY <1>1, <1>2, <1>3, <3>1, <3>2 DEF Moved
    <3>3. CASE x[1] # p
      BY <1>2, <1>3, <3>1, <3>3 DEF Moved
    <3> QED
      BY <3>2, <3>3
  <2>2. Made' = Made
    BY <2>1 DEF Made
  <2> QED
    BY <1>1, <2>2, PlacesStay
<1> QED
  BY <1>4, <1>5, <1>6, <1>7, <1>8 DEF PCInv

\* sem_post(&empty), consume_item and the next turn.
LEMMA ConsumeStep ==
    ASSUME PCInv, NEW c \in Consumers, Consume(c)
    PROVE  PCInv'
<1> USE ProConConstants
<1>1. PICK to \in {"wait", "done"} :
        /\ c \in Threads /\ c \notin Producers /\ pc[c] = "post" /\ empty' = empty + 1
        /\ to = (IF i[c] = LOOPS THEN "done" ELSE "wait")
        /\ Goto(c, to) /\ i' = [i EXCEPT ![c] = @ + 1]
        /\ consumed' = consumed \cup {item[c]} /\ item' = [item EXCEPT ![c] = NoItem]
        /\ UNCHANGED <<mutex, full, buffer, count, top>>
  BY DEF Consume, NextTurn, Threads
<1>2. Moved(c, to)
  BY <1>1, Moves DEF PCs
<1>3. i[c] \in 1 .. LOOPS /\ i'[c] = i[c] + 1 /\ \A t \in Threads : t # c => i'[t] = i[t]
  BY <1>1 DEF PCInv, TypeInv, HandsInv
<1>4. PICK x \in Items : x = item[c] /\ x # NoItem
  BY <1>1 DEF PCInv, TypeInv, HandsInv
<1>5. item'[c] = NoItem /\ \A t \in Threads : t # c => item'[t] = item[t]
  BY <1>1 DEF PCInv, TypeInv
<1>6. TypeInv'
  <2>1. i' \in [Threads -> 1 .. LOOPS + 1]
    BY <1>1, <1>3 DEF PCInv, TypeInv
  <2>2. item' \in [Threads -> Items \cup {NoItem}]
    BY <1>1 DEF PCInv, TypeInv
  <2>3. consumed' \subseteq Items
    BY <1>1, <1>4 DEF PCInv, TypeInv
  <2> QED
    BY <1>1, <1>2, <2>1, <2>2, <2>3 DEF PCInv, TypeInv, Moved
<1>7. MutexInv'
  BY <1>1, <1>2 DEF PCInv, MutexInv, InMutex, Moved
<1>8. PlacesInv'
  <2>1. c \notin Before(Consumers) /\ c \in After(Consumers)
    BY <1>1 DEF Before, After
  <2>2. /\ Before(Consumers)' = Before(Consumers) /\ After(Consumers)' = After(Consumers) \ {c}
        /\ Before(Producers)' = Before(Producers) /\ After(Producers)' = After(Producers)
    BY <1>1, <1>2, <2>1, ConsumerSets
  <2>3. Cardinality(After(Consumers) \ {c}) = Cardinality(After(Consumers)) - 1
    BY <2>1, SetsFinite, FS_RemoveElement
  <2>4. /\ Cardinality(Before(Producers)) \in Nat /\ Cardinality(After(Producers)) \in Nat
        /\ Cardinality(Before(Consumers)) \in Nat /\ Cardinality(After(Consumers)) \in Nat
        /\ count \in Int /\ empty \in Nat /\ full \in Nat
    BY SetsFinite DEF PCInv, TypeInv
  <2> QED
    BY <1>1, <2>2, <2>3, <2>4 DEF PCInv, PlacesInv
<1>9. HandsInv'
  BY <1>1, <1>2, <1>3, <1>5 DEF PCInv, HandsInv, Moved, Threads
<1>10. OnePlaceInv'
  <2>1. Made' = Made
    <3>1. \A p \in Producers : i'[p] = i[p]
      BY <1>1, <1>3 DEF Threads
    <3> QED
      BY <1>1, <1>2, <3>1, MadeStays
  <2>2. Held' = Held \ {x}
    BY <1>1, <1>4, <1>5 DEF Held, PCInv, OnePlaceInv
  <2>3. Stacked' = Stacked
    BY <1>1 DEF Stacked
  <2>4. x \in Held
    BY <1>1, <1>4 DEF Held
  <2>5. \A t, u \in Threads : item'[t] = item'[u] /\ item'[t] # NoItem => t = u
    BY <1>5 DEF PCInv, OnePlaceInv
  <2>6. /\ Made' = Held' \cup Stacked' \cup consumed'
        /\ Held' \cap Stacked' = {} /\ Held' \cap consumed' = {} /\ Stacked' \cap consumed' = {}
    BY <1>1, <1>4, <2>1, <2>2, <2>3, <2>4 DEF PCInv, OnePlaceInv
  <2> QED
    BY <1>1, <2>5, <2>6 DEF PCInv, OnePlaceInv
<1> QED
  BY <1>6, <1>7, <1>8, <1>9, <1>10 DEF PCInv
----------------------------------------------------------------------------
(* PCInv is an invariant of hw2/pro_con.c.                                 *)
THEOREM ProConInvariant == Spec => []PCInv
<1>1. ASSUME PCInv, NEW p \in Producers, producer(p)
      PROVE  PCInv'
  BY <1>1, ProduceStep, SharedStep, InsertStep, PostFullStep DEF producer, Threads
<1>2. ASSUME PCInv, NEW c \in Consumers, consumer(c)
      PROVE  PCInv'
  BY <1>2, WaitFullStep, SharedStep, RemoveStep, ConsumeStep DEF consumer, Threads
<1>3. ASSUME PCInv, UNCHANGED vars
      PROVE  PCInv'
  <2>1. TypeInv' /\ MutexInv' /\ HandsInv'
    BY <1>3 DEF vars, PCInv, TypeInv, MutexInv, HandsInv
  <2>2. PlacesInv'
    BY <1>3 DEF vars, PCInv, PlacesInv, Before, After
  <2>3. Made' = Made
    BY <1>3 DEF vars, Made
  <2>4. OnePlaceInv'
    BY <1>3, <2>3, PlacesStay DEF vars
  <2> QED
    BY <2>1, <2>2, <2>4 DEF PCInv
<1>4. PCInv /\ [Next]_vars => PCInv'
  BY <1>1, <1>2, <1>3 DEF Next
<1> QED
  BY <1>4, InitPC, PTL DEF Spec

(* insert_item and remove_item stay inside buffer for every size and every *)
(* number of threads, though they never compare count with N.              *)
THEOREM IndicesInBounds == Spec => []InBounds
<1>1. PCInv => InBounds
  <2> SUFFICES ASSUME PCInv PROVE InBounds
    OBVIOUS
  <2>1. \A t \in Threads : pc[t] = "write" => top[t] = count
    BY DEF PCInv, MutexInv
  <2> QED
    BY <2>1, CountRange, ProConConstants DEF InBounds, Threads
<1> QED
  BY <1>1, ProConInvariant, PTL

(* The items in the hands, on the stack and consumed are as many as there  *)
(* are hands that hold one, places in use, and items consumed.             *)
LEMMA PlacesCounted ==
    ASSUME PCInv
    PROVE  Cardinality(Made) = Cardinality({t \in Threads : item[t] # NoItem})
                               + count + Cardinality(consumed)
<1> USE ProConConstants
<1> DEFINE Hands == {t \in Threads : item[t] # NoItem}
           H == [t \in Hands |-> item[t]]
           Slots == 0 .. count - 1
           B == [k \in Slots |-> buffer[k]]
<1>1. IsFiniteSet(Threads) /\ IsFiniteSet(Hands)
  <2>1. IsFiniteSet(Threads)
    BY FS_Union DEF Threads
  <2> QED
    BY <2>1, FS_Subset
<1>2. IsFiniteSet(Held) /\ Cardinality(Held) = Cardinality(Hands)
  <2>1. H \in Surjection(Hands, Held)
    BY DEF Surjection, Held
  <2>2. H \in Injection(Hands, Held)
    <3>1. \A t, u \in Hands : item[t] = item[u] => t = u
      BY DEF PCInv, OnePlaceInv
    <3>2. \A t \in Hands : H[t] = item[t]
      OBVIOUS
    <3>3. H \in [Hands -> Held]
      BY DEF Held
    <3> HIDE DEF H, Hands
    <3> QED
      BY <3>1, <3>2, <3>3 DEF Injection, IsInjective
  <2> QED
    BY <1>1, <2>1, <2>2, FS_Surjection
<1>3. IsFiniteSet(Stacked) /\ Cardinality(Stacked) = count
  <2>1. B \in Surjection(Slots, Stacked)
    BY DEF Surjection, Stacked
  <2>2. B \in Injection(Slots, Stacked)
    <3>1. \A k, l \in Slots : buffer[k] = buffer[l] => k = l
      BY DEF PCInv, OnePlaceInv
    <3>2. \A k \in Slots : B[k] = buffer[k]
      OBVIOUS
    <3>3. B \in [Slots -> Stacked]
      BY DEF Stacked
    <3> HIDE DEF B, Slots
    <3> QED
      BY <3>1, <3>2, <3>3 DEF Injection, IsInjective
  <2>3. IsFiniteSet(Slots) /\ Cardinality(Slots) = count
    <3>1. count \in Int /\ count - 1 \in Int /\ count >= 0
      BY CountRange
    <3>2. /\ IsFiniteSet(0 .. count - 1)
          /\ Cardinality(0 .. count - 1) = IF 0 > count - 1 THEN 0 ELSE count - 1 - 0 + 1
      BY <3>1, FS_Interval
    <3> QED
      BY <3>1, <3>2
  <2> QED
    BY <2>1, <2>2, <2>3, FS_Surjection
<1>4. IsFiniteSet(consumed)
  <2>1. IsFiniteSet(1 .. LOOPS)
    BY FS_Interval
  <2>2. IsFiniteSet(Items)
    BY <2>1, FS_Product DEF Items
  <2> QED
    BY <2>2, FS_Subset DEF PCInv, TypeInv
<1> HIDE DEF Hands
<1>5. /\ IsFiniteSet(Held \cup Stacked)
      /\ Cardinality(Held \cup Stacked) = Cardinality(Hands) + count
  <2>1. Held \cap Stacked = {}
    BY DEF PCInv, OnePlaceInv
  <2>2. /\ IsFiniteSet(Held \cup Stacked)
        /\ Cardinality(Held \cup Stacked) = Cardinality(Held) + Cardinality(Stacked) - Cardinality({})
    BY <1>2, <1>3, <2>1, FS_Union
  <2>3. Cardinality(Hands) \in Nat /\ count \in Nat /\ Cardinality({}) = 0
    BY <1>1, FS_EmptySet, FS_CardinalityType, CountRange
  <2> QED
    BY <1>2, <1>3, <2>2, <2>3
<1>6. Cardinality((Held \cup Stacked) \cup consumed)
        = Cardinality(Hands) + count + Cardinality(consumed)
  <2>1. (Held \cup Stacked) \cap consumed = {}
    BY DEF PCInv, OnePlaceInv
  <2>2. Cardinality((Held \cup Stacked) \cup consumed)
          = Cardinality(Held \cup Stacked) + Cardinality(consumed) - Cardinality({})
    BY <1>4, <1>5, <2>1, FS_Union
  <2>3. /\ Cardinality(Hands) \in Nat /\ count \in Nat /\ Cardinality(consumed) \in Nat
        /\ Cardinality({}) = 0
    BY <1>1, <1>4, FS_EmptySet, FS_CardinalityType, CountRange
  <2> QED
    BY <1>5, <2>2, <2>3
<1> QED
  BY <1>6 DEF PCInv, OnePlaceInv, Hands

(* No item is lost, doubled or overwritten between produce_item and        *)
(* consume_item, for any numbers of threads, turns and places.             *)
THEOREM ItemsAreConserved == Spec => []ItemsConserved
<1>1. PCInv => ItemsConserved
  BY PlacesCounted DEF ItemsConserved, PCInv, OnePlaceInv
<1> QED
  BY <1>1, ProConInvariant, PTL
=============================================================================
