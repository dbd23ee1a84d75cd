-------------------------- MODULE ReadWriteProofs --------------------------
(***************************************************************************)
(* Safety of the readers and writers for any finite numbers of them.       *)
(* RWInv is inductive: mutex has one owner, reader_num counts the readers  *)
(* between their two updates, and db is taken exactly while a writer is at *)
(* work or some reader holds it for all of them.                           *)
(***************************************************************************)
EXTENDS ReadWrite, FiniteSetTheorems, TLAPS

InMutex == {"load", "inc", "first", "enter", "unload", "dec", "last", "exit"}
InCount == {"first", "enter", "read", "leave", "unload", "dec"}
InDb    == {"enter", "read", "leave", "unload", "dec", "last"}

ReaderPCs == {"idle", "read", "leave"} \cup InMutex
WriterPCs == {"idle", "write", "post"}

Counted == {t \in Readers : pc[t] \in InCount}
Holders == {t \in Readers : pc[t] \in InDb}

TypeInv ==
    /\ mutex \in {0, 1} /\ db \in {0, 1}
    /\ reader_num \in Nat
    /\ pc \in [Threads -> ReaderPCs \cup WriterPCs]
    /\ \A t \in Readers : pc[t] \in ReaderPCs
    /\ \A t \in Writers : pc[t] \in WriterPCs
    /\ r \in [Readers -> Nat]
    /\ DOMAIN data = Readers

(* mutex is taken by exactly one reader or free.                           *)
MutexInv ==
    /\ \A t \in Readers : pc[t] \in InMutex => mutex = 0
    /\ \A t, u \in Readers : pc[t] \in InMutex /\ pc[u] \in InMutex => t = u

(* reader_num is the number of readers that have entered and not left, and *)
(* what a reader has loaded of it is not stale.                            *)
CountInv ==
    /\ reader_num = Cardinality(Counted)
    /\ \A t \in Readers : pc[t] \in {"inc", "dec"} => r[t] = reader_num

(* The first reader comes to an empty data base and the last leaves one.   *)
EdgeInv ==
    \A t \in Readers : /\ pc[t] = "first" => Counted = {t}
                       /\ pc[t] = "last" => Counted = {}

(* db is free exactly when nobody uses the data base, and one side or one  *)
(* writer has it otherwise.                                                *)
DbInv ==
    /\ db = 1 <=> Writing = {} /\ Holders = {}
    /\ Writing = {} \/ Holders = {}
    /\ \A t, u \in Writing : t = u

RWInv == TypeInv /\ MutexInv /\ CountInv /\ EdgeInv /\ DbInv /\ ReadHolds
----------------------------------------------------------------------------
\* Thread t goes to a place of its program and the others stay where they are.
Moved(t, to) ==
    /\ pc' \in [Threads -> ReaderPCs \cup WriterPCs]
    /\ \A u \in Readers : pc'[u] \in ReaderPCs
    /\ \A u \in Writers : pc'[u] \in WriterPCs
    /\ pc'[t] = to
    /\ \A u \in Threads : u # t => pc'[u] = pc[u]

(* A reader's step moves that reader between the sets and nobody else.     *)
LEMMA ReaderMoves ==
    ASSUME RWInv, NEW t \in Readers, NEW from, NEW to, Goto(t, from, to), to \in ReaderPCs
    PROVE  /\ Moved(t, to)
           /\ Counted' = IF to \in InCount THEN Counted \cup {t} ELSE Counted \ {t}
           /\ Holders' = IF to \in InDb THEN Holders \cup {t} ELSE Holders \ {t}
           /\ Writing' = Writing
<1>1. /\ pc'[t] = to /\ \A u \in Threads : u # t => pc'[u] = pc[u]
      /\ pc' \in [Threads -> ReaderPCs \cup WriterPCs]
  BY DEF Goto, RWInv, TypeInv, Threads
<1>2. Counted' = IF to \in InCount THEN Counted \cup {t} ELSE Counted \ {t}
  BY <1>1 DEF Counted, Threads
<1>3. Holders' = IF to \in InDb THEN Holders \cup {t} ELSE Holders \ {t}
  BY <1>1 DEF Holders, Threads
<1>4. \A u \in Writers : u # t
  BY ReadWriteConstants
<1>5. Writing' = Writing
  BY <1>1, <1>4 DEF Writing, Threads
<1>6. \A u \in Readers : pc'[u] \in ReaderPCs
  BY <1>1 DEF RWInv, TypeInv, Threads
<1>7. \A u \in Writers : pc'[u] \in WriterPCs
  BY <1>1, <1>4 DEF RWInv, TypeInv, Threads
<1> QED
  BY <1>1, <1>2, <1>3, <1>5, <1>6, <1>7 DEF Moved

(* It leaves the sets alone when both places are alike.                    *)
LEMMA ReaderStays ==
    ASSUME RWInv, NEW t \in Readers, NEW from, NEW to, Goto(t, from, to), to \in ReaderPCs,
           to \in InCount <=> from \in InCount,
           to \in InDb <=> from \in InDb
    PROVE  Moved(t, to) /\ Counted' = Counted /\ Holders' = Holders /\ Writing' = Writing
<1>1. to \in InCount <=> t \in Counted
  BY DEF Counted, Goto
<1>2. to \in InDb <=> t \in Holders
  BY DEF Holders, Goto
<1> QED
  BY <1>1, <1>2, ReaderMoves

(* So does a writer's step.                                                *)
LEMMA WriterMoves ==
    ASSUME RWInv, NEW t \in Writers, NEW from, NEW to, Goto(t, from, to), to \in WriterPCs
    PROVE  /\ Moved(t, to)
           /\ \A u \in Readers : pc'[u] = pc[u]
           /\ Counted' = Counted
           /\ Holders' = Holders
           /\ Writing' = IF to \in {"write", "post"} THEN Writing \cup {t} ELSE Writing \ {t}
<1>1. /\ pc'[t] = to /\ \A u \in Threads : u # t => pc'[u] = pc[u]
      /\ pc' \in [Threads -> ReaderPCs \cup WriterPCs]
  BY DEF Goto, RWInv, TypeInv, Threads
<1>2. \A u \in Readers : u # t
  BY ReadWriteConstants
<1>3. \A u \in Readers : pc'[u] = pc[u]
  BY <1>1, <1>2 DEF Threads
<1>4. Counted' = Counted /\ Holders' = Holders
  BY <1>3 DEF Counted, Holders
<1>5. Writing' = IF to \in {"write", "post"} THEN Writing \cup {t} ELSE Writing \ {t}
  BY <1>1 DEF Writing, Threads
<1>6. \A u \in Writers : pc'[u] \in WriterPCs
  BY <1>1 DEF RWInv, TypeInv, Threads
<1>7. \A u \in Readers : pc'[u] \in ReaderPCs
  BY <1>3 DEF RWInv, TypeInv
<1> QED
  BY <1>1, <1>3, <1>4, <1>5, <1>6, <1>7 DEF Moved

(* The readers counted are finitely many.                                  *)
LEMMA CountedFinite ==
    /\ IsFiniteSet(Counted)
    /\ Cardinality(Counted) \in Nat
    /\ Cardinality(Counted) = 0 <=> Counted = {}
<1>1. IsFiniteSet(Counted)
  BY ReadWriteConstants, FS_Subset DEF Counted
<1> QED
  BY <1>1, FS_CardinalityType, FS_EmptySet

(* Whoever is counted holds db, but for the first reader on its way in.    *)
LEMMA CountedHold ==
    ASSUME RWInv, NEW u \in Counted, pc[u] # "first"
    PROVE  u \in Holders
  BY DEF Counted, Holders, InCount, InDb

(* The start.                                                              *)
LEMMA InitRW == Init => RWInv
<1> SUFFICES ASSUME Init PROVE RWInv
  OBVIOUS
<1> USE DEF Init, Threads, InMutex, InCount, InDb, ReaderPCs, WriterPCs
<1>1. Counted = {} /\ Holders = {} /\ Writing = {}
  BY DEF Counted, Holders, Writing
<1>2. TypeInv /\ MutexInv /\ EdgeInv /\ ReadHolds
  BY DEF TypeInv, MutexInv, EdgeInv, ReadHolds
<1>3. CountInv
  BY <1>1, FS_EmptySet DEF CountInv
<1>4. DbInv
  BY <1>1 DEF DbInv
<1> QED
  BY <1>2, <1>3, <1>4 DEF RWInv
----------------------------------------------------------------------------
\* sem_wait(&mutex), on the way in and on the way out.
LEMMA WaitMutexStep ==
    ASSUME RWInv, NEW t \in Readers, NEW from, NEW to,
           \/ from = "idle" /\ to = "load"
           \/ from = "leave" /\ to = "unload",
           WaitMutex(t, from, to)
    PROVE  RWInv'
<1>1. /\ Goto(t, from, to) /\ pc[t] = from /\ mutex = 1 /\ mutex' = 0
      /\ UNCHANGED <<db, reader_num, db_file, r, data>>
  BY DEF WaitMutex, Goto, RWInv, TypeInv
<1>2. to \in ReaderPCs /\ to \in InMutex
  BY DEF ReaderPCs, InMutex
<1>3. Moved(t, to) /\ Counted' = Counted /\ Holders' = Holders /\ Writing' = Writing
  <2>1. (to \in InCount <=> from \in InCount) /\ (to \in InDb <=> from \in InDb)
    BY DEF InCount, InDb
  <2> QED
    BY <1>1, <1>2, <2>1, ReaderStays
<1>4. TypeInv'
  BY <1>1, <1>3 DEF RWInv, TypeInv, Moved
<1>5. MutexInv'
  BY <1>1, <1>3 DEF RWInv, MutexInv, Moved, Threads
<1>6. CountInv' /\ EdgeInv' /\ ReadHolds'
  BY <1>1, <1>3 DEF RWInv, CountInv, EdgeInv, ReadHolds, Moved, Threads
<1>7. DbInv'
  BY <1>1, <1>3 DEF RWInv, DbInv
<1> QED
  BY <1>4, <1>5, <1>6, <1>7 DEF RWInv

\* sem_post(&mutex).
LEMMA PostMutexStep ==
    ASSUME RWInv, NEW t \in Readers, NEW from, NEW to,
           \/ from = "enter" /\ to = "read"
           \/ from = "exit" /\ to = "idle",
           PostMutex(t, from, to)
    PROVE  RWInv'
<1>1. /\ Goto(t, from, to) /\ pc[t] = from /\ mutex = 0 /\ mutex' = 1
      /\ UNCHANGED <<db, reader_num, db_file, r, data>>
  BY DEF PostMutex, Goto, RWInv, MutexInv, InMutex
<1>2. to \in ReaderPCs /\ to \notin InMutex /\ from \in InMutex
  BY DEF ReaderPCs, InMutex
<1>3. Moved(t, to) /\ Counted' = Counted /\ Holders' = Holders /\ Writing' = Writing
  <2>1. (to \in InCount <=> from \in InCount) /\ (to \in InDb <=> from \in InDb)
    BY DEF InCount, InDb
  <2> QED
    BY <1>1, <1>2, <2>1, ReaderStays
<1>4. TypeInv'
  BY <1>1, <1>3 DEF RWInv, TypeInv, Moved
<1>5. MutexInv'
  BY <1>1, <1>2, <1>3 DEF RWInv, MutexInv, Moved, Threads
<1>6. CountInv' /\ EdgeInv' /\ ReadHolds'
  BY <1>1, <1>3 DEF RWInv, CountInv, EdgeInv, ReadHolds, Moved, Threads
<1>7. DbInv'
  BY <1>1, <1>3 DEF RWInv, DbInv
<1> QED
  BY <1>4, <1>5, <1>6, <1>7 DEF RWInv

\* The load of reader_num++ and reader_num--.
LEMMA LoadNumStep ==
    ASSUME RWInv, NEW t \in Readers, NEW from, NEW to,
           \/ from = "load" /\ to = "inc"
           \/ from = "unload" /\ to = "dec",
           LoadNum(t, from, to)
    PROVE  RWInv'
<1>1. /\ Goto(t, from, to) /\ pc[t] = from /\ r' = [r EXCEPT ![t] = reader_num]
      /\ UNCHANGED <<mutex, db, reader_num, db_file, data>>
  BY DEF LoadNum, Goto
<1>2. to \in ReaderPCs /\ to \in InMutex /\ from \in InMutex
  BY DEF ReaderPCs, InMutex
<1>3. Moved(t, to) /\ Counted' = Counted /\ Holders' = Holders /\ Writing' = Writing
  <2>1. (to \in InCount <=> from \in InCount) /\ (to \in InDb <=> from \in InDb)
    BY DEF InCount, InDb
  <2> QED
    BY <1>1, <1>2, <2>1, ReaderStays
<1>4. TypeInv'
  BY <1>1, <1>3 DEF RWInv, TypeInv, Moved
<1>5. MutexInv'
  BY <1>1, <1>2, <1>3 DEF RWInv, MutexInv, Moved, Threads
<1>6. CountInv' /\ EdgeInv' /\ ReadHolds'
  BY <1>1, <1>3 DEF RWInv, TypeInv, CountInv, EdgeInv, ReadHolds, Moved, Threads
<1>7. DbInv'
  BY <1>1, <1>3 DEF RWInv, DbInv
<1> QED
  BY <1>4, <1>5, <1>6, <1>7 DEF RWInv

\* The store of reader_num++ and the test for the first reader.
LEMMA StoreInStep ==
    ASSUME RWInv, NEW t \in Readers, StoreNum(t, 1, 1, "inc", "first", "enter")
    PROVE  RWInv'
<1>1. /\ pc[t] = "inc" /\ r[t] = reader_num /\ reader_num' = reader_num + 1
      /\ r' = [r EXCEPT ![t] = 0]
      /\ UNCHANGED <<mutex, db, db_file, data>>
  BY DEF StoreNum, Goto, RWInv, CountInv
<1>2. /\ t \notin Counted /\ t \notin Holders
      /\ \A u \in Readers : u # t => pc[u] \notin InMutex
  BY <1>1 DEF RWInv, MutexInv, Counted, Holders, InCount, InDb, InMutex
<1>3. reader_num \in Nat /\ reader_num = Cardinality(Counted)
  BY DEF RWInv, TypeInv, CountInv
<1>4. PICK to : to = IF reader_num + 1 = 1 THEN "first" ELSE "enter"
  OBVIOUS
<1>5. Goto(t, "inc", to) /\ to \in ReaderPCs /\ to \in InCount
  BY <1>1, <1>4 DEF StoreNum, ReaderPCs, InMutex, InCount
<1>6. /\ Moved(t, to) /\ Counted' = Counted \cup {t} /\ Writing' = Writing
      /\ Holders' = IF to \in InDb THEN Holders \cup {t} ELSE Holders
  BY <1>2, <1>5, ReaderMoves
<1>7. TypeInv'
  BY <1>1, <1>3, <1>6 DEF RWInv, TypeInv, Moved
<1>8. MutexInv'
  BY <1>1, <1>2, <1>6 DEF RWInv, MutexInv, Moved, Threads, InMutex
<1>9. CountInv'
  <2>1. reader_num' = Cardinality(Counted')
    BY <1>1, <1>2, <1>3, <1>6, CountedFinite, FS_AddElement
  <2>2. \A u \in Readers : pc'[u] \notin {"inc", "dec"}
    BY <1>2, <1>4, <1>6 DEF Moved, Threads, InMutex
  <2> QED
    BY <2>1, <2>2 DEF CountInv
<1>10. EdgeInv'
  <2>1. \A u \in Readers : u # t => pc'[u] \notin {"first", "last"}
    BY <1>2, <1>6 DEF Moved, Threads, InMutex
  <2>2. to = "first" => Counted' = {t}
    BY <1>3, <1>4, <1>6, CountedFinite
  <2>3. pc'[t] = to /\ to # "last"
    BY <1>4, <1>6 DEF Moved
  <2> QED
    BY <2>1, <2>2, <2>3 DEF EdgeInv
<1>11. DbInv'
  <2>1. CASE to = "first"
    <3>1. Holders' = Holders
      BY <1>6, <2>1 DEF InDb
    <3> QED
      BY <1>1, <1>6, <3>1 DEF RWInv, DbInv
  <2>2. CASE to = "enter"
    <3>1. PICK u \in Counted : TRUE
      BY <1>3, <1>4, <2>2, CountedFinite
    <3>2. u \in Holders
      <4>1. u \in Readers /\ u # t
        BY <1>2, <3>1 DEF Counted
      <4>2. pc[u] # "first"
        BY <1>2, <4>1 DEF InMutex
      <4> QED
        BY <3>1, <4>2, CountedHold
    <3>3. Holders' = Holders \cup {t}
      BY <1>6, <2>2 DEF InDb
    <3> QED
      BY <1>1, <1>6, <3>2, <3>3 DEF RWInv, DbInv
  <2> QED
    BY <1>4, <2>1, <2>2
<1>12. ReadHolds'
  BY <1>1, <1>4, <1>6 DEF RWInv, ReadHolds, Moved, Threads
<1> QED
  BY <1>7, <1>8, <1>9, <1>10, <1>11, <1>12 DEF RWInv

\* The store of reader_num-- and the test for the last reader.
LEMMA StoreOutStep ==
    ASSUME RWInv, NEW t \in Readers, StoreNum(t, -1, 0, "dec", "last", "exit")
    PROVE  RWInv'
<1>1. /\ pc[t] = "dec" /\ r[t] = reader_num /\ reader_num' = reader_num + (-1)
      /\ r' = [r EXCEPT ![t] = 0]
      /\ UNCHANGED <<mutex, db, db_file, data>>
  BY DEF StoreNum, Goto, RWInv, CountInv
<1>2. /\ t \in Counted /\ t \in Holders
      /\ \A u \in Readers : u # t => pc[u] \notin InMutex
  BY <1>1 DEF RWInv, MutexInv, Counted, Holders, InCount, InDb, InMutex
<1>3. reader_num \in Nat /\ reader_num = Cardinality(Counted)
  BY DEF RWInv, TypeInv, CountInv
<1>4. PICK to : to = IF reader_num + (-1) = 0 THEN "last" ELSE "exit"
  OBVIOUS
<1>5. Goto(t, "dec", to) /\ to \in ReaderPCs /\ to \notin InCount
  BY <1>1, <1>4 DEF StoreNum, ReaderPCs, InMutex, InCount
<1>6. /\ Moved(t, to) /\ Counted' = Counted \ {t} /\ Writing' = Writing
      /\ Holders' = IF to \in InDb THEN Holders ELSE Holders \ {t}
  BY <1>2, <1>5, ReaderMoves
<1>7. reader_num' = Cardinality(Counted') /\ reader_num' \in Nat
      /\ (reader_num' = 0 <=> Counted' = {})
  <2>1. IsFiniteSet(Counted') /\ Cardinality(Counted') = Cardinality(Counted) - 1
    BY <1>2, <1>6, CountedFinite, FS_RemoveElement
  <2> QED
    BY <1>1, <1>3, <2>1, FS_CardinalityType, FS_EmptySet
<1>8. TypeInv'
  BY <1>1, <1>6, <1>7 DEF RWInv, TypeInv, Moved
<1>9. MutexInv'
  BY <1>1, <1>2, <1>6 DEF RWInv, MutexInv, Moved, Threads, InMutex
<1>10. CountInv'
  <2>1. \A u \in Readers : pc'[u] \notin {"inc", "dec"}
    BY <1>2, <1>4, <1>6 DEF Moved, Threads, InMutex
  <2> QED
    BY <1>7, <2>1 DEF CountInv
<1>11. EdgeInv'
  <2>1. \A u \in Readers : u # t => pc'[u] \notin {"first", "last"}
    BY <1>2, <1>6 DEF Moved, Threads, InMutex
  <2>2. to = "last" => Counted' = {}
    BY <1>1, <1>4, <1>7
  <2>3. pc'[t] = to /\ to # "first"
    BY <1>4, <1>6 DEF Moved
  <2> QED
    BY <2>1, <2>2, <2>3 DEF EdgeInv
<1>12. DbInv'
  <2>1. CASE to = "last"
    <3>1. Holders' = Holders
      BY <1>6, <2>1 DEF InDb
    <3> QED
      BY <1>1, <1>6, <3>1 DEF RWInv, DbInv
  <2>2. CASE to = "exit"
    <3>1. PICK u \in Counted : u # t
      BY <1>1, <1>4, <1>6, <1>7, <2>2
    <3>2. u \in Holders
      <4>1. pc[u] # "first"
        BY <1>2, <3>1 DEF InMutex, Counted
      <4> QED
        BY <3>1, <4>1, CountedHold
    <3>3. Holders' = Holders \ {t}
      BY <1>6, <2>2 DEF InDb
    <3> QED
      BY <1>1, <1>2, <1>6, <3>1, <3>2, <3>3 DEF RWInv, DbInv
  <2> QED
    BY <1>4, <2>1, <2>2
<1>13. ReadHolds'
  BY <1>1, <1>4, <1>6 DEF RWInv, ReadHolds, Moved, Threads
<1> QED
  BY <1>8, <1>9, <1>10, <1>11, <1>12, <1>13 DEF RWInv

\* The first reader takes db for all readers, holding mutex.
LEMMA FirstReaderStep ==
    ASSUME RWInv, NEW t \in Readers, WaitDb(t, "first", "enter")
    PROVE  RWInv'
<1>1. /\ Goto(t, "first", "enter") /\ pc[t] = "first" /\ db = 1 /\ db' = 0
      /\ UNCHANGED <<mutex, reader_num, db_file, r, data>>
  BY DEF WaitDb, Goto, RWInv, TypeInv
<1>2. /\ Moved(t, "enter") /\ Counted' = Counted /\ Writing' = Writing
      /\ Holders' = Holders \cup {t}
  <2>1. "enter" \in ReaderPCs /\ "enter" \in InCount /\ "enter" \in InDb /\ t \in Counted
    BY <1>1 DEF ReaderPCs, InMutex, InCount, InDb, Counted
  <2> QED
    BY <1>1, <2>1, ReaderMoves
<1>3. TypeInv' /\ ReadHolds'
  BY <1>1, <1>2 DEF RWInv, TypeInv, ReadHolds, Moved, Threads
<1>4. MutexInv'
  BY <1>1, <1>2 DEF RWInv, MutexInv, Moved, Threads, InMutex
<1>5. CountInv' /\ EdgeInv'
  BY <1>1, <1>2 DEF RWInv, CountInv, EdgeInv, Moved, Threads
<1>6. DbInv'
  BY <1>1, <1>2 DEF RWInv, DbInv
<1> QED
  BY <1>3, <1>4, <1>5, <1>6 DEF RWInv

\* The last reader gives db back, holding mutex.
LEMMA LastReaderStep ==
    ASSUME RWInv, NEW t \in Readers, PostDb(t, "last", "exit")
    PROVE  RWInv'
<1>1. /\ Goto(t, "last", "exit") /\ pc[t] = "last" /\ db' = db + 1
      /\ UNCHANGED <<mutex, reader_num, db_file, r, data>>
  BY DEF PostDb, Goto
<1>2. t \in Holders /\ t \notin Counted /\ \A u \in Readers : u # t => pc[u] \notin InMutex
  BY <1>1 DEF RWInv, MutexInv, Counted, Holders, InCount, InDb, InMutex
<1>3. Holders = {t}
  <2>1. Counted = {}
    BY <1>1 DEF RWInv, EdgeInv
  <2>2. \A u \in Holders : u = t \/ u \in Counted
    BY <1>2 DEF Holders, Counted, InDb, InCount, InMutex
  <2> QED
    BY <1>2, <2>1, <2>2
<1>4. Writing = {} /\ db = 0
  BY <1>2 DEF RWInv, DbInv, TypeInv
<1>5. /\ Moved(t, "exit") /\ Counted' = Counted /\ Writing' = Writing /\ Holders' = {}
  <2>1. "exit" \in ReaderPCs /\ "exit" \notin InCount /\ "exit" \notin InDb
    BY DEF ReaderPCs, InMutex, InCount, InDb
  <2> QED
    BY <1>1, <1>2, <1>3, <2>1, ReaderMoves
<1>6. TypeInv' /\ ReadHolds'
  BY <1>1, <1>4, <1>5 DEF RWInv, TypeInv, ReadHolds, Moved, Threads
<1>7. MutexInv'
  BY <1>1, <1>5 DEF RWInv, MutexInv, Moved, Threads, InMutex
<1>8. CountInv' /\ EdgeInv'
  BY <1>1, <1>5 DEF RWInv, CountInv, EdgeInv, Moved, Threads
<1>9. DbInv'
  BY <1>1, <1>4, <1>5 DEF RWInv, DbInv
<1> QED
  BY <1>6, <1>7, <1>8, <1>9 DEF RWInv

\* A reader reads.
LEMMA ReadStep ==
    ASSUME RWInv, NEW t \in Readers, read_db(t)
    PROVE  RWInv'
<1>1. /\ Goto(t, "read", "leave") /\ pc[t] = "read"
      /\ data' = [data EXCEPT ![t] = db_file]
      /\ UNCHANGED <<mutex, db, reader_num, db_file, r>>
  BY DEF read_db, Goto
<1>2. Moved(t, "leave") /\ Counted' = Counted /\ Holders' = Holders /\ Writing' = Writing
  <2>1. /\ "leave" \in ReaderPCs
        /\ "leave" \in InCount /\ "read" \in InCount /\ "leave" \in InDb /\ "read" \in InDb
    BY DEF ReaderPCs, InCount, InDb
  <2> QED
    BY <1>1, <2>1, ReaderStays
<1>3. TypeInv'
  BY <1>1, <1>2 DEF RWInv, TypeInv, Moved
<1>4. MutexInv'
  BY <1>1, <1>2 DEF RWInv, MutexInv, Moved, Threads, InMutex
<1>5. CountInv' /\ EdgeInv'
  BY <1>1, <1>2 DEF RWInv, CountInv, EdgeInv, Moved, Threads
<1>6. DbInv'
  BY <1>1, <1>2 DEF RWInv, DbInv
<1>7. ReadHolds'
  BY <1>1, <1>2 DEF RWInv, TypeInv, ReadHolds, Moved, Threads
<1> QED
  BY <1>3, <1>4, <1>5, <1>6, <1>7 DEF RWInv

\* A writer waits for db, writes and posts db.
LEMMA WriterStep ==
    ASSUME RWInv, NEW t \in Writers, writer(t)
    PROVE  RWInv'
<1>1. CASE WaitDb(t, "idle", "write")
  <2>1. /\ Goto(t, "idle", "write") /\ db = 1 /\ db' = 0
        /\ UNCHANGED <<mutex, reader_num, db_file, r, data>>
    BY <1>1 DEF WaitDb, RWInv, TypeInv
  <2>2. /\ Moved(t, "write") /\ \A u \in Readers : pc'[u] = pc[u]
        /\ Counted' = Counted /\ Holders' = Holders /\ Writing' = Writing \cup {t}
    BY <2>1, WriterMoves DEF WriterPCs
  <2>3. TypeInv'
    BY <2>1, <2>2 DEF RWInv, TypeInv, Moved
  <2>4. MutexInv' /\ CountInv' /\ EdgeInv' /\ ReadHolds'
    BY <2>1, <2>2 DEF RWInv, MutexInv, CountInv, EdgeInv, ReadHolds
  <2>5. DbInv'
    BY <2>1, <2>2 DEF RWInv, DbInv
  <2> QED
    BY <2>3, <2>4, <2>5 DEF RWInv
<1>2. CASE write_db(t)
  <2>1. /\ Goto(t, "write", "post") /\ pc[t] = "write" /\ db_file' = t
        /\ UNCHANGED <<mutex, db, reader_num, r, data>>
    BY <1>2 DEF write_db, Goto
  <2>2. t \in Writing
    BY <2>1 DEF Writing
  <2>3. /\ Moved(t, "post") /\ \A u \in Readers : pc'[u] = pc[u]
        /\ Counted' = Counted /\ Holders' = Holders /\ Writing' = Writing
    BY <2>1, <2>2, WriterMoves DEF WriterPCs
  <2>4. TypeInv'
    BY <2>1, <2>3 DEF RWInv, TypeInv, Moved
  <2>5. MutexInv' /\ CountInv' /\ EdgeInv'
    BY <2>1, <2>3 DEF RWInv, MutexInv, CountInv, EdgeInv
  <2>6. DbInv'
    BY <2>1, <2>3 DEF RWInv, DbInv
  <2>7. ReadHolds'
    <3>1. Holders = {}
      BY <2>2 DEF RWInv, DbInv
    <3>2. \A u \in Readers : pc[u] # "leave"
      BY <3>1 DEF Holders, InDb
    <3> QED
      BY <2>3, <3>2 DEF ReadHolds
  <2> QED
    BY <2>4, <2>5, <2>6, <2>7 DEF RWInv
<1>3. CASE PostDb(t, "post", "idle")
  <2>1. /\ Goto(t, "post", "idle") /\ pc[t] = "post" /\ db' = db + 1
        /\ UNCHANGED <<mutex, reader_num, db_file, r, data>>
    BY <1>3 DEF PostDb, Goto
  <2>2. t \in Writing
    BY <2>1 DEF Writing
  <2>3. Writing = {t} /\ Holders = {} /\ db = 0
    BY <2>2 DEF RWInv, DbInv, TypeInv
  <2>4. /\ Moved(t, "idle") /\ \A u \in Readers : pc'[u] = pc[u]
        /\ Counted' = Counted /\ Holders' = Holders /\ Writing' = {}
    BY <2>1, <2>3, WriterMoves DEF WriterPCs
  <2>5. TypeInv'
    BY <2>1, <2>3, <2>4 DEF RWInv, TypeInv, Moved
  <2>6. MutexInv' /\ CountInv' /\ EdgeInv' /\ ReadHolds'
    BY <2>1, <2>4 DEF RWInv, MutexInv, CountInv, EdgeInv, ReadHolds
  <2>7. DbInv'
    BY <2>1, <2>3, <2>4 DEF RWInv, DbInv
  <2> QED
    BY <2>5, <2>6, <2>7 DEF RWInv
<1> QED
  BY <1>1, <1>2, <1>3 DEF writer
----------------------------------------------------------------------------
(* RWInv is an invariant of hw2/read_write.c: mutex and reader_num, which  *)
(* the first and the last reader look at while they deal with db, are kept *)
(* in step by every interleaving of readers and writers.                   *)
THEOREM ReadWriteInvariant == Spec => []RWInv
<1>1. ASSUME RWInv, NEW t \in Readers, reader(t)
      PROVE  RWInv'
  BY <1>1, WaitMutexStep, PostMutexStep, LoadNumStep, StoreInStep, StoreOutStep,
     FirstReaderStep, LastReaderStep, ReadStep
     DEF reader, ReaderIn, ReaderOut
<1>2. ASSUME RWInv, UNCHANGED vars
      PROVE  RWInv'
  BY <1>2 DEF vars, RWInv, TypeInv, MutexInv, CountInv, EdgeInv, DbInv, ReadHolds,
              Counted, Holders, Writing
<1>3. RWInv /\ [Next]_vars => RWInv'
  BY <1>1, <1>2, WriterStep DEF Next
<1> QED
  BY <1>3, InitRW, PTL DEF Spec

(* A writer is alone in the data base, however many readers and writers    *)
(* there are: db is taken by one reader and given back by another.         *)
THEOREM WritersAreAlone == Spec => []DbExclusive
<1>1. RWInv => DbExclusive
  <2> SUFFICES ASSUME RWInv PROVE DbExclusive
    OBVIOUS
  <2>1. \A t \in Readers : pc[t] \in {"read", "leave"} => t \in Holders
    BY DEF Holders, InDb
  <2>2. Writing # {} => Reading = {}
    BY <2>1 DEF RWInv, DbInv, Reading
  <2>3. Cardinality(Writing) <= 1
    <3>1. CASE Writing = {}
      BY <3>1, FS_EmptySet
    <3>2. CASE Writing # {}
      <4>1. PICK t \in Writing : TRUE
        BY <3>2
      <4>2. Writing = {t}
        BY <4>1 DEF RWInv, DbInv
      <4>3. Cardinality({t}) = 1
        BY FS_Singleton, Zenon
      <4> QED
        BY <4>2, <4>3
    <3> QED
      BY <3>1, <3>2
  <2> QED
    BY <2>2, <2>3 DEF DbExclusive
<1> QED
  BY <1>1, ReadWriteInvariant, PTL

(* What a reader has read is still in db_file when it begins to leave.     *)
THEOREM ReadsHold == Spec => []ReadHolds
<1>1. RWInv => ReadHolds
  BY DEF RWInv
<1> QED
  BY <1>1, ReadWriteInvariant, PTL
=============================================================================
