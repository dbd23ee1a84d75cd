----------------------------- MODULE ReadWrite -----------------------------
(***************************************************************************)
(* hw2/read_write.c: readers and writers of a one byte data base, with the *)
(* POSIX semaphores mutex (for reader_num) and db.  The first reader takes *)
(* db, possibly while holding mutex, and whichever reader leaves last      *)
(* gives it back.  All threads loop for ever.                              *)
(***************************************************************************)
EXTENDS Integers, FiniteSets

CONSTANTS Readers, Writers

ASSUME ReadWriteConstants ==
    IsFiniteSet(Readers) /\ IsFiniteSet(Writers) /\ Readers \cap Writers = {}

Threads == Readers \cup Writers

VARIABLES
    mutex, db,    \* the values of the two semaphores
    reader_num,
    db_file,      \* the data base: the writer that wrote it last
    pc,
    r,            \* the reader_num a reader has loaded and is about to store
    data          \* what each reader has read

vars == <<mutex, db, reader_num, db_file, pc, r, data>>

Initially == "initial value"

Init ==
    /\ mutex = 1
    /\ db = 1
    /\ reader_num = 0
    /\ db_file = Initially
    /\ pc = [t \in Threads |-> "idle"]
    /\ r = [t \in Readers |-> 0]
    /\ data = [t \in Readers |-> Initially]

Goto(t, from, to) == pc[t] = from /\ pc' = [pc EXCEPT ![t] = to]

----------------------------------------------------------------------------
\* A step of the slips below: a semaphore operation is left out.
Skip(t, from, to) ==
    /\ Goto(t, from, to)
    /\ UNCHANGED <<mutex, db, reader_num, db_file, r, data>>

WaitMutex(t, from, to) ==
    /\ Goto(t, from, to)
    /\ mutex > 0
    /\ mutex' = mutex - 1
    /\ UNCHANGED <<db, reader_num, db_file, r, data>>

PostMutex(t, from, to) ==
    /\ Goto(t, from, to)
    /\ mutex' = mutex + 1
    /\ UNCHANGED <<db, reader_num, db_file, r, data>>

\* reader_num++ and reader_num--, first half: the load.
LoadNum(t, from, to) ==
    /\ Goto(t, from, to)
    /\ r' = [r EXCEPT ![t] = reader_num]
    /\ UNCHANGED <<mutex, db, reader_num, db_file, data>>

\* The store, and the test that follows it.
StoreNum(t, delta, edge, from, then, else) ==
    /\ Goto(t, from, IF r[t] + delta = edge THEN then ELSE else)
    /\ reader_num' = r[t] + delta
    /\ r' = [r EXCEPT ![t] = 0]
    /\ UNCHANGED <<mutex, db, db_file, data>>

WaitDb(t, from, to) ==
    /\ Goto(t, from, to)
    /\ db > 0
    /\ db' = db - 1
    /\ UNCHANGED <<mutex, reader_num, db_file, r, data>>

PostDb(t, from, to) ==
    /\ Goto(t, from, to)
    /\ db' = db + 1
    /\ UNCHANGED <<mutex, reader_num, db_file, r, data>>

read_db(t) ==
    /\ Goto(t, "read", "leave")
    /\ data' = [data EXCEPT ![t] = db_file]
    /\ UNCHANGED <<mutex, db, reader_num, db_file, r>>

\* Slip: reader_num is counted without the mutex.
ReaderInUnlocked(t) ==
    \/ Skip(t, "idle", "load")
    \/ LoadNum(t, "load", "inc")
    \/ StoreNum(t, 1, 1, "inc", "first", "read")
    \/ WaitDb(t, "first", "read")

ReaderIn(t) ==
    \/ WaitMutex(t, "idle", "load")
    \/ LoadNum(t, "load", "inc")
    \/ StoreNum(t, 1, 1, "inc", "first", "enter")
    \/ WaitDb(t, "first", "enter")
    \/ PostMutex(t, "enter", "read")

ReaderOut(t) ==
    \/ WaitMutex(t, "leave", "unload")
    \/ LoadNum(t, "unload", "dec")
    \/ StoreNum(t, -1, 0, "dec", "last", "exit")
    \/ PostDb(t, "last", "exit")
    \/ PostMutex(t, "exit", "idle")

reader(t) == ReaderIn(t) \/ read_db(t) \/ ReaderOut(t)

write_db(t) ==
    /\ Goto(t, "write", "post")
    /\ db_file' = t
    /\ UNCHANGED <<mutex, db, reader_num, r, data>>

\* Slip: the writer does not wait for db.
writerUnlocked(t) ==
    \/ Skip(t, "idle", "write")
    \/ write_db(t)
    \/ Skip(t, "post", "idle")

writer(t) == WaitDb(t, "idle", "write") \/ write_db(t) \/ PostDb(t, "post", "idle")

Next == (\E t \in Readers : reader(t)) \/ (\E t \in Writers : writer(t))

Spec == Init /\ [][Next]_vars

----------------------------------------------------------------------------
Reading == {t \in Readers : pc[t] \in {"read", "leave"}}
Writing == {t \in Writers : pc[t] \in {"write", "post"}}

(* The data base is open to one writer or to any readers, never to both:   *)
(* db stays taken while readers come and go.                               *)
DbExclusive == Cardinality(Writing) <= 1 /\ (Writing # {} => Reading = {})

(* What a reader has read stays true until it leaves: nobody writes while  *)
(* it is in, whichever reader took db and whichever gives it back.         *)
ReadHolds ==
    \A t \in Readers : pc[t] = "leave" => data[t] = db_file
=============================================================================
