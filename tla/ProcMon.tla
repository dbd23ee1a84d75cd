------------------------------ MODULE ProcMon ------------------------------
(***************************************************************************)
(* project2/procmon.c: /proc/procmon lists the processes sorted by a       *)
(* criterion, and a write to /proc/procmon_sorting chooses the criterion.  *)
(* Nothing is locked: currentValue is read again at every comparison of    *)
(* the bubble sort, and all writers share sortingBuf.                      *)
(*                                                                         *)
(* sortingBuf is modelled by the words its bytes come from and by whether  *)
(* white space still follows them: none after memset, one after a copy     *)
(* that nobody disturbed, several after copies that overlapped.  Of a      *)
(* mixture, a comparison may find any of its words or none.                *)
(***************************************************************************)
EXTENDS Integers, Sequences, FiniteSets

CONSTANTS
    Listers,    \* processes that read /proc/procmon
    Choosers,   \* processes that write to /proc/procmon_sorting
    Requests,   \* what they write: [word, space]
    Tables,     \* sequences of processes, in the order of for_each_process
    None        \* no word

Criteria == <<"pid", "virt", "rss", "io">>   \* PID, VIRT, RSS, IO, in the order of the tests

\* A process: its memory, if it has one, in pages, and the bytes it has read and written.
Rows ==
    [pid : Nat, mm : BOOLEAN, total_vm : Nat, filepages : Int, anonpages : Int,
     read : Nat, write : Nat]

(* A table has rows, and no pid occurs twice.                              *)
ASSUME ProcMonAssumption ==
    /\ \A t \in Tables : t \in Seq(Rows) /\ \A a, b \in DOMAIN t : t[a].pid = t[b].pid => a = b
    /\ \A r \in Requests : r.space \in BOOLEAN
    /\ None \notin {Criteria[k] : k \in 1 .. 4}

VARIABLES
    currentValue,
    sortingBuf,   \* [from: words, space: BOOLEAN]
    chooser,      \* per chooser: where it is, its request, the next test, whether it was overlapped
    lister,       \* per lister: where it is, data, i, j, whether currentValue was set meanwhile
    asked         \* history: the criterion last chosen by a write on its own; None if unclear

pmVars == <<currentValue, sortingBuf, chooser, lister, asked>>

NoRequest == [pc |-> "idle", req |-> [word |-> None, space |-> FALSE], k |-> 1, overlapped |-> FALSE]
NoListing == [pc |-> "idle", data |-> << >>, i |-> 0, j |-> 0, disturbed |-> FALSE]
Cleared   == [from |-> {}, space |-> FALSE]

PmInit ==
    /\ currentValue = "pid" /\ asked = "pid"
    /\ sortingBuf = Cleared
    /\ chooser = [c \in Choosers |-> NoRequest]
    /\ lister = [l \in Listers |-> NoListing]

ChooserAt(c, pc) == chooser[c].pc = pc
SetChooser(c, r) == chooser' = [chooser EXCEPT ![c] = r]

----------------------------------------------------------------------------
(* procmon_proc_selection_write.                                           *)

\* Writes that run at the same time are marked on both sides.
SelectionMemset(c) ==
    /\ ChooserAt(c, "idle")
    /\ \E req \in Requests :
           LET busy == {d \in Choosers \ {c} : ~ChooserAt(d, "idle")}
           IN  chooser' = [d \in Choosers |->
                   IF d = c THEN [pc |-> "copy", req |-> req, k |-> 1, overlapped |-> busy # {}]
                   ELSE IF d \in busy THEN [chooser[d] EXCEPT !.overlapped = TRUE]
                   ELSE chooser[d]]
    /\ sortingBuf' = Cleared
    /\ UNCHANGED <<currentValue, lister, asked>>

copy_from_user(c) ==
    /\ ChooserAt(c, "copy")
    /\ sortingBuf' = [from |-> sortingBuf.from \cup {chooser[c].req.word},
                      space |-> sortingBuf.space \/ chooser[c].req.space]
    /\ SetChooser(c, [chooser[c] EXCEPT !.pc = "trim"])
    /\ UNCHANGED <<currentValue, lister, asked>>

\* -EFAULT: the call ends, part of the word may have arrived, and the criterion stays.
copy_fails(c) ==
    /\ ChooserAt(c, "copy")
    /\ sortingBuf' \in {sortingBuf, [sortingBuf EXCEPT !.from = @ \cup {chooser[c].req.word}]}
    /\ SetChooser(c, NoRequest)
    /\ UNCHANGED <<currentValue, lister, asked>>

\* Slip: the line feed of echo stays in the buffer.
TrimNothing(c) ==
    /\ ChooserAt(c, "trim")
    /\ SetChooser(c, [chooser[c] EXCEPT !.pc = "test"])
    /\ UNCHANGED <<currentValue, sortingBuf, lister, asked>>

Trim(c) ==
    /\ ChooserAt(c, "trim")
    /\ sortingBuf' = [sortingBuf EXCEPT !.space = FALSE]
    /\ SetChooser(c, [chooser[c] EXCEPT !.pc = "test"])
    /\ UNCHANGED <<currentValue, lister, asked>>

\* What strcmp may report: equal, or not.
MayEqual(w) == w \in sortingBuf.from /\ ~sortingBuf.space
MayDiffer(w) == sortingBuf.from # {w} \/ sortingBuf.space

\* What a completed write leaves as the wish of the users.
Wish(c) ==
    LET w == chooser[c].req.word
    IN  IF chooser[c].overlapped THEN None
        ELSE IF \E k \in 1 .. 4 : Criteria[k] = w THEN w ELSE asked

SelectionSet(c) ==
    LET w == Criteria[chooser[c].k]
    IN  /\ ChooserAt(c, "test") /\ MayEqual(w)
        /\ currentValue' = w
        /\ asked' = Wish(c)
        /\ lister' = [l \in Listers |->
               IF lister[l].pc = "idle" THEN lister[l] ELSE [lister[l] EXCEPT !.disturbed = TRUE]]
        /\ SetChooser(c, NoRequest)
        /\ UNCHANGED sortingBuf

SelectionTest(c) ==
    LET k == chooser[c].k
    IN  /\ ChooserAt(c, "test") /\ MayDiffer(Criteria[k])
        /\ IF k < 4 THEN SetChooser(c, [chooser[c] EXCEPT !.k = k + 1]) /\ UNCHANGED asked
                    ELSE SetChooser(c, NoRequest) /\ asked' = Wish(c)  \* "UNKNOWN OPERATION"
        /\ UNCHANGED <<currentValue, sortingBuf, lister>>

----------------------------------------------------------------------------
(* procmon_proc_show.                                                      *)

Positive(n) == IF n < 0 THEN 0 ELSE n
PageKB == 4

\* A row of dataset, from a process.  One without memory counts as zero pages.
Sample(p) ==
    [pid  |-> p.pid,
     virt |-> IF p.mm THEN p.total_vm * PageKB ELSE 0,
     rss  |-> IF p.mm THEN (Positive(p.filepages) + Positive(p.anonpages)) * PageKB ELSE 0,
     io   |-> p.read \div 1024 + p.write \div 1024]

\* Where a sort of n rows goes on with outer loop i.
Round(n, i) == IF i < n - 1 THEN "sort" ELSE "print"

for_each_process(l) ==
    /\ lister[l].pc = "idle"
    /\ \E t \in Tables :
           lister' = [lister EXCEPT ![l] =
               [NoListing EXCEPT !.pc = Round(Len(t), 0), !.data = [k \in DOMAIN t |-> Sample(t[k])]]]
    /\ UNCHANGED <<currentValue, sortingBuf, chooser, asked>>

\* data[j] and data[j+1] are in the wrong order: pid ascends, the others descend.
WrongOrder(a, b) ==
    CASE currentValue = "pid"  -> a.pid > b.pid
      [] currentValue = "virt" -> a.virt < b.virt
      [] currentValue = "rss"  -> a.rss < b.rss
      [] currentValue = "io"   -> a.io < b.io

Swap(s, j) == [s EXCEPT ![j] = s[j + 1], ![j + 1] = s[j]]

InnerEnd(s, i) == Len(s) - i - 1

\* One comparison of the inner loop (j counts from 0), and where the loops go from there.
bubblesort(l) ==
    LET d == lister[l].data
        i == lister[l].i
        j == lister[l].j
        sorted == IF WrongOrder(d[j + 1], d[j + 2]) THEN Swap(d, j + 1) ELSE d
    IN  /\ lister[l].pc = "sort"
        /\ lister' = [lister EXCEPT ![l] =
               IF j + 1 < InnerEnd(d, i)
               THEN [@ EXCEPT !.data = sorted, !.j = j + 1]
               ELSE [@ EXCEPT !.data = sorted, !.j = 0, !.i = i + 1, !.pc = Round(Len(d), i + 1)]]
        /\ UNCHANGED <<currentValue, sortingBuf, chooser, asked>>

\* The rows are printed in the order of dataset, which is freed.
Printed(l) ==
    /\ lister[l].pc = "print"
    /\ lister' = [lister EXCEPT ![l] = NoListing]
    /\ UNCHANGED <<currentValue, sortingBuf, chooser, asked>>

----------------------------------------------------------------------------
PmNext ==
    \/ \E c \in Choosers : \/ SelectionMemset(c) \/ copy_from_user(c) \/ copy_fails(c)
                           \/ Trim(c) \/ SelectionSet(c) \/ SelectionTest(c)
    \/ \E l \in Listers : for_each_process(l) \/ bubblesort(l) \/ Printed(l)

\* rmmod waits until no file is open; init_procmon starts with PID again.
exit_procmon ==
    /\ \A c \in Choosers : ChooserAt(c, "idle")
    /\ \A l \in Listers : lister[l].pc = "idle"
    /\ currentValue' = "pid" /\ asked' = "pid" /\ sortingBuf' = Cleared
    /\ UNCHANGED <<chooser, lister>>
----------------------------------------------------------------------------
Key(row, criterion) ==
    CASE criterion = "pid" -> -row.pid [] criterion = "virt" -> row.virt
      [] criterion = "rss" -> row.rss  [] criterion = "io" -> row.io

\* d has exactly the rows of table t, in some order.
RowsOf(d, t) == Len(d) = Len(t) /\ {d[k] : k \in DOMAIN d} = {Sample(t[k]) : k \in DOMAIN t}

\* They are in the order of the key, and equal keys as for_each_process met them.
SortedBy(d, t, criterion) ==
    /\ RowsOf(d, t)
    /\ \A a, b \in DOMAIN d : a < b =>
           \/ Key(d[a], criterion) > Key(d[b], criterion)
           \/ /\ Key(d[a], criterion) = Key(d[b], criterion)
              /\ \E x, y \in DOMAIN t : x < y /\ t[x].pid = d[a].pid /\ t[y].pid = d[b].pid

(* A listing is sorted, stably, by the criterion that was asked for last,  *)
(* if no write set currentValue during the sort and the last write did not *)
(* overlap another one; and in every case each process is listed once.     *)
(* The word reaches currentValue through a buffer shared by all writers,   *)
(* and copies that fault, unknown words and overlapping writes come before.*)
ListingAsAsked ==
    \A l \in Listers : lister[l].pc = "print" =>
        LET d == lister[l].data
        IN  /\ \E t \in Tables : RowsOf(d, t)
            /\ lister[l].disturbed \/ asked = None \/ \E t \in Tables : SortedBy(d, t, asked)
=============================================================================
