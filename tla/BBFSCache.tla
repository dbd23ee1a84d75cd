----------------------------- MODULE BBFSCache -----------------------------
(***************************************************************************)
(* The file buffer cache of the FUSE file system project4/bbfs.c: the list *)
(* of 4 KB chunks behind bb_read, bb_write and bb_release, its eviction    *)
(* policies, and the file contents below it.  Requests are served one at a *)
(* time (the single-threaded mount).                                       *)
(*                                                                         *)
(* Offsets count half chunks, so CHUNK = 2 and an odd offset is a request  *)
(* that straddles two chunks.  A half chunk holds one value; NUL stands    *)
(* for zero bytes, which is also what lies beyond the end of a file.       *)
(* Encryption is off (the first two numbers of ee516.conf are 0).          *)
(***************************************************************************)
EXTENDS Integers, Sequences, FiniteSets, SequencesExt

CONSTANTS
    Files,          \* the files, each opened once at a time; also the fd
    Texts,          \* the chunks that programs write, two halves each
    NUL,            \* a half chunk of zero bytes
    Junk,           \* what a read of freed memory returns
    LAST,           \* bound: the last half chunk of a file
    Offsets,        \* the offsets that are requested
    Sizes,          \* the sizes that are requested, in half chunks
    Policies,       \* the cache policies ee516.conf may name
    TruncateTo,     \* the sizes files are truncated to
    MAX_LIST_SIZE   \* chunks in the cache (1280 in the program)

CHUNK == 2
Cells == 0 .. LAST
Values == UNION {Range(x) : x \in Texts}

ASSUME CacheConstants ==
    /\ LAST \in Nat /\ MAX_LIST_SIZE \in Nat \ {0}
    /\ Offsets \subseteq Cells /\ TruncateTo \subseteq Cells
    /\ Sizes \subseteq {1, CHUNK}
    /\ Policies \subseteq {0, 1, 2} /\ Policies # {}
    /\ Texts \subseteq [1 .. CHUNK -> Values]
    /\ Junk \notin Values \cup {NUL}

VARIABLES
    disk,         \* the contents of the files below the file system
    conf,         \* the cache policy in ee516.conf
    cachePolicy,  \* the policy loaded last
    list,         \* the filebuffer list, from its head
    bufferCount,
    open,         \* the files that are open
    op            \* the operation just done, with the data read or written

vars == <<disk, conf, cachePolicy, list, bufferCount, open, op>>

Idle == [kind |-> "none", fd |-> NUL, from |-> 0, data |-> <<>>]

\* Files are empty and closed; main has initialised the list.
Init ==
    /\ disk = [f \in Files |-> [c \in Cells |-> NUL]]
    /\ conf \in Policies
    /\ cachePolicy = 0
    /\ list = << >>
    /\ bufferCount = 0
    /\ open = {}
    /\ op = Idle

----------------------------------------------------------------------------
(* The file below: pread and pwrite.                                       *)

pread(d, f, from, n) ==
    [k \in 1 .. n |-> IF from + k - 1 \in Cells THEN d[f][from + k - 1] ELSE NUL]

pwrite(d, f, from, data) ==
    [d EXCEPT ![f] = [c \in Cells |->
        IF c - from + 1 \in DOMAIN data THEN data[c - from + 1] ELSE @[c]]]

(* strncpy and sprintf("%s%s") stop at a zero byte; the target is zeroed.  *)
strncpy(data) ==
    [k \in DOMAIN data |-> IF \E j \in 1 .. k : data[j] = NUL THEN NUL ELSE data[k]]

strlen(data) == Max({n \in 0 .. Len(data) : \A j \in 1 .. n : data[j] # NUL})

Text(data) == SubSeq(data, 1, strlen(data))

Pad(data, n) == [k \in 1 .. n |-> IF k \in DOMAIN data THEN data[k] ELSE NUL]

Concat(first, second) == Pad(Text(first) \o Text(second), 2 * CHUNK)

\* memcpy(total + at, data, size)
Overlay(total, at, data) ==
    [k \in DOMAIN total |-> IF k - at \in DOMAIN data THEN data[k - at] ELSE total[k]]

Slice(data, at) == SubSeq(data, at + 1, at + CHUNK)

----------------------------------------------------------------------------
(* bufferHitCheck.  A perfect hit ends the search; otherwise the last      *)
(* candidate met on the list is taken for each part.                       *)

To(b) == b.from + CHUNK

PerfectAt(f, o) == {k \in DOMAIN list : list[k].fd = f /\ list[k].from = o}
FirstAt(f, o) == {k \in DOMAIN list :
                    list[k].fd = f /\ list[k].from < o /\ o < To(list[k])}
SecondAt(f, o) == {k \in DOMAIN list :
                     list[k].fd = f /\ list[k].from < o + CHUNK /\ o + CHUNK < To(list[k])}

Hit(f, o) == IF PerfectAt(f, o) # {} THEN "PERFECT_HIT"
             ELSE IF FirstAt(f, o) # {} /\ SecondAt(f, o) # {} THEN "PARTIAL_HIT"
             ELSE IF FirstAt(f, o) # {} THEN "FIRST_OK"
             ELSE IF SecondAt(f, o) # {} THEN "SECOND_OK"
             ELSE "PERFECT_MISS"

\* Slip: a hit does not move the buffer to the front.
list_keep(l, k) == l

\* list_move of the k-th buffer to the front.
list_move(l, k) == <<l[k]>> \o RemoveAt(l, k)

Perfect(f, o) == list_move(list, Min(PerfectAt(f, o)))
FirstUp(f, o) == list_move(list, Max(FirstAt(f, o)))
SecondUp(f, o) == list_move(list, Max(SecondAt(f, o)))

\* Both parts: the second part is moved up, then the first part.
BothUp(f, o) ==
    LET i == Max(FirstAt(f, o))
        j == Max(SecondAt(f, o))
    IN  list_move(list_move(list, j), IF i < j THEN i + 1 ELSE i)

----------------------------------------------------------------------------
(* addFileBuffer.  The outcomes differ in the buffer a random eviction     *)
(* picks; freed is its place in the list, 0 if there was room.             *)

\* Slip: the dirty flag is not looked at.
WriteBackNever(d, b) == d

WriteBack(d, b) == IF b.dirty = 1 THEN pwrite(d, b.fd, b.from, b.buf) ELSE d

\* Slip: one buffer too many is let in.
FullLate(c) == c > MAX_LIST_SIZE

Full(c) == c >= MAX_LIST_SIZE

\* Slip: the buffer used last is evicted.
VictimsHead(l) == IF conf = 1 THEN DOMAIN l ELSE {1}

Victims(l) == IF conf = 1 THEN DOMAIN l ELSE {Len(l)}

Evictions(s) ==
    IF Full(s.count)
    THEN {[list |-> RemoveAt(s.list, k), disk |-> WriteBack(s.disk, s.list[k]),
           count |-> s.count - 1, freed |-> k] : k \in Victims(s.list)}
    ELSE {[s EXCEPT !.freed = 0]}

addFileBuffer(s, f, from, data) ==
    {[e EXCEPT !.list = <<[fd |-> f, from |-> from, dirty |-> 0, buf |-> data]>> \o @,
               !.count = @ + 1] : e \in Evictions(s)}

Cache(l) == [list |-> l, disk |-> disk, count |-> bufferCount, freed |-> 0]

Becomes(s) == list' = s.list /\ disk' = s.disk /\ bufferCount' = s.count

----------------------------------------------------------------------------
(* What every request does first: load the policy, and decide whether the  *)
(* cache serves it.                                                        *)

Request(f, o, n) ==
    /\ f \in open /\ o \in Offsets /\ n \in Sizes
    /\ cachePolicy' = conf
    /\ UNCHANGED <<conf, open>>

Cached(n) == conf # 0 /\ n = CHUNK

refinedOffset(o) == o % CHUNK
Aligned(o) == refinedOffset(o) = 0
Base(o) == o - refinedOffset(o)

Returned(f, o, data) ==
    op' = [kind |-> "read", fd |-> f, from |-> o, data |-> data]

CachedRequest(f, o, type) ==
    /\ Request(f, o, CHUNK)
    /\ Cached(CHUNK)
    /\ Hit(f, o) = type

\* Slip: a hit is answered from the file.
ReadPerfectHitStale(f, o) ==
    /\ CachedRequest(f, o, "PERFECT_HIT")
    /\ list' = Perfect(f, o)
    /\ Returned(f, o, pread(disk, f, o, CHUNK))
    /\ UNCHANGED <<disk, bufferCount>>

ReadPerfectHit(f, o) ==
    /\ CachedRequest(f, o, "PERFECT_HIT")
    /\ list' = Perfect(f, o)
    /\ Returned(f, o, Head(Perfect(f, o)).buf)
    /\ UNCHANGED <<disk, bufferCount>>

ReadPartialHit(f, o) ==
    /\ CachedRequest(f, o, "PARTIAL_HIT")
    /\ list' = BothUp(f, o)
    /\ Returned(f, o, Slice(Concat(BothUp(f, o)[1].buf, BothUp(f, o)[2].buf), refinedOffset(o)))
    /\ UNCHANGED <<disk, bufferCount>>

\* The part found is used after addFileBuffer, which may have freed it.
Kept(s, b) == IF s.freed = 1 THEN [k \in 1 .. CHUNK |-> Junk] ELSE b.buf

\* Slip: the chunk read is the one already there.
ReadFirstOkSame(f, o) ==
    /\ CachedRequest(f, o, "FIRST_OK")
    /\ LET part  == Head(FirstUp(f, o))
           start == part.from
           data  == pread(disk, f, start, CHUNK)
       IN  \E s \in addFileBuffer(Cache(FirstUp(f, o)), f, start, data) :
             /\ Becomes(s)
             /\ Returned(f, o, Slice(Concat(Kept(s, part), data), refinedOffset(o)))

ReadFirstOk(f, o) ==
    /\ CachedRequest(f, o, "FIRST_OK")
    /\ LET part  == Head(FirstUp(f, o))
           start == To(part)
           data  == pread(disk, f, start, CHUNK)
       IN  \E s \in addFileBuffer(Cache(FirstUp(f, o)), f, start, data) :
             /\ Becomes(s)
             /\ Returned(f, o, Slice(Concat(Kept(s, part), data), refinedOffset(o)))

\* "we need first one": start is where the second part starts itself.
ReadSecondOk(f, o) ==
    /\ CachedRequest(f, o, "SECOND_OK")
    /\ LET part  == Head(SecondUp(f, o))
           start == To(part) - CHUNK
           data  == pread(disk, f, start, CHUNK)
       IN  \E s \in addFileBuffer(Cache(SecondUp(f, o)), f, start, data) :
             /\ Becomes(s)
             /\ Returned(f, o, Slice(Concat(data, Kept(s, part)), refinedOffset(o)))

ReadMiss(f, o) ==
    /\ CachedRequest(f, o, "PERFECT_MISS")
    /\ Aligned(o)
    /\ \E s \in addFileBuffer(Cache(list), f, o, pread(disk, f, o, CHUNK)) : Becomes(s)
    /\ Returned(f, o, pread(disk, f, o, CHUNK))

ReadMissTwo(f, o) ==
    /\ CachedRequest(f, o, "PERFECT_MISS")
    /\ ~Aligned(o)
    /\ LET data == pread(disk, f, Base(o), 2 * CHUNK)
       IN  /\ \E s \in addFileBuffer(Cache(list), f, Base(o), Slice(data, 0)) :
                \E r \in addFileBuffer(s, f, Base(o) + CHUNK, Slice(data, CHUNK)) : Becomes(r)
           /\ Returned(f, o, Slice(data, refinedOffset(o)))

ReadDirect(f, o, n) ==
    /\ Request(f, o, n)
    /\ ~Cached(n)
    /\ Returned(f, o, pread(disk, f, o, n))
    /\ UNCHANGED <<disk, list, bufferCount>>

bb_read(f, o) ==
    \/ ReadPerfectHit(f, o) \/ ReadPartialHit(f, o) \/ ReadFirstOk(f, o)
    \/ ReadSecondOk(f, o) \/ ReadMiss(f, o) \/ ReadMissTwo(f, o)
    \/ \E n \in Sizes : ReadDirect(f, o, n)

----------------------------------------------------------------------------
(* bb_write.  The chunks it adds are clean, and a second part it finds is  *)
(* changed without its dirty flag.                                         *)

Written(f, o, data) ==
    op' = [kind |-> "write", fd |-> f, from |-> o, data |-> data]

Store(b, data) == [b EXCEPT !.buf = data, !.dirty = 1]

WritePerfectHit(f, o, data) ==
    /\ CachedRequest(f, o, "PERFECT_HIT")
    /\ list' = <<Store(Head(Perfect(f, o)), strncpy(data))>> \o Tail(Perfect(f, o))
    /\ Written(f, o, data)
    /\ UNCHANGED <<disk, bufferCount>>

WritePartialHit(f, o, data) ==
    /\ CachedRequest(f, o, "PARTIAL_HIT")
    /\ LET l     == BothUp(f, o)
           total == Overlay(Concat(l[1].buf, l[2].buf), refinedOffset(o), strncpy(data))
       IN  list' = <<Store(l[1], Slice(total, 0)), Store(l[2], Slice(total, CHUNK))>>
                       \o SubSeq(l, 3, Len(l))
    /\ Written(f, o, data)
    /\ UNCHANGED <<disk, bufferCount>>

\* "secondpart insert": the new buffer goes one chunk too far.
WriteFirstOk(f, o, data) ==
    /\ CachedRequest(f, o, "FIRST_OK")
    /\ LET l     == FirstUp(f, o)
           start == To(Head(l))
           total == Overlay(Concat(Head(l).buf, pread(disk, f, start, CHUNK)),
                            refinedOffset(o), strncpy(data))
       IN  /\ \E s \in addFileBuffer(Cache(<<Store(Head(l), Slice(total, 0))>> \o Tail(l)),
                                     f, start + CHUNK, Slice(total, CHUNK)) : Becomes(s)
           /\ Written(f, o, data)

WriteSecondOk(f, o, data) ==
    /\ CachedRequest(f, o, "SECOND_OK")
    /\ LET l     == SecondUp(f, o)
           start == Head(l).from - CHUNK
           total == Overlay(Concat(pread(disk, f, start, CHUNK), Head(l).buf),
                            refinedOffset(o), strncpy(data))
           part  == [Head(l) EXCEPT !.buf = Slice(total, CHUNK)]
       IN  /\ \E s \in addFileBuffer(Cache(<<part>> \o Tail(l)), f, start, Slice(total, 0)) :
                Becomes(s)
           /\ Written(f, o, data)

WriteMiss(f, o, data) ==
    /\ CachedRequest(f, o, "PERFECT_MISS")
    /\ Aligned(o)
    /\ \E s \in addFileBuffer(Cache(list), f, o, strncpy(data)) : Becomes(s)
    /\ Written(f, o, data)

WriteMissTwo(f, o, data) ==
    /\ CachedRequest(f, o, "PERFECT_MISS")
    /\ ~Aligned(o)
    /\ LET total == Overlay(pread(disk, f, Base(o), 2 * CHUNK), refinedOffset(o), strncpy(data))
       IN  \E s \in addFileBuffer(Cache(list), f, Base(o), Slice(total, 0)) :
             \E r \in addFileBuffer(s, f, Base(o) + CHUNK, Slice(total, CHUNK)) : Becomes(r)
    /\ Written(f, o, data)

WriteDirect(f, o, data) ==
    /\ Request(f, o, Len(data))
    /\ ~Cached(Len(data))
    /\ disk' = pwrite(disk, f, o, strncpy(data))
    /\ Written(f, o, data)
    /\ UNCHANGED <<list, bufferCount>>

bb_write(f, o) ==
    \E v \in Texts :
        \/ WritePerfectHit(f, o, v) \/ WritePartialHit(f, o, v) \/ WriteFirstOk(f, o, v)
        \/ WriteSecondOk(f, o, v) \/ WriteMiss(f, o, v) \/ WriteMissTwo(f, o, v)
        \/ \E n \in Sizes : WriteDirect(f, o, SubSeq(v, 1, n))

----------------------------------------------------------------------------
(* The operations that open, close, sync and cut a file.                   *)

Done(kind, f) == op' = [Idle EXCEPT !.kind = kind, !.fd = f]

bb_open(f) ==
    /\ f \notin open
    /\ open' = open \cup {f}
    /\ Done("open", f)
    /\ UNCHANGED <<disk, conf, cachePolicy, list, bufferCount>>

\* Every dirty buffer on the list is written to the file being released, in
\* the order of the list: the last one that covers a half chunk stays.
Flush(d, f, l) ==
    [d EXCEPT ![f] = [c \in Cells |->
        LET over == {k \in DOMAIN l : l[k].dirty = 1 /\ c \in l[k].from .. To(l[k]) - 1}
        IN  IF over = {} THEN d[f][c] ELSE l[Max(over)].buf[c - l[Max(over)].from + 1]]]

bb_release(f) ==
    /\ f \in open
    /\ disk' = Flush(disk, f, list)
    /\ list' = << >>
    /\ bufferCount' = 0
    /\ open' = open \ {f}
    /\ Done("release", f)
    /\ UNCHANGED <<conf, cachePolicy>>

\* bb_flush and bb_fsync leave the cache alone.
bb_flush(f) ==
    /\ f \in open
    /\ Done("flush", f)
    /\ UNCHANGED <<disk, conf, cachePolicy, list, bufferCount, open>>

bb_fsync(f) ==
    /\ f \in open
    /\ Done("fsync", f)
    /\ UNCHANGED <<disk, conf, cachePolicy, list, bufferCount, open>>

Cut(d, f, n) == [d EXCEPT ![f] = [c \in Cells |-> IF c < n THEN @[c] ELSE NUL]]

\* bb_truncate and bb_ftruncate: the file is cut, the cache is not.
bb_truncate(f) ==
    /\ \E n \in TruncateTo : disk' = Cut(disk, f, n)
    /\ Done("truncate", f)
    /\ UNCHANGED <<conf, cachePolicy, list, bufferCount, open>>

\* The user edits ee516.conf.
EditConf ==
    /\ \E p \in Policies \ {conf} : conf' = p
    /\ op' = Idle
    /\ UNCHANGED <<disk, cachePolicy, list, bufferCount, open>>

Next ==
    \/ \E f \in Files :
          \/ bb_open(f) \/ bb_release(f) \/ bb_flush(f) \/ bb_fsync(f) \/ bb_truncate(f)
          \/ \E o \in Offsets : bb_read(f, o) \/ bb_write(f, o)
    \/ EditConf

Spec == Init /\ [][Next]_vars

----------------------------------------------------------------------------
(* bufferCount is the length of the list through every mix of insertions,  *)
(* evictions and releases, and never passes MAX_LIST_SIZE.                 *)
CountIsLength == bufferCount = Len(list) /\ bufferCount <= MAX_LIST_SIZE

(* With LRU eviction the part that was found is never the buffer that      *)
(* addFileBuffer frees, so bb_read does not copy freed memory.  (Random    *)
(* eviction may pick that very buffer.)                                    *)
NoUseAfterFree ==
    op.kind = "read" /\ cachePolicy = 2 =>
        \A k \in DOMAIN op.data : op.data[k] # Junk

(* A chunk of a file is on the list once: with two copies a write would    *)
(* change one and a later read find the other.  Only the partial misses    *)
(* that insert at the wrong place, a read that found its second part and a *)
(* write that found its first part, ever bring a second copy.              *)
OneCopy(l) == \A j, k \in DOMAIN l : l[j].fd = l[k].fd /\ l[j].from = l[k].from => j = k

OneCopyPerChunk ==
    [][OneCopy(list) /\ ~OneCopy(list') =>
         \/ op'.kind = "read" /\ Hit(op'.fd, op'.from) = "SECOND_OK"
         \/ op'.kind = "write" /\ Hit(op'.fd, op'.from) = "FIRST_OK"]_vars

----------------------------------------------------------------------------
(* What the comments "dirty flag" and "should be written if dirty" say: a  *)
(* buffer that differs from its file is one that has to be written.        *)
DirtyWhenChanged ==
    \A k \in DOMAIN list :
        list[k].buf # pread(disk, list[k].fd, list[k].from, CHUNK) => list[k].dirty = 1
=============================================================================
