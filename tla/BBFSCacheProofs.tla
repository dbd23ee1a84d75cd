-------------------------- MODULE BBFSCacheProofs --------------------------
(***************************************************************************)
(* Safety of the chunk cache of bbfs.c for any files, texts, offsets and   *)
(* size of the cache.  CacheInv is inductive: the list holds chunks of     *)
(* whole half chunks, bufferCount is its length, and neither the list nor  *)
(* the files ever hold freed memory, although a read may return it.        *)
(* HistoryInv adds, while requests start at a chunk, what the cache and    *)
(* the files hold compared with what programs wrote, and in which order.   *)
(***************************************************************************)
EXTENDS BBFSHistory, NaturalsInduction, SequenceTheorems, WellFoundedInduction, TLAPS

Halves  == Values \cup {NUL}
Disks   == [Files -> [Cells -> Halves]]
Buffers == [fd : Files, from : Int, dirty : {0, 1}, buf : [1 .. CHUNK -> Halves]]

\* The cache and the files, with the count right and within its limit.
Fits(l, d, c) ==
    l \in Seq(Buffers) /\ d \in Disks /\ c = Len(l) /\ c <= MAX_LIST_SIZE

\* A cache of one chunk would have no room for the part that was found.
SafeRead == MAX_LIST_SIZE > 1 => NoUseAfterFree

CacheInv == Fits(list, disk, bufferCount) /\ SafeRead

\* The two partial misses that insert at the wrong place.
Misplaced ==
    \/ op'.kind = "read" /\ Hit(op'.fd, op'.from) = "SECOND_OK"
    \/ op'.kind = "write" /\ Hit(op'.fd, op'.from) = "FIRST_OK"

\* What every step is to do.
Keeps == CacheInv' /\ (OneCopy(list) => OneCopy(list') \/ Misplaced)

----------------------------------------------------------------------------
(* Sets of places                                                          *)

(* The naturals are well-founded: a nonempty set of them has a least one.  *)
LEMMA LeastNatural ==
    ASSUME NEW T, T \subseteq Nat, T # {}
    PROVE  \E x \in T : \A y \in T : x <= y
<1>1. PICK R : IsWellFoundedOn(R, Nat) /\ \A x, y \in Nat : <<x, y>> \in R <=> x < y
  <2> DEFINE R == OpToRel(<, Nat)
  <2>1. IsWellFoundedOn(R, Nat)
    BY NatLessThanWellFounded
  <2>2. \A x, y \in Nat : <<x, y>> \in R <=> x < y
    BY DEF OpToRel
  <2> HIDE DEF R
  <2> QED
    BY <2>1, <2>2
<1>2. PICK x \in T : \A y \in T : ~ (<<y, x>> \in R)
  <2>1. IsWellFoundedOn(R, Nat)
    BY <1>1
  <2>2. \A V : V \subseteq Nat /\ V # {} => \E x \in V : \A y \in V : ~ (<<y, x>> \in R)
    BY <2>1, WFMin, Zenon
  <2> QED
    BY <2>2, Zenon
<1>3. ASSUME NEW y \in T PROVE x <= y
  <2>1. x \in Nat /\ y \in Nat /\ ~ (y < x)
    BY <1>1, <1>2
  <2> QED
    BY <2>1
<1> QED
  BY <1>3

(* A nonempty set of places has a first and a last one.                    *)
LEMMA Extremes ==
    ASSUME NEW n \in Nat, NEW K \in SUBSET (0 .. n), K # {}
    PROVE  /\ Min(K) \in K /\ \A k \in K : Min(K) <= k
           /\ Max(K) \in K /\ \A k \in K : k <= Max(K)
<1>1. K \subseteq Nat /\ \A k \in K : k <= n
  OBVIOUS
<1>2. \E x \in K : \A y \in K : x <= y
  BY <1>1, LeastNatural
<1>3. \E x \in K : \A y \in K : x >= y
  <2> DEFINE T == {n - k : k \in K}
  <2>1. T \subseteq Nat /\ T # {}
    <3>1. ASSUME NEW k \in K PROVE n - k \in Nat
      BY <1>1
    <3> QED
      BY <3>1
  <2>2. PICK t \in T : \A u \in T : t <= u
    BY <2>1, LeastNatural
  <2>3. PICK x \in K : t = n - x
    OBVIOUS
  <2>4. ASSUME NEW y \in K PROVE x >= y
    BY <2>2, <2>3
  <2> QED
    BY <2>4
<1> QED
  BY <1>2, <1>3 DEF Min, Max

----------------------------------------------------------------------------
(* The list operations                                                     *)

(* list_del at a place.                                                    *)
LEMMA RemoveAtPlaces ==
    ASSUME NEW S, NEW l \in Seq(S), NEW i \in 1 .. Len(l)
    PROVE  /\ RemoveAt(l, i) \in Seq(S) /\ Len(RemoveAt(l, i)) = Len(l) - 1
           /\ \A k \in 1 .. Len(l) - 1 : RemoveAt(l, i)[k] = IF k < i THEN l[k] ELSE l[k + 1]
<1> DEFINE a == SubSeq(l, 1, i - 1)
           b == SubSeq(l, i + 1, Len(l))
<1>1. a \in Seq(S) /\ Len(a) = i - 1 /\ \A k \in 1 .. i - 1 : a[k] = l[k]
  BY SubSeqProperties
<1>2. b \in Seq(S) /\ Len(b) = Len(l) - i /\ \A k \in 1 .. Len(l) - i : b[k] = l[k + i]
  BY SubSeqProperties
<1> HIDE DEF a, b
<1>3. /\ a \o b \in Seq(S) /\ Len(a \o b) = Len(a) + Len(b)
      /\ \A k \in 1 .. Len(a) + Len(b) : (a \o b)[k] = IF k <= Len(a) THEN a[k] ELSE b[k - Len(a)]
  BY <1>1, <1>2, ConcatProperties
<1>4. RemoveAt(l, i) = a \o b
  BY DEF RemoveAt, a, b
<1>5. Len(a) + Len(b) = Len(l) - 1
  BY <1>1, <1>2
<1>6. ASSUME NEW k \in 1 .. Len(l) - 1
      PROVE  (a \o b)[k] = IF k < i THEN l[k] ELSE l[k + 1]
  <2>1. CASE k < i
    BY <2>1, <1>1, <1>2, <1>3
  <2>2. CASE ~ (k < i)
    <3>1. k \in 1 .. Len(a) + Len(b) /\ ~ (k <= Len(a)) /\ k - Len(a) \in 1 .. Len(l) - i
      BY <2>2, <1>1, <1>2
    <3>2. (a \o b)[k] = b[k - Len(a)]
      BY <3>1, <1>3
    <3>3. b[k - Len(a)] = l[(k - Len(a)) + i] /\ (k - Len(a)) + i = k + 1
      BY <3>1, <1>1, <1>2
    <3> QED
      BY <3>2, <3>3, <2>2
  <2> QED
    BY <2>1, <2>2
<1> QED
  BY <1>3, <1>4, <1>5, <1>6

(* A buffer put in front.                                                  *)
LEMMA PutInFront ==
    ASSUME NEW S, NEW l \in Seq(S), NEW x \in S
    PROVE  /\ <<x>> \o l \in Seq(S) /\ Len(<<x>> \o l) = Len(l) + 1
           /\ (<<x>> \o l)[1] = x
           /\ \A k \in 2 .. Len(l) + 1 : (<<x>> \o l)[k] = l[k - 1]
<1>1. <<x>> \in Seq(S) /\ Len(<<x>>) = 1 /\ <<x>>[1] = x
  OBVIOUS
<1> QED
  BY <1>1, ConcatProperties

\* m holds the buffers of l in some order, perhaps with other contents.
Rearranged(l, m) ==
    /\ m \in Seq(Buffers) /\ Len(m) = Len(l)
    /\ OneCopy(l) => OneCopy(m)
    /\ \A k \in DOMAIN m : \E j \in DOMAIN l : m[k].fd = l[j].fd /\ m[k].from = l[j].from

(* list_move puts one buffer first and keeps the order of the others.      *)
LEMMA MoveKeeps ==
    ASSUME NEW l \in Seq(Buffers), NEW i \in DOMAIN l
    PROVE  /\ Rearranged(l, list_move(l, i))
           /\ list_move(l, i)[1] = l[i]
           /\ \A k \in 2 .. Len(l) : list_move(l, i)[k] = IF k <= i THEN l[k - 1] ELSE l[k]
<1> DEFINE r == RemoveAt(l, i)
           m == list_move(l, i)
<1>1. i \in 1 .. Len(l) /\ l[i] \in Buffers /\ Len(l) \in Nat /\ DOMAIN l = 1 .. Len(l)
  OBVIOUS
<1>2. /\ r \in Seq(Buffers) /\ Len(r) = Len(l) - 1
      /\ \A k \in 1 .. Len(l) - 1 : r[k] = IF k < i THEN l[k] ELSE l[k + 1]
  BY <1>1, RemoveAtPlaces
<1>3. m = <<l[i]>> \o r
  BY DEF list_move
<1> HIDE DEF r, m
<1>4. /\ m \in Seq(Buffers) /\ Len(m) = Len(l) /\ m[1] = l[i]
      /\ \A k \in 2 .. Len(l) : m[k] = r[k - 1]
  <2>1. /\ m \in Seq(Buffers) /\ Len(m) = Len(r) + 1 /\ m[1] = l[i]
        /\ \A k \in 2 .. Len(r) + 1 : m[k] = r[k - 1]
    <3>1. PICK x \in Buffers : x = l[i]
      BY <1>1
    <3>2. m = <<x>> \o r
      BY <1>3, <3>1
    <3> QED
      BY <1>2, <3>1, <3>2, PutInFront
  <2>2. Len(r) + 1 = Len(l)
    BY <1>1, <1>2
  <2> QED
    BY <2>1, <2>2
<1>5. ASSUME NEW k \in 2 .. Len(l) PROVE m[k] = IF k <= i THEN l[k - 1] ELSE l[k]
  <2>1. m[k] = r[k - 1] /\ k - 1 \in 1 .. Len(l) - 1
    BY <1>1, <1>4
  <2>2. r[k - 1] = IF k - 1 < i THEN l[k - 1] ELSE l[(k - 1) + 1]
    BY <2>1, <1>2
  <2>3. (k - 1 < i <=> k <= i) /\ (k - 1) + 1 = k
    BY <1>1
  <2> QED
    BY <2>1, <2>2, <2>3
<1> DEFINE p == [k \in 1 .. Len(l) |-> IF k = 1 THEN i ELSE IF k <= i THEN k - 1 ELSE k]
<1>6. ASSUME NEW k \in 1 .. Len(l) PROVE p[k] \in 1 .. Len(l) /\ m[k] = l[p[k]]
  BY <1>1, <1>4, <1>5
<1>7. ASSUME NEW j \in 1 .. Len(l), NEW k \in 1 .. Len(l), p[j] = p[k] PROVE j = k
  BY <1>1, <1>7
<1> HIDE DEF p
<1>8. DOMAIN m = 1 .. Len(l)
  BY <1>4
<1>9. OneCopy(l) => OneCopy(m)
  <2>1. SUFFICES ASSUME OneCopy(l), NEW j \in 1 .. Len(l), NEW k \in 1 .. Len(l),
                        m[j].fd = m[k].fd, m[j].from = m[k].from
                 PROVE  j = k
    BY <1>8 DEF OneCopy
  <2>2. p[j] = p[k]
    BY <2>1, <1>1, <1>6 DEF OneCopy
  <2> QED
    BY <2>2, <1>7
<1>10. \A k \in DOMAIN m : \E j \in DOMAIN l : m[k].fd = l[j].fd /\ m[k].from = l[j].from
  BY <1>1, <1>8, <1>6
<1>11. Rearranged(l, m)
  BY <1>4, <1>9, <1>10 DEF Rearranged
<1> QED
  BY <1>4, <1>5, <1>11 DEF m

(* The first buffer of a list gets other contents.                         *)
LEMMA StoreKeeps ==
    ASSUME NEW l \in Seq(Buffers), l # << >>, NEW x \in Buffers,
           x.fd = l[1].fd, x.from = l[1].from
    PROVE  Rearranged(l, <<x>> \o Tail(l))
<1> DEFINE m == <<x>> \o Tail(l)
<1>1. Len(l) \in Nat \ {0} /\ DOMAIN l = 1 .. Len(l)
  BY EmptySeq
<1>2. /\ Tail(l) \in Seq(Buffers) /\ Len(Tail(l)) = Len(l) - 1
      /\ \A k \in 1 .. Len(l) - 1 : Tail(l)[k] = l[k + 1]
  BY <1>1, HeadTailProperties
<1>3. /\ m \in Seq(Buffers) /\ Len(m) = Len(l) /\ m[1] = x
      /\ \A k \in 2 .. Len(l) : m[k] = Tail(l)[k - 1]
  BY <1>1, <1>2, PutInFront
<1>4. \A k \in 2 .. Len(l) : m[k] = l[k]
  <2>1. ASSUME NEW k \in 2 .. Len(l) PROVE m[k] = l[k]
    <3>1. k - 1 \in 1 .. Len(l) - 1 /\ (k - 1) + 1 = k
      BY <1>1
    <3>2. Tail(l)[k - 1] = l[(k - 1) + 1]
      BY <1>2, <3>1
    <3> QED
      BY <1>3, <3>1, <3>2
  <2> QED
    BY <2>1
<1> HIDE DEF m
<1>5. \A k \in 1 .. Len(l) : m[k].fd = l[k].fd /\ m[k].from = l[k].from
  BY <1>1, <1>3, <1>4
<1>6. OneCopy(l) => OneCopy(m)
  BY <1>1, <1>3, <1>5 DEF OneCopy
<1> QED
  BY <1>1, <1>3, <1>5, <1>6 DEF Rearranged, m

(* Rearranging twice is rearranging.                                       *)
LEMMA RearrangedTwice ==
    ASSUME NEW l \in Seq(Buffers), NEW m \in Seq(Buffers), NEW n \in Seq(Buffers),
           Rearranged(l, m), Rearranged(m, n)
    PROVE  Rearranged(l, n)
  BY DEF Rearranged
----------------------------------------------------------------------------
(* The data: everything that is made of half chunks is made of half chunks *)

Data(n) == [1 .. n -> Halves]

(* pread.                                                                  *)
LEMMA PreadType ==
    ASSUME NEW d \in Disks, NEW f \in Files, NEW from \in Int, NEW n \in Nat
    PROVE  pread(d, f, from, n) \in Data(n)
  BY DEF pread, Data, Disks, Halves

(* pwrite.                                                                 *)
LEMMA PwriteType ==
    ASSUME NEW d \in Disks, NEW f \in Files, NEW from \in Int, NEW n \in Nat, NEW x \in Data(n)
    PROVE  pwrite(d, f, from, x) \in Disks
<1> DEFINE g == [c \in Cells |-> IF c - from + 1 \in DOMAIN x THEN x[c - from + 1] ELSE d[f][c]]
<1>1. g \in [Cells -> Halves]
  BY DEF Data, Disks
<1>2. pwrite(d, f, from, x) = [d EXCEPT ![f] = g]
  BY DEF pwrite, Disks
<1> HIDE DEF g
<1> QED
  BY <1>1, <1>2 DEF Disks

(* strncpy.                                                                *)
LEMMA StrncpyType ==
    ASSUME NEW n \in Nat, NEW x \in Data(n)
    PROVE  strncpy(x) \in Data(n)
  BY DEF strncpy, Data, Halves

(* Data is a sequence.                                                     *)
LEMMA DataIsSeq ==
    ASSUME NEW n \in Nat, NEW x \in Data(n)
    PROVE  x \in Seq(Halves) /\ Len(x) = n
<1>1. x \in Seq(Halves)
  BY SeqDef DEF Data
<1>2. DOMAIN x = 1 .. n
  BY DEF Data
<1> QED
  BY <1>1, <1>2, LenProperties

(* sprintf("%s%s").                                                        *)
LEMMA ConcatType ==
    ASSUME NEW x \in Data(CHUNK), NEW y \in Data(CHUNK)
    PROVE  Concat(x, y) \in Data(2 * CHUNK)
<1>1. ASSUME NEW z \in Data(CHUNK) PROVE Text(z) \in Seq(Halves)
  <2> DEFINE K == {n \in 0 .. Len(z) : \A j \in 1 .. n : z[j] # NUL}
  <2>1. Len(z) = CHUNK /\ CHUNK \in Nat /\ z \in Seq(Halves)
    BY DataIsSeq DEF CHUNK
  <2>2. K \in SUBSET (0 .. CHUNK) /\ 0 \in K
    BY <2>1
  <2>3. Max(K) \in 0 .. CHUNK
    BY <2>1, <2>2, Extremes
  <2>4. strlen(z) = Max(K)
    BY DEF strlen
  <2> HIDE DEF K
  <2>5. strlen(z) \in Int /\ \A j \in 1 .. strlen(z) : z[j] \in Halves
    BY <2>1, <2>3, <2>4 DEF Data
  <2> QED
    BY <2>5, SubSeqProperties DEF Text
<1>2. PICK t \in Seq(Halves) : t = Text(x) \o Text(y)
  <2>1. Text(x) \in Seq(Halves) /\ Text(y) \in Seq(Halves)
    BY <1>1
  <2> QED
    BY <2>1, ConcatProperties
<1>3. Concat(x, y) = [k \in 1 .. 2 * CHUNK |-> IF k \in DOMAIN t THEN t[k] ELSE NUL]
  BY <1>2 DEF Concat, Pad
<1>4. \A k \in DOMAIN t : t[k] \in Halves
  BY <1>2
<1> QED
  BY <1>3, <1>4 DEF Data, Halves

(* memcpy into a buffer.                                                   *)
LEMMA OverlayType ==
    ASSUME NEW n \in Nat, NEW m \in Nat, NEW x \in Data(n), NEW at \in Nat, NEW y \in Data(m)
    PROVE  Overlay(x, at, y) \in Data(n)
  BY DEF Overlay, Data

(* One chunk of two.                                                       *)
LEMMA SliceType ==
    ASSUME NEW x \in Data(2 * CHUNK), NEW at \in 0 .. CHUNK
    PROVE  Slice(x, at) \in Data(CHUNK)
<1>1. /\ Slice(x, at) \in Seq(Halves)
      /\ Len(Slice(x, at)) = CHUNK
  <2>1. \A k \in at + 1 .. at + CHUNK : x[k] \in Halves
    BY DEF Data, CHUNK
  <2> QED
    BY <2>1, SubSeqProperties DEF Slice, CHUNK
<1> QED
  BY <1>1 DEF Data

(* A text is a chunk.                                                      *)
LEMMA TextIsData == Texts \subseteq Data(CHUNK)
  BY CacheConstants DEF Data, Halves

(* The beginning of a text.                                                *)
LEMMA TextStart ==
    ASSUME NEW v \in Texts, NEW n \in 1 .. CHUNK
    PROVE  SubSeq(v, 1, n) \in Data(n)
<1>1. v \in Data(CHUNK) /\ CHUNK \in Nat /\ n \in Nat
  BY TextIsData DEF CHUNK
<1>2. v \in Seq(Halves) /\ Len(v) = CHUNK
  BY <1>1, DataIsSeq
<1>3. SubSeq(v, 1, n) \in Seq(Halves) /\ Len(SubSeq(v, 1, n)) = n
  BY <1>1, <1>2, SubSeqProperties
<1>4. PICK w \in Seq(Halves) : w = SubSeq(v, 1, n) /\ Len(w) = n
  BY <1>3
<1>5. w \in [1 .. n -> Halves]
  BY <1>4, LenProperties
<1> QED
  BY <1>4, <1>5 DEF Data

(* Offsets and places in a chunk.                                          *)
LEMMA OffsetTypes ==
    ASSUME NEW o \in Offsets
    PROVE  o \in Int /\ refinedOffset(o) \in 0 .. CHUNK /\ Base(o) \in Int /\ Base(o) + CHUNK \in Int
  BY CacheConstants DEF Cells, refinedOffset, Base, CHUNK

(* bb_release.                                                             *)
LEMMA FlushType ==
    ASSUME NEW d \in Disks, NEW f \in Files, NEW l \in Seq(Buffers)
    PROVE  Flush(d, f, l) \in Disks
<1> DEFINE over(c) == {k \in DOMAIN l : l[k].dirty = 1 /\ c \in l[k].from .. To(l[k]) - 1}
           g == [c \in Cells |-> IF over(c) = {} THEN d[f][c]
                                 ELSE l[Max(over(c))].buf[c - l[Max(over(c))].from + 1]]
<1>1. ASSUME NEW c \in Cells, over(c) # {}
      PROVE  l[Max(over(c))].buf[c - l[Max(over(c))].from + 1] \in Halves
  <2>1. over(c) \in SUBSET (0 .. Len(l)) /\ Len(l) \in Nat
    OBVIOUS
  <2>2. PICK k \in DOMAIN l : k = Max(over(c)) /\ c \in l[k].from .. To(l[k]) - 1
    <3>1. Max(over(c)) \in over(c)
      BY <1>1, <2>1, Extremes
    <3> QED
      BY <3>1
  <2>3. l[k].from \in Int /\ l[k].buf \in Data(CHUNK)
    <3>1. l[k] \in Buffers
      OBVIOUS
    <3> QED
      BY <3>1 DEF Buffers, Data
  <2>4. c \in Int /\ c - l[k].from + 1 \in 1 .. CHUNK
    BY <2>2, <2>3 DEF Cells, To, CHUNK
  <2> QED
    BY <2>2, <2>3, <2>4 DEF Data
<1>2. g \in [Cells -> Halves]
  BY <1>1 DEF Disks
<1>3. Flush(d, f, l) = [d EXCEPT ![f] = g]
  BY DEF Flush
<1> HIDE DEF g
<1> QED
  BY <1>2, <1>3 DEF Disks

(* bb_truncate.                                                            *)
LEMMA CutType ==
    ASSUME NEW d \in Disks, NEW f \in Files, NEW n
    PROVE  Cut(d, f, n) \in Disks
<1> DEFINE g == [c \in Cells |-> IF c < n THEN d[f][c] ELSE NUL]
<1>1. g \in [Cells -> Halves]
  BY DEF Disks, Halves
<1>2. Cut(d, f, n) = [d EXCEPT ![f] = g]
  BY DEF Cut, Disks
<1> HIDE DEF g
<1> QED
  BY <1>1, <1>2 DEF Disks
----------------------------------------------------------------------------
(* addFileBuffer                                                           *)

CacheRecs == [list : Seq(Buffers), disk : Disks, count : Int, freed : Nat]

\* The list holds a chunk of f at from.
Holds(l, f, from) == \E j \in DOMAIN l : l[j].fd = f /\ l[j].from = from

\* An eviction leaves room and takes nothing but its victim.
Evicted(s, e) ==
    /\ e \in CacheRecs /\ e.count = Len(e.list) /\ e.count < MAX_LIST_SIZE
    /\ \A f, from : Holds(e.list, f, from) => Holds(s.list, f, from)
    /\ OneCopy(s.list) => OneCopy(e.list)
    /\ conf = 2 /\ MAX_LIST_SIZE > 1 => e.freed # 1

(* A list that lost one buffer.                                            *)
LEMMA RemoveKeeps ==
    ASSUME NEW l \in Seq(Buffers), NEW i \in 1 .. Len(l)
    PROVE  /\ RemoveAt(l, i) \in Seq(Buffers) /\ Len(RemoveAt(l, i)) = Len(l) - 1
           /\ OneCopy(l) => OneCopy(RemoveAt(l, i))
           /\ \A f, from : Holds(RemoveAt(l, i), f, from) => Holds(l, f, from)
<1> DEFINE r == RemoveAt(l, i)
           p == [k \in 1 .. Len(l) - 1 |-> IF k < i THEN k ELSE k + 1]
<1>1. Len(l) \in Nat /\ DOMAIN l = 1 .. Len(l)
  OBVIOUS
<1>2. /\ r \in Seq(Buffers) /\ Len(r) = Len(l) - 1
      /\ \A k \in 1 .. Len(l) - 1 : r[k] = IF k < i THEN l[k] ELSE l[k + 1]
  BY RemoveAtPlaces
<1> HIDE DEF r
<1>3. DOMAIN r = 1 .. Len(l) - 1
  BY <1>2
<1>4. ASSUME NEW k \in 1 .. Len(l) - 1 PROVE p[k] \in 1 .. Len(l) /\ r[k] = l[p[k]]
  BY <1>1, <1>2
<1>5. ASSUME NEW j \in 1 .. Len(l) - 1, NEW k \in 1 .. Len(l) - 1, p[j] = p[k] PROVE j = k
  BY <1>1, <1>5
<1> HIDE DEF p
<1>6. OneCopy(l) => OneCopy(r)
  <2>1. SUFFICES ASSUME OneCopy(l), NEW j \in 1 .. Len(l) - 1, NEW k \in 1 .. Len(l) - 1,
                        r[j].fd = r[k].fd, r[j].from = r[k].from
                 PROVE  j = k
    BY <1>3 DEF OneCopy
  <2>2. p[j] \in DOMAIN l /\ p[k] \in DOMAIN l /\ r[j] = l[p[j]] /\ r[k] = l[p[k]]
    BY <1>1, <1>4
  <2>3. p[j] = p[k]
    BY <2>1, <2>2, Zenon DEF OneCopy
  <2> QED
    BY <2>3, <1>5
<1>7. \A f, from : Holds(r, f, from) => Holds(l, f, from)
  BY <1>1, <1>3, <1>4 DEF Holds
<1> QED
  BY <1>2, <1>6, <1>7 DEF r

(* A dirty victim is written to its file.                                  *)
LEMMA WriteBackType ==
    ASSUME NEW d \in Disks, NEW b \in Buffers
    PROVE  WriteBack(d, b) \in Disks
<1>1. b.fd \in Files /\ b.from \in Int /\ b.buf \in Data(CHUNK) /\ CHUNK \in Nat
  BY DEF Buffers, Data, CHUNK
<1> QED
  BY <1>1, PwriteType DEF WriteBack

(* The part of addFileBuffer that makes room.                              *)
LEMMA EvictionsKeep ==
    ASSUME NEW s \in CacheRecs, Fits(s.list, s.disk, s.count), NEW e \in Evictions(s)
    PROVE  Evicted(s, e)
<1>1. /\ s.list \in Seq(Buffers) /\ s.disk \in Disks /\ s.count = Len(s.list) /\ s.count <= MAX_LIST_SIZE
      /\ MAX_LIST_SIZE \in Nat \ {0} /\ Len(s.list) \in Nat
  BY CacheConstants DEF Fits
<1>2. CASE Full(s.count)
  <2>1. s.count = MAX_LIST_SIZE
    BY <1>1, <1>2 DEF Full
  <2>2. PICK k \in Victims(s.list) :
           e = [list |-> RemoveAt(s.list, k), disk |-> WriteBack(s.disk, s.list[k]),
                count |-> s.count - 1, freed |-> k]
    BY <1>2 DEF Evictions
  <2>3. k \in 1 .. Len(s.list) /\ (conf = 2 => k = Len(s.list))
    <3>1. DOMAIN s.list = 1 .. Len(s.list) /\ Len(s.list) \in 1 .. Len(s.list)
      <4>1. Len(s.list) \in Nat \ {0}
        BY <1>1, <2>1
      <4>2. Len(s.list) \in 1 .. Len(s.list)
        BY <4>1
      <4> QED
        BY <4>2, <1>1, LenProperties
    <3>2. k \in DOMAIN s.list \/ k = Len(s.list)
      BY DEF Victims
    <3>3. conf = 2 => k = Len(s.list)
      BY DEF Victims
    <3> QED
      BY <3>1, <3>2, <3>3
  <2>4. /\ RemoveAt(s.list, k) \in Seq(Buffers) /\ Len(RemoveAt(s.list, k)) = Len(s.list) - 1
        /\ OneCopy(s.list) => OneCopy(RemoveAt(s.list, k))
        /\ \A f, from : Holds(RemoveAt(s.list, k), f, from) => Holds(s.list, f, from)
    BY <1>1, <2>3, RemoveKeeps
  <2>5. s.list[k] \in Buffers
    BY <1>1, <2>3
  <2>6. WriteBack(s.disk, s.list[k]) \in Disks
    BY <1>1, <2>5, WriteBackType
  <2>7. e \in CacheRecs
    BY <1>1, <2>2, <2>3, <2>4, <2>6 DEF CacheRecs
  <2>8. e.list = RemoveAt(s.list, k) /\ e.count = s.count - 1 /\ e.freed = k
    BY <2>2
  <2>9. e.count = Len(e.list) /\ e.count < MAX_LIST_SIZE
    BY <1>1, <2>1, <2>4, <2>8
  <2>10. conf = 2 /\ MAX_LIST_SIZE > 1 => e.freed # 1
    BY <1>1, <2>1, <2>3, <2>8
  <2> QED
    BY <2>4, <2>7, <2>8, <2>9, <2>10 DEF Evicted
<1>3. CASE ~ Full(s.count)
  <2>1. e = [s EXCEPT !.freed = 0]
    BY <1>3 DEF Evictions
  <2>2. e \in CacheRecs /\ e.list = s.list /\ e.count = s.count /\ e.freed = 0
    BY <2>1 DEF CacheRecs
  <2>3. e.count < MAX_LIST_SIZE
    BY <1>1, <1>3, <2>2 DEF Full
  <2> QED
    BY <1>1, <2>2, <2>3 DEF Evicted
<1> QED
  BY <1>2, <1>3

\* What addFileBuffer(s, f, from, data) makes of the cache s.
Added(s, r, f, from) ==
    /\ r \in CacheRecs /\ Fits(r.list, r.disk, r.count)
    /\ \A g, at : Holds(r.list, g, at) => (g = f /\ at = from) \/ Holds(s.list, g, at)
    /\ OneCopy(s.list) /\ ~ Holds(s.list, f, from) => OneCopy(r.list)
    /\ conf = 2 /\ MAX_LIST_SIZE > 1 => r.freed # 1

(* addFileBuffer adds one clean buffer and never passes the limit; a chunk *)
(* that was not there does not get a second copy.                          *)
LEMMA AddKeeps ==
    ASSUME NEW s \in CacheRecs, Fits(s.list, s.disk, s.count),
           NEW f \in Files, NEW from \in Int, NEW x \in Data(CHUNK),
           NEW r \in addFileBuffer(s, f, from, x)
    PROVE  Added(s, r, f, from)
<1> DEFINE b == [fd |-> f, from |-> from, dirty |-> 0, buf |-> x]
<1>1. PICK e \in Evictions(s) : r = [e EXCEPT !.list = <<b>> \o e.list, !.count = e.count + 1]
  BY DEF addFileBuffer
<1>2. Evicted(s, e)
  BY EvictionsKeep
<1>3. e \in CacheRecs /\ e.list \in Seq(Buffers) /\ e.count = Len(e.list) /\ e.count < MAX_LIST_SIZE
  BY <1>2 DEF Evicted, CacheRecs
<1>4. b \in Buffers /\ b.fd = f /\ b.from = from
  BY DEF Buffers, Data
<1> HIDE DEF b
<1>5. PICK l : l = <<b>> \o e.list
  OBVIOUS
<1>6. /\ l \in Seq(Buffers) /\ Len(l) = Len(e.list) + 1 /\ l[1] = b
      /\ \A k \in 2 .. Len(e.list) + 1 : l[k] = e.list[k - 1]
  BY <1>3, <1>4, <1>5, PutInFront
<1>7. r \in CacheRecs /\ r.list = l /\ r.count = e.count + 1 /\ r.disk = e.disk /\ r.freed = e.freed
  <2>1. e.disk \in Disks /\ e.freed \in Nat /\ e.count + 1 \in Int
    BY <1>3 DEF CacheRecs
  <2>2. r = [list |-> l, disk |-> e.disk, count |-> e.count + 1, freed |-> e.freed]
    BY <1>1, <1>3, <1>5 DEF CacheRecs
  <2> QED
    BY <1>6, <2>1, <2>2 DEF CacheRecs
<1>8. Fits(r.list, r.disk, r.count)
  <2>1. r.disk \in Disks /\ MAX_LIST_SIZE \in Nat
    BY <1>7, CacheConstants DEF CacheRecs
  <2> QED
    BY <2>1, <1>3, <1>6, <1>7 DEF Fits
<1>9. DOMAIN l = 1 .. Len(e.list) + 1 /\ DOMAIN e.list = 1 .. Len(e.list) /\ Len(e.list) \in Nat
  BY <1>3, <1>6
<1>10. ASSUME NEW k \in DOMAIN l PROVE k = 1 \/ (k - 1 \in DOMAIN e.list /\ l[k] = e.list[k - 1])
  BY <1>6, <1>9
<1>11. ASSUME NEW g, NEW at, Holds(l, g, at) PROVE (g = f /\ at = from) \/ Holds(e.list, g, at)
  <2>1. PICK k \in DOMAIN l : l[k].fd = g /\ l[k].from = at
    BY <1>11 DEF Holds
  <2> QED
    BY <2>1, <1>4, <1>6, <1>10 DEF Holds
<1>12. OneCopy(e.list) /\ ~ Holds(e.list, f, from) => OneCopy(l)
  <2>1. SUFFICES ASSUME OneCopy(e.list), ~ Holds(e.list, f, from), NEW j \in DOMAIN l, NEW k \in DOMAIN l,
                        l[j].fd = l[k].fd, l[j].from = l[k].from
                 PROVE  j = k
    BY DEF OneCopy
  <2>2. CASE j = 1 /\ k = 1
    BY <2>2
  <2>3. CASE j # 1 /\ k # 1
    <3>1. j - 1 = k - 1
      BY <2>1, <2>3, <1>10 DEF OneCopy
    <3> QED
      BY <3>1, <1>9
  <2>4. CASE j = 1 /\ k # 1
    BY <2>1, <2>4, <1>4, <1>6, <1>10 DEF Holds
  <2>5. CASE j # 1 /\ k = 1
    BY <2>1, <2>5, <1>4, <1>6, <1>10 DEF Holds
  <2> QED
    BY <2>2, <2>3, <2>4, <2>5
<1>13. \A g, at : Holds(l, g, at) => (g = f /\ at = from) \/ Holds(s.list, g, at)
  BY <1>2, <1>11 DEF Evicted
<1>14. OneCopy(s.list) /\ ~ Holds(s.list, f, from) => OneCopy(l)
  BY <1>2, <1>12 DEF Evicted
<1> QED
  BY <1>2, <1>7, <1>8, <1>13, <1>14 DEF Added, Evicted

(* A request that adds one chunk, after it moved or changed buffers.       *)
LEMMA AddOne ==
    ASSUME Fits(list, disk, bufferCount), NEW l, Rearranged(list, l),
           NEW f \in Files, NEW from \in Int, NEW x \in Data(CHUNK),
           NEW r \in addFileBuffer(Cache(l), f, from, x), Becomes(r)
    PROVE  /\ Fits(list, disk, bufferCount)'
           /\ OneCopy(list) /\ ~ Holds(list, f, from) => OneCopy(list')
           /\ conf = 2 /\ MAX_LIST_SIZE > 1 => r.freed # 1
<1> DEFINE s == Cache(l)
<1>1. /\ s \in CacheRecs /\ s.list = l /\ s.disk = disk /\ s.count = bufferCount
      /\ Fits(s.list, s.disk, s.count)
  <2>1. /\ l \in Seq(Buffers) /\ disk \in Disks /\ bufferCount \in Int
        /\ bufferCount = Len(l) /\ bufferCount <= MAX_LIST_SIZE
    BY DEF Fits, Rearranged
  <2>2. s = [list |-> l, disk |-> disk, count |-> bufferCount, freed |-> 0]
    BY DEF Cache
  <2> HIDE DEF s
  <2> QED
    BY <2>1, <2>2 DEF CacheRecs, Fits
<1> HIDE DEF s
<1>2. PICK c \in CacheRecs : c = s
  BY <1>1
<1>3. r \in addFileBuffer(c, f, from, x) /\ Fits(c.list, c.disk, c.count)
  BY <1>1, <1>2 DEF s
<1>4. Added(c, r, f, from)
  BY <1>3, AddKeeps
<1>5. Fits(list, disk, bufferCount)'
  BY <1>4 DEF Added, Becomes, Fits
<1>6. Holds(l, f, from) => Holds(list, f, from)
  BY DEF Holds, Rearranged
<1>7. OneCopy(list) => OneCopy(l)
  BY DEF Rearranged
<1>8. OneCopy(l) /\ ~ Holds(l, f, from) => OneCopy(list')
  BY <1>1, <1>2, <1>4 DEF Added, Becomes
<1> QED
  BY <1>4, <1>5, <1>6, <1>7, <1>8 DEF Added

(* A miss that straddles two chunks adds both of them.                     *)
LEMMA AddTwo ==
    ASSUME Fits(list, disk, bufferCount), NEW f \in Files, NEW from \in Int, NEW at \in Int, at # from,
           NEW x \in Data(CHUNK), NEW y \in Data(CHUNK),
           NEW s \in addFileBuffer(Cache(list), f, from, x),
           NEW r \in addFileBuffer(s, f, at, y), Becomes(r)
    PROVE  /\ Fits(list, disk, bufferCount)'
           /\ OneCopy(list) /\ ~ Holds(list, f, from) /\ ~ Holds(list, f, at) => OneCopy(list')
<1>1. PICK c : c = Cache(list)
  OBVIOUS
<1>2. /\ c \in CacheRecs /\ c.list = list /\ Fits(c.list, c.disk, c.count)
  <2>1. /\ list \in Seq(Buffers) /\ disk \in Disks /\ bufferCount \in Int
    BY DEF Fits
  <2>2. c = [list |-> list, disk |-> disk, count |-> bufferCount, freed |-> 0]
    BY <1>1 DEF Cache
  <2>3. c.list = list /\ c.disk = disk /\ c.count = bufferCount /\ c \in CacheRecs
    BY <2>1, <2>2 DEF CacheRecs
  <2> QED
    BY <2>3
<1>3. s \in addFileBuffer(c, f, from, x)
  BY <1>1
<1>4. Added(c, s, f, from)
  BY <1>2, <1>3, AddKeeps
<1>5. s \in CacheRecs /\ Fits(s.list, s.disk, s.count)
  BY <1>4 DEF Added
<1>6. Added(s, r, f, at)
  BY <1>5, AddKeeps
<1>7. Fits(list, disk, bufferCount)'
  BY <1>6 DEF Added, Becomes, Fits
<1>8. Holds(s.list, f, at) => Holds(list, f, at)
  BY <1>2, <1>4 DEF Added
<1>9. OneCopy(list) /\ ~ Holds(list, f, from) => OneCopy(s.list)
  BY <1>2, <1>4 DEF Added
<1>10. OneCopy(s.list) /\ ~ Holds(s.list, f, at) => OneCopy(list')
  BY <1>6 DEF Added, Becomes
<1> QED
  BY <1>7, <1>8, <1>9, <1>10

----------------------------------------------------------------------------
(* bufferHitCheck                                                          *)

(* What the search finds: a chunk at the offset, half a chunk before it,   *)
(* or half a chunk after it.                                               *)
LEMMA Parts ==
    ASSUME list \in Seq(Buffers), NEW f \in Files, NEW o \in Offsets
    PROVE  /\ PerfectAt(f, o) = {k \in DOMAIN list : list[k].fd = f /\ list[k].from = o}
           /\ FirstAt(f, o) = {k \in DOMAIN list : list[k].fd = f /\ list[k].from = o - 1}
           /\ SecondAt(f, o) = {k \in DOMAIN list : list[k].fd = f /\ list[k].from = o + 1}
<1>1. o \in Int
  BY OffsetTypes
<1>2. ASSUME NEW k \in DOMAIN list PROVE list[k].from \in Int
  <2>1. list[k] \in Buffers
    OBVIOUS
  <2> QED
    BY <2>1 DEF Buffers
<1>3. ASSUME NEW k \in DOMAIN list
      PROVE  /\ list[k].from < o /\ o < To(list[k]) <=> list[k].from = o - 1
             /\ list[k].from < o + CHUNK /\ o + CHUNK < To(list[k]) <=> list[k].from = o + 1
  BY <1>1, <1>2 DEF To, CHUNK
<1> QED
  BY <1>3 DEF PerfectAt, FirstAt, SecondAt

(* What each outcome of bufferHitCheck says about the list.                *)
LEMMA HitFacts ==
    ASSUME list \in Seq(Buffers), NEW f \in Files, NEW o \in Offsets
    PROVE  /\ Hit(f, o) = "PERFECT_HIT" => PerfectAt(f, o) # {}
           /\ Hit(f, o) = "PARTIAL_HIT" => FirstAt(f, o) # {} /\ SecondAt(f, o) # {}
           /\ Hit(f, o) = "FIRST_OK" => FirstAt(f, o) # {} /\ ~ Holds(list, f, o + 1)
           /\ Hit(f, o) = "SECOND_OK" => SecondAt(f, o) # {} /\ ~ Holds(list, f, o - 1)
           /\ Hit(f, o) = "PERFECT_MISS" => /\ ~ Holds(list, f, o) /\ ~ Holds(list, f, o - 1)
                                           /\ ~ Holds(list, f, o + 1)
<1>1. /\ PerfectAt(f, o) = {} => ~ Holds(list, f, o)
      /\ FirstAt(f, o) = {} => ~ Holds(list, f, o - 1)
      /\ SecondAt(f, o) = {} => ~ Holds(list, f, o + 1)
  BY Parts DEF Holds
<1> QED
  BY <1>1 DEF Hit

\* The list l with the buffer of f at from in front.
InFront(l, f, from) ==
    /\ Rearranged(list, l) /\ l \in Seq(Buffers) /\ l # << >>
    /\ l[1] \in Buffers /\ Head(l) = l[1] /\ l[1].fd = f /\ l[1].from = from

(* The buffer that a search finds is moved to the front.                   *)
LEMMA Moved ==
    ASSUME list \in Seq(Buffers), NEW f \in Files, NEW from \in Int,
           NEW i \in DOMAIN list, list[i].fd = f, list[i].from = from
    PROVE  InFront(list_move(list, i), f, from)
<1>1. PICK l : l = list_move(list, i)
  OBVIOUS
<1>2. Rearranged(list, l) /\ l[1] = list[i]
  BY <1>1, MoveKeeps
<1>3. l \in Seq(Buffers) /\ Len(l) = Len(list)
  BY <1>2 DEF Rearranged
<1>4. list[i] \in Buffers /\ Len(list) # 0
  OBVIOUS
<1>5. l # << >>
  BY <1>3, <1>4
<1>6. Head(l) = l[1]
  BY <1>3, <1>5, HeadTailProperties
<1> QED
  BY <1>1, <1>2, <1>3, <1>4, <1>5, <1>6 DEF InFront

(* The three buffers that bufferHitCheck may return.                       *)
LEMMA Found ==
    ASSUME list \in Seq(Buffers), NEW f \in Files, NEW o \in Offsets
    PROVE  /\ PerfectAt(f, o) # {} => InFront(Perfect(f, o), f, o)
           /\ FirstAt(f, o) # {} => InFront(FirstUp(f, o), f, o - 1)
           /\ SecondAt(f, o) # {} => InFront(SecondUp(f, o), f, o + 1)
<1>1. o \in Int /\ o - 1 \in Int /\ o + 1 \in Int /\ Len(list) \in Nat
  BY OffsetTypes
<1>2. ASSUME NEW K \in SUBSET DOMAIN list, K # {} PROVE Min(K) \in K /\ Max(K) \in K
  <2>1. K \in SUBSET (0 .. Len(list))
    OBVIOUS
  <2> QED
    BY <1>1, <1>2, <2>1, Extremes
<1>3. ASSUME PerfectAt(f, o) # {} PROVE InFront(Perfect(f, o), f, o)
  <2>1. PICK i : i = Min(PerfectAt(f, o))
    OBVIOUS
  <2>2. i \in DOMAIN list /\ list[i].fd = f /\ list[i].from = o
    BY <2>1, <1>2, <1>3, Parts
  <2> QED
    BY <1>1, <2>1, <2>2, Moved DEF Perfect
<1>4. ASSUME FirstAt(f, o) # {} PROVE InFront(FirstUp(f, o), f, o - 1)
  <2>1. PICK i : i = Max(FirstAt(f, o))
    OBVIOUS
  <2>2. i \in DOMAIN list /\ list[i].fd = f /\ list[i].from = o - 1
    BY <2>1, <1>2, <1>4, Parts
  <2> QED
    BY <1>1, <2>1, <2>2, Moved DEF FirstUp
<1>5. ASSUME SecondAt(f, o) # {} PROVE InFront(SecondUp(f, o), f, o + 1)
  <2>1. PICK i : i = Max(SecondAt(f, o))
    OBVIOUS
  <2>2. i \in DOMAIN list /\ list[i].fd = f /\ list[i].from = o + 1
    BY <2>1, <1>2, <1>5, Parts
  <2> QED
    BY <1>1, <2>1, <2>2, Moved DEF SecondUp
<1> QED
  BY <1>3, <1>4, <1>5

(* Both parts are found: they end up in front, in their order.             *)
LEMMA BothFound ==
    ASSUME list \in Seq(Buffers), NEW f \in Files, NEW o \in Offsets,
           FirstAt(f, o) # {}, SecondAt(f, o) # {}
    PROVE  /\ Rearranged(list, BothUp(f, o)) /\ BothUp(f, o) \in Seq(Buffers)
           /\ Len(BothUp(f, o)) >= 2
           /\ BothUp(f, o)[1] \in Buffers /\ BothUp(f, o)[2] \in Buffers
<1>1. o \in Int /\ Len(list) \in Nat /\ DOMAIN list = 1 .. Len(list)
  BY OffsetTypes
<1>2. ASSUME NEW K \in SUBSET DOMAIN list, K # {} PROVE Max(K) \in K
  <2>1. K \in SUBSET (0 .. Len(list))
    OBVIOUS
  <2> QED
    BY <1>1, <1>2, <2>1, Extremes
<1>3. PICK i \in DOMAIN list : i = Max(FirstAt(f, o)) /\ list[i].from = o - 1
  BY <1>2, Parts
<1>4. PICK j \in DOMAIN list : j = Max(SecondAt(f, o)) /\ list[j].from = o + 1
  BY <1>2, Parts
<1>5. i # j /\ i \in 1 .. Len(list) /\ j \in 1 .. Len(list)
  BY <1>1, <1>3, <1>4
<1>6. PICK m : m = list_move(list, j)
  OBVIOUS
<1>7. Rearranged(list, m) /\ m[1] = list[j]
  BY <1>6, MoveKeeps
<1>8. m \in Seq(Buffers) /\ Len(m) = Len(list) /\ DOMAIN m = 1 .. Len(list)
  <2>1. m \in Seq(Buffers) /\ Len(m) = Len(list)
    BY <1>7 DEF Rearranged
  <2> QED
    BY <2>1
<1>9. PICK p : p = IF i < j THEN i + 1 ELSE i
  OBVIOUS
<1>10. p \in DOMAIN m /\ p \in 2 .. Len(list)
  BY <1>1, <1>5, <1>8, <1>9
<1>11. PICK n : n = list_move(m, p)
  OBVIOUS
<1>12. /\ Rearranged(m, n) /\ n[1] = m[p]
       /\ \A k \in 2 .. Len(m) : n[k] = IF k <= p THEN m[k - 1] ELSE m[k]
  BY <1>8, <1>10, <1>11, MoveKeeps
<1>13. n \in Seq(Buffers) /\ Len(n) = Len(list)
  BY <1>8, <1>12 DEF Rearranged
<1>14. Rearranged(list, n)
  BY <1>7, <1>8, <1>12, <1>13, RearrangedTwice
<1>15. Len(n) >= 2
  BY <1>1, <1>10, <1>13
<1>16. n[1] \in Buffers /\ n[2] \in Buffers
  BY <1>13, <1>15
<1>17. BothUp(f, o) = n
  BY <1>3, <1>4, <1>6, <1>9, <1>11 DEF BothUp
<1> QED
  BY <1>13, <1>14, <1>15, <1>16, <1>17

(* The first two buffers of a list get other contents.                     *)
LEMMA StoreTwo ==
    ASSUME NEW l \in Seq(Buffers), Len(l) >= 2, NEW x \in Buffers, NEW y \in Buffers,
           x.fd = l[1].fd, x.from = l[1].from, y.fd = l[2].fd, y.from = l[2].from
    PROVE  Rearranged(l, <<x, y>> \o SubSeq(l, 3, Len(l)))
<1>1. Len(l) \in Nat /\ DOMAIN l = 1 .. Len(l)
  OBVIOUS
<1>2. PICK t : t = SubSeq(l, 3, Len(l))
  OBVIOUS
<1>3. /\ t \in Seq(Buffers) /\ Len(t) = Len(l) - 2
      /\ \A k \in 1 .. Len(l) - 2 : t[k] = l[k + 2]
  <2>1. \A k \in 3 .. Len(l) : l[k] \in Buffers
    BY <1>1
  <2>2. t \in Seq(Buffers)
    BY <2>1, <1>1, <1>2, SubSeqProperties
  <2>3. Len(t) = Len(l) - 2
    BY <1>1, <1>2, SubSeqProperties
  <2>4. ASSUME NEW k \in 1 .. Len(l) - 2 PROVE t[k] = l[k + 2]
    <3>1. k \in 1 .. Len(l) - 3 + 1 /\ 3 + k - 1 = k + 2
      BY <1>1
    <3>2. t[k] = l[3 + k - 1]
      BY <1>1, <1>2, <3>1, SubSeqProperties
    <3> QED
      BY <3>1, <3>2
  <2> QED
    BY <2>2, <2>3, <2>4
<1>4. PICK h : h = <<x, y>>
  OBVIOUS
<1>5. h \in Seq(Buffers) /\ Len(h) = 2 /\ h[1] = x /\ h[2] = y
  BY <1>4
<1>6. PICK m : m = h \o t
  OBVIOUS
<1>7. /\ m \in Seq(Buffers) /\ Len(m) = Len(h) + Len(t)
      /\ \A k \in 1 .. Len(h) + Len(t) : m[k] = IF k <= Len(h) THEN h[k] ELSE t[k - Len(h)]
  <2>1. h \in Seq(Buffers) /\ t \in Seq(Buffers)
    BY <1>3, <1>5
  <2> QED
    BY <2>1, <1>6, ConcatProperties
<1>8. Len(m) = Len(l) /\ DOMAIN m = 1 .. Len(l)
  BY <1>1, <1>3, <1>5, <1>7
<1>9. ASSUME NEW k \in 1 .. Len(l) PROVE m[k].fd = l[k].fd /\ m[k].from = l[k].from
  <2>1. k \in 1 .. Len(h) + Len(t)
    BY <1>1, <1>3, <1>5
  <2>2. m[k] = IF k <= 2 THEN h[k] ELSE t[k - 2]
    BY <2>1, <1>5, <1>7
  <2>3. CASE k = 1
    BY <2>2, <2>3, <1>5
  <2>4. CASE k = 2
    BY <2>2, <2>4, <1>5
  <2>5. CASE k > 2
    <3>1. k - 2 \in 1 .. Len(l) - 2 /\ (k - 2) + 2 = k
      BY <1>1, <2>5
    <3>2. t[k - 2] = l[(k - 2) + 2]
      BY <1>3, <3>1
    <3> QED
      BY <2>2, <2>5, <3>1, <3>2
  <2> QED
    BY <1>1, <2>3, <2>4, <2>5
<1>10. OneCopy(l) => OneCopy(m)
  BY <1>1, <1>8, <1>9 DEF OneCopy
<1>11. Rearranged(l, m)
  BY <1>1, <1>7, <1>8, <1>9, <1>10 DEF Rearranged
<1> QED
  BY <1>2, <1>4, <1>6, <1>11

----------------------------------------------------------------------------
(* What the operations return                                              *)

(* A read that returns half chunks returns no freed memory.                *)
LEMMA ReadIsSafe ==
    ASSUME NEW f, NEW o, NEW n, NEW x, Returned(f, o, x), cachePolicy' = conf,
           conf = 2 /\ MAX_LIST_SIZE > 1 => x \in Data(n)
    PROVE  SafeRead'
<1>1. op'.data = x
  BY DEF Returned
<1>2. x \in Data(n) => \A k \in DOMAIN x : x[k] # Junk
  BY CacheConstants DEF Data, Halves
<1> QED
  BY <1>1, <1>2 DEF SafeRead, NoUseAfterFree

(* Operations other than reads return no data.                             *)
LEMMA OtherIsSafe ==
    ASSUME op'.kind # "read" PROVE SafeRead'
  BY DEF SafeRead, NoUseAfterFree

(* The buffer of a read that found one part.                               *)
LEMMA KeptType ==
    ASSUME NEW s, NEW b \in Buffers, s.freed # 1
    PROVE  Kept(s, b) \in Data(CHUNK)
  BY DEF Kept, Buffers, Data

----------------------------------------------------------------------------
(* bb_read                                                                 *)

(* What a request that the cache serves starts from.                       *)
LEMMA RequestFacts ==
    ASSUME CacheInv, NEW f \in Files, NEW o, NEW type, CachedRequest(f, o, type)
    PROVE  /\ o \in Offsets /\ o \in Int /\ refinedOffset(o) \in 0 .. CHUNK /\ CHUNK \in Nat
           /\ cachePolicy' = conf /\ Hit(f, o) = type
           /\ list \in Seq(Buffers) /\ disk \in Disks /\ Fits(list, disk, bufferCount)
<1>1. o \in Offsets
  BY DEF CachedRequest, Request
<1> QED
  BY <1>1, OffsetTypes DEF CachedRequest, Request, CacheInv, Fits, CHUNK

(* A perfect hit.                                                          *)
LEMMA ReadPerfectHitKeeps ==
    ASSUME CacheInv, NEW f \in Files, NEW o, ReadPerfectHit(f, o) PROVE Keeps
<1>1. CachedRequest(f, o, "PERFECT_HIT")
  BY DEF ReadPerfectHit
<1>2. o \in Offsets /\ cachePolicy' = conf /\ list \in Seq(Buffers) /\ Fits(list, disk, bufferCount)
  BY <1>1, RequestFacts
<1>3. PerfectAt(f, o) # {}
  BY <1>1, <1>2, RequestFacts, HitFacts
<1>4. InFront(Perfect(f, o), f, o)
  BY <1>2, <1>3, Found
<1>5. Head(Perfect(f, o)).buf \in Data(CHUNK)
  BY <1>4 DEF InFront, Buffers, Data
<1>6. SafeRead'
  BY <1>2, <1>5, ReadIsSafe DEF ReadPerfectHit
<1>7. Rearranged(list, list')
  BY <1>4 DEF InFront, ReadPerfectHit
<1> QED
  BY <1>2, <1>6, <1>7 DEF Keeps, CacheInv, Fits, Rearranged, ReadPerfectHit

(* A hit on both parts.                                                    *)
LEMMA ReadPartialHitKeeps ==
    ASSUME CacheInv, NEW f \in Files, NEW o, ReadPartialHit(f, o) PROVE Keeps
<1>1. CachedRequest(f, o, "PARTIAL_HIT")
  BY DEF ReadPartialHit
<1>2. /\ o \in Offsets /\ refinedOffset(o) \in 0 .. CHUNK /\ cachePolicy' = conf
      /\ list \in Seq(Buffers) /\ Fits(list, disk, bufferCount)
  BY <1>1, RequestFacts
<1>3. FirstAt(f, o) # {} /\ SecondAt(f, o) # {}
  BY <1>1, <1>2, RequestFacts, HitFacts
<1>4. PICK l : l = BothUp(f, o)
  OBVIOUS
<1>5. Rearranged(list, l) /\ l[1] \in Buffers /\ l[2] \in Buffers
  BY <1>2, <1>3, <1>4, BothFound
<1>6. l[1].buf \in Data(CHUNK) /\ l[2].buf \in Data(CHUNK)
  BY <1>5 DEF Buffers, Data
<1>7. Slice(Concat(l[1].buf, l[2].buf), refinedOffset(o)) \in Data(CHUNK)
  BY <1>2, <1>6, ConcatType, SliceType
<1>8. SafeRead'
  BY <1>2, <1>4, <1>7, ReadIsSafe DEF ReadPartialHit
<1>9. Rearranged(list, list')
  BY <1>4, <1>5 DEF ReadPartialHit
<1> QED
  BY <1>2, <1>8, <1>9 DEF Keeps, CacheInv, Fits, Rearranged, ReadPartialHit

(* Only the first part is there: the chunk after it is read and added.     *)
LEMMA ReadFirstOkKeeps ==
    ASSUME CacheInv, NEW f \in Files, NEW o, ReadFirstOk(f, o) PROVE Keeps
<1>1. CachedRequest(f, o, "FIRST_OK")
  BY DEF ReadFirstOk
<1>2. /\ o \in Offsets /\ o \in Int /\ refinedOffset(o) \in 0 .. CHUNK /\ CHUNK \in Nat /\ cachePolicy' = conf
      /\ list \in Seq(Buffers) /\ disk \in Disks /\ Fits(list, disk, bufferCount)
  BY <1>1, RequestFacts
<1>3. FirstAt(f, o) # {} /\ ~ Holds(list, f, o + 1)
  BY <1>1, <1>2, RequestFacts, HitFacts
<1>4. PICK l : l = FirstUp(f, o)
  OBVIOUS
<1>5. InFront(l, f, o - 1)
  BY <1>2, <1>3, <1>4, Found
<1>6. PICK part \in Buffers : part = Head(l) /\ part.from = o - 1
  BY <1>5 DEF InFront
<1>7. PICK start \in Int : start = To(part) /\ start = o + 1
  BY <1>2, <1>6 DEF To, CHUNK
<1>8. PICK x \in Data(CHUNK) : x = pread(disk, f, start, CHUNK)
  BY <1>2, PreadType
<1>9. PICK r \in addFileBuffer(Cache(l), f, start, x) :
         Becomes(r) /\ Returned(f, o, Slice(Concat(Kept(r, part), x), refinedOffset(o)))
  BY <1>4, <1>6, <1>7, <1>8 DEF ReadFirstOk
<1>10. Rearranged(list, l)
  BY <1>5 DEF InFront
<1>11. /\ Fits(list, disk, bufferCount)'
       /\ OneCopy(list) /\ ~ Holds(list, f, start) => OneCopy(list')
       /\ conf = 2 /\ MAX_LIST_SIZE > 1 => r.freed # 1
  BY <1>2, <1>9, <1>10, AddOne
<1>12. r.freed # 1 => Slice(Concat(Kept(r, part), x), refinedOffset(o)) \in Data(CHUNK)
  BY <1>2, KeptType, ConcatType, SliceType
<1>13. SafeRead'
  BY <1>2, <1>9, <1>11, <1>12, ReadIsSafe
<1> QED
  BY <1>3, <1>7, <1>11, <1>13 DEF Keeps, CacheInv

(* Only the second part is there: it is read and added again.              *)
LEMMA ReadSecondOkKeeps ==
    ASSUME CacheInv, NEW f \in Files, NEW o, ReadSecondOk(f, o) PROVE Keeps
<1>1. CachedRequest(f, o, "SECOND_OK")
  BY DEF ReadSecondOk
<1>2. /\ o \in Offsets /\ o \in Int /\ refinedOffset(o) \in 0 .. CHUNK /\ CHUNK \in Nat /\ cachePolicy' = conf
      /\ list \in Seq(Buffers) /\ disk \in Disks /\ Fits(list, disk, bufferCount)
      /\ Hit(f, o) = "SECOND_OK"
  BY <1>1, RequestFacts
<1>3. SecondAt(f, o) # {}
  BY <1>2, HitFacts
<1>4. PICK l : l = SecondUp(f, o)
  OBVIOUS
<1>5. InFront(l, f, o + 1)
  BY <1>2, <1>3, <1>4, Found
<1>6. PICK part \in Buffers : part = Head(l) /\ part.from = o + 1
  BY <1>5 DEF InFront
<1>7. PICK start \in Int : start = To(part) - CHUNK
  BY <1>2, <1>6 DEF To, CHUNK
<1>8. PICK x \in Data(CHUNK) : x = pread(disk, f, start, CHUNK)
  BY <1>2, PreadType
<1>9. PICK r \in addFileBuffer(Cache(l), f, start, x) :
         Becomes(r) /\ Returned(f, o, Slice(Concat(x, Kept(r, part)), refinedOffset(o)))
  BY <1>4, <1>6, <1>7, <1>8 DEF ReadSecondOk
<1>10. Rearranged(list, l)
  BY <1>5 DEF InFront
<1>11. Fits(list, disk, bufferCount)' /\ (conf = 2 /\ MAX_LIST_SIZE > 1 => r.freed # 1)
  BY <1>2, <1>9, <1>10, AddOne
<1>12. r.freed # 1 => Slice(Concat(x, Kept(r, part)), refinedOffset(o)) \in Data(CHUNK)
  BY <1>2, KeptType, ConcatType, SliceType
<1>13. SafeRead'
  BY <1>2, <1>9, <1>11, <1>12, ReadIsSafe
<1>14. Misplaced
  BY <1>2, <1>9 DEF Misplaced, Returned
<1> QED
  BY <1>11, <1>13, <1>14 DEF Keeps, CacheInv

(* An aligned miss.                                                        *)
LEMMA ReadMissKeeps ==
    ASSUME CacheInv, NEW f \in Files, NEW o, ReadMiss(f, o) PROVE Keeps
<1>1. CachedRequest(f, o, "PERFECT_MISS")
  BY DEF ReadMiss
<1>2. /\ o \in Offsets /\ o \in Int /\ refinedOffset(o) \in 0 .. CHUNK /\ CHUNK \in Nat /\ cachePolicy' = conf
      /\ list \in Seq(Buffers) /\ disk \in Disks /\ Fits(list, disk, bufferCount)
      /\ Hit(f, o) = "PERFECT_MISS"
  BY <1>1, RequestFacts
<1>3. ~ Holds(list, f, o)
  BY <1>2, HitFacts
<1>4. PICK x \in Data(CHUNK) : x = pread(disk, f, o, CHUNK)
  BY <1>2, PreadType
<1>5. PICK r \in addFileBuffer(Cache(list), f, o, x) : Becomes(r)
  BY <1>4 DEF ReadMiss
<1>6. Rearranged(list, list)
  BY <1>2 DEF Rearranged
<1>7. Fits(list, disk, bufferCount)' /\ (OneCopy(list) /\ ~ Holds(list, f, o) => OneCopy(list'))
  BY <1>2, <1>5, <1>6, AddOne
<1>8. SafeRead'
  BY <1>2, <1>4, ReadIsSafe DEF ReadMiss
<1> QED
  BY <1>3, <1>7, <1>8 DEF Keeps, CacheInv

(* The two chunks of a request that is not aligned.                        *)
LEMMA StraddledChunks ==
    ASSUME NEW o \in Offsets, ~ Aligned(o)
    PROVE  /\ Base(o) \in Int /\ Base(o) + CHUNK \in Int /\ Base(o) = o - 1 /\ Base(o) + CHUNK = o + 1
           /\ Base(o) + CHUNK # Base(o)
<1>1. o \in Int
  BY OffsetTypes
<1> QED
  BY <1>1 DEF Aligned, Base, refinedOffset, CHUNK

(* A miss that straddles two chunks.                                       *)
LEMMA ReadMissTwoKeeps ==
    ASSUME CacheInv, NEW f \in Files, NEW o, ReadMissTwo(f, o) PROVE Keeps
<1>1. CachedRequest(f, o, "PERFECT_MISS")
  BY DEF ReadMissTwo
<1>2. /\ o \in Offsets /\ o \in Int /\ refinedOffset(o) \in 0 .. CHUNK /\ CHUNK \in Nat /\ cachePolicy' = conf
      /\ list \in Seq(Buffers) /\ disk \in Disks /\ Fits(list, disk, bufferCount)
      /\ Hit(f, o) = "PERFECT_MISS"
  BY <1>1, RequestFacts
<1>3. ~ Holds(list, f, o - 1) /\ ~ Holds(list, f, o + 1)
  BY <1>2, HitFacts
<1>4. PICK from \in Int, at \in Int :
         from = Base(o) /\ at = Base(o) + CHUNK /\ from = o - 1 /\ at = o + 1 /\ at # from
  BY <1>2, StraddledChunks DEF ReadMissTwo
<1>5. PICK x \in Data(2 * CHUNK) : x = pread(disk, f, Base(o), 2 * CHUNK)
  <2>1. 2 * CHUNK \in Nat
    BY DEF CHUNK
  <2> QED
    BY <2>1, <1>2, <1>4, PreadType
<1>6. PICK y \in Data(CHUNK), z \in Data(CHUNK) : y = Slice(x, 0) /\ z = Slice(x, CHUNK)
  <2>1. 0 \in 0 .. CHUNK /\ CHUNK \in 0 .. CHUNK
    BY DEF CHUNK
  <2> QED
    BY <2>1, SliceType
<1>7. PICK s \in addFileBuffer(Cache(list), f, from, y) :
         \E r \in addFileBuffer(s, f, at, z) : Becomes(r)
  BY <1>4, <1>5, <1>6 DEF ReadMissTwo
<1>8. PICK r \in addFileBuffer(s, f, at, z) : Becomes(r)
  BY <1>7
<1>9. /\ Fits(list, disk, bufferCount)'
      /\ OneCopy(list) /\ ~ Holds(list, f, from) /\ ~ Holds(list, f, at) => OneCopy(list')
  BY <1>2, <1>4, <1>8, AddTwo
<1>10. Slice(x, refinedOffset(o)) \in Data(CHUNK) /\ Returned(f, o, Slice(x, refinedOffset(o)))
  BY <1>2, <1>5, SliceType DEF ReadMissTwo
<1>11. SafeRead'
  BY <1>2, <1>10, ReadIsSafe
<1> QED
  BY <1>3, <1>4, <1>9, <1>11 DEF Keeps, CacheInv

(* A read that the cache does not serve.                                   *)
LEMMA ReadDirectKeeps ==
    ASSUME CacheInv, NEW f \in Files, NEW o, NEW n \in Sizes, ReadDirect(f, o, n) PROVE Keeps
<1>1. o \in Offsets /\ cachePolicy' = conf
  BY DEF ReadDirect, Request
<1>2. n \in Nat
  BY CacheConstants DEF CHUNK
<1>3. pread(disk, f, o, n) \in Data(n)
  BY <1>1, <1>2, OffsetTypes, PreadType DEF CacheInv, Fits
<1>4. SafeRead'
  BY <1>1, <1>3, ReadIsSafe DEF ReadDirect
<1> QED
  BY <1>4 DEF Keeps, CacheInv, Fits, ReadDirect

----------------------------------------------------------------------------
(* bb_write                                                                *)

(* A write returns no data.                                                *)
LEMMA WriteIsSafe ==
    ASSUME NEW f, NEW o, NEW x, Written(f, o, x) PROVE SafeRead'
<1>1. op'.kind = "write"
  BY DEF Written
<1> QED
  BY <1>1, OtherIsSafe

(* A buffer with other contents.                                           *)
LEMMA StoreType ==
    ASSUME NEW b \in Buffers, NEW x \in Data(CHUNK)
    PROVE  /\ Store(b, x) \in Buffers /\ Store(b, x).fd = b.fd /\ Store(b, x).from = b.from
           /\ [b EXCEPT !.buf = x] \in Buffers
           /\ [b EXCEPT !.buf = x].fd = b.fd /\ [b EXCEPT !.buf = x].from = b.from
  BY DEF Store, Buffers, Data

(* Two chunks with the data of a request in them.                          *)
LEMMA TotalType ==
    ASSUME NEW x \in Data(2 * CHUNK), NEW at \in 0 .. CHUNK, NEW v \in Texts
    PROVE  /\ Slice(Overlay(x, at, strncpy(v)), 0) \in Data(CHUNK)
           /\ Slice(Overlay(x, at, strncpy(v)), CHUNK) \in Data(CHUNK)
<1>1. CHUNK \in Nat /\ 2 * CHUNK \in Nat /\ at \in Nat /\ 0 \in 0 .. CHUNK /\ CHUNK \in 0 .. CHUNK
  BY DEF CHUNK
<1>2. PICK y \in Data(CHUNK) : y = strncpy(v)
  <2>1. v \in Data(CHUNK)
    BY TextIsData
  <2> QED
    BY <1>1, <2>1, StrncpyType
<1>3. PICK z \in Data(2 * CHUNK) : z = Overlay(x, at, y)
  BY <1>1, OverlayType
<1> QED
  BY <1>1, <1>2, <1>3, SliceType

(* A perfect hit.                                                          *)
LEMMA WritePerfectHitKeeps ==
    ASSUME CacheInv, NEW f \in Files, NEW o, NEW v \in Texts, WritePerfectHit(f, o, v) PROVE Keeps
<1>1. CachedRequest(f, o, "PERFECT_HIT")
  BY DEF WritePerfectHit
<1>2. /\ o \in Offsets /\ o \in Int /\ refinedOffset(o) \in 0 .. CHUNK /\ CHUNK \in Nat /\ cachePolicy' = conf
      /\ list \in Seq(Buffers) /\ disk \in Disks /\ Fits(list, disk, bufferCount)
      /\ Hit(f, o) = "PERFECT_HIT"
  BY <1>1, RequestFacts
<1>3. PerfectAt(f, o) # {}
  BY <1>2, HitFacts
<1>4. PICK l : l = Perfect(f, o)
  OBVIOUS
<1>5. InFront(l, f, o)
  BY <1>2, <1>3, <1>4, Found
<1>6. Rearranged(list, l) /\ l \in Seq(Buffers) /\ l # << >> /\ l[1] \in Buffers /\ Head(l) = l[1]
  BY <1>5 DEF InFront
<1>7. strncpy(v) \in Data(CHUNK)
  BY <1>2, TextIsData, StrncpyType
<1>8. PICK x \in Buffers : x = Store(Head(l), strncpy(v)) /\ x.fd = l[1].fd /\ x.from = l[1].from
  BY <1>6, <1>7, StoreType
<1>9. list' = <<x>> \o Tail(l)
  BY <1>4, <1>8 DEF WritePerfectHit
<1>10. Rearranged(l, list')
  BY <1>6, <1>8, <1>9, StoreKeeps
<1>11. list' \in Seq(Buffers)
  BY <1>10 DEF Rearranged
<1>12. Rearranged(list, list')
  BY <1>2, <1>6, <1>10, <1>11, RearrangedTwice
<1>13. SafeRead'
  BY WriteIsSafe DEF WritePerfectHit
<1> QED
  BY <1>2, <1>12, <1>13 DEF Keeps, CacheInv, Fits, Rearranged, WritePerfectHit

(* A hit on both parts.                                                    *)
LEMMA WritePartialHitKeeps ==
    ASSUME CacheInv, NEW f \in Files, NEW o, NEW v \in Texts, WritePartialHit(f, o, v) PROVE Keeps
<1>1. CachedRequest(f, o, "PARTIAL_HIT")
  BY DEF WritePartialHit
<1>2. /\ o \in Offsets /\ o \in Int /\ refinedOffset(o) \in 0 .. CHUNK /\ CHUNK \in Nat /\ cachePolicy' = conf
      /\ list \in Seq(Buffers) /\ disk \in Disks /\ Fits(list, disk, bufferCount)
      /\ Hit(f, o) = "PARTIAL_HIT"
  BY <1>1, RequestFacts
<1>3. FirstAt(f, o) # {} /\ SecondAt(f, o) # {}
  BY <1>2, HitFacts
<1>4. PICK l : l = BothUp(f, o)
  OBVIOUS
<1>5. /\ Rearranged(list, l) /\ l \in Seq(Buffers) /\ Len(l) >= 2
      /\ l[1] \in Buffers /\ l[2] \in Buffers
  BY <1>2, <1>3, <1>4, BothFound
<1>6. PICK c \in Data(2 * CHUNK) : c = Concat(l[1].buf, l[2].buf)
  <2>1. l[1].buf \in Data(CHUNK) /\ l[2].buf \in Data(CHUNK)
    BY <1>5 DEF Buffers, Data
  <2> QED
    BY <2>1, ConcatType
<1>7. PICK total : total = Overlay(c, refinedOffset(o), strncpy(v))
  OBVIOUS
<1>8. Slice(total, 0) \in Data(CHUNK) /\ Slice(total, CHUNK) \in Data(CHUNK)
  BY <1>2, <1>7, TotalType
<1>9. PICK x \in Buffers : x = Store(l[1], Slice(total, 0)) /\ x.fd = l[1].fd /\ x.from = l[1].from
  BY <1>5, <1>8, StoreType
<1>10. PICK y \in Buffers : y = Store(l[2], Slice(total, CHUNK)) /\ y.fd = l[2].fd /\ y.from = l[2].from
  BY <1>5, <1>8, StoreType
<1>11. list' = <<x, y>> \o SubSeq(l, 3, Len(l))
  BY <1>4, <1>6, <1>7, <1>9, <1>10 DEF WritePartialHit
<1>12. Rearranged(l, list')
  BY <1>5, <1>9, <1>10, <1>11, StoreTwo
<1>13. list' \in Seq(Buffers)
  BY <1>12 DEF Rearranged
<1>14. Rearranged(list, list')
  BY <1>2, <1>5, <1>12, <1>13, RearrangedTwice
<1>15. SafeRead'
  BY WriteIsSafe DEF WritePartialHit
<1> QED
  BY <1>2, <1>14, <1>15 DEF Keeps, CacheInv, Fits, Rearranged, WritePartialHit

(* Only the first part is there: it is changed, and a chunk is added one   *)
(* chunk too far.                                                          *)
LEMMA WriteFirstOkKeeps ==
    ASSUME CacheInv, NEW f \in Files, NEW o, NEW v \in Texts, WriteFirstOk(f, o, v) PROVE Keeps
<1>1. CachedRequest(f, o, "FIRST_OK")
  BY DEF WriteFirstOk
<1>2. /\ o \in Offsets /\ o \in Int /\ refinedOffset(o) \in 0 .. CHUNK /\ CHUNK \in Nat /\ cachePolicy' = conf
      /\ list \in Seq(Buffers) /\ disk \in Disks /\ Fits(list, disk, bufferCount)
      /\ Hit(f, o) = "FIRST_OK"
  BY <1>1, RequestFacts
<1>3. FirstAt(f, o) # {}
  BY <1>2, HitFacts
<1>4. PICK l : l = FirstUp(f, o)
  OBVIOUS
<1>5. InFront(l, f, o - 1)
  BY <1>2, <1>3, <1>4, Found
<1>6. Rearranged(list, l) /\ l \in Seq(Buffers) /\ l # << >> /\ l[1] \in Buffers /\ Head(l) = l[1]
  BY <1>5 DEF InFront
<1>7. Head(l).from \in Int /\ Head(l).buf \in Data(CHUNK)
  BY <1>6 DEF Buffers, Data
<1>8. PICK start \in Int : start = To(Head(l)) /\ start + CHUNK \in Int
  BY <1>2, <1>7 DEF To
<1>9. PICK c \in Data(2 * CHUNK) : c = Concat(Head(l).buf, pread(disk, f, start, CHUNK))
  BY <1>2, <1>7, PreadType, ConcatType
<1>10. PICK total : total = Overlay(c, refinedOffset(o), strncpy(v))
  OBVIOUS
<1>11. Slice(total, 0) \in Data(CHUNK) /\ Slice(total, CHUNK) \in Data(CHUNK)
  BY <1>2, <1>10, TotalType
<1>12. PICK x \in Buffers : x = Store(Head(l), Slice(total, 0)) /\ x.fd = l[1].fd /\ x.from = l[1].from
  BY <1>6, <1>11, StoreType
<1>13. PICK m : m = <<x>> \o Tail(l)
  OBVIOUS
<1>14. Rearranged(l, m)
  BY <1>6, <1>12, <1>13, StoreKeeps
<1>15. Rearranged(list, m)
  <2>1. m \in Seq(Buffers)
    BY <1>14 DEF Rearranged
  <2> QED
    BY <2>1, <1>2, <1>6, <1>14, RearrangedTwice
<1>16. PICK r \in addFileBuffer(Cache(m), f, start + CHUNK, Slice(total, CHUNK)) : Becomes(r)
  BY <1>4, <1>8, <1>9, <1>10, <1>12, <1>13 DEF WriteFirstOk
<1>17. Fits(list, disk, bufferCount)'
  BY <1>2, <1>8, <1>11, <1>15, <1>16, AddOne
<1>18. Written(f, o, v)
  BY DEF WriteFirstOk
<1>19. SafeRead' /\ Misplaced
  BY <1>2, <1>18, WriteIsSafe DEF Misplaced, Written
<1> QED
  BY <1>17, <1>19 DEF Keeps, CacheInv

(* Only the second part is there: the chunk before it is added.            *)
LEMMA WriteSecondOkKeeps ==
    ASSUME CacheInv, NEW f \in Files, NEW o, NEW v \in Texts, WriteSecondOk(f, o, v) PROVE Keeps
<1>1. CachedRequest(f, o, "SECOND_OK")
  BY DEF WriteSecondOk
<1>2. /\ o \in Offsets /\ o \in Int /\ refinedOffset(o) \in 0 .. CHUNK /\ CHUNK \in Nat /\ cachePolicy' = conf
      /\ list \in Seq(Buffers) /\ disk \in Disks /\ Fits(list, disk, bufferCount)
      /\ Hit(f, o) = "SECOND_OK"
  BY <1>1, RequestFacts
<1>3. SecondAt(f, o) # {} /\ ~ Holds(list, f, o - 1)
  BY <1>2, HitFacts
<1>4. PICK l : l = SecondUp(f, o)
  OBVIOUS
<1>5. InFront(l, f, o + 1)
  BY <1>2, <1>3, <1>4, Found
<1>6. /\ Rearranged(list, l) /\ l \in Seq(Buffers) /\ l # << >> /\ l[1] \in Buffers /\ Head(l) = l[1]
      /\ l[1].from = o + 1
  BY <1>5 DEF InFront
<1>7. Head(l).buf \in Data(CHUNK)
  BY <1>6 DEF Buffers, Data
<1>8. PICK start \in Int : start = Head(l).from - CHUNK /\ start = o - 1
  BY <1>2, <1>6 DEF CHUNK
<1>9. PICK c \in Data(2 * CHUNK) : c = Concat(pread(disk, f, start, CHUNK), Head(l).buf)
  BY <1>2, <1>7, PreadType, ConcatType
<1>10. PICK total : total = Overlay(c, refinedOffset(o), strncpy(v))
  OBVIOUS
<1>11. Slice(total, 0) \in Data(CHUNK) /\ Slice(total, CHUNK) \in Data(CHUNK)
  BY <1>2, <1>10, TotalType
<1>12. PICK x \in Buffers : /\ x = [Head(l) EXCEPT !.buf = Slice(total, CHUNK)]
                            /\ x.fd = l[1].fd /\ x.from = l[1].from
  BY <1>6, <1>11, StoreType
<1>13. PICK m : m = <<x>> \o Tail(l)
  OBVIOUS
<1>14. Rearranged(l, m)
  BY <1>6, <1>12, <1>13, StoreKeeps
<1>15. Rearranged(list, m)
  <2>1. m \in Seq(Buffers)
    BY <1>14 DEF Rearranged
  <2> QED
    BY <2>1, <1>2, <1>6, <1>14, RearrangedTwice
<1>16. PICK r \in addFileBuffer(Cache(m), f, start, Slice(total, 0)) : Becomes(r)
  BY <1>4, <1>8, <1>9, <1>10, <1>12, <1>13 DEF WriteSecondOk
<1>17. Fits(list, disk, bufferCount)' /\ (OneCopy(list) /\ ~ Holds(list, f, start) => OneCopy(list'))
  BY <1>2, <1>11, <1>15, <1>16, AddOne
<1>18. SafeRead'
  BY WriteIsSafe DEF WriteSecondOk
<1> QED
  BY <1>3, <1>8, <1>17, <1>18 DEF Keeps, CacheInv

(* An aligned miss.                                                        *)
LEMMA WriteMissKeeps ==
    ASSUME CacheInv, NEW f \in Files, NEW o, NEW v \in Texts, WriteMiss(f, o, v) PROVE Keeps
<1>1. CachedRequest(f, o, "PERFECT_MISS")
  BY DEF WriteMiss
<1>2. /\ o \in Offsets /\ o \in Int /\ refinedOffset(o) \in 0 .. CHUNK /\ CHUNK \in Nat /\ cachePolicy' = conf
      /\ list \in Seq(Buffers) /\ disk \in Disks /\ Fits(list, disk, bufferCount)
      /\ Hit(f, o) = "PERFECT_MISS"
  BY <1>1, RequestFacts
<1>3. ~ Holds(list, f, o)
  BY <1>2, HitFacts
<1>4. PICK x \in Data(CHUNK) : x = strncpy(v)
  BY <1>2, TextIsData, StrncpyType
<1>5. PICK r \in addFileBuffer(Cache(list), f, o, x) : Becomes(r)
  BY <1>4 DEF WriteMiss
<1>6. Rearranged(list, list)
  BY <1>2 DEF Rearranged
<1>7. Fits(list, disk, bufferCount)' /\ (OneCopy(list) /\ ~ Holds(list, f, o) => OneCopy(list'))
  BY <1>2, <1>5, <1>6, AddOne
<1>8. SafeRead'
  BY WriteIsSafe DEF WriteMiss
<1> QED
  BY <1>3, <1>7, <1>8 DEF Keeps, CacheInv

(* A miss that straddles two chunks.                                       *)
LEMMA WriteMissTwoKeeps ==
    ASSUME CacheInv, NEW f \in Files, NEW o, NEW v \in Texts, WriteMissTwo(f, o, v) PROVE Keeps
<1>1. CachedRequest(f, o, "PERFECT_MISS")
  BY DEF WriteMissTwo
<1>2. /\ o \in Offsets /\ o \in Int /\ refinedOffset(o) \in 0 .. CHUNK /\ CHUNK \in Nat /\ cachePolicy' = conf
      /\ list \in Seq(Buffers) /\ disk \in Disks /\ Fits(list, disk, bufferCount)
      /\ Hit(f, o) = "PERFECT_MISS"
  BY <1>1, RequestFacts
<1>3. ~ Holds(list, f, o - 1) /\ ~ Holds(list, f, o + 1)
  BY <1>2, HitFacts
<1>4. PICK from \in Int, at \in Int :
         from = Base(o) /\ at = Base(o) + CHUNK /\ from = o - 1 /\ at = o + 1 /\ at # from
  BY <1>2, StraddledChunks DEF WriteMissTwo
<1>5. PICK x \in Data(2 * CHUNK) : x = pread(disk, f, Base(o), 2 * CHUNK)
  <2>1. 2 * CHUNK \in Nat
    BY DEF CHUNK
  <2> QED
    BY <2>1, <1>2, <1>4, PreadType
<1>6. PICK total : total = Overlay(x, refinedOffset(o), strncpy(v))
  OBVIOUS
<1>7. PICK y \in Data(CHUNK), z \in Data(CHUNK) : y = Slice(total, 0) /\ z = Slice(total, CHUNK)
  BY <1>2, <1>6, TotalType
<1>8. PICK s \in addFileBuffer(Cache(list), f, from, y) :
         \E r \in addFileBuffer(s, f, at, z) : Becomes(r)
  BY <1>4, <1>5, <1>6, <1>7 DEF WriteMissTwo
<1>9. PICK r \in addFileBuffer(s, f, at, z) : Becomes(r)
  BY <1>8
<1>10. /\ Fits(list, disk, bufferCount)'
       /\ OneCopy(list) /\ ~ Holds(list, f, from) /\ ~ Holds(list, f, at) => OneCopy(list')
  BY <1>2, <1>4, <1>9, AddTwo
<1>11. SafeRead'
  BY WriteIsSafe DEF WriteMissTwo
<1> QED
  BY <1>3, <1>4, <1>10, <1>11 DEF Keeps, CacheInv

(* A write that the cache does not serve.                                  *)
LEMMA WriteDirectKeeps ==
    ASSUME CacheInv, NEW f \in Files, NEW o, NEW v \in Texts, NEW n \in Sizes,
           WriteDirect(f, o, SubSeq(v, 1, n))
    PROVE  Keeps
<1>1. o \in Offsets
  BY DEF WriteDirect, Request
<1>2. n \in 1 .. CHUNK /\ n \in Nat /\ CHUNK \in Nat
  BY CacheConstants DEF CHUNK
<1>3. SubSeq(v, 1, n) \in Data(n)
  BY <1>2, TextStart
<1>4. strncpy(SubSeq(v, 1, n)) \in Data(n)
  BY <1>2, <1>3, StrncpyType
<1>5. pwrite(disk, f, o, strncpy(SubSeq(v, 1, n))) \in Disks
  BY <1>1, <1>2, <1>4, OffsetTypes, PwriteType DEF CacheInv, Fits
<1>6. SafeRead'
  BY WriteIsSafe DEF WriteDirect
<1> QED
  BY <1>5, <1>6 DEF Keeps, CacheInv, Fits, WriteDirect

----------------------------------------------------------------------------
(* The other operations, and the theorems                                  *)

(* Opening, closing, syncing and cutting a file.                           *)
LEMMA OthersKeep ==
    ASSUME CacheInv, NEW f \in Files,
           bb_open(f) \/ bb_release(f) \/ bb_flush(f) \/ bb_fsync(f) \/ bb_truncate(f)
    PROVE  Keeps
<1>1. op'.kind # "read"
  <2>1. ASSUME NEW k, Done(k, f) PROVE op'.kind = k
    BY <2>1 DEF Done, Idle
  <2>2. \E k \in {"open", "release", "flush", "fsync", "truncate"} : Done(k, f)
    BY DEF bb_open, bb_release, bb_flush, bb_fsync, bb_truncate
  <2> QED
    BY <2>1, <2>2
<1>2. SafeRead'
  BY <1>1, OtherIsSafe
<1>3. list \in Seq(Buffers) /\ disk \in Disks
  BY DEF CacheInv, Fits
<1>4. CASE bb_release(f)
  <2>1. disk' \in Disks
    BY <1>3, <1>4, FlushType DEF bb_release
  <2>2. list' = << >> /\ bufferCount' = 0 /\ 0 <= MAX_LIST_SIZE
    BY <1>4, CacheConstants DEF bb_release
  <2>3. Fits(list, disk, bufferCount)'
    BY <2>1, <2>2 DEF Fits
  <2>4. OneCopy(list')
    BY <2>2 DEF OneCopy
  <2> QED
    BY <1>2, <2>3, <2>4 DEF Keeps, CacheInv
<1>5. CASE bb_truncate(f)
  <2>1. disk' \in Disks
    BY <1>3, <1>5, CutType DEF bb_truncate
  <2> QED
    BY <1>2, <1>5, <2>1 DEF Keeps, CacheInv, Fits, bb_truncate
<1>6. CASE bb_open(f) \/ bb_flush(f) \/ bb_fsync(f)
  <2>1. UNCHANGED <<disk, list, bufferCount>>
    BY <1>6 DEF bb_open, bb_flush, bb_fsync
  <2> QED
    BY <1>2, <2>1 DEF Keeps, CacheInv, Fits
<1> QED
  BY <1>4, <1>5, <1>6

(* Every step.                                                             *)
LEMMA StepKeeps == CacheInv /\ [Next]_vars => Keeps
<1>1. SUFFICES ASSUME CacheInv, [Next]_vars PROVE Keeps
  OBVIOUS
<1>2. ASSUME NEW f \in Files, NEW o \in Offsets, bb_read(f, o) PROVE Keeps
  BY <1>1, <1>2, ReadPerfectHitKeeps, ReadPartialHitKeeps, ReadFirstOkKeeps, ReadSecondOkKeeps,
     ReadMissKeeps, ReadMissTwoKeeps, ReadDirectKeeps DEF bb_read
<1>3. ASSUME NEW f \in Files, NEW o \in Offsets, bb_write(f, o) PROVE Keeps
  BY <1>1, <1>3, WritePerfectHitKeeps, WritePartialHitKeeps, WriteFirstOkKeeps, WriteSecondOkKeeps,
     WriteMissKeeps, WriteMissTwoKeeps, WriteDirectKeeps DEF bb_write
<1>4. ASSUME NEW f \in Files, bb_open(f) \/ bb_release(f) \/ bb_flush(f) \/ bb_fsync(f) \/ bb_truncate(f)
      PROVE  Keeps
  BY <1>1, <1>4, OthersKeep
<1>5. CASE EditConf
  <2>1. op'.kind # "read"
    BY <1>5 DEF EditConf, Idle
  <2>2. SafeRead'
    BY <2>1, OtherIsSafe
  <2> QED
    BY <1>1, <1>5, <2>2 DEF Keeps, CacheInv, Fits, EditConf
<1>6. CASE UNCHANGED vars
  BY <1>1, <1>6 DEF vars, Keeps, CacheInv, Fits, SafeRead, NoUseAfterFree
<1> QED
  BY <1>1, <1>2, <1>3, <1>4, <1>5, <1>6 DEF Next

(* The first state.                                                        *)
LEMMA InitCache == Init => CacheInv
<1>1. SUFFICES ASSUME Init PROVE CacheInv
  OBVIOUS
<1>2. disk \in Disks
  BY <1>1 DEF Init, Disks, Halves
<1>3. list \in Seq(Buffers) /\ bufferCount = Len(list) /\ bufferCount <= MAX_LIST_SIZE
  BY <1>1, CacheConstants DEF Init
<1>4. SafeRead
  BY <1>1 DEF Init, Idle, SafeRead, NoUseAfterFree
<1> QED
  BY <1>2, <1>3, <1>4 DEF CacheInv, Fits

(* CacheInv is inductive: through any mix of requests, evictions,          *)
(* releases and edits of ee516.conf the list, its count and the files stay *)
(* well formed, and reads under LRU return no freed memory.                *)
THEOREM CacheInvariant == Spec => []CacheInv
<1>1. Init => CacheInv
  BY InitCache
<1>2. CacheInv /\ [Next]_vars => CacheInv'
  BY StepKeeps DEF Keeps
<1> QED
  BY <1>1, <1>2, PTL DEF Spec

(* bufferCount, which addFileBuffer and bb_release count by hand, is the   *)
(* length of the list, and the list never outgrows MAX_LIST_SIZE.          *)
THEOREM CountsAreLengths == Spec => []CountIsLength
<1>1. CacheInv => CountIsLength
  BY DEF CacheInv, Fits, CountIsLength
<1> QED
  BY <1>1, CacheInvariant, PTL

(* With LRU eviction and room for two chunks bb_read never copies the      *)
(* buffer that its own addFileBuffer has just freed.                       *)
THEOREM ReadsNoFreedMemory ==
    ASSUME MAX_LIST_SIZE > 1 PROVE Spec => []NoUseAfterFree
<1>1. CacheInv => NoUseAfterFree
  BY DEF CacheInv, SafeRead
<1> QED
  BY <1>1, CacheInvariant, PTL

(* A second copy of a chunk can only come from the two partial misses that *)
(* insert at the wrong place.                                              *)
THEOREM SecondCopiesAreMisplaced == Spec => OneCopyPerChunk
<1>1. CacheInv /\ [Next]_vars =>
        [OneCopy(list) /\ ~ OneCopy(list') =>
           \/ op'.kind = "read" /\ Hit(op'.fd, op'.from) = "SECOND_OK"
           \/ op'.kind = "write" /\ Hit(op'.fd, op'.from) = "FIRST_OK"]_vars
  BY StepKeeps DEF Keeps, Misplaced
<1> QED
  BY <1>1, CacheInvariant, PTL DEF Spec, OneCopyPerChunk

----------------------------------------------------------------------------
(* What the files and the cache hold while requests start at a chunk       *)

\* The chunk that a buffer holds.
Chunk(b) == <<b.fd, b.from>>

\* Buffers of chunks that start where a request may start, each chunk once.
WholeChunks(B) ==
    /\ B \subseteq Buffers
    /\ \A b \in B : b.from \in Cells /\ Aligned(b.from)
    /\ \A a, b \in B : a.fd = b.fd /\ a.from = b.from => a = b

\* With the buffers B over the files d, the half chunk c of f reads as in x,
\* and it will when it has left the cache.
Right(B, d, x, f, c) ==
    /\ \A b \in B : b.fd = f /\ b.from = Base(c) => b.buf[refinedOffset(c) + 1] = x[f][c]
    /\ (\A b \in B : b.fd = f /\ b.from = Base(c) => b.dirty = 0) => d[f][c] = x[f][c]

Contents(B, d, x, s) == \A f \in Files, c \in Cells : <<f, c>> \notin s => Right(B, d, x, f, c)

(* A half chunk and the chunk it is in.                                    *)
LEMMA CellFacts ==
    ASSUME NEW c \in Cells
    PROVE  /\ c \in Int /\ Base(c) \in Cells /\ Aligned(Base(c)) /\ refinedOffset(c) + 1 \in 1 .. CHUNK
           /\ c - Base(c) = refinedOffset(c)
           /\ \A from \in Cells : Aligned(from) =>
                 /\ from \in Int
                 /\ c - from + 1 \in 1 .. CHUNK <=> from = Base(c)
                 /\ c \in from .. from + CHUNK - 1 <=> from = Base(c)
<1>1. c \in Int /\ 0 <= c /\ c <= LAST /\ LAST \in Int
  BY CacheConstants DEF Cells
<1>2. c % 2 \in 0 .. 1 /\ (c - (c % 2)) % 2 = 0 /\ 0 <= c - (c % 2)
  BY <1>1
<1>3. ASSUME NEW from \in Cells, Aligned(from)
      PROVE  /\ from \in Int
             /\ c - from + 1 \in 1 .. CHUNK <=> from = Base(c)
             /\ c \in from .. from + CHUNK - 1 <=> from = Base(c)
  <2>1. from \in Int /\ from % 2 = 0
    BY <1>3 DEF Cells, Aligned, refinedOffset, CHUNK
  <2> QED
    BY <1>1, <2>1 DEF Base, refinedOffset, CHUNK
<1> QED
  BY <1>1, <1>2, <1>3 DEF Base, refinedOffset, CHUNK, Aligned, Cells

(* The half chunks that a write reaches.                                   *)
LEMMA PwriteCell ==
    ASSUME NEW d \in Disks, NEW f \in Files, NEW from \in Int, NEW n \in Nat, NEW x \in Data(n),
           NEW g \in Files, NEW c \in Cells
    PROVE  pwrite(d, f, from, x)[g][c] =
              IF g = f /\ c - from + 1 \in 1 .. n THEN x[c - from + 1] ELSE d[g][c]
<1> DEFINE h == [e \in Cells |-> IF e - from + 1 \in DOMAIN x THEN x[e - from + 1] ELSE d[f][e]]
<1>1. pwrite(d, f, from, x) = [d EXCEPT ![f] = h]
  BY DEF pwrite, Disks
<1>2. DOMAIN x = 1 .. n
  BY DEF Data
<1>3. h[c] = IF c - from + 1 \in 1 .. n THEN x[c - from + 1] ELSE d[f][c]
  BY <1>2
<1> HIDE DEF h
<1> QED
  BY <1>1, <1>3 DEF Disks

\* A buffer of the chunk that the half chunk c of f is in.
Of(b, f, c) == b.fd = f /\ b.from = Base(c)

(* An eviction: the victim is written where it belongs, if it is dirty.    *)
LEMMA EvictRight ==
    ASSUME NEW B, WholeChunks(B), NEW d \in Disks, NEW x, NEW f \in Files, NEW c \in Cells,
           Right(B, d, x, f, c), NEW v \in B
    PROVE  Right(B \ {v}, WriteBack(d, v), x, f, c)
<1>1. /\ v \in Buffers /\ v.fd \in Files /\ v.from \in Int /\ v.from \in Cells /\ Aligned(v.from)
      /\ v.buf \in Data(CHUNK) /\ v.dirty \in {0, 1} /\ CHUNK \in Nat
  BY DEF WholeChunks, Buffers, Data, CHUNK
<1>2. /\ c - v.from + 1 \in 1 .. CHUNK <=> v.from = Base(c)
      /\ c - Base(c) = refinedOffset(c)
  BY <1>1, CellFacts
<1>3. pwrite(d, v.fd, v.from, v.buf)[f][c] =
         IF f = v.fd /\ c - v.from + 1 \in 1 .. CHUNK THEN v.buf[c - v.from + 1] ELSE d[f][c]
  BY <1>1, PwriteCell
<1>4. CASE Of(v, f, c) /\ v.dirty = 1
  <2>1. pwrite(d, v.fd, v.from, v.buf)[f][c] = v.buf[refinedOffset(c) + 1]
    BY <1>2, <1>3, <1>4 DEF Of
  <2>2. WriteBack(d, v)[f][c] = x[f][c]
    BY <1>4, <2>1 DEF WriteBack, Right, Of
  <2> QED
    BY <2>2 DEF Right
<1>5. CASE ~ (Of(v, f, c) /\ v.dirty = 1)
  <2>1. WriteBack(d, v)[f][c] = d[f][c]
    BY <1>2, <1>3, <1>5 DEF WriteBack, Of
  <2>2. (\A b \in B \ {v} : b.fd = f /\ b.from = Base(c) => b.dirty = 0) =>
           \A b \in B : b.fd = f /\ b.from = Base(c) => b.dirty = 0
    BY <1>1, <1>5 DEF Of
  <2> QED
    BY <2>1, <2>2 DEF Right
<1> QED
  BY <1>4, <1>5

(* The same for all half chunks.                                           *)
LEMMA ContentsEvict ==
    ASSUME NEW B, WholeChunks(B), NEW d \in Disks, NEW x, NEW s, Contents(B, d, x, s), NEW v \in B
    PROVE  Contents(B \ {v}, WriteBack(d, v), x, s)
  BY EvictRight DEF Contents

(* A read that missed adds what it found in the file, where the chunk was  *)
(* before the eviction that made room and is after it.                     *)
LEMMA ContentsReadMiss ==
    ASSUME NEW B, NEW d \in Disks, NEW A \in SUBSET B, NEW e, NEW x, NEW s,
           Contents(B, d, x, s), Contents(A, e, x, s), NEW f \in Files, NEW o \in Cells, Aligned(o),
           \A b \in B : ~ (b.fd = f /\ b.from = o),
           NEW y, y = [fd |-> f, from |-> o, dirty |-> 0, buf |-> pread(d, f, o, CHUNK)]
    PROVE  Contents(A \cup {y}, e, x, s)
<1>1. SUFFICES ASSUME NEW g \in Files, NEW c \in Cells, <<g, c>> \notin s
               PROVE  Right(A \cup {y}, e, x, g, c)
  BY DEF Contents
<1>2. Right(B, d, x, g, c) /\ Right(A, e, x, g, c)
  BY <1>1 DEF Contents
<1>3. CASE g = f /\ Base(c) = o
  <2>1. d[f][c] = x[f][c] /\ e[f][c] = x[f][c]
    BY <1>2, <1>3 DEF Right
  <2>2. y.buf[refinedOffset(c) + 1] = d[f][c]
    <3>1. o + (refinedOffset(c) + 1) - 1 = c /\ refinedOffset(c) + 1 \in 1 .. CHUNK
      BY <1>3, CellFacts DEF Cells
    <3> QED
      BY <3>1 DEF pread
  <2>3. \A b \in A : ~ (b.fd = g /\ b.from = Base(c))
    BY <1>3
  <2> QED
    BY <1>3, <2>1, <2>2, <2>3 DEF Right
<1>4. CASE ~ (g = f /\ Base(c) = o)
  BY <1>2, <1>4 DEF Right
<1> QED
  BY <1>3, <1>4

(* The half chunks of a span.                                              *)
LEMMA SpanCells ==
    ASSUME NEW f \in Files, NEW o \in Cells, Aligned(o), NEW n \in 1 .. CHUNK,
           NEW g \in Files, NEW c \in Cells
    PROVE  /\ <<g, c>> \in Span(f, o, n) <=> g = f /\ c - o + 1 \in 1 .. n
           /\ <<g, c>> \in Span(f, o, n) => g = f /\ Base(c) = o
           /\ <<g, c>> \in Span(f, o, CHUNK) <=> g = f /\ Base(c) = o
<1>1. c \in Int /\ o \in Int /\ (c - o + 1 \in 1 .. CHUNK <=> o = Base(c))
  BY CellFacts
<1>2. n \in Int /\ n <= CHUNK /\ CHUNK \in Int
  BY DEF CHUNK
<1>3. ASSUME NEW m \in 1 .. CHUNK PROVE <<g, c>> \in Span(f, o, m) <=> g = f /\ c - o + 1 \in 1 .. m
  <2>1. c \in o .. o + m - 1 <=> c - o + 1 \in 1 .. m
    BY <1>1, <1>2
  <2> QED
    BY <2>1 DEF Span
<1>4. CHUNK \in 1 .. CHUNK
  BY DEF CHUNK
<1> QED
  BY <1>1, <1>2, <1>3, <1>4

(* The half chunks that a write loses.                                     *)
LEMMA CutShortCells ==
    ASSUME NEW f \in Files, NEW o \in Cells, NEW n \in Nat, NEW v \in Data(n), NEW c \in Cells,
           c - o + 1 \in 1 .. n, <<f, c>> \notin CutShort(f, o, v)
    PROVE  strncpy(v)[c - o + 1] = v[c - o + 1]
  BY DEF CutShort, Data

(* A write that missed: its chunk is added clean, and given up.            *)
LEMMA ContentsWriteMiss ==
    ASSUME NEW B, NEW d, NEW x \in Disks, NEW s, Contents(B, d, x, s),
           NEW f \in Files, NEW o \in Cells, Aligned(o), NEW v \in Data(CHUNK),
           NEW y, y.fd = f, y.from = o
    PROVE  Contents(B \cup {y}, d, pwrite(x, f, o, v), s \cup Span(f, o, CHUNK))
<1>1. SUFFICES ASSUME NEW g \in Files, NEW c \in Cells, <<g, c>> \notin s \cup Span(f, o, CHUNK)
               PROVE  Right(B \cup {y}, d, pwrite(x, f, o, v), g, c)
  BY DEF Contents
<1>2. CHUNK \in 1 .. CHUNK /\ CHUNK \in Nat /\ o \in Int
  BY DEF CHUNK, Cells
<1>3. ~ (g = f /\ Base(c) = o) /\ ~ (g = f /\ c - o + 1 \in 1 .. CHUNK)
  BY <1>1, <1>2, SpanCells
<1>4. pwrite(x, f, o, v)[g][c] = x[g][c]
  BY <1>2, <1>3, PwriteCell
<1>5. Right(B, d, x, g, c)
  BY <1>1 DEF Contents
<1> QED
  BY <1>3, <1>4, <1>5 DEF Right

(* A write that hit: the buffer is changed and marked dirty.               *)
LEMMA ContentsStore ==
    ASSUME NEW B, WholeChunks(B), NEW d, NEW x \in Disks, NEW s, Contents(B, d, x, s),
           NEW f \in Files, NEW o \in Cells, Aligned(o), NEW v \in Data(CHUNK),
           NEW h \in B, h.fd = f, h.from = o, NEW y, y = Store(h, strncpy(v))
    PROVE  Contents((B \ {h}) \cup {y}, d, pwrite(x, f, o, v),
                    (s \ Span(f, o, CHUNK)) \cup CutShort(f, o, v))
<1>1. SUFFICES ASSUME NEW g \in Files, NEW c \in Cells,
                      <<g, c>> \notin (s \ Span(f, o, CHUNK)) \cup CutShort(f, o, v)
               PROVE  Right((B \ {h}) \cup {y}, d, pwrite(x, f, o, v), g, c)
  BY DEF Contents
<1>2. CHUNK \in 1 .. CHUNK /\ CHUNK \in Nat /\ o \in Int
  BY DEF CHUNK, Cells
<1>3. /\ <<g, c>> \in Span(f, o, CHUNK) <=> g = f /\ Base(c) = o
      /\ c - o + 1 \in 1 .. CHUNK <=> o = Base(c)
      /\ c - Base(c) = refinedOffset(c) /\ c \in Int
  BY <1>2, SpanCells, CellFacts
<1>4. y.fd = f /\ y.from = o /\ y.dirty = 1 /\ y.buf = strncpy(v)
  BY DEF Store, WholeChunks, Buffers
<1>5. CASE g = f /\ Base(c) = o
  <2>1. pwrite(x, f, o, v)[g][c] = v[c - o + 1]
    BY <1>2, <1>3, <1>5, PwriteCell
  <2>2. strncpy(v)[c - o + 1] = v[c - o + 1]
    BY <1>1, <1>2, <1>3, <1>5, CutShortCells
  <2>3. y.buf[refinedOffset(c) + 1] = pwrite(x, f, o, v)[g][c]
    BY <1>3, <1>4, <1>5, <2>1, <2>2
  <2>4. \A b \in B \ {h} : ~ (b.fd = g /\ b.from = Base(c))
    BY <1>5 DEF WholeChunks
  <2>5. y.dirty # 0
    BY <1>4
  <2> QED
    BY <1>4, <1>5, <2>3, <2>4, <2>5 DEF Right
<1>6. CASE ~ (g = f /\ Base(c) = o)
  <2>1. pwrite(x, f, o, v)[g][c] = x[g][c]
    BY <1>2, <1>3, <1>6, PwriteCell
  <2>2. <<g, c>> \notin s
    BY <1>1, <1>3, <1>6
  <2>3. Right(B, d, x, g, c)
    BY <2>2 DEF Contents
  <2> QED
    BY <1>4, <1>6, <2>1, <2>3 DEF Right
<1> QED
  BY <1>5, <1>6

(* A write that the cache does not serve.  A chunk that is cached keeps    *)
(* its old contents, and is given up.                                      *)
LEMMA ContentsDirect ==
    ASSUME NEW B, NEW d \in Disks, NEW x \in Disks, NEW s, Contents(B, d, x, s),
           NEW f \in Files, NEW o \in Cells, Aligned(o), NEW n \in 1 .. CHUNK, NEW v \in Data(n)
    PROVE  /\ Contents(B, pwrite(d, f, o, strncpy(v)), pwrite(x, f, o, v), s \cup Span(f, o, n))
           /\ (\A b \in B : ~ (b.fd = f /\ b.from = o)) =>
                 Contents(B, pwrite(d, f, o, strncpy(v)), pwrite(x, f, o, v),
                          (s \ Span(f, o, n)) \cup CutShort(f, o, v))
<1>1. n \in Nat /\ o \in Int /\ strncpy(v) \in Data(n)
  BY StrncpyType DEF CHUNK, Cells
<1>2. ASSUME NEW g \in Files, NEW c \in Cells
      PROVE  /\ pwrite(d, f, o, strncpy(v))[g][c] =
                   IF g = f /\ c - o + 1 \in 1 .. n THEN strncpy(v)[c - o + 1] ELSE d[g][c]
             /\ pwrite(x, f, o, v)[g][c] =
                   IF g = f /\ c - o + 1 \in 1 .. n THEN v[c - o + 1] ELSE x[g][c]
             /\ <<g, c>> \in Span(f, o, n) <=> g = f /\ c - o + 1 \in 1 .. n
             /\ <<g, c>> \in Span(f, o, n) => g = f /\ Base(c) = o
  BY <1>1, PwriteCell, SpanCells
<1>3. ASSUME NEW g \in Files, NEW c \in Cells, <<g, c>> \notin s, <<g, c>> \notin Span(f, o, n)
      PROVE  Right(B, pwrite(d, f, o, strncpy(v)), pwrite(x, f, o, v), g, c)
  <2>1. Right(B, d, x, g, c)
    BY <1>3 DEF Contents
  <2>2. pwrite(d, f, o, strncpy(v))[g][c] = d[g][c] /\ pwrite(x, f, o, v)[g][c] = x[g][c]
    BY <1>2, <1>3
  <2> QED
    BY <2>1, <2>2 DEF Right
<1>4. ASSUME \A b \in B : ~ (b.fd = f /\ b.from = o), NEW g \in Files, NEW c \in Cells,
             <<g, c>> \notin CutShort(f, o, v), <<g, c>> \in Span(f, o, n)
      PROVE  Right(B, pwrite(d, f, o, strncpy(v)), pwrite(x, f, o, v), g, c)
  <2>1. g = f /\ c - o + 1 \in 1 .. n /\ Base(c) = o
    BY <1>2, <1>4
  <2>2. strncpy(v)[c - o + 1] = v[c - o + 1]
    BY <1>1, <1>4, <2>1, CutShortCells
  <2>3. pwrite(d, f, o, strncpy(v))[g][c] = pwrite(x, f, o, v)[g][c]
    BY <1>2, <2>1, <2>2
  <2> QED
    BY <1>4, <2>1, <2>3 DEF Right
<1>5. Contents(B, pwrite(d, f, o, strncpy(v)), pwrite(x, f, o, v), s \cup Span(f, o, n))
  BY <1>3 DEF Contents
<1>6. ASSUME \A b \in B : ~ (b.fd = f /\ b.from = o)
      PROVE  Contents(B, pwrite(d, f, o, strncpy(v)), pwrite(x, f, o, v),
                      (s \ Span(f, o, n)) \cup CutShort(f, o, v))
  BY <1>3, <1>4, <1>6 DEF Contents
<1> QED
  BY <1>5, <1>6

(* A truncation cuts the file; the chunks of it that are cached are given  *)
(* up.                                                                     *)
LEMMA ContentsCut ==
    ASSUME WholeChunks(Range(list)), NEW d \in Disks, NEW x \in Disks, NEW s,
           Contents(Range(list), d, x, s), NEW f \in Files, NEW n
    PROVE  Contents(Range(list), Cut(d, f, n), Cut(x, f, n), s \cup Outlasting(f))
<1>1. ASSUME NEW e \in Disks, NEW g \in Files, NEW c \in Cells
      PROVE  Cut(e, f, n)[g][c] = IF g = f THEN IF c < n THEN e[g][c] ELSE NUL ELSE e[g][c]
  BY DEF Cut, Disks
<1>2. SUFFICES ASSUME NEW g \in Files, NEW c \in Cells, <<g, c>> \notin s \cup Outlasting(f)
               PROVE  Right(Range(list), Cut(d, f, n), Cut(x, f, n), g, c)
  BY DEF Contents
<1>3. Right(Range(list), d, x, g, c)
  BY <1>2 DEF Contents
<1>4. Cut(d, f, n)[g][c] = (IF g = f THEN IF c < n THEN d[g][c] ELSE NUL ELSE d[g][c])
  BY <1>1
<1>5. Cut(x, f, n)[g][c] = (IF g = f THEN IF c < n THEN x[g][c] ELSE NUL ELSE x[g][c])
  BY <1>1
<1>6. CASE g # f
  BY <1>3, <1>4, <1>5, <1>6 DEF Right
<1>7. CASE g = f
  <2>1. ASSUME NEW b \in Range(list), b.fd = f, b.from = Base(c) PROVE FALSE
    <3>1. b.from \in Cells /\ Aligned(b.from) /\ CHUNK \in 1 .. CHUNK
      BY DEF WholeChunks, CHUNK
    <3>2. <<g, c>> \in Span(f, b.from, CHUNK)
      BY <1>7, <2>1, <3>1, SpanCells
    <3> QED
      BY <1>2, <2>1, <3>2 DEF Outlasting
  <2>2. d[g][c] = x[g][c]
    BY <1>3, <1>7, <2>1 DEF Right
  <2> QED
    BY <1>4, <1>5, <1>7, <2>1, <2>2 DEF Right
<1> QED
  BY <1>6, <1>7

(* A release writes every dirty chunk of its file there, and those of      *)
(* other files too, which are given up in both places.                     *)
LEMMA ContentsRelease ==
    ASSUME list \in Seq(Buffers), WholeChunks(Range(list)), NEW d \in Disks, NEW x \in Disks, NEW s,
           Contents(Range(list), d, x, s), NEW f \in Files
    PROVE  Contents({}, Flush(d, f, list), x, s \cup Misdirected(f))
<1>1. SUFFICES ASSUME NEW g \in Files, NEW c \in Cells, <<g, c>> \notin s \cup Misdirected(f)
               PROVE  Flush(d, f, list)[g][c] = x[g][c]
  BY DEF Contents, Right
<1>2. Right(Range(list), d, x, g, c)
  BY <1>1 DEF Contents
<1>3. CHUNK \in 1 .. CHUNK /\ \A k \in DOMAIN list : list[k] \in Range(list) /\ list[k] \in Buffers
  BY DEF CHUNK, Range
<1>4. ASSUME NEW b \in Range(list), b.dirty = 1, b.fd # f, b.from = Base(c)
      PROVE  g # f /\ g # b.fd
  <2>1. b.from \in Cells /\ Aligned(b.from) /\ b.fd \in Files
    BY DEF WholeChunks, Buffers
  <2>2. <<g, c>> \notin Span(b.fd, b.from, CHUNK) /\ <<g, c>> \notin Span(f, b.from, CHUNK)
    BY <1>1, <1>4 DEF Misdirected
  <2> QED
    BY <1>3, <1>4, <2>1, <2>2, SpanCells
<1>5. CASE g # f
  <2>1. Flush(d, f, list)[g][c] = d[g][c]
    BY <1>5 DEF Flush, Disks
  <2>2. ASSUME NEW b \in Range(list), b.fd = g, b.from = Base(c) PROVE b.dirty = 0
    BY <1>4, <1>5, <2>2 DEF WholeChunks, Buffers
  <2> QED
    BY <1>2, <2>1, <2>2 DEF Right
<1>6. CASE g = f
  <2> DEFINE over == {k \in DOMAIN list : list[k].dirty = 1 /\ c \in list[k].from .. To(list[k]) - 1}
  <2>1. Flush(d, f, list)[g][c] =
           IF over = {} THEN d[f][c] ELSE list[Max(over)].buf[c - list[Max(over)].from + 1]
    BY <1>6 DEF Flush, Disks
  <2>2. over = {k \in DOMAIN list : list[k].dirty = 1 /\ list[k].from = Base(c)}
    <3>1. ASSUME NEW k \in DOMAIN list
          PROVE  c \in list[k].from .. To(list[k]) - 1 <=> list[k].from = Base(c)
      <4>1. list[k].from \in Cells /\ Aligned(list[k].from)
        BY <1>3, Zenon DEF WholeChunks
      <4>2. c \in list[k].from .. list[k].from + CHUNK - 1 <=> list[k].from = Base(c)
        BY <4>1, CellFacts
      <4> QED
        BY <4>1, <4>2 DEF To, Cells, CHUNK
    <3> QED
      BY <3>1
  <2>3. CASE over = {}
    <3>1. ASSUME NEW b \in Range(list), b.fd = g, b.from = Base(c) PROVE b.dirty = 0
      <4>1. PICK k \in DOMAIN list : b = list[k]
        BY DEF Range
      <4>2. b.dirty \in {0, 1}
        BY <1>3, <4>1 DEF Buffers
      <4> QED
        BY <2>2, <2>3, <3>1, <4>1, <4>2
    <3> QED
      BY <1>2, <1>6, <2>1, <2>3, <3>1 DEF Right
  <2>4. CASE over # {}
    <3>1. PICK k \in over : k = Max(over)
      <4>1. over \in SUBSET (0 .. Len(list)) /\ Len(list) \in Nat
        OBVIOUS
      <4>2. Max(over) \in over
        BY <2>4, <4>1, Extremes
      <4> QED
        BY <4>2
    <3>2. list[k] \in Range(list) /\ list[k].dirty = 1 /\ list[k].from = Base(c)
      BY <1>3, <2>2
    <3>3. list[k].fd = g
      BY <1>4, <1>6, <3>2
    <3>4. c - Base(c) = refinedOffset(c)
      BY CellFacts
    <3>5. Flush(d, f, list)[g][c] = list[k].buf[refinedOffset(c) + 1]
      BY <2>1, <2>4, <3>1, <3>2, <3>4
    <3> QED
      BY <1>2, <3>2, <3>3, <3>5 DEF Right
  <2> QED
    BY <2>3, <2>4
<1> QED
  BY <1>5, <1>6

----------------------------------------------------------------------------
(* The order of the list                                                   *)

Pairs == Files \X Int

Distinct(t) == \A m, n \in DOMAIN t : t[m] = t[n] => m = n

Occurs(t, a) == \E n \in DOMAIN t : t[n] = a

Before(t, a, b) == \E m, n \in DOMAIN t : m < n /\ t[m] = a /\ t[n] = b

\* The list holds its chunks in the order in which t names them.
InOrder(l, t) ==
    /\ \A k \in DOMAIN l : Occurs(t, Chunk(l[k]))
    /\ \A j, k \in DOMAIN l : j < k => Before(t, Chunk(l[j]), Chunk(l[k]))

\* u is t with c moved or put in front.
Asked(t, u, c) ==
    /\ Occurs(u, c)
    /\ \A a : Occurs(t, a) => Occurs(u, a) /\ (a # c => Before(u, c, a))
    /\ \A a, b : a # c /\ b # c /\ Before(t, a, b) => Before(u, a, b)

\* r is t without c.
Without(t, r, c) ==
    /\ r \in Seq(Pairs) /\ Distinct(r) /\ ~ Occurs(r, c)
    /\ \A a : a # c /\ Occurs(t, a) => Occurs(r, a)
    /\ \A a, b : a # c /\ b # c /\ Before(t, a, b) => Before(r, a, b)

(* Taking a chunk out of the trace.                                        *)
LEMMA WithoutOne ==
    ASSUME NEW t \in Seq(Pairs), Distinct(t), NEW i \in DOMAIN t
    PROVE  Without(t, RemoveAt(t, i), t[i])
<1>1. Len(t) \in Nat /\ DOMAIN t = 1 .. Len(t) /\ i \in 1 .. Len(t)
  OBVIOUS
<1>2. PICK r : r = RemoveAt(t, i)
  OBVIOUS
<1>3. /\ r \in Seq(Pairs) /\ Len(r) = Len(t) - 1
      /\ \A k \in 1 .. Len(t) - 1 : r[k] = IF k < i THEN t[k] ELSE t[k + 1]
  BY <1>1, <1>2, RemoveAtPlaces
<1>4. DOMAIN r = 1 .. Len(t) - 1
  BY <1>1, <1>3
<1> DEFINE p == [k \in 1 .. Len(t) - 1 |-> IF k < i THEN k ELSE k + 1]
           q == [k \in 1 .. Len(t) |-> IF k < i THEN k ELSE k - 1]
<1>5. ASSUME NEW k \in DOMAIN r PROVE p[k] \in DOMAIN t /\ p[k] # i /\ r[k] = t[p[k]]
  BY <1>1, <1>3, <1>4
<1>6. ASSUME NEW j \in DOMAIN r, NEW k \in DOMAIN r, p[j] = p[k] PROVE j = k
  BY <1>1, <1>4, <1>6
<1>7. ASSUME NEW k \in DOMAIN t, k # i PROVE q[k] \in DOMAIN r /\ r[q[k]] = t[k]
  BY <1>1, <1>3, <1>4, <1>7
<1>8. ASSUME NEW j \in DOMAIN t, NEW k \in DOMAIN t, j # i, k # i, j < k PROVE q[j] < q[k]
  BY <1>1, <1>8
<1> HIDE DEF p, q
<1>9. Distinct(r)
  <2>1. SUFFICES ASSUME NEW j \in DOMAIN r, NEW k \in DOMAIN r, r[j] = r[k] PROVE j = k
    BY DEF Distinct
  <2>2. p[j] \in DOMAIN t /\ p[k] \in DOMAIN t /\ t[p[j]] = t[p[k]]
    BY <2>1, <1>5
  <2>3. p[j] = p[k]
    BY <2>2, Zenon DEF Distinct
  <2> QED
    BY <2>3, <1>6
<1>10. ~ Occurs(r, t[i])
  BY <1>5 DEF Occurs, Distinct
<1>11. ASSUME NEW a, a # t[i], Occurs(t, a) PROVE Occurs(r, a)
  <2>1. PICK k \in DOMAIN t : t[k] = a /\ k # i
    BY <1>11 DEF Occurs
  <2> QED
    BY <2>1, <1>7 DEF Occurs
<1>12. ASSUME NEW a, NEW b, a # t[i], b # t[i], Before(t, a, b) PROVE Before(r, a, b)
  <2>1. PICK j \in DOMAIN t, k \in DOMAIN t : j < k /\ t[j] = a /\ t[k] = b
    BY <1>12 DEF Before
  <2>2. j # i /\ k # i
    BY <1>12, <2>1
  <2>3. q[j] \in DOMAIN r /\ q[k] \in DOMAIN r /\ r[q[j]] = a /\ r[q[k]] = b /\ q[j] < q[k]
    BY <2>1, <2>2, <1>7, <1>8
  <2> QED
    BY <2>3 DEF Before
<1>13. Without(t, r, t[i])
  BY <1>3, <1>9, <1>10, <1>11, <1>12 DEF Without
<1> QED
  BY <1>2, <1>13

(* Putting it in front.                                                    *)
LEMMA AskedInFront ==
    ASSUME NEW t, NEW r, NEW c \in Pairs, Without(t, r, c)
    PROVE  <<c>> \o r \in Seq(Pairs) /\ Distinct(<<c>> \o r) /\ Asked(t, <<c>> \o r, c)
<1>1. r \in Seq(Pairs) /\ Len(r) \in Nat /\ DOMAIN r = 1 .. Len(r)
  BY DEF Without
<1>2. PICK u : u = <<c>> \o r
  OBVIOUS
<1>3. /\ u \in Seq(Pairs) /\ Len(u) = Len(r) + 1 /\ u[1] = c
      /\ \A k \in 2 .. Len(r) + 1 : u[k] = r[k - 1]
  BY <1>1, <1>2, PutInFront
<1>4. DOMAIN u = 1 .. Len(r) + 1
  BY <1>1, <1>3
<1>5. ASSUME NEW k \in DOMAIN r
      PROVE  k + 1 \in DOMAIN u /\ u[k + 1] = r[k] /\ 1 < k + 1 /\ k \in Int
  <2>1. k + 1 \in 2 .. Len(r) + 1 /\ (k + 1) - 1 = k /\ k \in Int
    BY <1>1
  <2>2. u[k + 1] = r[(k + 1) - 1]
    BY <1>3, <2>1
  <2> QED
    BY <1>4, <2>1, <2>2
<1>6. ASSUME NEW k \in DOMAIN u, k # 1 PROVE k - 1 \in DOMAIN r /\ u[k] = r[k - 1] /\ k \in Int
  BY <1>1, <1>3, <1>4, <1>6
<1>7. 1 \in DOMAIN u
  BY <1>1, <1>4
<1>8. Distinct(u)
  <2>1. SUFFICES ASSUME NEW j \in DOMAIN u, NEW k \in DOMAIN u, u[j] = u[k] PROVE j = k
    BY DEF Distinct
  <2>2. CASE j # 1 /\ k # 1
    <3>1. j - 1 = k - 1
      BY <2>1, <2>2, <1>6 DEF Without, Distinct
    <3> QED
      BY <3>1, <2>2, <1>6
  <2>3. CASE j = 1 \/ k = 1
    BY <2>1, <2>3, <1>3, <1>6 DEF Without, Occurs
  <2> QED
    BY <2>2, <2>3
<1>9. ASSUME NEW a, Occurs(r, a) PROVE Occurs(u, a) /\ Before(u, c, a)
  <2>1. PICK k \in DOMAIN r : r[k] = a
    BY <1>9 DEF Occurs
  <2>2. k + 1 \in DOMAIN u /\ u[k + 1] = a /\ 1 < k + 1
    BY <2>1, <1>5
  <2> QED
    BY <2>2, <1>3, <1>7 DEF Occurs, Before
<1>10. ASSUME NEW a, NEW b, Before(r, a, b) PROVE Before(u, a, b)
  <2>1. PICK j \in DOMAIN r, k \in DOMAIN r : j < k /\ r[j] = a /\ r[k] = b
    BY <1>10 DEF Before
  <2>2. j + 1 < k + 1
    BY <2>1, <1>5
  <2> QED
    BY <2>1, <2>2, <1>5 DEF Before
<1>11. Occurs(u, c)
  BY <1>3, <1>7 DEF Occurs
<1>12. Asked(t, u, c)
  BY <1>9, <1>10, <1>11 DEF Asked, Without
<1> QED
  BY <1>2, <1>3, <1>8, <1>12

(* What a request through the cache does to the trace.                     *)
LEMMA RequestTrace ==
    ASSUME trace \in Seq(Pairs), Distinct(trace), NEW c \in Pairs, Requests(c)
    PROVE  trace' \in Seq(Pairs) /\ Distinct(trace') /\ Asked(trace, trace', c)
<1>1. CASE Occurs(trace, c)
  <2>1. Age(c) \in DOMAIN trace /\ trace[Age(c)] = c
    BY <1>1 DEF Occurs, Age
  <2>2. Without(trace, RemoveAt(trace, Age(c)), c)
    BY <2>1, WithoutOne
  <2>3. trace' = <<c>> \o RemoveAt(trace, Age(c))
    BY <1>1 DEF Requests, Occurs
  <2> QED
    BY <2>2, <2>3, AskedInFront
<1>2. CASE ~ Occurs(trace, c)
  <2>1. Without(trace, trace, c)
    BY <1>2 DEF Without
  <2>2. trace' = <<c>> \o trace
    BY <1>2 DEF Requests, Occurs
  <2> QED
    BY <2>1, <2>2, AskedInFront
<1> QED
  BY <1>1, <1>2

\* m is l with a buffer of chunk c in front; the others keep their order.
Fronted(l, m, c) ==
    /\ m \in Seq(Buffers) /\ Chunk(m[1]) = c
    /\ \A k \in DOMAIN m : k # 1 => Chunk(m[k]) # c /\ \E i \in DOMAIN l : m[k] = l[i]
    /\ \A j, k \in DOMAIN m : 1 < j /\ j < k =>
          \E h, i \in DOMAIN l : h < i /\ m[j] = l[h] /\ m[k] = l[i]

(* A request moves its chunk to the front of both.                         *)
LEMMA FrontedInOrder ==
    ASSUME NEW l, NEW m, NEW t, NEW u, NEW c, Fronted(l, m, c), Asked(t, u, c), InOrder(l, t)
    PROVE  InOrder(m, u)
<1>1. ASSUME NEW k \in DOMAIN m, k # 1 PROVE Occurs(t, Chunk(m[k])) /\ Chunk(m[k]) # c
  BY <1>1 DEF Fronted, InOrder
<1>2. ASSUME NEW k \in DOMAIN m PROVE Occurs(u, Chunk(m[k]))
  BY <1>1 DEF Fronted, Asked
<1>3. ASSUME NEW j \in DOMAIN m, NEW k \in DOMAIN m, j < k
      PROVE  Before(u, Chunk(m[j]), Chunk(m[k]))
  <2>1. j \in Nat \ {0} /\ k \in Nat \ {0}
    BY DEF Fronted
  <2>2. CASE j = 1
    <3>1. k # 1
      BY <1>3, <2>1, <2>2
    <3> QED
      BY <1>1, <2>2, <3>1 DEF Fronted, Asked
  <2>3. CASE j # 1
    <3>1. 1 < j /\ k # 1
      BY <1>3, <2>1, <2>3
    <3>2. PICK h \in DOMAIN l, i \in DOMAIN l : h < i /\ m[j] = l[h] /\ m[k] = l[i]
      BY <1>3, <3>1 DEF Fronted
    <3>3. Before(t, Chunk(m[j]), Chunk(m[k]))
      BY <3>2 DEF InOrder
    <3> QED
      BY <1>1, <2>3, <3>1, <3>3 DEF Asked
  <2> QED
    BY <2>2, <2>3
<1> QED
  BY <1>2, <1>3 DEF InOrder

(* A buffer put in front of the list without the i-th one.                 *)
LEMMA FrontRemoved ==
    ASSUME NEW l \in Seq(Buffers), OneCopy(l), NEW i \in DOMAIN l, NEW x \in Buffers,
           \A k \in DOMAIN l : k # i => Chunk(l[k]) # Chunk(x)
    PROVE  /\ Fronted(l, <<x>> \o RemoveAt(l, i), Chunk(x))
           /\ Range(<<x>> \o RemoveAt(l, i)) = (Range(l) \ {l[i]}) \cup {x}
<1>1. Len(l) \in Nat /\ DOMAIN l = 1 .. Len(l) /\ i \in 1 .. Len(l)
  OBVIOUS
<1>2. PICK r : r = RemoveAt(l, i)
  OBVIOUS
<1>3. /\ r \in Seq(Buffers) /\ Len(r) = Len(l) - 1
      /\ \A k \in 1 .. Len(l) - 1 : r[k] = IF k < i THEN l[k] ELSE l[k + 1]
  BY <1>1, <1>2, RemoveAtPlaces
<1>4. PICK m : m = <<x>> \o r
  OBVIOUS
<1>5. /\ m \in Seq(Buffers) /\ Len(m) = Len(r) + 1 /\ m[1] = x
      /\ \A k \in 2 .. Len(r) + 1 : m[k] = r[k - 1]
  BY <1>4, <1>3, PutInFront
<1>6. DOMAIN m = 1 .. Len(l)
  BY <1>1, <1>3, <1>5
<1> DEFINE p == [k \in 1 .. Len(l) |-> IF k <= i THEN k - 1 ELSE k]
           q == [k \in 1 .. Len(l) |-> IF k < i THEN k + 1 ELSE k]
<1>7. ASSUME NEW k \in DOMAIN m, k # 1 PROVE p[k] \in DOMAIN l /\ p[k] # i /\ m[k] = l[p[k]]
  <2>1. k - 1 \in 1 .. Len(l) - 1 /\ k \in 2 .. Len(r) + 1
    BY <1>1, <1>3, <1>6, <1>7
  <2>2. m[k] = IF k - 1 < i THEN l[k - 1] ELSE l[(k - 1) + 1]
    BY <1>3, <1>5, <2>1
  <2> QED
    BY <1>1, <2>1, <2>2
<1>8. ASSUME NEW j \in DOMAIN m, NEW k \in DOMAIN m, 1 < j, j < k PROVE p[j] < p[k]
  BY <1>1, <1>6, <1>8
<1>9. ASSUME NEW k \in DOMAIN l, k # i PROVE q[k] \in DOMAIN m /\ q[k] # 1 /\ p[q[k]] = k
  BY <1>1, <1>6, <1>9
<1> HIDE DEF p, q
<1>10. ASSUME NEW j \in DOMAIN m, NEW k \in DOMAIN m, 1 < j, j < k
      PROVE  \E h, n \in DOMAIN l : h < n /\ m[j] = l[h] /\ m[k] = l[n]
  <2>1. j # 1 /\ k # 1
    BY <1>1, <1>6, <1>10
  <2> QED
    BY <1>7, <1>8, <1>10, <2>1
<1>11. Fronted(l, m, Chunk(x))
  <2>1. ASSUME NEW k \in DOMAIN m, k # 1
        PROVE  Chunk(m[k]) # Chunk(x) /\ \E h \in DOMAIN l : m[k] = l[h]
    <3>1. p[k] \in DOMAIN l /\ p[k] # i /\ m[k] = l[p[k]]
      BY <1>7, <2>1
    <3> QED
      BY <3>1
  <2>2. m \in Seq(Buffers) /\ Chunk(m[1]) = Chunk(x)
    BY <1>5
  <2> QED
    BY <1>10, <2>1, <2>2 DEF Fronted
<1>12. Range(l) = {l[k] : k \in DOMAIN l} /\ Range(m) = {m[k] : k \in DOMAIN m}
  BY DEF Range
<1>13. ASSUME NEW b \in Range(m) PROVE b \in (Range(l) \ {l[i]}) \cup {x}
  <2>1. PICK k \in DOMAIN m : b = m[k]
    BY <1>12
  <2>2. CASE k # 1
    <3>1. p[k] \in DOMAIN l /\ p[k] # i /\ b = l[p[k]]
      BY <1>7, <2>1, <2>2
    <3>2. b # l[i]
      BY <3>1 DEF OneCopy
    <3> QED
      BY <1>12, <3>1, <3>2
  <2>3. CASE k = 1
    BY <1>5, <2>1, <2>3
  <2> QED
    BY <2>2, <2>3
<1>14. ASSUME NEW b \in (Range(l) \ {l[i]}) \cup {x} PROVE b \in Range(m)
  <2>1. CASE b = x
    BY <1>1, <1>5, <1>6, <1>12, <2>1
  <2>2. CASE b # x
    <3>1. PICK k \in DOMAIN l : b = l[k] /\ k # i
      BY <1>12, <1>14, <2>2
    <3>2. q[k] \in DOMAIN m /\ m[q[k]] = b
      BY <1>7, <1>9, <3>1
    <3> QED
      BY <1>12, <3>2
  <2> QED
    BY <2>1, <2>2
<1> QED
  BY <1>4, <1>2, <1>11, <1>13, <1>14

(* A buffer put in front of the whole list.                                *)
LEMMA FrontAdded ==
    ASSUME NEW l \in Seq(Buffers), NEW x \in Buffers, \A k \in DOMAIN l : Chunk(l[k]) # Chunk(x)
    PROVE  Fronted(l, <<x>> \o l, Chunk(x)) /\ Range(<<x>> \o l) = Range(l) \cup {x}
<1>1. Len(l) \in Nat /\ DOMAIN l = 1 .. Len(l)
  OBVIOUS
<1>2. PICK m : m = <<x>> \o l
  OBVIOUS
<1>3. /\ m \in Seq(Buffers) /\ Len(m) = Len(l) + 1 /\ m[1] = x
      /\ \A k \in 2 .. Len(l) + 1 : m[k] = l[k - 1]
  BY <1>2, PutInFront
<1>4. DOMAIN m = 1 .. Len(l) + 1
  BY <1>1, <1>3
<1>5. ASSUME NEW k \in DOMAIN m, k # 1 PROVE k - 1 \in DOMAIN l /\ m[k] = l[k - 1]
  BY <1>1, <1>3, <1>4, <1>5
<1>6. ASSUME NEW j \in DOMAIN m, NEW k \in DOMAIN m, 1 < j, j < k
      PROVE  \E h, i \in DOMAIN l : h < i /\ m[j] = l[h] /\ m[k] = l[i]
  <2>1. j # 1 /\ k # 1 /\ j - 1 < k - 1
    BY <1>4, <1>6
  <2> QED
    BY <1>5, <2>1
<1>7. Fronted(l, m, Chunk(x))
  BY <1>3, <1>5, <1>6 DEF Fronted
<1>8. ASSUME NEW k \in DOMAIN l PROVE k + 1 \in DOMAIN m /\ m[k + 1] = l[k]
  <2>1. k + 1 \in DOMAIN m /\ k + 1 # 1 /\ (k + 1) - 1 = k
    BY <1>1, <1>4
  <2> QED
    BY <1>5, <2>1
<1>9. Range(l) = {l[k] : k \in DOMAIN l} /\ Range(m) = {m[k] : k \in DOMAIN m}
  BY DEF Range
<1>10. x \in Range(m) /\ Range(l) \subseteq Range(m)
  BY <1>1, <1>3, <1>4, <1>8, <1>9
<1>11. ASSUME NEW k \in DOMAIN m PROVE m[k] \in Range(l) \cup {x}
  BY <1>3, <1>5, <1>9
<1> QED
  BY <1>2, <1>7, <1>9, <1>10, <1>11

----------------------------------------------------------------------------
(* The invariant of the cache with its history                             *)

AlignedList(l) == \A k \in DOMAIN l : l[k].from \in Cells /\ Aligned(l[k].from)

Traced == trace \in Seq(Pairs) /\ Distinct(trace) /\ InOrder(list, trace)

HistoryInv ==
    /\ CacheInv /\ OneCopy(list) /\ AlignedList(list) /\ latest \in Disks
    /\ Contents(Range(list), disk, latest, lost)
    /\ Traced

\* What a step adds to Keeps.
HistoryKeeps ==
    /\ AlignedList(list') /\ latest' \in Disks
    /\ Contents(Range(list'), disk', latest', lost')
    /\ Traced'

\* The steps that ReadReturnsView and EvictsLeastRecent ask for.
AnswersView ==
    op'.kind = "read" /\ Cached(Len(op'.data)) =>
        \A k \in DOMAIN op'.data :
           op'.from + k - 1 \in Cells => op'.data[k] = View(op'.fd, op'.from + k - 1)

EvictsOldest ==
    cachePolicy' = 2 =>
        \A gone \in Chunks(list) \ Chunks(list'), kept \in Chunks(list) \cap Chunks(list') :
            Age(kept) < Age(gone)

(* What the invariant says about the list.                                 *)
LEMMA HistoryFacts ==
    ASSUME HistoryInv
    PROVE  /\ list \in Seq(Buffers) /\ disk \in Disks /\ latest \in Disks
           /\ WholeChunks(Range(list)) /\ OneCopy(list) /\ AlignedList(list)
<1>1. list \in Seq(Buffers) /\ disk \in Disks
  BY DEF HistoryInv, CacheInv, Fits
<1>2. ASSUME NEW b \in Range(list)
      PROVE  b \in Buffers /\ \E k \in DOMAIN list : b = list[k]
  BY <1>1, <1>2 DEF Range
<1>3. WholeChunks(Range(list))
  BY <1>2 DEF HistoryInv, AlignedList, OneCopy, WholeChunks
<1> QED
  BY <1>1, <1>3 DEF HistoryInv

(* No chunk is found in part.                                              *)
LEMMA AlignedSearch ==
    ASSUME HistoryInv, AlignedRequests, NEW f \in Files, NEW o \in Offsets
    PROVE  /\ o \in Cells /\ Aligned(o) /\ o \in Int /\ <<f, o>> \in Pairs
           /\ \/ Hit(f, o) = "PERFECT_HIT" /\ PerfectAt(f, o) # {}
              \/ Hit(f, o) = "PERFECT_MISS" /\ PerfectAt(f, o) = {} /\ ~ Holds(list, f, o)
<1>1. o \in Cells /\ Aligned(o) /\ o \in Int /\ o % 2 = 0
  BY CacheConstants DEF AlignedRequests, Cells, Aligned, refinedOffset, CHUNK
<1>2. list \in Seq(Buffers) /\ AlignedList(list)
  BY HistoryFacts
<1>3. ASSUME NEW k \in DOMAIN list PROVE list[k].from # o - 1 /\ list[k].from # o + 1
  <2>1. list[k].from \in Int /\ list[k].from % 2 = 0
    BY <1>2 DEF AlignedList, Aligned, Cells, refinedOffset, CHUNK
  <2> QED
    BY <1>1, <2>1
<1>4. FirstAt(f, o) = {} /\ SecondAt(f, o) = {}
  BY <1>2, <1>3, Parts
<1>5. PerfectAt(f, o) = {} => ~ Holds(list, f, o)
  BY DEF PerfectAt, Holds
<1> QED
  BY <1>1, <1>4, <1>5 DEF Hit, Pairs

(* The head and the tail of a list made by putting a buffer in front.      *)
LEMMA FrontAndRest ==
    ASSUME NEW S, NEW l \in Seq(S), NEW x \in S
    PROVE  Head(<<x>> \o l) = x /\ Tail(<<x>> \o l) = l
<1>1. PICK m : m = <<x>> \o l
  OBVIOUS
<1>2. /\ m \in Seq(S) /\ Len(m) = Len(l) + 1 /\ m[1] = x /\ Len(l) \in Nat
      /\ \A k \in 2 .. Len(l) + 1 : m[k] = l[k - 1]
  BY <1>1, PutInFront
<1>3. m # << >>
  BY <1>2
<1>4. /\ Head(m) = m[1] /\ Tail(m) \in Seq(S) /\ Len(Tail(m)) = Len(m) - 1
      /\ \A k \in 1 .. Len(Tail(m)) : Tail(m)[k] = m[k + 1]
  BY <1>2, <1>3, HeadTailProperties
<1>5. Len(Tail(m)) = Len(l)
  BY <1>2, <1>4
<1>6. ASSUME NEW k \in 1 .. Len(l) PROVE Tail(m)[k] = l[k]
  <2>1. k + 1 \in 2 .. Len(l) + 1 /\ (k + 1) - 1 = k
    BY <1>2
  <2>2. m[k + 1] = l[(k + 1) - 1]
    BY <1>2, <2>1
  <2> QED
    BY <1>4, <1>5, <2>1, <2>2
<1>7. Tail(m) = l
  BY <1>4, <1>5, <1>6, SeqEqual
<1> QED
  BY <1>1, <1>2, <1>4, <1>7

(* A perfect hit: which buffer, and where it goes.                         *)
LEMMA PerfectPlace ==
    ASSUME list \in Seq(Buffers), NEW f \in Files, NEW o \in Offsets, PerfectAt(f, o) # {}
    PROVE  \E i \in DOMAIN list :
              /\ i = Min(PerfectAt(f, o)) /\ list[i].fd = f /\ list[i].from = o
              /\ Perfect(f, o) = <<list[i]>> \o RemoveAt(list, i)
              /\ Head(Perfect(f, o)) = list[i] /\ Tail(Perfect(f, o)) = RemoveAt(list, i)
<1>1. PerfectAt(f, o) \in SUBSET (0 .. Len(list)) /\ Len(list) \in Nat
  BY DEF PerfectAt
<1>2. Min(PerfectAt(f, o)) \in PerfectAt(f, o)
  BY <1>1, Extremes
<1>3. PICK i \in DOMAIN list : i = Min(PerfectAt(f, o)) /\ list[i].fd = f /\ list[i].from = o
  BY <1>2 DEF PerfectAt
<1>4. Perfect(f, o) = <<list[i]>> \o RemoveAt(list, i)
  BY <1>3 DEF Perfect, list_move
<1>5. RemoveAt(list, i) \in Seq(Buffers) /\ list[i] \in Buffers
  BY RemoveAtPlaces
<1>6. /\ Head(<<list[i]>> \o RemoveAt(list, i)) = list[i]
      /\ Tail(<<list[i]>> \o RemoveAt(list, i)) = RemoveAt(list, i)
  BY <1>5, FrontAndRest
<1> QED
  BY <1>3, <1>4, <1>6

(* What a hit does to the list.                                            *)
LEMMA HitMoves ==
    ASSUME list \in Seq(Buffers), OneCopy(list), NEW f, NEW o, NEW i \in DOMAIN list,
           list[i].fd = f, list[i].from = o, NEW x \in Buffers, x.fd = f, x.from = o,
           list' = <<x>> \o RemoveAt(list, i)
    PROVE  /\ Fronted(list, list', <<f, o>>)
           /\ Range(list') = (Range(list) \ {list[i]}) \cup {x}
<1>1. Chunk(x) = <<f, o>>
  BY DEF Chunk
<1>2. ASSUME NEW k \in DOMAIN list, k # i PROVE Chunk(list[k]) # Chunk(x)
  BY <1>2 DEF Chunk, OneCopy
<1>3. /\ Fronted(list, <<x>> \o RemoveAt(list, i), Chunk(x))
      /\ Range(<<x>> \o RemoveAt(list, i)) = (Range(list) \ {list[i]}) \cup {x}
  BY <1>2, FrontRemoved
<1> QED
  BY <1>1, <1>3

\* What addFileBuffer of the buffer y does: A is what it leaves of the list.
MissEffect(A, y) ==
    /\ A \subseteq Range(list) /\ Range(list') = A \cup {y}
    /\ Contents(A, disk', latest, lost)
    /\ conf = 2 => \A b \in Range(list) \ A : Len(list) \in DOMAIN list /\ b = list[Len(list)]

(* A miss adds a chunk, and may evict one.                                 *)
LEMMA MissAdds ==
    ASSUME HistoryInv, NEW f \in Files, NEW o \in Int, ~ Holds(list, f, o), NEW x \in Data(CHUNK),
           NEW r \in addFileBuffer(Cache(list), f, o, x), Becomes(r)
    PROVE  /\ Fronted(list, list', <<f, o>>)
           /\ \E A : MissEffect(A, [fd |-> f, from |-> o, dirty |-> 0, buf |-> x])
<1>1. /\ list \in Seq(Buffers) /\ disk \in Disks /\ WholeChunks(Range(list)) /\ OneCopy(list)
      /\ Contents(Range(list), disk, latest, lost) /\ Len(list) \in Nat
      /\ bufferCount = Len(list) /\ MAX_LIST_SIZE \in Nat \ {0}
  BY HistoryFacts, CacheConstants DEF HistoryInv, CacheInv, Fits
<1>2. PICK y : y = [fd |-> f, from |-> o, dirty |-> 0, buf |-> x]
  OBVIOUS
<1>3. y \in Buffers /\ y.fd = f /\ y.from = o
  BY <1>2 DEF Buffers, Data
<1>4. Chunk(y) = <<f, o>> /\ \A k \in DOMAIN list : Chunk(list[k]) # Chunk(y)
  BY <1>3 DEF Chunk, Holds
<1>5. PICK e \in Evictions(Cache(list)) : r = [e EXCEPT !.list = <<y>> \o e.list, !.count = e.count + 1]
  BY <1>2 DEF addFileBuffer
<1>6. PICK c : c = Cache(list) /\ c.list = list /\ c.disk = disk /\ c.count = bufferCount /\ c.freed = 0
  BY DEF Cache
<1>7. CASE Full(bufferCount)
  <2>1. PICK k \in Victims(list) :
           e = [list |-> RemoveAt(list, k), disk |-> WriteBack(disk, list[k]),
                count |-> bufferCount - 1, freed |-> k]
    BY <1>5, <1>6, <1>7 DEF Evictions
  <2>2. list' = <<y>> \o RemoveAt(list, k) /\ disk' = WriteBack(disk, list[k])
    BY <1>5, <2>1 DEF Becomes
  <2>3. k \in DOMAIN list /\ (conf = 2 => k = Len(list))
    <3>1. Len(list) \in DOMAIN list
      BY <1>1, <1>7 DEF Full
    <3> QED
      BY <3>1 DEF Victims
  <2>4. /\ Fronted(list, <<y>> \o RemoveAt(list, k), Chunk(y))
        /\ Range(<<y>> \o RemoveAt(list, k)) = (Range(list) \ {list[k]}) \cup {y}
    BY <1>1, <1>3, <1>4, <2>3, FrontRemoved
  <2>5. list[k] \in Range(list)
    BY <2>3 DEF Range
  <2>6. Contents(Range(list) \ {list[k]}, WriteBack(disk, list[k]), latest, lost)
    BY <1>1, <2>5, ContentsEvict
  <2>7. MissEffect(Range(list) \ {list[k]}, y)
    BY <2>2, <2>3, <2>4, <2>6 DEF MissEffect
  <2> QED
    BY <1>2, <1>4, <2>2, <2>4, <2>7
<1>8. CASE ~ Full(bufferCount)
  <2>1. e = [c EXCEPT !.freed = 0]
    BY <1>5, <1>6, <1>8 DEF Evictions
  <2>2. e.list = list /\ e.disk = disk
    BY <2>1, <1>6 DEF Cache
  <2>3. list' = <<y>> \o list /\ disk' = disk
    <3>1. e = [list |-> list, disk |-> disk, count |-> bufferCount, freed |-> 0]
      BY <2>1, <1>6 DEF Cache
    <3> QED
      BY <1>5, <3>1 DEF Becomes
  <2>4. Fronted(list, <<y>> \o list, Chunk(y)) /\ Range(<<y>> \o list) = Range(list) \cup {y}
    BY <1>1, <1>3, <1>4, FrontAdded
  <2>5. MissEffect(Range(list), y)
    BY <1>1, <2>3, <2>4 DEF MissEffect
  <2> QED
    BY <1>2, <1>4, <2>3, <2>4, <2>5
<1> QED
  BY <1>7, <1>8

(* Requests keep the list aligned and in the order of the trace.           *)
LEMMA RequestKeeps ==
    ASSUME HistoryInv, NEW f \in Files, NEW o \in Cells, Aligned(o), o \in Int,
           Fronted(list, list', <<f, o>>), Requests(<<f, o>>)
    PROVE  AlignedList(list') /\ Traced'
<1>1. <<f, o>> \in Pairs /\ trace \in Seq(Pairs) /\ Distinct(trace) /\ InOrder(list, trace)
  BY DEF Pairs, HistoryInv, Traced
<1>2. trace' \in Seq(Pairs) /\ Distinct(trace') /\ Asked(trace, trace', <<f, o>>)
  BY <1>1, RequestTrace
<1>3. InOrder(list', trace')
  BY <1>1, <1>2, FrontedInOrder
<1>4. ASSUME NEW k \in DOMAIN list' PROVE list'[k].from \in Cells /\ Aligned(list'[k].from)
  <2>1. CASE k = 1
    BY <2>1 DEF Fronted, Chunk
  <2>2. CASE k # 1
    BY <2>2 DEF Fronted, HistoryInv, AlignedList
  <2> QED
    BY <2>1, <2>2
<1> QED
  BY <1>2, <1>3, <1>4 DEF AlignedList, Traced

(* Nothing is evicted, or nothing is left.                                 *)
LEMMA NothingGone ==
    ASSUME Chunks(list) \subseteq Chunks(list') \/ Chunks(list') = {}
    PROVE  EvictsOldest
  BY DEF EvictsOldest

(* An eviction under LRU takes the chunk at the end of the list, which is  *)
(* the one asked for longest ago.                                          *)
LEMMA OldestGone ==
    ASSUME Traced, list \in Seq(Buffers), NEW A, NEW y, MissEffect(A, y), cachePolicy' = conf
    PROVE  EvictsOldest
<1>1. SUFFICES ASSUME conf = 2, NEW gone \in Chunks(list) \ Chunks(list'),
                      NEW kept \in Chunks(list) \cap Chunks(list')
               PROVE  Age(kept) < Age(gone)
  BY DEF EvictsOldest
<1>2. PICK b \in Range(list) : gone = Chunk(b)
  BY DEF Chunks, Chunk
<1>3. b \notin A
  BY <1>1, <1>2 DEF MissEffect, Chunks, Chunk
<1>4. Len(list) \in DOMAIN list /\ b = list[Len(list)]
  BY <1>1, <1>3 DEF MissEffect
<1>5. PICK k \in DOMAIN list : kept = Chunk(list[k])
  BY DEF Chunks, Chunk, Range
<1>6. k < Len(list)
  <2>1. k # Len(list)
    BY <1>1, <1>2, <1>4, <1>5
  <2> QED
    BY <2>1
<1>7. PICK m \in DOMAIN trace, n \in DOMAIN trace : m < n /\ trace[m] = kept /\ trace[n] = gone
  BY <1>2, <1>4, <1>5, <1>6 DEF Traced, InOrder, Before
<1>8. Age(kept) = m /\ Age(gone) = n
  BY <1>7 DEF Age, Traced, Distinct
<1> QED
  BY <1>7, <1>8

----------------------------------------------------------------------------
(* The steps                                                               *)

(* What the history remembers of a read.                                   *)
LEMMA RememberedRead ==
    ASSUME NEW f, NEW o, NEW x, Returned(f, o, x), Remember
    PROVE  /\ latest' = latest /\ lost' = lost
           /\ Cached(Len(x)) => Requests(<<f, o>>)
           /\ ~ Cached(Len(x)) => trace' = trace
<1>1. op'.kind = "read" /\ op'.fd = f /\ op'.from = o /\ op'.data = x
  BY DEF Returned
<1> QED
  BY <1>1 DEF Remember

(* What it remembers of a write.                                           *)
LEMMA RememberedWrite ==
    ASSUME NEW f, NEW o, NEW x, Written(f, o, x), Remember
    PROVE  /\ RememberWrite(f, o, x)
           /\ Cached(Len(x)) => Requests(<<f, o>>)
           /\ ~ Cached(Len(x)) => trace' = trace
<1>1. op'.kind = "write" /\ op'.fd = f /\ op'.from = o /\ op'.data = x
  BY DEF Written
<1> QED
  BY <1>1 DEF Remember

(* The list stays, and so does the rest that the history is about.         *)
LEMMA ListStays ==
    ASSUME HistoryInv, list' = list, trace' = trace
    PROVE  AlignedList(list') /\ Traced' /\ EvictsOldest
<1>1. EvictsOldest
  BY NothingGone
<1> QED
  BY <1>1 DEF HistoryInv, AlignedList, Traced

(* A buffer moved or changed takes no chunk away.                          *)
LEMMA HitsKeepChunks ==
    ASSUME NEW b \in Range(list), NEW x, x.fd = b.fd, x.from = b.from,
           Range(list') = (Range(list) \ {b}) \cup {x}
    PROVE  EvictsOldest
<1>1. Chunks(list) \subseteq Chunks(list')
  BY DEF Chunks
<1> QED
  BY <1>1, NothingGone

(* The chunk at o, half chunk by half chunk.                               *)
LEMMA ChunkCells ==
    ASSUME NEW o \in Cells, Aligned(o), NEW k \in 1 .. CHUNK, o + k - 1 \in Cells
    PROVE  Base(o + k - 1) = o /\ refinedOffset(o + k - 1) + 1 = k
<1>1. o \in Int /\ k \in 1 .. 2 /\ o % 2 = 0
  BY DEF Cells, CHUNK, Aligned, refinedOffset
<1> QED
  BY <1>1 DEF Base, refinedOffset, CHUNK

(* A read that hit.                                                        *)
LEMMA ReadHitHistory ==
    ASSUME HistoryInv, AlignedRequests, NEW f \in Files, NEW o \in Offsets,
           ReadPerfectHit(f, o), Remember
    PROVE  HistoryKeeps /\ AnswersView /\ EvictsOldest
<1>1. /\ list \in Seq(Buffers) /\ OneCopy(list)
      /\ o \in Cells /\ Aligned(o) /\ o \in Int /\ PerfectAt(f, o) # {}
  BY HistoryFacts, AlignedSearch DEF ReadPerfectHit, CachedRequest
<1>2. PICK i \in DOMAIN list :
         /\ i = Min(PerfectAt(f, o)) /\ list[i].fd = f /\ list[i].from = o
         /\ Perfect(f, o) = <<list[i]>> \o RemoveAt(list, i) /\ Head(Perfect(f, o)) = list[i]
  BY <1>1, PerfectPlace
<1>3. PICK x \in Buffers : x = list[i]
  BY <1>1
<1>4. x.buf \in Data(CHUNK) /\ Len(x.buf) = CHUNK /\ DOMAIN x.buf = 1 .. CHUNK
  <2>1. x.buf \in Data(CHUNK) /\ CHUNK \in Nat
    BY DEF Buffers, Data, CHUNK
  <2> QED
    BY <2>1, DataIsSeq DEF Data
<1>5. list' = <<x>> \o RemoveAt(list, i) /\ Returned(f, o, x.buf) /\ disk' = disk /\ Cached(CHUNK)
  BY <1>2, <1>3 DEF ReadPerfectHit, CachedRequest
<1>6. latest' = latest /\ lost' = lost /\ Requests(<<f, o>>)
  BY <1>4, <1>5, RememberedRead
<1>7. Fronted(list, list', <<f, o>>) /\ Range(list') = (Range(list) \ {x}) \cup {x}
  BY <1>1, <1>2, <1>3, <1>5, HitMoves
<1>8. x \in Range(list) /\ Range(list') = Range(list)
  BY <1>3, <1>7 DEF Range
<1>9. HistoryKeeps
  BY <1>1, <1>5, <1>6, <1>7, <1>8, RequestKeeps DEF HistoryKeeps, HistoryInv
<1>10. EvictsOldest
  BY <1>7, <1>8, HitsKeepChunks
<1>11. AnswersView
  <2>1. op'.fd = f /\ op'.from = o /\ op'.data = x.buf
    BY <1>5 DEF Returned
  <2>2. ASSUME NEW k \in 1 .. CHUNK, o + k - 1 \in Cells PROVE x.buf[k] = View(f, o + k - 1)
    <3>1. Base(o + k - 1) = o /\ refinedOffset(o + k - 1) + 1 = k
      BY <1>1, <2>2, ChunkCells
    <3> QED
      BY <1>1, <1>2, <1>3, <3>1 DEF View
  <2> QED
    BY <1>4, <2>1, <2>2 DEF AnswersView
<1> QED
  BY <1>9, <1>10, <1>11

(* A read that missed.                                                     *)
LEMMA ReadMissHistory ==
    ASSUME HistoryInv, AlignedRequests, NEW f \in Files, NEW o \in Offsets,
           ReadMiss(f, o), Remember
    PROVE  HistoryKeeps /\ AnswersView /\ EvictsOldest
<1>1. /\ list \in Seq(Buffers) /\ disk \in Disks /\ latest \in Disks
      /\ o \in Cells /\ Aligned(o) /\ o \in Int /\ PerfectAt(f, o) = {} /\ ~ Holds(list, f, o)
      /\ Contents(Range(list), disk, latest, lost)
  BY HistoryFacts, AlignedSearch DEF ReadMiss, CachedRequest, HistoryInv
<1>2. PICK x \in Data(CHUNK) : x = pread(disk, f, o, CHUNK)
  BY <1>1, PreadType DEF CHUNK
<1>3. Len(x) = CHUNK /\ DOMAIN x = 1 .. CHUNK
  <2>1. CHUNK \in Nat
    BY DEF CHUNK
  <2> QED
    BY <2>1, DataIsSeq DEF Data
<1>4. PICK r \in addFileBuffer(Cache(list), f, o, x) : Becomes(r)
  BY <1>2 DEF ReadMiss
<1>5. Returned(f, o, x) /\ Cached(CHUNK) /\ cachePolicy' = conf
  BY <1>2 DEF ReadMiss, CachedRequest, Request
<1>6. latest' = latest /\ lost' = lost /\ Requests(<<f, o>>)
  BY <1>3, <1>5, RememberedRead
<1>7. PICK y : y = [fd |-> f, from |-> o, dirty |-> 0, buf |-> x]
  OBVIOUS
<1>8. PICK A : Fronted(list, list', <<f, o>>) /\ MissEffect(A, y)
  BY <1>1, <1>4, <1>7, MissAdds
<1>9. \A b \in Range(list) : ~ (b.fd = f /\ b.from = o)
  BY <1>1 DEF Holds, Range
<1>10. Contents(A \cup {y}, disk', latest, lost)
  <2>1. A \in SUBSET Range(list) /\ Contents(A, disk', latest, lost)
    BY <1>8 DEF MissEffect
  <2>2. y = [fd |-> f, from |-> o, dirty |-> 0, buf |-> pread(disk, f, o, CHUNK)]
    BY <1>2, <1>7
  <2> QED
    BY <1>1, <1>9, <2>1, <2>2, ContentsReadMiss
<1>11. HistoryKeeps
  BY <1>1, <1>6, <1>8, <1>10, RequestKeeps DEF HistoryKeeps, MissEffect
<1>12. EvictsOldest
  BY <1>1, <1>5, <1>8, OldestGone DEF HistoryInv
<1>13. AnswersView
  <2>1. op'.fd = f /\ op'.from = o /\ op'.data = x
    BY <1>5 DEF Returned
  <2>2. ASSUME NEW k \in 1 .. CHUNK, o + k - 1 \in Cells PROVE x[k] = View(f, o + k - 1)
    <3>1. Base(o + k - 1) = o
      BY <1>1, <2>2, ChunkCells
    <3>2. x[k] = disk[f][o + k - 1]
      BY <1>2, <2>2 DEF pread
    <3> QED
      BY <1>1, <3>1, <3>2 DEF View
  <2> QED
    BY <1>3, <2>1, <2>2 DEF AnswersView
<1> QED
  BY <1>11, <1>12, <1>13

(* A read that the cache does not serve.                                   *)
LEMMA ReadDirectHistory ==
    ASSUME HistoryInv, NEW f \in Files, NEW o \in Offsets, NEW n \in Sizes,
           ReadDirect(f, o, n), Remember
    PROVE  HistoryKeeps /\ AnswersView /\ EvictsOldest
<1>1. o \in Int /\ n \in Nat /\ disk \in Disks
  BY HistoryFacts, CacheConstants, OffsetTypes DEF CHUNK
<1>2. PICK x \in Data(n) : x = pread(disk, f, o, n) /\ Len(x) = n
  BY <1>1, PreadType, DataIsSeq
<1>3. Returned(f, o, x) /\ ~ Cached(n) /\ disk' = disk /\ list' = list
  BY <1>2 DEF ReadDirect
<1>4. latest' = latest /\ lost' = lost /\ trace' = trace
  BY <1>2, <1>3, RememberedRead
<1>5. AnswersView
  <2>1. op'.data = x
    BY <1>3 DEF Returned
  <2> QED
    BY <1>2, <1>3, <2>1 DEF AnswersView
<1>6. HistoryKeeps /\ EvictsOldest
  BY <1>3, <1>4, ListStays DEF HistoryKeeps, HistoryInv
<1> QED
  BY <1>5, <1>6

(* Only reads have to agree with the view.                                 *)
LEMMA OtherAnswers ==
    ASSUME op'.kind # "read" PROVE AnswersView
  BY DEF AnswersView

(* A write that hit.                                                       *)
LEMMA WriteHitHistory ==
    ASSUME HistoryInv, AlignedRequests, NEW f \in Files, NEW o \in Offsets, NEW v \in Texts,
           WritePerfectHit(f, o, v), Remember
    PROVE  HistoryKeeps /\ AnswersView /\ EvictsOldest
<1>1. /\ list \in Seq(Buffers) /\ OneCopy(list) /\ WholeChunks(Range(list)) /\ latest \in Disks
      /\ o \in Cells /\ Aligned(o) /\ o \in Int /\ PerfectAt(f, o) # {}
      /\ Contents(Range(list), disk, latest, lost)
  BY HistoryFacts, AlignedSearch DEF WritePerfectHit, CachedRequest, HistoryInv
<1>2. PICK i \in DOMAIN list :
         /\ list[i].fd = f /\ list[i].from = o
         /\ Head(Perfect(f, o)) = list[i] /\ Tail(Perfect(f, o)) = RemoveAt(list, i)
  BY <1>1, PerfectPlace
<1>3. v \in Data(CHUNK) /\ CHUNK \in Nat /\ Len(v) = CHUNK /\ strncpy(v) \in Data(CHUNK)
  <2>1. v \in Data(CHUNK) /\ CHUNK \in Nat
    BY TextIsData DEF CHUNK
  <2> QED
    BY <2>1, DataIsSeq, StrncpyType
<1>4. list[i] \in Buffers /\ list[i] \in Range(list)
  BY <1>1 DEF Range
<1>5. PICK x \in Buffers : x = Store(list[i], strncpy(v)) /\ x.fd = list[i].fd /\ x.from = list[i].from
  BY <1>3, <1>4, StoreType
<1>6. x.dirty = 1 /\ x.fd = f /\ x.from = o
  BY <1>2, <1>4, <1>5 DEF Store, Buffers
<1>7. list' = <<x>> \o RemoveAt(list, i)
  BY <1>2, <1>5 DEF WritePerfectHit
<1>8. Written(f, o, v) /\ disk' = disk /\ Cached(CHUNK)
  BY DEF WritePerfectHit, CachedRequest
<1>9. RememberWrite(f, o, v) /\ Requests(<<f, o>>)
  BY <1>3, <1>8, RememberedWrite
<1>10. Fronted(list, list', <<f, o>>) /\ Range(list') = (Range(list) \ {list[i]}) \cup {x}
  <2>1. list \in Seq(Buffers) /\ OneCopy(list) /\ list[i].fd = f /\ list[i].from = o
    BY <1>1, <1>2
  <2> QED
    BY <1>6, <1>7, <2>1, HitMoves
<1>11. ~ \E b \in Range(list') : b.fd = f /\ b.from = o /\ (b.dirty = 0 \/ ~ Cached(CHUNK))
  <2>1. \A b \in Range(list) \ {list[i]} : ~ (b.fd = f /\ b.from = o)
    BY <1>1, <1>2, <1>4 DEF WholeChunks
  <2>2. x.dirty # 0
    BY <1>6
  <2> QED
    BY <1>10, <1>8, <2>1, <2>2
<1>12. /\ latest' = pwrite(latest, f, o, v)
       /\ lost' = (lost \ Span(f, o, CHUNK)) \cup CutShort(f, o, v)
  BY <1>3, <1>9, <1>11 DEF RememberWrite
<1>13. Contents(Range(list'), disk', latest', lost')
  <2>1. PICK h \in Range(list) : h = list[i] /\ h.fd = f /\ h.from = o
    BY <1>2, <1>4
  <2>2. x = Store(h, strncpy(v))
    BY <1>5, <2>1
  <2>3. Contents((Range(list) \ {h}) \cup {x}, disk, pwrite(latest, f, o, v),
                 (lost \ Span(f, o, CHUNK)) \cup CutShort(f, o, v))
    BY <1>1, <1>3, <2>1, <2>2, ContentsStore
  <2> QED
    BY <1>10, <1>12, <1>8, <2>1, <2>3
<1>14. latest' \in Disks
  BY <1>1, <1>3, <1>12, PwriteType
<1>15. HistoryKeeps
  BY <1>1, <1>9, <1>10, <1>13, <1>14, RequestKeeps DEF HistoryKeeps
<1>16. EvictsOldest
  BY <1>4, <1>5, <1>10, HitsKeepChunks
<1>17. AnswersView
  BY <1>8, OtherAnswers DEF Written
<1> QED
  BY <1>15, <1>16, <1>17

(* A write that missed.                                                    *)
LEMMA WriteMissHistory ==
    ASSUME HistoryInv, AlignedRequests, NEW f \in Files, NEW o \in Offsets, NEW v \in Texts,
           WriteMiss(f, o, v), Remember
    PROVE  HistoryKeeps /\ AnswersView /\ EvictsOldest
<1>1. /\ list \in Seq(Buffers) /\ latest \in Disks
      /\ o \in Cells /\ Aligned(o) /\ o \in Int /\ ~ Holds(list, f, o)
  BY HistoryFacts, AlignedSearch DEF WriteMiss, CachedRequest
<1>2. v \in Data(CHUNK) /\ CHUNK \in Nat /\ Len(v) = CHUNK
  <2>1. v \in Data(CHUNK) /\ CHUNK \in Nat
    BY TextIsData DEF CHUNK
  <2> QED
    BY <2>1, DataIsSeq
<1>3. PICK x \in Data(CHUNK) : x = strncpy(v)
  BY <1>2, StrncpyType
<1>4. PICK r \in addFileBuffer(Cache(list), f, o, x) : Becomes(r)
  BY <1>3 DEF WriteMiss
<1>5. Written(f, o, v) /\ Cached(CHUNK) /\ cachePolicy' = conf
  BY DEF WriteMiss, CachedRequest, Request
<1>6. RememberWrite(f, o, v) /\ Requests(<<f, o>>)
  BY <1>2, <1>5, RememberedWrite
<1>7. PICK y : y = [fd |-> f, from |-> o, dirty |-> 0, buf |-> x]
  OBVIOUS
<1>8. PICK A : Fronted(list, list', <<f, o>>) /\ MissEffect(A, y)
  BY <1>1, <1>4, <1>7, MissAdds
<1>9. y.fd = f /\ y.from = o /\ y.dirty = 0
  BY <1>7
<1>10. latest' = pwrite(latest, f, o, v) /\ lost' = lost \cup Span(f, o, CHUNK)
  <2>1. \E b \in Range(list') : b.fd = f /\ b.from = o /\ (b.dirty = 0 \/ ~ Cached(Len(v)))
    BY <1>8, <1>9 DEF MissEffect
  <2> QED
    BY <1>2, <1>6, <2>1 DEF RememberWrite
<1>11. Contents(Range(list'), disk', latest', lost')
  <2>1. Range(list') = A \cup {y} /\ Contents(A, disk', latest, lost)
    BY <1>8 DEF MissEffect
  <2> QED
    BY <1>1, <1>2, <1>9, <1>10, <2>1, ContentsWriteMiss
<1>12. latest' \in Disks
  BY <1>1, <1>2, <1>10, PwriteType
<1>13. HistoryKeeps
  BY <1>1, <1>6, <1>8, <1>11, <1>12, RequestKeeps DEF HistoryKeeps
<1>14. EvictsOldest
  BY <1>1, <1>5, <1>8, OldestGone DEF HistoryInv
<1>15. AnswersView
  BY <1>5, OtherAnswers DEF Written
<1> QED
  BY <1>13, <1>14, <1>15

(* A write that the cache does not serve.                                  *)
LEMMA WriteDirectHistory ==
    ASSUME HistoryInv, AlignedRequests, NEW f \in Files, NEW o \in Offsets, NEW n \in 1 .. CHUNK,
           NEW v \in Data(n), WriteDirect(f, o, v), Remember
    PROVE  HistoryKeeps /\ AnswersView /\ EvictsOldest
<1>1. /\ disk \in Disks /\ latest \in Disks /\ Contents(Range(list), disk, latest, lost)
      /\ o \in Cells /\ Aligned(o) /\ o \in Int
  BY HistoryFacts, AlignedSearch DEF HistoryInv
<1>2. n \in Nat /\ Len(v) = n
  <2>1. n \in Nat
    BY DEF CHUNK
  <2> QED
    BY <2>1, DataIsSeq
<1>3. /\ Written(f, o, v) /\ ~ Cached(n) /\ list' = list
      /\ disk' = pwrite(disk, f, o, strncpy(v))
  BY <1>2 DEF WriteDirect
<1>4. RememberWrite(f, o, v) /\ trace' = trace
  BY <1>2, <1>3, RememberedWrite
<1>5. latest' = pwrite(latest, f, o, v)
  BY <1>4 DEF RememberWrite
<1>6. Contents(Range(list), disk', latest', lost')
  <2>1. CASE \E b \in Range(list) : b.fd = f /\ b.from = o
    <3>1. lost' = lost \cup Span(f, o, n)
      BY <1>2, <1>3, <1>4, <2>1 DEF RememberWrite
    <3> QED
      BY <1>1, <1>3, <1>5, <3>1, ContentsDirect
  <2>2. CASE \A b \in Range(list) : ~ (b.fd = f /\ b.from = o)
    <3>1. lost' = (lost \ Span(f, o, n)) \cup CutShort(f, o, v)
      BY <1>2, <1>3, <1>4, <2>2 DEF RememberWrite
    <3> QED
      BY <1>1, <1>3, <1>5, <2>2, <3>1, ContentsDirect
  <2> QED
    BY <2>1, <2>2
<1>7. latest' \in Disks
  BY <1>1, <1>2, <1>5, PwriteType
<1>8. HistoryKeeps /\ EvictsOldest
  BY <1>3, <1>4, <1>6, <1>7, ListStays DEF HistoryKeeps
<1>9. AnswersView
  BY <1>3, OtherAnswers DEF Written
<1> QED
  BY <1>8, <1>9

(* A release flushes the list and empties it.                              *)
LEMMA ReleaseHistory ==
    ASSUME HistoryInv, NEW f \in Files, bb_release(f), Remember
    PROVE  HistoryKeeps /\ AnswersView /\ EvictsOldest
<1>1. /\ list \in Seq(Buffers) /\ disk \in Disks /\ latest \in Disks /\ WholeChunks(Range(list))
      /\ Contents(Range(list), disk, latest, lost)
  BY HistoryFacts DEF HistoryInv
<1>2. op'.kind = "release" /\ op'.fd = f
  BY DEF bb_release, Done, Idle
<1>3. latest' = latest /\ lost' = lost \cup Misdirected(f) /\ trace' = << >>
  BY <1>2 DEF Remember
<1>4. list' = << >> /\ disk' = Flush(disk, f, list)
  BY DEF bb_release
<1>5. Range(list') = {} /\ Chunks(list') = {}
  BY <1>4 DEF Range, Chunks
<1>6. Contents(Range(list'), disk', latest', lost')
  BY <1>1, <1>3, <1>4, <1>5, ContentsRelease
<1>7. AlignedList(list') /\ Traced'
  BY <1>3, <1>4 DEF AlignedList, Traced, Distinct, InOrder
<1>8. EvictsOldest
  BY <1>5, NothingGone
<1>9. AnswersView
  BY <1>2, OtherAnswers
<1> QED
  BY <1>1, <1>3, <1>6, <1>7, <1>8, <1>9 DEF HistoryKeeps

(* A truncation.                                                           *)
LEMMA TruncateHistory ==
    ASSUME HistoryInv, NEW f \in Files, bb_truncate(f), Remember
    PROVE  HistoryKeeps /\ AnswersView /\ EvictsOldest
<1>1. /\ disk \in Disks /\ latest \in Disks /\ WholeChunks(Range(list))
      /\ Contents(Range(list), disk, latest, lost)
  BY HistoryFacts DEF HistoryInv
<1>2. op'.kind = "truncate" /\ op'.fd = f
  BY DEF bb_truncate, Done, Idle
<1>3. PICK n \in TruncateTo : disk' = Cut(disk, f, n) /\ latest' = Cut(latest, f, n)
  BY <1>2 DEF Remember
<1>4. lost' = lost \cup Outlasting(f) /\ trace' = trace /\ list' = list
  BY <1>2 DEF Remember, bb_truncate
<1>5. Contents(Range(list), disk', latest', lost')
  BY <1>1, <1>3, <1>4, ContentsCut
<1>6. latest' \in Disks
  BY <1>1, <1>3, CutType
<1>7. AnswersView
  BY <1>2, OtherAnswers
<1> QED
  BY <1>4, <1>5, <1>6, <1>7, ListStays DEF HistoryKeeps

(* The operations that leave the list and the files alone.                 *)
LEMMA QuietHistory ==
    ASSUME HistoryInv, UNCHANGED <<disk, list, latest, lost, trace>>, op'.kind # "read"
    PROVE  HistoryKeeps /\ AnswersView /\ EvictsOldest
  BY ListStays, OtherAnswers DEF HistoryKeeps, HistoryInv

(* A read or a write names a file and an offset.                           *)
LEMMA RequestNames ==
    ASSUME Next, op'.kind \in {"read", "write"}
    PROVE  op'.fd \in Files /\ op'.from \in Offsets
<1>1. ASSUME NEW f \in Files, NEW o \in Offsets, bb_read(f, o)
      PROVE  op'.fd \in Files /\ op'.from \in Offsets
  <2>1. \E x : Returned(f, o, x)
    BY <1>1 DEF bb_read, ReadPerfectHit, ReadPartialHit, ReadFirstOk, ReadSecondOk, ReadMiss,
                ReadMissTwo, ReadDirect
  <2> QED
    BY <2>1 DEF Returned
<1>2. ASSUME NEW f \in Files, NEW o \in Offsets, bb_write(f, o)
      PROVE  op'.fd \in Files /\ op'.from \in Offsets
  <2>1. \E x : Written(f, o, x)
    BY <1>2 DEF bb_write, WritePerfectHit, WritePartialHit, WriteFirstOk, WriteSecondOk, WriteMiss,
                WriteMissTwo, WriteDirect
  <2> QED
    BY <2>1 DEF Written
<1>3. ASSUME NEW f \in Files, bb_open(f) \/ bb_release(f) \/ bb_flush(f) \/ bb_fsync(f) \/ bb_truncate(f)
      PROVE  FALSE
  BY <1>3 DEF bb_open, bb_release, bb_flush, bb_fsync, bb_truncate, Done, Idle
<1>4. ~ EditConf
  BY DEF EditConf, Idle
<1> QED
  BY <1>1, <1>2, <1>3, <1>4 DEF Next

(* Every step of the cache with its history.                               *)
LEMMA HistoryStep ==
    ASSUME HistoryInv, AlignedRequests, HNext
    PROVE  HistoryKeeps /\ AnswersView /\ EvictsOldest
<1>1. Next /\ Remember
  BY DEF HNext
<1>2. ASSUME NEW f \in Files, NEW o \in Offsets, bb_read(f, o)
      PROVE  HistoryKeeps /\ AnswersView /\ EvictsOldest
  <2>1. Hit(f, o) \in {"PERFECT_HIT", "PERFECT_MISS"} /\ Aligned(o)
    BY AlignedSearch
  <2>2. \/ ReadPerfectHit(f, o) \/ ReadMiss(f, o) \/ \E n \in Sizes : ReadDirect(f, o, n)
    BY <1>2, <2>1 DEF bb_read, ReadPartialHit, ReadFirstOk, ReadSecondOk, ReadMissTwo, CachedRequest
  <2> QED
    BY <1>1, <2>2, ReadHitHistory, ReadMissHistory, ReadDirectHistory
<1>3. ASSUME NEW f \in Files, NEW o \in Offsets, bb_write(f, o)
      PROVE  HistoryKeeps /\ AnswersView /\ EvictsOldest
  <2>1. Hit(f, o) \in {"PERFECT_HIT", "PERFECT_MISS"} /\ Aligned(o)
    BY AlignedSearch
  <2>2. PICK v \in Texts : \/ WritePerfectHit(f, o, v) \/ WriteMiss(f, o, v)
                           \/ \E n \in Sizes : WriteDirect(f, o, SubSeq(v, 1, n))
    BY <1>3, <2>1 DEF bb_write, WritePartialHit, WriteFirstOk, WriteSecondOk, WriteMissTwo,
                      CachedRequest
  <2>3. ASSUME NEW n \in Sizes, WriteDirect(f, o, SubSeq(v, 1, n))
        PROVE  HistoryKeeps /\ AnswersView /\ EvictsOldest
    <3>1. n \in 1 .. CHUNK
      BY CacheConstants DEF CHUNK
    <3>2. PICK w \in Data(n) : w = SubSeq(v, 1, n)
      BY <3>1, TextStart
    <3> QED
      BY <1>1, <2>3, <3>1, <3>2, WriteDirectHistory
  <2> QED
    BY <1>1, <2>2, <2>3, WriteHitHistory, WriteMissHistory
<1>4. ASSUME NEW f \in Files, bb_open(f) \/ bb_flush(f) \/ bb_fsync(f)
      PROVE  HistoryKeeps /\ AnswersView /\ EvictsOldest
  <2>1. UNCHANGED <<disk, list>> /\ op'.kind \in {"open", "flush", "fsync"}
    BY <1>4 DEF bb_open, bb_flush, bb_fsync, Done, Idle
  <2>2. UNCHANGED <<latest, lost, trace>>
    BY <1>1, <2>1 DEF Remember
  <2> QED
    BY <2>1, <2>2, QuietHistory
<1>5. CASE EditConf
  <2>1. UNCHANGED <<disk, list>> /\ op'.kind = "none"
    BY <1>5 DEF EditConf, Idle
  <2>2. UNCHANGED <<latest, lost, trace>>
    BY <1>1, <2>1 DEF Remember
  <2> QED
    BY <2>1, <2>2, QuietHistory
<1> QED
  BY <1>1, <1>2, <1>3, <1>4, <1>5, ReleaseHistory, TruncateHistory DEF Next

(* HistoryInv is inductive.                                                *)
LEMMA HistoryNext ==
    ASSUME AlignedRequests, HistoryInv, [HNext]_hvars
    PROVE  HistoryInv'
<1>1. CASE HNext
  <2>1. CacheInv' /\ (OneCopy(list') \/ Misplaced)
    BY <1>1, StepKeeps DEF HNext, HistoryInv, Keeps
  <2>2. OneCopy(list')
    <3>1. op'.kind \in {"read", "write"} => op'.fd \in Files /\ op'.from \in Offsets
      BY <1>1, RequestNames DEF HNext
    <3>2. ~ Misplaced
      BY <3>1, AlignedSearch DEF Misplaced
    <3> QED
      BY <2>1, <3>2
  <2> QED
    BY <1>1, <2>1, <2>2, HistoryStep DEF HistoryKeeps, HistoryInv
<1>2. CASE UNCHANGED hvars
  <2>1. UNCHANGED vars /\ UNCHANGED <<disk, list, latest, lost, trace>>
    BY <1>2 DEF hvars, vars
  <2>2. CacheInv'
    BY <2>1, StepKeeps DEF HistoryInv, Keeps
  <2> QED
    BY <2>1, <2>2 DEF HistoryInv, Traced
<1> QED
  BY <1>1, <1>2

(* While requests start at a chunk, each chunk is cached once and its      *)
(* buffer agrees with what was last written; a chunk with no dirty buffer  *)
(* agrees in the file; and the list is in the order of the requests.       *)
THEOREM HistoryInvariant ==
    ASSUME AlignedRequests PROVE HSpec => []HistoryInv
<1>1. HInit => HistoryInv
  <2>1. SUFFICES ASSUME HInit PROVE HistoryInv
    OBVIOUS
  <2>2. Init /\ list = << >> /\ latest = disk /\ trace = << >>
    BY <2>1 DEF HInit, Init
  <2>3. CacheInv
    BY <2>2, InitCache
  <2>4. Range(list) = {} /\ OneCopy(list) /\ AlignedList(list) /\ Traced
    BY <2>2 DEF Range, OneCopy, AlignedList, Traced, Distinct, InOrder
  <2>5. Contents(Range(list), disk, latest, lost)
    BY <2>2, <2>4 DEF Contents, Right
  <2>6. latest \in Disks
    BY <2>2, <2>3 DEF CacheInv, Fits
  <2> QED
    BY <2>3, <2>4, <2>5, <2>6 DEF HistoryInv
<1>2. HistoryInv /\ [HNext]_hvars => HistoryInv'
  BY HistoryNext
<1> QED
  BY <1>1, <1>2, PTL DEF HSpec

(* Evictions, releases and truncations keep what was written, up to the    *)
(* exceptions that lost collects.                                          *)
THEOREM ReadsAreLatest ==
    ASSUME AlignedRequests PROVE HSpec => []ReadsLatest
<1>1. HistoryInv => ReadsLatest
  <2>1. SUFFICES ASSUME HistoryInv, NEW f \in Files, NEW c \in Cells, <<f, c>> \notin lost
                 PROVE  View(f, c) = latest[f][c]
    BY DEF ReadsLatest
  <2>2. Right(Range(list), disk, latest, f, c)
    BY <2>1 DEF HistoryInv, Contents
  <2>3. CASE PerfectAt(f, Base(c)) # {}
    <3>1. PerfectAt(f, Base(c)) \in SUBSET (0 .. Len(list)) /\ Len(list) \in Nat
      BY <2>1, HistoryFacts DEF PerfectAt
    <3>2. Min(PerfectAt(f, Base(c))) \in PerfectAt(f, Base(c))
      BY <2>3, <3>1, Extremes
    <3>3. PICK i \in DOMAIN list :
             i = Min(PerfectAt(f, Base(c))) /\ list[i].fd = f /\ list[i].from = Base(c)
      BY <3>2 DEF PerfectAt
    <3>4. list[i].buf[refinedOffset(c) + 1] = latest[f][c]
      BY <2>2, <3>3 DEF Right, Range
    <3> QED
      BY <2>3, <3>3, <3>4 DEF View
  <2>4. CASE PerfectAt(f, Base(c)) = {}
    <3>1. \A b \in Range(list) : ~ (b.fd = f /\ b.from = Base(c))
      BY <2>4 DEF PerfectAt, Range
    <3> QED
      BY <2>2, <2>4, <3>1 DEF Right, View
  <2> QED
    BY <2>3, <2>4
<1> QED
  BY <1>1, HistoryInvariant, PTL

(* What bb_read answers from the cache is the view that was there.         *)
THEOREM ReadsReturnView ==
    ASSUME AlignedRequests PROVE HSpec => ReadReturnsView
<1>1. HistoryInv /\ [HNext]_hvars =>
        [op'.kind = "read" /\ Cached(Len(op'.data)) =>
           \A k \in DOMAIN op'.data :
              op'.from + k - 1 \in Cells => op'.data[k] = View(op'.fd, op'.from + k - 1)]_vars
  <2>1. SUFFICES ASSUME HistoryInv, [HNext]_hvars PROVE AnswersView \/ UNCHANGED vars
    BY DEF AnswersView
  <2> QED
    BY <2>1, HistoryStep DEF hvars
<1> QED
  BY <1>1, HistoryInvariant, PTL DEF HSpec, ReadReturnsView

(* An eviction under policy 2 takes the chunk requested longest ago.       *)
THEOREM EvictionsAreLeastRecent ==
    ASSUME AlignedRequests PROVE HSpec => EvictsLeastRecent
<1>1. HistoryInv /\ [HNext]_hvars =>
        [cachePolicy' = 2 =>
           \A gone \in Chunks(list) \ Chunks(list'), kept \in Chunks(list) \cap Chunks(list') :
              Age(kept) < Age(gone)]_hvars
  <2>1. SUFFICES ASSUME HistoryInv, [HNext]_hvars PROVE EvictsOldest \/ UNCHANGED hvars
    BY DEF EvictsOldest
  <2> QED
    BY <2>1, HistoryStep
<1> QED
  BY <1>1, HistoryInvariant, PTL DEF HSpec, EvictsLeastRecent
=============================================================================
