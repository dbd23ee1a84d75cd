---------------------------- MODULE BBFSHistory ----------------------------
(***************************************************************************)
(* BBFSCache with history variables that remember what programs wrote and  *)
(* asked for, to state what the cache owes them while requests start at a  *)
(* chunk (AlignedRequests).                                                *)
(***************************************************************************)
EXTENDS BBFSCache

AlignedRequests == \A o \in Offsets : Aligned(o)

VARIABLES
    latest,  \* what each half chunk was last written with
    lost,    \* the half chunks whose last write or truncation the code itself spoils
    trace    \* the chunks requested through the cache since the last release,
             \* most recent first

hvars == <<vars, latest, lost, trace>>

HInit ==
    /\ Init
    /\ latest = disk
    /\ lost = {}
    /\ trace = << >>

\* How many chunks have been requested after this one.
Age(chunk) == CHOOSE n \in DOMAIN trace : trace[n] = chunk

Span(f, o, n) == {f} \X {c \in Cells : c \in o .. o + n - 1}

\* Closing f writes the dirty chunks of other files into f.
Misdirected(f) ==
    UNION {Span(b.fd, b.from, CHUNK) \cup Span(f, b.from, CHUNK) :
               b \in {x \in Range(list) : x.dirty = 1 /\ x.fd # f}}

\* Truncating f leaves its chunks in the cache, as they were.
Outlasting(f) == UNION {Span(f, b.from, CHUNK) : b \in {x \in Range(list) : x.fd = f}}

\* The half chunks of a write that strncpy drops: those behind a zero byte.
CutShort(f, o, data) ==
    {f} \X {c \in Cells : /\ c - o + 1 \in DOMAIN data
                          /\ strncpy(data)[c - o + 1] # data[c - o + 1]}

Requests(c) ==
    trace' = <<c>> \o IF \E n \in DOMAIN trace : trace[n] = c THEN RemoveAt(trace, Age(c))
                      ELSE trace

RememberWrite(f, o, data) ==
    /\ latest' = pwrite(latest, f, o, data)
    /\ LET span  == Span(f, o, Len(data))
           stale == \E b \in Range(list') :
                       b.fd = f /\ b.from = o /\ (b.dirty = 0 \/ ~Cached(Len(data)))
       IN  lost' = IF stale THEN lost \cup span ELSE (lost \ span) \cup CutShort(f, o, data)

Remember ==
    CASE op'.kind \in {"write", "read"} ->
           /\ IF Cached(Len(op'.data)) THEN Requests(<<op'.fd, op'.from>>) ELSE UNCHANGED trace
           /\ IF op'.kind = "write" THEN RememberWrite(op'.fd, op'.from, op'.data)
                                    ELSE UNCHANGED <<latest, lost>>
      [] op'.kind = "release" ->
           /\ lost' = lost \cup Misdirected(op'.fd)
           /\ trace' = << >>
           /\ UNCHANGED latest
      [] op'.kind = "truncate" ->
           /\ \E n \in TruncateTo : /\ disk' = Cut(disk, op'.fd, n)
                                    /\ latest' = Cut(latest, op'.fd, n)
           /\ lost' = lost \cup Outlasting(op'.fd)
           /\ UNCHANGED trace
      [] OTHER -> UNCHANGED <<latest, lost, trace>>

HNext == Next /\ Remember

HSpec == HInit /\ [][HNext]_hvars

----------------------------------------------------------------------------
(* What a read of a half chunk finds: the cached copy, else the file.      *)
View(f, c) ==
    IF PerfectAt(f, Base(c)) # {}
    THEN list[Min(PerfectAt(f, Base(c)))].buf[refinedOffset(c) + 1]
    ELSE disk[f][c]

(* Evictions, releases and truncations keep what was written: every half   *)
(* chunk of every file reads as it was last written or cut, with only five *)
(* exceptions, all of them the code's own doing.  The last write went into *)
(* a chunk that was not cached (those buffers are added clean); it went    *)
(* past a chunk that was (the policy had become 0, or it was no whole      *)
(* chunk); it lay behind a zero byte; a dirty chunk was on the list when   *)
(* another file was closed, and went there; the chunk was cached when its  *)
(* file was truncated.                                                     *)
ReadsLatest ==
    \A f \in Files, c \in Cells : <<f, c>> \notin lost => View(f, c) = latest[f][c]

(* The reads agree: what the cache answers is the view that was there.     *)
ReadReturnsView ==
    [][op'.kind = "read" /\ Cached(Len(op'.data)) =>
         \A k \in DOMAIN op'.data :
            op'.from + k - 1 \in Cells =>
                op'.data[k] = View(op'.fd, op'.from + k - 1)]_vars

Chunks(l) == {<<b.fd, b.from>> : b \in Range(l)}

(* Under policy 2 an eviction takes the chunk that was requested longest   *)
(* ago of those in the cache, whatever the random evictions before it and  *)
(* the moves of bufferHitCheck have made of the list.                      *)
EvictsLeastRecent ==
    [][cachePolicy' = 2 =>
         \A gone \in Chunks(list) \ Chunks(list'), kept \in Chunks(list) \cap Chunks(list') :
            Age(kept) < Age(gone)]_hvars
=============================================================================
