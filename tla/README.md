# TLA+ models of EE516

EE516 is a set of operating-systems course projects in C: a kernel semaphore
with its system calls, classical synchronisation programs, a FUSE file system
with a chunk cache, several loadable kernel modules and a red-black tree. The
parts share no process; the semaphore test program runs on the kernel
semaphore, the kernel modules come with the programs that use them, and the
rest stand alone. The models follow that division: one module per program, and
a composition where one program calls another or where a kernel loads modules.

## Inventory

| Part | State | Operations | What is hard | What makes it correct |
|---|---|---|---|---|
| Kernel semaphores, `project3/mysemaphore.c` | `sem_set[]`: state, mode, count, wait list, raw spin lock; a waiter on the stack of each sleeper | `init`, `down`, `down_userprio`, `up`, `release` | state and mode are read and `init`/`release` store without the lock; sleeping and waking; a zeroed array at boot | no lost wake-up, no idle permit, wake order of the mode, a released semaphore has no sleeper |
| Test program, `project3/task3_semaphoretest.c` | `shared_variable`, loop counters | the two builds of `main`, three worker bodies | main goes on while workers are inside calls; posts before sleeps | the expected result, no refused call, termination |
| Dining philosophers, `project3/task1_dining_philosopher.c` | `state[]`, a mutex, a private semaphore each | `take_forks`, `put_forks`, `test` | forks handed over by a neighbour | neighbours never eat together, nobody is overlooked |
| Training monkeys, `project3/task1_training_monkeys.c` | balls, bowls, room limit, counter, all semaphores | `main`, monkey threads, trainer | `sem_getvalue` before `sem_wait`, unlocked reads by the trainer, `exit` from a monkey | no wait with the mutex held, one monkey per ball and bowl, the training ends |
| Producer/consumer, `hw2/pro_con.c` | `buffer`, `count`, three semaphores | `producer`, `consumer` | `count` is never compared with a bound | no item lost or repeated, indices in range, termination |
| Reader/writer, `hw2/read_write.c` | `reader_num`, `db_file`, two semaphores | `reader`, `writer` | `db` is taken by one reader and given back by another | writers are alone |
| bbfs cache, `project4/bbfs.c` | chunk list, `bufferCount`, `cachePolicy`, file contents | `read`, `write`, `open`, `release`, `flush`, `fsync`, `truncate` | partial hits, eviction during a request, clean and dirty chunks, policy reloaded at each request | a read returns what was written, LRU order, the list stays within its limit |
| bbfs cipher | keys in `ee516.conf` | `applyBitshift`, addition | 8-bit wrap-around | decryption inverts encryption |
| hw1 driver, `hw1/hw1_driver.c` | `stack`, `stackpointer`, a mutex | read pops, write pushes, ioctl cleans; provider, consumer and cleaner | two accesses per push and pop; one word for bytes, sizes and refusals; the top index | it is a stack with 256 places |
| Linked list module, `project5/task1` | `head`, `size`, nodes, a semaphore | insertion at a random place, search with deletion, release; `main`, its threads | pointers walked and cut while others wait; any close frees everything | no leak, double free or dangling pointer; it is a pool of values |
| LED/timer/button drivers, `project5/task2_*` | LEDs, timers, `counter`, `timerActivated` | init, exit, timer handler, button interrupt | the interrupt in the middle of a handler or of the removal; lost edges | nothing lit or pending after removal; the LEDs show the clicks |
| Process monitor, `project2/procmon.c` | `currentValue`, `sortingBuf`, a table per listing | listing with a bubble sort, choosing a criterion | the criterion changes during a sort; one buffer for all writers; copies that fault | each process once, in the order last asked for |
| Red-black tree, `hw4/hw4_redblacktree.c` | nodes, `root` | `insertNode`, `verifyInsertion`, `deleteNode` and its cases, `main` | rotations at the top, nil nodes, deletion cases | colour rules, entries come out in order, no NULL followed |
| Benchmarks, examples, scripts | none of their own | | | not modelled |

## Modules

| Module | Models | Correspondence |
|---|---|---|
| `MySemaphore` | `mysemaphore.c` | One record of `sem_set` is `state`, `mode`, `count`, `wait_list`, `lock` at an id; `listed` says whether `INIT_LIST_HEAD` has run. A thread's `pc` stands before an unlocked load or store, before taking the lock, or inside the sleep loop. Each load and store made without the lock is a step of its own. A section under the spin lock is one step up to the unlock, which is the next step, so other threads do see the lock taken. `up`, `prio`, `task` are the waiter's `up` and `priority` and the scheduler's task state. |
| `SemaphoreClients` | programs that call it | `SerialSpec`: any calls with any arguments, except that initialising and releasing a semaphore does not overlap with calls under way on it. The properties of the semaphores and the inductive invariant are here. `older` is history: which of the threads that wait came before which, since the list itself forgets that when an `up` sorts it. |
| `CountingSemaphore` | (abstract) | What the calls promise: a set of live semaphores with permits and blocked threads; take, block, post, hand over. |
| `SemaphoreTest` | `task3_semaphoretest.c` | Extends `SemaphoreClients`, whose `SerialSpec` it is shown to keep; `at[t]` is the user-space position. `ATOMIC_OPERATION` is the build. |
| `Philosophers` | `task1_dining_philosopher.c` | Each semaphore operation and each store is a step; `test` is one step since it runs under the mutex. |
| `TrainingMonkeys` | `task1_training_monkeys.c` | `mstate` is the monkey's state refined by the semaphore operation it is about to do. A finished monkey's slot is reused for the next thread. |
| `ProCon`, `ReadWrite` | `hw2` | One step per semaphore operation, and `count++`, `reader_num++` as a load and a store. |
| `BBFSCache` | the cache of `bbfs.c` | The list is a sequence of chunks; one step per FUSE operation, one disjunct per branch of `bb_read` and `bb_write`. Offsets count half chunks, so an odd offset straddles two chunks. |
| `BBFSCipher` | `applyBitshift`, `loadPolicyFromFile` and the loops of `bb_read` and `bb_write` | One byte stands for all, since the loops treat each alike; what `strncpy` leaves of a byte behind a zero byte of the same request is a zero. Bytes are unsigned values, with `% 2^CHAR_BIT` where the code stores into a `char`. |
| `BBFSHistory` | (history) | Adds to `BBFSCache` what was last written (`latest`), which of it the code itself spoils (`lost`) and the order of requests (`trace`). What it states is about requests that start at a chunk (`AlignedRequests`), of whole or half chunks. |
| `RedBlackTree` | `hw4_redblacktree.c` | `mem` is the memory: a sequence of nodes with the fields of `struct rbtnode`, 0 is `NULL`. The functions are operators from a memory to a memory; one step per insertion and per node taken out. `astray` remembers that some call began with `root` below the top of its tree. |
| `LinkedList` | `linkedlist_skel.c`, `reader_writer_skel.c` | `heap` maps the allocated nodes to `next` and `v`; the allocator reuses a freed node at once. One step per round of each loop, under the semaphore `sem`. `Main` closes the device after its threads have ended, `Other` at any time. |
| `ValuePool` | (abstract) | What the list promises: how many copies of each value are there, and calls that take effect at one moment. |
| `Hw1Driver` | `hw1_driver.c`, `provider.c`, `consumer.c`, `cleaner.c` | Moving `stackpointer` and accessing `stack` are steps of their own; only `my_mutex` keeps callers apart. |
| `BoundedStack` | (abstract) | What the hw1 device promises: a stack with a limit and calls that take effect at one moment. |
| `ProcMon` | `procmon.c` | One step per comparison of the sort, and per `memset`, copy, trim and `strcmp` of a write. `sortingBuf` is the set of words its bytes come from; on a mixture `strcmp` may say either. |
| `LedDrivers` | `task2_1.c` to `task2_4.c` | `task` is the driver loaded, `ledPc` and `ledI` the process that loads or removes it, `soft` a timer handler at work. The button's handler is one step and may come between any two of the others. `stale` says that a driver removed earlier left timers pending: they are no obstacle to loading the next one. `raced` and `racedBefore` are history: a race of the driver loaded last, and of one before it. |
| `KernelModules` | loading and removing | The union of the four families above; `family` is the one this machine loads. What a LED driver leaves behind (LEDs, the button, timers that still pend) is there for the next one. |
| `MC*` | | Model values and small constants for TLC. |
| `SemaphoreProofs`, `PhilosophersProofs`, `TrainingMonkeysProofs`, `ProConProofs`, `ReadWriteProofs`, `BBFSCacheProofs`, `BBFSCipherProofs`, `KernelModulesProofs` | | The inductive invariants and the theorems; see "What is proved". |

Definitions starting with "Slip" in their comment are plausible mistakes in the
code next to them. No specification uses them; each one makes a property fail
when put in the place of the definition below it.

## Runs

| Run | Bounds | Shows |
|---|---|---|
| `semaphores` | 3 threads, 1 semaphore, ids -1..1, start values -1 and 0, modes 0..3, priorities outside both ends; symmetry of the two threads of equal OS priority | the inductive invariant, wait list exactness, no idle permit, no lost wake-up, defined priorities, oopses only before the first initialisation, refinement of `CountingSemaphore` |
| `semaphore_test` | both builds, `main` and 3 workers, 2 turns, the modes the program passes, three of its priorities with its tie (60, 30, 60), OS priorities with a tie | the expected result, termination, that the program is a client in the sense of `SerialSpec`, and the order of wake-ups by key and arrival |
| `pro_con` | 2 + 2 threads, 3 turns, 2 places | bounds, conservation of items, termination |
| `read_write` | 3 readers, 2 writers, endless | exclusion, stable reads, no deadlock |
| `philosophers` | 5 philosophers, endless | exclusion, nobody overlooked, granted forks arrive |
| `monkeys` | 3 threads at a time, 2 balls, room for 2, target 2 | the check never waits, one monkey per bowl, error branches unreachable, the training ends |
| `bbfs_contents` | 3 files with one chunk requested of each, whole chunks, cache of 2, 2 texts (one with a zero byte), all policies, truncation that removes the chunk | reads return the latest data up to the five losses the code itself causes, a read returns the view that was there, LRU evictions |
| `bbfs_bounds` | offsets 0..2, whole and half requests, cache of 2, all policies, truncation | the count, no use of freed chunks with LRU, one copy of a chunk on the list |
| `bbfs_cipher` | all bytes, additions 0 and 300, shifts 0, 3, 11, no file | decryption inverts encryption, rotation against its bitwise definition |
| `rb_tree` | the array of `main`, and every order of 1 to 7 values | insertion keeps order and colours, the drain prints in order, why a NULL is followed |
| `kernel_modules` | list: 1 reader, 2 writers, 2 turns, bytes 0, 1, 10, 2 closing processes; stack of 3 places: 2 providers, 2 consumers, 1 cleaner; 3 processes in the table, 1 listing, 2 choosers, 4 words; 2 LEDs, `INT_MAX` 7 | shape of the list, refinement of `ValuePool` and `BoundedStack`, order of listings, what LED drivers leave behind and show |
| `bbfs_dirty` | as `bbfs_bounds` | refutes a statement made by comments; see Findings |

Why the bounds are enough to be interesting: three threads are two sleepers and
one poster, which may meet in every window of the calls; the order of wake-ups
is checked with the four of the test program, where an `up` sorts a list of
three sleepers and a later one the two that are left, of equal keys in each
mode; `UINT_MAX` is 2 in `semaphores` so that the count wraps; a cache of two chunks under three or more chunk addresses evicts
at almost every miss; two places for two producers block a producer; five
philosophers have non-adjacent eaters and a hungry one between; room for two
with a third thread lets a monkey find both bowls taken. Up to seven values
(`N` of `MCTree`) make recolourings that end in a rotation two levels up, and
drains of trees that earlier removals have left uneven; the order of the values
is all that the tree looks at. Two writers with two turns
make lists of up to four nodes, so that there is a first, an inner and a last
node to delete; byte 10 is one that the driver refuses. Three places fill and
drain with two providers. The table has a tie in each column but the pid, a
process without memory, a negative page count and bytes that do not make a
kilobyte. With `INT_MAX` 7 the counter wraps, at a value that two LEDs cannot
show. `LAST` bounds the
file, `LOOPS`, `MAX_LOOP` and `TARGET_TRAINING` the loops. `SYMMETRY` in
`semaphores` exchanges the two threads of equal OS priority, and in
`bbfs_contents` it exchanges the files, which no definition tells apart; its
`VIEW` leaves out `op` and `cachePolicy`, which report the last request and are
read by no action, only (primed) by the action properties. Requests of half a
chunk, which go past the cache, are not in `bbfs_contents`: with them three
files are too many states. The theorems about it cover them.

`semaphores` does not check for deadlock: a thread that dies from a NULL list
head keeps the spin lock, and then the others do wait for ever. All other runs
check it; the programs that end do so by an explicit
stuttering step.

### Findings

* `bbfs_dirty`: a write that misses the cache is stored in a clean chunk and is
  gone when the chunk is. `ReadsLatest` states what does survive.

What the models show besides, each part of a property that holds because it
names the case:

* bbfs: closing a file writes the dirty chunks of all files into it, a
  truncation leaves the cached chunks as they were, a request that goes past
  the cache (policy 0, or no whole chunk) does not look for a cached copy, and
  `strncpy` stops at a zero byte (`ReadsLatest`). A read that
  found only its second part enters that part again where the comment says
  "add first part to Buffer" (`bbfs.c:828`, `:835`), and a write that found
  only its first part enters the other one chunk too far (`:1050`); these are
  the only sources of a second copy (`OneCopyPerChunk`). Random eviction may
  free the chunk in use; LRU does not (`NoUseAfterFree`).
* Red-black tree: the rotations never move `root`. For the array of `main`
  nothing follows from it; for other arrays searches begin below the top. The
  nil nodes below the first node have no parent, so an array whose first value
  is the least ends in a NULL pointer. Taking out a leaf does not rebalance, so
  the colour rules do not survive deletion, though the header says "delete
  target node with preserving feature of redblack tree"
  (`hw4_redblacktree.c:34`); the order in which nodes come out does.
* LED drivers: in `task2_3` a press that interrupts a timer handler before its
  `add_timer` revives or doubles a timer, and a press between `stop_timer` and
  `free_irq` leaves timers behind a removed module; in `task2_4` the LEDs may
  stay lit when the timer expires between their turning off and `del_timer`.
  `QuietWhenStopped` holds as long as the driver in question has met none of
  these (`raced`). Nothing in `bb_module_init` looks for timers that an earlier
  driver left pending, so the next driver may be loaded among them and the
  machine die under it; `QuietWhenStopped` says that it dies of nothing but a
  race of `task2_3`, then or before (`stale`). The
  counter is reset at `INT_MAX`, where the comment says that it "can't
  represent the value above 16. So revert it to zero" (`task2_4.c:71`): the
  LEDs show its low bits.
* Training monkeys: the trainer looks at bowl 0 first and without the mutex,
  and can feed it twice while the monkey that woke it sits at bowl 1
  (`task1_training_monkeys.c:371`, against the comments at `:313` and `:316`).
  The extra banana stays in the bowl's semaphore for the next monkey, and the
  training still ends (`TrainingEnds`).
* A semaphore that was never initialised is neither `ACTIVE` nor `INACTIVE`, so
  the checks commented "semaphore that is not initialized" let it through;
  `OopsOnlyUninitialised` shows that this is the only way to follow a NULL list
  head.

`fsync` does not write dirty chunks; no property is about that, since they
stay readable as long as the process lives.

## Fairness

* `SemaphoreTest`: weak fairness of each thread (the kernel runs runnable
  threads), and strong fairness of taking the spin lock: x86 spin locks of that
  kernel are ticket locks, so a waiting thread is served although the lock is
  taken and dropped in between. `StrayWakeUp` has no fairness.
* `ProCon`, `Philosophers`, `TrainingMonkeys`: weak fairness of each thread
  only. A POSIX semaphore promises no order among waiters, so properties that
  would need it (every philosopher eats) are not claimed; `ForksArrive` speaks
  of forks that have been granted.
* `ReadWrite` has no liveness property: writers may starve.
* `KernelModules` states no fairness and has no liveness property. The list's
  programs make a bounded number of steps in one load of the module, so the
  absence of deadlock, which the run checks, is that they end and that the
  device is given up. `RedBlackTree` is sequential and always ends.

## What is proved

Every theorem holds for all values of the constants that the `ASSUME` of its
module allows: any number of threads, semaphores, places, nodes, processes and
LEDs. Each safety property follows from an inductive invariant, which TLC
checked on a small instance before it was proved.

`SemaphoreProofs`, for any set of threads, any number of semaphores and any
arguments, from `SemaphoreConstants` and `ClientConstants`:

* `SerialInvariant`: `SerialSpec => []SerialInv`. `SerialInv` is inductive.
  `QueueInv` and `NoIdlePermit` alone are not: that `INIT_LIST_HEAD` forgets
  nobody needs the list to be empty whenever the state is not `ACTIVE`
  (`StateInv`), which needs `release` to find it still empty when it stores
  (`CheckedInv`), which needs that no down can be under way at that point
  (`DisciplineInv`); that a permit is not taken twice needs `LockInv`.
* `SleepersAreQueued`, `PermitsAreNotIdle`, `WakeUpsAreNotLost`,
  `PrioritiesAreDefined`: its parts, and `OopsNeedsZeroState`, an action
  property that follows from it. In these `list_sort` enters only through the
  facts that it permutes the list (`SortMembers`, `SortedMembers`).
* `WakesInOrder`: an `up` hands over to the sleeper the mode puts first, and
  among equal keys to the one that joined the list first. This one needs what
  `list_sort` does to the order, not only to the members, and a second
  invariant (`ArrivalsAreKept`): of two waiters with equal keys the one that
  came first is further ahead in the list (`ArrivalInv`), however often it was
  sorted. It is inductive because the sort is stable, a newcomer goes to the
  end, and the keys of waiters never change (`KeysOfWaitersStay`, which needs
  that a semaphore with waiters is not initialised).
* `SerialImplementsCounting`: `SerialSpec` implements `CountingSemaphore`; the
  loads and stores made without the lock are stutters, and the section under
  the lock is the step of the abstract semaphore.

The same module on the test program, from `TestConstants` as well (which the
constants of `main` satisfy), for any number of workers and turns:

* `TestKeepsDiscipline`: `TestSpec` implements `SerialSpec`, in both builds, so
  that everything above holds of the program. It rests on `CallersInv`: only
  `main` is ever in `mysema_init` or `mysema_release` (`SetupInv`), and whenever
  it is, no worker has been spawned yet or all have been joined (`RunningInv`).
* `TestInvariant`: `TestSpec => []TestInv`. In the build with
  `ATOMIC_OPERATION` it adds where the program and its calls stand
  (`PlacesInv`), that the semaphore is made with one permit and in FIFO mode
  (`MadeInv`, `ReadyInv`), that in the second pass this permit is in the count
  or with exactly one worker, asleep or not (`PermitInv`), and that
  `shared_variable` is the sum of what the workers have added (`SumInv`, with
  partial sums that the invariant asserts to exist). Exclusion alone would not
  do: a worker that was handed the permit while it sleeps is inside already,
  and that its `v` is still `shared_variable` when it stores is the point.
* `NoAdditionIsLost`: the result the program prints as expected.

`PhilosophersProofs`, for any number of philosophers allowed by
`PhilosopherAssumption`:

* `TableInvariant`: `Spec => []TableInv`. Exclusion is not inductive on its own:
  it needs that the mutex has one owner (`MutexInv`), what each position says
  of the state (`LocalInv`), that a private semaphore holds a post exactly when
  forks were granted and not yet taken (`PostMatchesState`), and who may be
  overlooked while a thread is inside (`MissedInv`).
* `ForksAreExclusive`, `ForksAreNotMissed` follow.

`TrainingMonkeysProofs`, from `MonkeyConstants`:

* `TrainInvariant`: that a positive `sem_getvalue` is still true at the
  `sem_wait` (`SeenInv`) needs that only the owner of the mutex takes balls
  (`MutexInv`) and that a ball that is gone has one owner (`OwnerInv`, also what
  keeps a semaphore of a ball at 0 or 1); at the bowls, that `bowls_full` and
  the monkeys past it add up to two (`UsersInv`) and that a mark stands for one
  monkey (`MarkInv`).
* `ChecksNeverWait`, `NothingGoesWrong`, `BowlsHaveOneMonkey` follow. By
  `UsersInv` a monkey let through finds a bowl without a mark, which is why the
  error branch is dead.

`ProConProofs`, from `ProConConstants`:

* `ProConInvariant`: `count` is bounded only because the two semaphores and the
  threads between a wait and a post account for every place (`PlacesInv`); the
  load and the store of `count` do not lose an update because the mutex has one
  owner (`MutexInv`); `HandsInv` and `OnePlaceInv` say where each item is.
* `IndicesInBounds`, `ItemsAreConserved` follow.

`ReadWriteProofs`, from `ReadWriteConstants`:

* `ReadWriteInvariant`: that `db` is free exactly when nobody uses the database
  (`DbInv`) needs that `reader_num` counts the readers inside (`CountInv`), so
  that the first and the last reader are what they take themselves for
  (`EdgeInv`), which needs one owner of the mutex (`MutexInv`).
* `WritersAreAlone`, `ReadsHold` follow.

`BBFSCacheProofs`, from `CacheConstants`:

* `CacheInvariant`: the list holds whole chunks and `bufferCount` is its length,
  through every branch of `bb_read` and `bb_write` and both kinds of eviction.
* `CountsAreLengths`; `ReadsNoFreedMemory`, which has the hypothesis
  `MAX_LIST_SIZE > 1`, since with room for a single chunk the second insertion of
  a request evicts what the first one found; and `SecondCopiesAreMisplaced`, the
  action property `OneCopyPerChunk`.

The same module on `BBFSHistory`, for requests that start at a chunk
(`AlignedRequests`, the hypothesis of each theorem), of any files, texts, sizes
and policies and any `MAX_LIST_SIZE`:

* `HistoryInvariant`: `HSpec => []HistoryInv`. A chunk is cached at most once
  (`OneCopy`) and at a chunk's place (`AlignedList`); for each half chunk that
  is not `lost`, every cached copy agrees with `latest`, and the file does too
  unless a dirty copy is still to be written (`Contents`); the chunks on the
  list are in the order in which `trace` has them (`Traced`). `ReadsLatest`
  alone is not inductive: evicting a clean chunk uncovers the file, so what the
  file holds under a clean copy has to be known.
* `ReadsAreLatest`, `ReadsReturnView` and `EvictionsAreLeastRecent`: the three
  properties of the run `bbfs_contents`.

`BBFSCipherProofs`, from `CipherConstants`, with `CHAR_BIT = 8` as hypothesis:

* `CipherInvariant`: the byte in the file is the encryption of the text under
  the keys in force at the write, the byte read last its decryption under those
  in force at the read, through any edits of `ee516.conf`.
* `ReadsAreReadBack` and `NoBitIsLost`, for keys of any size: `applyBitshift`
  makes two parts of a byte change places, which is undone by the other
  direction (`PartsTurn`) and turns the bits around (`BitsTurn`). The provers
  know `2 ^ n` for literal `n` only, which is why the width of a byte is fixed
  and the eight rotations are eight cases.

`KernelModulesProofs`, about the hw1 driver, from `Hw1Assumption`:

* `Hw1Invariant`: the owner of `my_mutex` is the one inside (`OwnerInv`), and
  between moving `stackpointer` and accessing `stack` the entry is a valid one
  (`HalfWayInv`).
* `Hw1ImplementsStack`: `HwSpec` (the driver on its own) implements
  `BoundedStack`; and `KernelImplementsStack`: so does `KernelSpec`, which loads
  and removes the driver.

The same module about `KernelSpec`, from `LedAssumption`,
`ListAssumption` and `ProcMonAssumption`:

* `LedInvariant`: what process, timer handler and interrupt may have left
  between any two of their steps (`ContextInv`), in the drivers that blink
  (`BlinkInv`) and in the one that counts (`CounterInv`, `ClickInv`).
  `StoppedDriversAreQuiet` and `ClicksAreShown` follow; the first is about
  drivers that have not met one of the races named under Findings, whatever the
  drivers before them met and left behind.
* `ListInvariant`: one thread is behind the semaphore (`SemInv`), `Main` closes
  after its threads (`MainInv`), and the allocated nodes form one path from
  `head` to `NULL` on which the walk, the search or the release stands at a
  known place (`PathInv`). The path is a function that the invariant asserts to
  exist; that following `next` gives the same nodes (`ReachedIsPath`) is shown by
  the least position at which they would differ.
* `ListIsWellFormed`, and `ListImplementsPool`: `KernelSpec` implements
  `ValuePool`. Linking a node, cutting one out and freeing the nodes are the
  steps of the pool, and how many copies of a value there are is counted along
  the path.
* `PmInvariant`: a writer that nobody overlapped finds its own word in the
  shared buffer (`AloneInv`), and the rows of a listing are a permutation of a
  table (`Permutes`) of which the last `i` are in place, the row at `j` is the
  least so far, and equal ones are still in the order of the table (`Ordered`),
  unless the criterion was set meanwhile. `ListingsAreAsAsked` follows: the
  bubble sort sorts, stably, for tables of any length.

Only model-checked: everything under fairness (`Terminates` of `ProCon` and
`SemaphoreTest`, `ForksArrive`, `TrainingEnds`) and the absence of deadlock,
since liveness and `ENABLED` are outside the prover's reach; and `RedBlackTree`,
which is written with recursive operators, as the code's functions call
themselves: what they compute for all inputs would need induction over data.

## What is abstracted or left out

* Printing, sleeping for a time, and thread creation errors.
* `schedule_timeout(MAX_SCHEDULE_TIMEOUT)` never times out. Interrupts do not
  enter: the lock is taken with interrupts disabled.
* The value left on the stack in `waiter.priority` is any of `StackInts`.
* `philosophers`: `state[]` has one element too few for the index used; the
  store lands in the next global and is not modelled.
* bbfs: the cache is modelled with encryption off; system calls below do not fail; operations run one
  at a time; each file is opened once at a time, so a file and its descriptor
  are the same; a chunk of text without a zero byte is followed by a zero
  byte in memory, as allocation rounding provides on the 64-bit build.
* Kernel modules: memory and device numbers are always granted; a module is
  removed only while no process uses it. `hw1` and the list read the caller's
  buffer directly, and that access succeeds. The process table is taken in one
  step. In `ProcMon` the `strcmp` of an undisturbed write is exact, and only
  that of overlapping writes is open.
  Outside the models therefore: the results of `kzalloc`, `gpio_request`,
  `request_irq` and `register_chrdev_region` that the code does not test
  (`linkedlist_skel.c:82`, `task2_4.c:99`, `hw1_driver.c:154`), device regions
  that are not given back (`linkedlist_skel.c:228`, `hw1_driver.c:165`), more
  than 2048 processes (`procmon.c:128`), a process that exits while it is
  sampled (`:124`), and a write of 512 bytes (`:269`).
* LED drivers: the board (BeagleBone) has one core, so a timer handler, once
  begun, ends before the loading or removing process goes on; only the
  interrupt comes in between. Time is the order of events, with one duration:
  more than a second or not. An interrupt is served within a second of its
  edge. Of edges that come before it is served one is kept. A timer left
  pending by a removed driver leads the kernel into memory that was freed,
  when it expires or when another timer next to it is added or deleted: of
  what may come of that the model has one outcome, that the machine dies, at
  any moment from the removal on. That the memory is reused and happens to
  hold something harmless is left out.
* Red-black tree: equal values ("duplicated, not supported") are not inserted;
  the tree printer, which is not called, is left out.
* Direct callers of `mysema_init` or `mysema_release` that overlap with other
  calls: the code takes no lock there, and properties of the wait list do not
  survive (a second initialisation empties a list with a sleeper on it). The
  discipline is stated in `SerialSpec`, and `KeepsDiscipline` shows the
  repository's own program keeps it.

## Not modelled

* The pass-through operations of bbfs (`bb_getattr`, `bb_mkdir`, ...) each
  forward one system call under a prefixed path and keep no state; `log.c` only
  formats.
* The file system benchmarks (`task3_fsbench.c`, `fs_bench.c`) and `mytree.sh`
  measure and print; the examples of `hw3`, `task2_syscall_invoker.c` and
  `sketch_may26a.ino` are straight-line calls of a library.
* `procmon_proc_write` copies into `normalBuf`, which nothing reads, and
  `proc_sample.c` is the sample the process monitor was made from.
* `list.h` is the Linux list, used here by its meaning; `*.mod.c` files are
  generated.
* bbfs with several threads: no lock orders two operations, so nothing could be
  claimed of the list.

## Order of work

The modules were written in this order, each with its runs before its proofs:
kernel semaphores with their abstract specification and test program; the
synchronisation programs; the cache and the cipher; the red-black tree; the
kernel modules with two abstract specifications; then the inductive invariants
and refinements listed under "What is proved". Every safety property of the
passing runs is proved except those of the red-black tree. What would extend
the project next is a model of bbfs with several threads, once the code has a
lock to model.
