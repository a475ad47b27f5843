# A verification development for OS-Library

The repository holds four operating-system components: a cooperative thread
library (A1), its preemptive successor with wait queues, locks and condition
variables (A2), a virtual-memory simulator (A3) and a small FUSE file system
(A4).  This directory models them in TLA+, checks the models with TLC and
proves with TLAPS all but one of the invariants that TLC checks: that threads
are in one place and stacks in use by one, that both thread libraries implement
one abstract life cycle, that locks exclude and strand nobody, that pages keep
their contents and that rr and clock choose victims as FIFO and CLOCK do, and
that the bitmaps, inodes, directory and counts of the file system agree.

## 1. Inventory

| component | state | operations | what is hard |
|---|---|---|---|
| A2 scheduler (`A2-Preemptive-Threads/thread.c` to line 619, `interrupt.c`) | `running_thread`, `ready_queue`, wait queues, `created_threads` and the `struct thread` of each tid, `available_threads`, `num_threads_created`, `zombie_tid` | create, yield, exit, kill, sleep, wakeup, wait, queue create/destroy, the timer handler | a call ends in another thread's context; the next thread finishes the switch and the cleanup of the one before; calls interleave at every switch and timer signal |
| A2 locks and condition variables (`thread.c` 621-760) | `free`, `held_by`, wait queue of each lock; wait queue of each condition variable | lock create/destroy/acquire/release, cv create/destroy/wait/signal/broadcast | sleeping inside a loop with the timer off; `cv_wait` is three calls with the timer on between them |
| A3 translation and swapping (`pagetable.c`, `coremap.c`, `swap.c`, `sim.c`) | page table, coremap, physical memory, swap map and file | one trace line: hit, first reference, swap-in, each perhaps with an eviction | four tables that must agree after any history; full swap file; tables used uninitialised |
| A3 replacement (`rr.c`, `clock.c`, `s2q.c`, `rand.c`) | counter, clock handle, lists A1 and Am, referenced bits | evict, ref | boundaries of the loops; list membership coded in a bit |
| A1 cooperative threads (`A1-Cooperative-Threads/thread.c`) | as A2 without wait queues; `zombie_stack_addr`, `returning_from_exit`, `zombie_tid` | create, yield, exit, kill | the code after `getcontext` runs twice; an exit is finished by whoever lands next, from flags it may find stale; a thread exits on behalf of a killed one |
| A4 file system (`vsfs.c`, `mkfs.c`, `bitmap.c`, `fs_ctx.c`) | superblock counts, two bitmaps, inode table, directory, block pointers | mkfs, create, unlink, truncate, write, read, readdir, utimens, stat | block accounting over direct and indirect blocks, out-of-space in the middle of an operation |
| `malloc369`, A1's `malloc.cpp`, `khash.h`, `list.h`, options, image mapping, timers, printing | - | - | I/O, accounting and vendored code; `malloc369` exits the process when memory runs out, so no caller sees a failure |

Interaction: the A2 timer signal calls `thread_yield`; locks and condition
variables are built from `thread_sleep` and `thread_wakeup`.  `sim.c` calls
`find_physpage` for every line; `find_frame_number` calls `allocate_frame`,
which calls `evict_func` and `handle_evict`, which calls `swap_pageout`; then
`ref_func` tells the algorithm of the access.  The assignments share no code.

What makes each component correct: for the two schedulers, that a thread is in
one place, a tid names one thread, a stack is freed once and only when nobody
uses it, and a switch loses nobody; for the locks, exclusion and no sleeper on a
free lock; for A3, that a page reads what was written to it last and that the
four tables agree; for the replacement algorithms, the order of the victims; for
A4, that bitmaps, inodes, directory and counts tell one story and that a call on
one file leaves the bytes of the others alone.

## 2. Modules

| module | models | uses |
|---|---|---|
| `ThreadStates` | the abstract life cycle of a thread: free, ready, running, blocked, exited | |
| `PreemptiveThreads` | the A2 scheduler; implements `ThreadStates` | `ThreadStates` by INSTANCE |
| `DataLemmas` | lemmas on packed arrays as sequences, finite sets and division, proved | TLAPS |
| `PreemptiveThreadsProofs` | theorems: the safety invariants of A2, that it implements `ThreadStates`, what structured clients are promised, and the safety half of the liveness properties | `PreemptiveThreads`, `DataLemmas` |
| `CooperativeThreads` | the A1 library; implements `ThreadStates` too | `ThreadStates` by INSTANCE |
| `MCCooperativeThreads` | the symmetry of stacks, for TLC | `CooperativeThreads` |
| `CooperativeThreadsProofs` | theorems on it | `CooperativeThreads`, `DataLemmas` |
| `ThreadSync` | locks and condition variables composed with the scheduler | `PreemptiveThreads` |
| `ThreadSyncProofs` | theorems: the scheduler's invariants under it, those of the locks, and the order of the threads they wake | `ThreadSync`, `PreemptiveThreadsProofs` |
| `Replacement` | the replacement algorithms as operators | |
| `VirtualMemory` | the A3 simulator | `Replacement` |
| `ReplacementLemmas` | lemmas on the algorithms and on arithmetic, proved | `Replacement`, `DataLemmas` |
| `VirtualMemoryProofs` | theorems: types, agreement of the tables, contents of pages | `VirtualMemory`, `ReplacementLemmas` |
| `VirtualMemoryPolicyProofs` | theorems: the victims of rr and clock, the lists of s2q, no failing assertion with enough swap | `VirtualMemoryProofs` |
| `MCVirtualMemory` | the traces that TLC replays | `VirtualMemory` |
| `FileStore` | what the A4 file system promises: a directory of byte sequences | |
| `FileSystem` | the A4 file system; implements `FileStore` | `FileStore` by INSTANCE |
| `MCFileSystem` | the symmetry of names, and the view without `stamped`, for TLC | `FileSystem` |
| `FileSystemProofs` | theorems: the invariants of the image, its refinement of `FileStore` | `FileSystem`, `DataLemmas` |

### PreemptiveThreads

A library call blocks the timer signal on entry, so a call is one action up to
the point where it calls `setcontext`.  The thread that is switched to then
ends its own switch, with the signal still blocked: `thread_routine_cleanup`
frees the stack of the thread that exited before and lets a killed thread
exit, and the rest of the interrupted call follows.  `resuming` is TRUE in
between, and `ResumeKilled`, `ResumeClient` and `ResumeJoin` are the three ways
it ends.  Only when `resuming` is FALSE may the client call or the timer fire.
The state of C that the functions share maps one to one: `ready_queue` and
`available_threads` are the packed arrays, `waitq[t]` the list of the queue of
thread `t`, `tcb[t]` the control block, `joining[t]` the argument of the
`thread_wait` a thread sleeps in (its local variable).  `stack` joins
`stack_addr` and `stack_freed`.  A failed assertion, a NULL dereference, a
write outside an array and a double free end the process: `status` then names
the fault.  A call that returns an error code changes nothing and is a
stuttering step.

Left out: contexts and registers, printing, `THREAD_SELF`, the
`THREAD_NOMEMORY` branch (dead, see above), and `returning_from_exit`, which is
written and never read.

`ThreadStates` leaves open where a thread goes when it gives up the processor
(`Leaving`): A2 keeps an exited thread until it is collected and lets threads
block, A1 frees the identifier at once.

### CooperativeThreads

Nothing preempts a thread, so what interleaves is the client's calls and the two
halves of `thread_yield`.  `getcontext` returns twice: the code after it
is executed by the caller on its way out and again when the caller is resumed.
`pc` is "landed" there, "check" where the killed flag is looked at, "client" in
client code.  `running_thread` is whom the library takes to run, `code` the thread
whose stack the processor executes; they differ between the swap and the
`setcontext`.  `context[t]` is where thread `t` goes on: the start of
`thread_stub`, or a `getcontext` with the locals that matter after it: `want`
(the argument), `flag`, and `freed`, which says that the struct `new_thread`
points to was freed since (`free` at thread.c:318, on behalf of a killed
thread).  The locals are in memory (the Makefile builds without optimisation), so
they keep what was assigned between the two returns.

`Land`, `LandAgain`, `LandAlone` and `LandInvalid` are what follows `getcontext`
according to `returning_from_exit`; `SwitchAway`, `SwitchToFreed`, `Return` and
`ExitKilled` what follows the landing.  `thread_exit` removes its successor from
the queue and then index -1 as well, which drops the head; the model does that
too (`LeaveQueue`).  The model stops where C leaves the defined: `free` of the
`stack_addr` that `thread_init` never set, `setcontext` to a freed struct, and
client code of one thread under the identity of another (`code # running_thread`
with `pc` "client"), after which calls save registers into the wrong struct and
return to stack frames that are gone.

Left out: printing, `yield_to` (unused), the calls that return an error at once,
and the `struct thread` blocks that are leaked with `THREAD_NOMEMORY`.

### ThreadSync

`lock_acquire` holds the signal off across the switches inside its loop, so
a woken thread tests `free` again as part of the same switch: that test is a
disjunct of `SyncResume`.  `cv_wait` is `CvWait`, `CvUnlock`, `CvSleep`,
`CvRelock`, with the timer enabled in between.  `holds` is what a client
knows: the locks it has acquired and not released.  `Disciplined` restricts the
client to what `thread.h` asks of it (release and signal with the lock held);
the library does not check it.  `KillsInside` says whether the client may kill a
thread that holds a lock or is inside one of these calls: `sync` has no such
kill, `lock_kill` has.

### VirtualMemory and Replacement

One line of the trace is one action: `Hit`, `FirstReference` or `SwapIn`, with
eviction, swap-out, `ref_func` and the load or store inside it.  A table slot
of `malloc`ed memory that was never written is a choice: zero, or garbage that
is followed (`WildPointer`).  `last` keeps what the trace stored last at each
address, which is what a load line of a trace carries; `arrivals` keeps the
order in which frames were filled.  Both are of the specification, not of
the program.  Bytes per page, the fan-out of the page table and the share
of memory that s2q keeps for A1 are constants (16, 4096 and 10 in the code).
Left out: read and write errors on the swap file, the counters, printing.

### FileStore and FileSystem

FUSE mounts the file system single-threaded, so a callback is one action:
`vsfs_create`, `vsfs_unlink`, `vsfs_truncate`, `vsfs_write`, `vsfs_read` (which
sets a time) and `vsfs_utimens`.  The image is
memory-mapped and is all the state there is; `fs` is a record of its parts (times
apart: `stamped` is the set of inodes whose `i_mtime` the last call set), and
the helpers of the code are operators from an image to an image, so that
`vsfs_write` can call `vsfs_truncate` as it does in C.  The loops of
`truncate_up_*` and `truncate_down_*` become the set of indices they go over:
`Extend` allocates the lowest clear bits in the order of the code (direct
blocks, the indirect block, the blocks it points to), `Free` frees a list of
blocks with the assertions of `bitmap_free`.  `Extend` also stands for the
allocation `set_dir_entry` does for the directory, which follows the same order.
What a block holds is its bytes, its directory entries or its pointers,
according to the role in which it was last written; a freed block loses its
contents, because no call reads a block before it has filled it.  Pointers of
free inodes, and `i_indirect`, keep their old values as in the code.
`Init` is the image `mkfs` writes; the inode table holds zeros or the pointers
of an older file system (`Leftovers`), as `mkfs` is called with `-z` or not.
What `readdir`, `getattr`, `statfs` and `read` report are the operators
through which the properties look (`Entries`, `HasTable`, `Clear`, `ByteAt`).
`vsfs_getattr` runs before every other call, so a name exists, or does not, when
a callback begins.

Where the code goes wrong its behaviour ends with a `status`, or goes on with
the wrong image.  `Careful` keeps the client out of four cases, each a finding:
a `create` without a free inode or without the blocks the directory needs; a
resize that keeps all of exactly 5 blocks; a growth that gets its data blocks
but no indirect block; a write whose growth is refused.  Sizes near 2^32 (`UintRange`)
are not among the `Sizes` of the runs: with one that is, `BlocksMatchSize`
fails.

`FileStore` lets the rest of the last block of a file that grows hold anything:
the code does not clear it; and a read may stamp the directory, as the code does
(vsfs.c:863).  That is all the refinement gives away.

Left out: modes, the values of times, paths of more than one
component, a failing `mmap` or `clock_gettime`.  A crash is not modelled: the
mapped pages survive one of the process, and the README of A4 promises nothing
beyond.

## 3. Runs

| run | bounds | what it shows |
|---|---|---|
| `threads` | 3 tids, 1 client queue, exit codes 0 and 1, every call | seven invariants, three liveness properties and the refinement of `ThreadStates` |
| `structured_wait` | 4 tids, count down to -3 | for clients that wait only for their children and reap them all, `thread_wait` never fails its assertion |
| `wait_race` | 4 tids | `WaitOnce` fails: two threads reap one target |
| `create_limit` | 3 tids | `CreateInBounds` fails: `created_threads[-300]` is written |
| `sync` | 3 tids, 1 lock, 1 condition variable | mutual exclusion, no waiter stranded on a free lock, no spinning with the signal off, progress |
| `lock_kill` | 4 tids | `NoStrandedWaiter` fails when the woken waiter was killed |
| `cv_release` | 4 tids | `WaitersAsleep` fails: a signal between the release and the sleep is lost |
| `vm` | 3 pages, 2 values, 1-2 frames, swap 1 or 4, all algorithms; 4 pages, 2-3 frames with rr, clock and s2q | contents survive eviction, the tables agree, no assertion fails with enough swap; FIFO order, CLOCK order but for one case, the lists of s2q |
| `coop` | 4 tids, 3 stacks, every call | five invariants, the only way a thread is lost, and the refinement of `ThreadStates` |
| `coop_lost` | the same | `EveryThreadKept` fails: an exit drops the head of the ready queue |
| `fs` | 2 files, 11 blocks of 2 bytes, 1 direct and 2 indirect blocks per file | bitmaps, inodes, directory and free counts agree; no assertion fails; `FileStore` is implemented, time stamps included |
| `fs_truncate` | the same, any client | `BlocksAccounted` fails: a truncate frees the superblock |

Three threads are the fewest with which one waits, one exits and a third
interferes, and with which the limit on tids is reached and a tid is reused;
four are needed for two waiters and a third party.  The one bound on a
counter is `Drift`: no `thread_create` once `num_threads_created` is below
`-Drift`.  Since tids are handed out and back in a queue of `MaxThreads - 1`,
reuse happens in every run.  In `vm` a page is evicted clean and dirty, and
comes back, with another page in its frame; swap size 1 fills up, swap size 4
holds every page.  Its constraint `Workload` keeps two families of traces out of
the whole product: three pages with two values on one or two frames, where
contents and the swap file matter, and four pages with zeros only on two or
three frames, where the order of the victims does (three frames give s2q a
threshold of 1, two a threshold of 0).  The constraint is closed under
prefixes, so every state it keeps is reached and checked.  In `coop` four
threads are the fewest for two ready threads at an exit, a killed one among
them, and a survivor; the stacks run out at the fourth thread, so that
`THREAD_NOMEMORY` occurs (the first thread has none).  Symmetry is used for
the names of files and for the stacks of `coop`, which the code only compares; tids,
frames and pages are ordered by the code (lowest free first, head first).  `fs` is explored with `stamped` left out of the
fingerprint: no call reads it and each sets it anew, so states that differ in it
alone have the same successors, and `FilesImplement` is checked on every
transition, stamps included.  In `fs` the first file makes the directory need
its indirect block; a file grows and shrinks across the boundary between direct
and indirect blocks in both directions, at block boundaries and inside a block,
is refused for EFBIG and ENOSPC, and inodes, entries and blocks are reused.
`NumDirect` is 1 there to keep the boundary within reach of a few blocks.

Deadlock is checked in every run but `fs_truncate`: a process that is over stutters (`Over`,
`SyncOver`), so a deadlock would be a state in which no thread can do
anything.  There, a file system whose process
has aborted does nothing more.

### Fairness

`FairSpec` and `SyncSpec` assume weak fairness of `Resume` (a switch that has
begun ends: no other code can run meanwhile) and strong fairness of `Preempt`
(`interrupt_handler` re-arms the timer each time it runs, interrupt.c:209, and
a signal that arrives while blocked is delivered when it is unblocked, so a
thread that returns to client code again and again is preempted again and
again).  No fairness is assumed of the client: it may compute for ever.  A1 has no
liveness property: a cooperative thread need not yield, and a ready thread may be
lost (`coop_lost`).

## 4. Proofs

| module | theorems | property |
|---|---|---|
| `PreemptiveThreadsProofs` | `TypesCorrect`, `ThreadInOnePlace`, `NoThreadIsLost`, `TidsPartitioned`, `NoFreedStackInUse`, `WaitersHaveTargets`, `KilledStayOut` | `TypeOK`, `OnePlace`, `NoThreadLost`, `TidPartition`, `StackSafe`, `WaiterHasTarget`, `KilledNeverRuns` |
| | `ImplementsThreadStates` | `LifeSpec` |
| | `WaitsFindTargets`; `StructuredEndsWell` | `WaitFindsTarget`; of no run |
| | `ReadyNeverOvertaken`, `TimerBringsNearer`, `WakeupsNotLost`, `KillsRemembered` | of no run: what `ReadyRuns`, `WaitReturns` and `KilledExits` rest on |
| `ThreadSyncProofs` | `SyncThreadInOnePlace`, `SyncNoThreadIsLost`, `SyncTypesCorrect` | `OnePlace`, `NoThreadLost`, `SyncTypeOK` |
| | `LocksHeldOnce`, `NoWaiterStranded`, `OneLockNeverHangs` | `LockHeldOnce`, `NoStrandedWaiter`, `NoHang` |
| | `SyncReadyNeverOvertaken` | of no run: what `LockProgress` rests on, with `NoWaiterStranded` |
| `CooperativeThreadsProofs` | `CoopTypesCorrect`, `TidsAlwaysAccounted`, `ReadyThreadsExist`, `StacksAlwaysSafe`, `KilledHeldOtherwise`, `LossesExplained`, `ImplementsLifeCycle` | `CoopTypeOK`, `TidsAccounted`, `ReadyOnce`, `StacksSafe`, `KilledRunsOnlyAfterExit`, `LostOnlyAtExit`, `CoopLifeSpec` |
| `VirtualMemoryProofs` | `VMTypeCorrect`, `VMTablesAgree`, `VMCoherent` | `VMTypeOK`, `TablesAgree`, `Coherent` |
| `VirtualMemoryPolicyProofs` | `VMRoundRobinIsFIFO`, `VMClockIsCLOCK`, `VMS2QLists`, `VMNoFaultWhenSized` | `RoundRobinIsFIFO`, `ClockExceptAtLastFrame`, `S2QLists`, `NoFaultWhenSized` |
| `FileSystemProofs` | `ImageTypesCorrect`, `CountsAgree`, `NoBlockSharedOrLost`, `DirectoryNamesInodes`, `SizesHaveBlocks`, `CarefulNeverFaults` | `FSTypeOK`, `FreeCounts`, `BlocksAccounted`, `InodesAccounted`, `BlocksMatchSize`, `NoFSFault` |
| | `ImplementsFileStore` | `FilesImplement` |

**A2.**  For every number of threads and queues and every client whose exit codes
differ from -300, `Invariance` says that `IInv` is an invariant of `Spec`.  None
of the properties is inductive alone: that the ready queue has room for a thread
needs that it holds only live threads, once each; that a waiter's target is
alive needs that a thread exits only when nobody but one waiter is in its
queue; that a resumed thread's stack is live needs that the zombie is another
one.  `IInv` is their conjunction with the facts that tie them (what
`joining`, `waiting_on` and `stack` may be in each state).  `DataLemmas` says what
adding to, removing from and concatenating the packed arrays does to the set
of their entries; there is one lemma for each step, and `NextInv` collects them.
The assumption on exit codes is needed: `thread_exit(-300)` makes a thread that
has exited look alive.

`ImplementsThreadStates` maps each step to one of `ThreadStates`.  Under `IInv` the
state of a thread is read off the queue it is in (`Placed`), so it suffices to say
who changes place: `Leaves` (one thread gives the processor to the head of the
ready queue, which another may have joined in the same step), `Wakes`, `Stays`
and the collection of an exited thread.  A `thread_exit` that wakes a waiter and
switches to it at once is why `Switch` wakes threads in the abstract step.

*Structured clients.*  `WaitsFindTargets` says of every number of threads what
`structured_wait` shows for four: `thread_wait` never fails its assertion when a
thread waits only for threads it created and exits only when it has collected
them all.  `WaitFindsTarget` says nothing of the way there, so the proof carries
the discipline in `TreeInv`: the created threads form a tree under the initial
one (`Parented`; no set of them is closed under parents), whoever sleeps waits
for a child of its own and is woken only by the exit of that child (`SleepersWait`,
`JoinsChild`), and nobody is killed (`NoneKilled`).  Two cases are hard.  When a
thread exits it has no children, so it is no parent in the tree that is left,
and the one that slept for it is its parent and finds the exit code
(`ExitOfLeaf`).  And `thread_exit`, which takes the first ready thread without
asking whether there is one, finds one: if nobody were ready, every thread but
the caller would sleep for a child of its own, no two for the same one and none
for the initial thread, so the children waited for would be all threads but the
initial one (`SomebodyWaits`, by the pigeonhole principle); the caller is then
waited for, and its exit makes its parent ready.  `StructuredEndsWell` says the
rest of what the same invariant gives: no assertion fails and no freed memory is
used; the process ends by the exit of the last thread, or by the write of
`thread_create` outside `created_threads`, which a structured client reaches too
(the count of threads drifts).  The hypotheses `WellStructured` are those of the
run's configuration: `Structured`, no `thread_kill` and no sleep in a queue of the
client's own.  The last two are needed: TLC finds the assertion failing with either in
`Calls`.  `thread_kill` wakes the waiter before the killed thread has exited
(thread.c:424); and when the only other thread sleeps in a client's queue, the
ready queue is empty and `thread_sleep` of the waiter returns at once.

*Under the liveness properties.*  The prover cannot reason about fairness; what
a fair step must find is safety, and is proved, for any client.  Of `ReadyRuns`:
no step moves a ready thread behind another (`ReadyNeverOvertaken`) and each timer
signal brings it one place nearer (`TimerBringsNearer`), so a thread with i - 1
others before it runs after at most i signals; only that the signals come is
fairness.  Of `WaitReturns`: a thread that joins one that has exited is not asleep
(`WakeupsNotLost`), wherever the timer fell between the test of the target and the
sleep.  Its invariant `JoinInv` says that a thread asleep in a target's queue joins
that target, one asleep in a client's queue joins nobody, and one in client code
joins nobody.  Of `KilledExits`: no step clears the flag of a live thread
(`KillsRemembered`).

**Locks.**  The steps of `ThreadSync` are steps of the scheduler, with the
queues of locks and condition variables among its wait queues, plus writes to
`free`, `held_by` and the client's place in its call.  So `SyncScheduler` gets
`IInv` for every client, disciplined or not, from the lemmas of A2.  The
properties of the locks need more: `LockHeldOnce` is kept by a switch only if
the thread that goes on inside `lock_acquire` tests the lock it sleeps on, and
no wakeup is lost only if each thread that left the queue of a lock is still
inside `lock_acquire` of that lock.  `LockInv` says this: a free lock is as
`lock_create` left it (`KnownLocks`), a thread that sleeps on a lock or a
condition variable is at that point of its call (`SleepersInside`), a thread at
each step of `cv_wait` holds the lock or does not (`StepsHold`), one that exited
or was killed holds no lock and is in no call (`LeftOutside`), and the
one that executes is not in the loop of `lock_acquire` once its switch has ended
(`RunsOutside`).
Assumed are `Disciplined` and `~ KillsInside`: without the first a thread may
release what another one holds (a finding), without the second a waiter that was
woken may die on the way (`lock_kill`).  `OneLockNeverHangs` assumes one lock:
then its holder sleeps on nothing, and the thread that waits for it finds the
ready queue not empty.  With two locks, each held by a thread that wants the
other, `lock_acquire` does spin with the signal off.
`SyncReadyNeverOvertaken` is `ReadyNeverOvertaken` again, for the calls of locks and
condition variables: with `NoWaiterStranded` it is the safety half of
`LockProgress`, since the woken thread that `NoStrandedWaiter` names comes to its
test of `free` in its turn.

**A1.**  `CoopInvariance` does the same with `CoopInv`, which is the conjunction of
the run's invariants and `InsideYield` (the thread inside `thread_yield` has a
context that was saved there).  They need each other: a stack stays its
thread's because only created threads are ready, a killed thread is held because
the one that executes inside a yield is not at its start.  `LossesExplained` and
`ImplementsLifeCycle` follow with what each step does to the ready queue
(`SwapStep`, `LeaveStep`).  No assumption is made on the client; of the constants
only that they are distinct.

**A3.**  For every set of pages, memory and swap size, page size, fan-out and
algorithm, `NextVMInv` says that `VMInv` is inductive: the types and `Agree`,
which adds to `TablesAgree` that every slot a page names is taken in the swap map.
An action is an eviction (`AllocateFrame`: what `allocate_frame` leaves, for a
free frame and for each algorithm), the page that comes in (`PlaceStep`) and the
reference and access (`AccessStep`); the algorithms matter only through what
they return (a frame below `m`, and other bits only by clearing them).
`CohInv` adds that a page in memory has its bytes there, that a page with a slot
has them in the slot unless it is dirty, and that an untouched one is all zeros;
`Agree` keeps the bytes of different pages in different frames and slots.  It
needs `Offsets \subseteq Bytes`: an access at offset `SIMPAGESIZE`, which
`replay_trace` lets pass, is of the next frame.
`FIFOInv` relates `arrivals` to the counter of `rr_evict`: until memory is full
frames come in from 0 up, and then `arrivals` is the frames from the counter
on, round.  `ClockIsSecondChance` is about the operators alone: one loop to the
end of memory, the last frame apart and a loop from the start find what CLOCK
finds going round.
`ListsInv` adds to `VMInv` that the lists of s2q match the frames and the bits,
and that a page outside memory has its bit clear: without that a page that comes
back would be taken for one of Am.  `S2qEvictLists` counts: m frames do not all
fit into an A1 of at most m / 10, so Am has a victim.
`FaultInv` adds `Backed`: every page is in memory or has a slot, and every slot
taken is some page's.  So if the page to be evicted has no slot, the others,
fewer than the slots, cannot hold them all (`SlotLeft`, by the pigeonhole
principle), and `swap_pageout` succeeds.

**A4.**  `SoundImage` says that `FSInv` is an invariant, for every layout, number
of files and inodes and every block size.  `Sound` is the conjunction of six
parts, none of them inductive alone.  `Linked` is `BlocksAccounted` in the form
the steps need: over a set of inodes that count, which inside a call is not
yet, or no longer, that of the bitmap.  `Typed` has the contents of blocks
only at blocks in use, so that a block that is allocated cannot still hold what
it held.  `Roles` and `TableFilled` say that each pointer finds contents of its kind,
without which the next read through the indirect block would be of anything.
`Directory`, `Sized` and `Counted` are the other properties.
The growth of an inode (`ExtendSteps`) and the release of its blocks
(`FreeSteps`, `Removal`) are proved once, for the directory and for files;
`LowestClear` says that the n lowest clear bits exist and differ when the bitmap
has that many.  There is a lemma for each call (`CreateSteps`, `UnlinkSteps`,
`TruncateSteps`, `WriteSteps`).
Assumed are `Careful`, which excludes the findings named in section 2, and
`SizesFit`: no size in the last block below 2^32, for which `div_round_up` wraps
(vsfs.c:778) and `BlocksMatchSize` fails.  Both are about the calls, not the
image, and the run satisfies them.

`ImplementsFileStore` needs more than that the image stays sound: what each call
leaves in the other files.  Each lemma about a call says it in terms of the
image (`Retained`, `Overwritten`, `Added`, `Removed`): entries, and for every
inode its fields and the data at each of its indices.  Other files keep their
data because `NeverShared` and `Roles` keep their blocks out of what is freed,
zeroed or written.  A client sees names and bytes: `Binds` is what the directory
says, which by `Directory` is one inode for a name and one name for an inode, so
`path_lookup` finds it (`Bound`) and `Content` is what is read through it.  A byte
is in block `(p - 1) \div BlockSize`, one that the size accounts for
(`BlockOfByte`); `BlockEnd` of `FileStore` is the end of the last block
(`LastBlockEnds`), so bytes past it are in new blocks, which are zeroed.

The inductive invariants were model-checked before they were proved; those of
the last kind (`TreeInv`, `JoinInv` and the action properties beside it) on the
configurations of `structured_wait`, with client queues and wakeups allowed as well,
and of `threads`, with `Drift` 2.

Only model-checked: `ReadyRuns`, `WaitReturns`, `KilledExits` and `LockProgress`.  They
hold under fairness, and neither fairness nor ENABLED is within the prover's
reach; what is proved of them is said above.  Every invariant and every action
property that a passing run checks is stated by a theorem.

## 5. Findings

Every violation run shows a disagreement between the code and its
documentation; `PROJECT.json` quotes both.  In short: two successful waits for
one thread and a NULL dereference (thread.c:611); the thread count is
decremented twice and the limit check then passes with no tid left (162, 389,
614); `lock_release` wakes one waiter, not all (677); `cv_wait` is not atomic
(726-728); a truncate that keeps 5 blocks frees a block the file does not own
(vsfs.c:810); a cooperative `thread_exit` drops the head of the ready queue
(A1 thread.c:323).

Findings without a run of their own: killed sleepers are not woken
(thread.c:421); CLOCK skips the last frame (clock.c:14, the exception in
`ClockExceptAtLastFrame`); the offset check is off by one (sim.c:118); bytes cut
off a file come back (vsfs.c:808: `FilesImplement` fails if `FileStore` does not
allow it); sizes are cut to 32 bits
(vsfs.c:778); `vsfs_read` stamps the directory (vsfs.c:863); missing checks for space in `create`, `truncate` and `write`
(vsfs.c:417, 781, 917, the cases `Careful` excludes); and those in
`PROJECT.json` that need no model.  In A1: the switch that is repeated after an
exit makes client code run under another thread's identity (thread.c:235, where
the model stops); a killed thread gets back to client code after an exit (the
exception in `KilledRunsOnlyAfterExit`); a thread that exited on behalf of a
killed one later goes to its freed context (248, `SwitchToFreed`); a stack is
leaked by two exits in a row (317), a tid by a failed create (148); `free` of an
uninitialised pointer when the first thread exits (58).

## 6. Not modelled, and what is left

- `i_mode` of A4 (set by create, reported by `getattr`, read by nothing else) and
  the values of `i_mtime`.
- `malloc369`, `malloc.cpp`, `khash.h`, `list.h`: accounting around `malloc` and
  containers that the models replace by functions and sequences.
- Option parsing, mapping of the disk image, timers, printing: I/O.
- The timer's `setitimer` and signal masks of A2 beyond on and off.
- Read and write errors of the swap file: they depend on the host, and no test
  or document of A3 says what should hold after one.
- Proofs of the four liveness properties: see the end of section 4.
