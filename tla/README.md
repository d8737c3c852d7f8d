# TLA+ models of STY_LINUX

The repository holds the programs of an operating-systems course: heap
allocators, schedulers, a page table, message queues, pipes, file copying and
the labs around them.  They are separate programs that share ideas rather than
code.  This directory models the ones with state worth a proof, checks them
with TLC on small instances, and proves their most important properties with
TLAPS for every value of the constants.  Paths below are relative to
`src/STY25/`.

## The system

| Part | Code | State | Operations | What is hard | What makes it correct |
|---|---|---|---|---|---|
| Best-fit heap allocator | `vika4/assignment04-templates/p1/malloc.c` | block headers in memory, free list, heap size | `my_malloc`, `my_free`, `initAllocator`, `dumpAllocator`, `getAllocStatistics` | long sequences of splits and merges, extension and retry, arithmetic of sizes | blocks tile the heap, none is both free and in use, neighbours are merged |
| Threaded heap allocator | `vika9/assignment09-templates-1/p1/malloc.c`, `test-malloc.c` | the same, a recursive mutex, `debug` | the same, `enable_debug` | interleavings, recursion and dumps under the mutex, a failing `sbrk` | every call appears atomic, balanced locking, termination |
| Strategy allocator | `vika5/P5/malloc.c` | the same, strategy, next-fit cursor | the same, `setAllocationStrategy` | a cursor into a list that changes, strategies that change while the heap is in use | as the best-fit allocator, for every strategy; each strategy takes what its name says |
| Second solution of the threaded allocator | `vika9/assignment09-templates-1/p1/savesolmalloc.c` | headers with a mark for blocks in use, free list, one mutex | the same, without recursion | allocating in memory that was just added | the same; marks and list agree |
| Priority scheduler | `vika3/Passignment03-templates/p1/scheduler.c` | a queue per priority, current priority, counters | `onTaskReady`, `onTaskPreempted`, `onTaskWaiting`, `scheduleNextTask` | early wake-ups, starvation, counters | each ready task queued once, bounded streaks, no idle processor, no starvation |
| Round-robin scheduler | `vika3/LABtutorial-03/roundrobin.c`, `list.c` | one list of ready tasks | `onTaskReady`, `scheduleNextTask` | tasks reported ready twice or while they run | each ready task listed once, served in turn |
| Message-queue calculator | `vika8/assignment08-templates/p2/` | a POSIX queue, client and server | `startClient`, `sendAddTask`, `sendQuitTask`, `stopClient`, `runServer` | start race, full queue, messages after quit, stale queue | every accepted task answered before quit, server ends and unlinks |
| Program execution | `vika8/assignment08-templates/p1/pipe.c`, `vika2/assignment02-templates/p2/execute.c` | table of descriptors, children, pipes | `execute` | threads fork while others have a pipe open, every system call may fail | the result tells what became of the program, no pipe end is left open unless `fork` failed, calls return |
| Pipeline | `vika8/assignment08-templates/Lab/3.c` | three processes and the ends of a pipe | `ls \| less` | who holds which end when | the end of the data is seen, and only then; all processes end |
| Page table | `vika7/P7/assignment07-templates/p1/page_table.c` | directory, tables | `mapPage`, `translatePageTable`, `unmapPage` | freeing tables, flags | translates exactly what was mapped, with its rights |
| Paging experiment | `vika6/P6/assignment06-templates/p1/sim-paging.py`, `paging-policy.py` | trace, file of pages, frames, reference counts | the driver over sizes and policies; one access of FIFO, LRU, MRU, RAND, CLOCK, OPT, UNOPT | the policies' bookkeeping, repetitions left out of the trace | the faults are those of the policy's definition on the whole trace |
| Sparse copy | `vika10/assignment10-templates/p2/copy.c`, `sol.c` | two files and their offsets | `doCopy` | short reads and writes, failures, copies to one name at a time | the copy is the source (but for zeros at the end; in `copy.c`, if no write is cut short); nothing is left open; nobody else's file is touched |
| Bounded buffer (lab) | `vika9/Lab/Producer-ConsumerProblem3.c`, `...3simplified.c` | array used as a stack, two semaphores, mutex | `produce`, `consume` | the index is loaded and stored in separate steps | nothing lost or taken twice, every item arrives |
| Directory listing | `vika10/assignment10-templates/p1/ls.c`, `testing.c` | open directories, one per level; names collected | `list` | calls that fail at any entry, some of them unnoticed | everything printed once but what a failed call has cost, in order where it is sorted, all directories closed |
| Integer parsing | `assignment01-templates/p2/parseint.c` | | `parseInt` | boundaries of integers | the value of the numeral |
| Printing and bit exercises | the labs | none | | | |

The programs interact with the operating system (`sbrk`, threads, POSIX
queues, processes, files); inside the repository the interactions are calls:
the allocators call themselves after an extension and `dumpAllocator` under
their mutex, `allocator_test` drives the threaded allocator from parallel
loops, and the test of the scheduler plays the kernel around it.

## Modules

| Module | Models | Proofs |
|---|---|---|
| `BlockArithmetic` | `roundUp` and the size of a block, modulo the machine word | `HeapBlocks_proofs` |
| `HeapBlocks` | the best-fit heap as a set of blocks; calls are atomic | `HeapBlocks_proofs` |
| `ConcurrentMalloc` | the threaded allocator: headers, list, mutex, loops step by step | `ConcurrentHeap_proofs` |
| `TestMalloc` | `allocator_test`'s two OpenMP loops over `ConcurrentMalloc` | `ConcurrentHeap_proofs` |
| `Scheduler` | the priority scheduler and the kernel around it | `Scheduler_proofs` |
| `MessageQueue` | the message-queue calculator: servers, clients and their queues | `MessageQueue_proofs` |
| `PageTable` | the two-level page table | `PageTable_proofs` |
| `AddressSpace` | what the page table promises: pages mapped to frames | |
| `MemoryService` | what every allocator promises: blocks handed out and taken back | |
| `ListHeap` | the strategy allocator and the second solution, on headers and links | `ListHeap_proofs` |
| `FileCopy` | `copy.c` and `sol.c`, a system call per step | `SystemPrograms_proofs` |
| `ChildProcesses` | both functions `execute`, called by several threads | `SystemPrograms_proofs` |
| `Pipeline` | `ls \| less` and its parent | `SystemPrograms_proofs` |
| `DirectoryListing` | the recursive `list`, in both editions | `SystemPrograms_proofs` |
| `SystemPrograms` | the four above side by side | `SystemPrograms_proofs` |
| `BoundedBuffer` | the bounded buffer with and without its mutex | `LabPrograms_proofs` |
| `RoundRobin` | the round-robin scheduler and the processor around it | `LabPrograms_proofs` |
| `PagingPolicy` | the driver and the simulator of the paging experiment | `LabPrograms_proofs` |
| `ParseInt` | `parseInt`, a character per step | `LabPrograms_proofs` |
| `LabPrograms` | the four above side by side | `LabPrograms_proofs` |
| `SmallPrograms` | the programs of both bundles, one at a time | `SystemPrograms_proofs`, `LabPrograms_proofs` |
| `MC...` | instances for TLC | |

**HeapBlocks** abstracts the allocators: `size` holds the size field of every
block by its address (an offset from `_heapStart`), `free` the members of the
free list, `live` the allocated blocks with the request each one answers.
`Malloc` and `Free` are the calls; a call that extends the heap is two steps,
`Extend` and `Retry`, with `pending` the request in between.  `seams` records
where an extension was attached: the code does not merge the new block with a
free one before it.  Requests larger than a heap only return `NULL` and are no
step.  `Extend` always gets its memory, any number of times.  In the program
`sbrk` may fail unnoticed, and `heapSize += size` makes it ask for too little from
the second extension on (`malloc.c:34-37`, `204-228`), so that the header of the
new block lands beyond the break.  The same `allocHeap` is modelled with these
flaws in `ConcurrentMalloc` and `ListHeap`; the invariants of `HeapBlocks` hold of
a superset of the heaps that the program survives.  `HeapBlocks` in turn implements **MemoryService**, which knows neither
free blocks nor lists: memory that the program has is handed out, enough of it,
to one holder at a time, and stays where it is until it is given back.

**ConcurrentMalloc** is the code: `heap.size` and `heap.next` are header fields
in memory, `heap.first` is `_firstFreeBlock`, `heapSize` is `_heapSize`.
`reserved` is the static variable of `allocHeap` and `brk` the end of what
`sbrk` gave.  Each thread has a label (`pc`) and its locals (`loc`); a step is
one iteration of a loop or the code between two loops or mutex operations, and
within the mutex this grain is as fine as any other thread could see.  The
mutex is recursive (`owner`, `depth`).  `loc[t].retry` counts the activations
of `my_malloc` that wait for a recursive one, `loc[t].after` is where a
dump nested in `my_malloc` returns to.  The application is any sequence of
calls that frees only what it holds; `held` is what it was given.  A write to
memory beyond `brk` kills the program (`crashed`).  What is left in the header
of a block that was merged into another is reset to the initial value, so that
states are not told apart by dead memory; the code never reads it again.

The refinement `ImplementsHeapBlocks` maps this state to `HeapBlocks`: `free`
is the set of blocks reached by following `next` from `_firstFreeBlock`, the
blocks are those met by walking the heap by sizes.  `my_malloc` takes effect
when it carves its block (or, on extension, when the new block is linked) and
`my_free` when it links and merges.  That the mapping yields the same blocks
both ways is what the walk of `dumpAllocator` relies on.

**TestMalloc** adds the test's loops: any thread takes any iteration, threads
wait for each other after each loop, blocks are passed from the first loop to
the second through `my_block`.

**Scheduler** keeps the queues as sequences, `currentPriority` and
`samePrioCounter` as in the code, and the fields `state` and `priority` of the
tasks.  `running` is the kernel's: the task on the processor.  The kernel
reports a task ready at any time, also one that still runs, and asks for a task
only when none is on the processor, as the test does.  `scheduleNextTask` has
three disjuncts for its three results.  `overtaken` and `turns` are history
variables; no action reads them.  `overtaken` counts the turns in a row of one
priority while a lower one has a task, `turns` the turns in a row of the
current priority, up to `MAX_SAMEPRIO_LENGTH` (`TurnsComplete`).  Like
`samePrioCounter`, `turns` is kept when the answer is `NULL`: an idle processor
does not begin the turns anew.

**MessageQueue** has any number of servers and clients, processes that are
started at any time and once each.  The queue that has the name
(`QUEUE_NAME`) and the queues that processes still have open may differ, since a
queue lives on without its name; a server creates at most one (`O_EXCL`), so a
queue is called by its server.  `content` holds the messages of each queue.
`Receive` is `mq_receive` with the `switch` that follows, `Send` is `mq_send`,
which blocks on a full queue; `CloseServer` and `Unlink` are separate, since
clients and other servers run between them.  The call of `mq_unlink` in
`main` names a queue nobody creates (`/simple_calculator`, without the time of
compilation that `QUEUE_NAME` ends in) and therefore is no step.
With `Interrupts` a signal may end a receive or a send with an error; with
`Kills` a server may die without cleaning up.  `sent` and `answered` are history:
what each queue took and which additions were printed from it.  The sum is left
out.

**PageTable** keeps the directories and tables as functions from indexes to
entries.  An entry is the address it holds and the set of its flag bits; the
flag bits lie below the page size, so that the two never mix.  A table is on the
heap (`Heap`, handed out by `posix_memalign`) or a variable of the program
(`Static`); `Init` puts each static table into one place of a directory, as
`main` does.  `mapPage` either finds a table, gets a new cleared one, or fails,
for want of memory at any time.  `unmapPage` frees a table with no page left,
also a static one: then `free` is given memory it never handed out, and the
program is killed (`crashed`).  The test never unmaps the last page of a static
table.  A freed table is reset, so that states are not told apart by dead
memory.  `AddressSpace` knows no tables: it maps the base of each page to a
frame with rights and an accessed mark, per directory.  `Meaning` is the
refinement mapping, what the entries say of a page.

**ListHeap** holds what the two remaining allocators hold: `heap` the header
fields and `_firstFreeBlock`, `cursor` the `_next_fit_cursor`, `reserved` and
`brk` as in `ConcurrentMalloc`.  `edition` says which program runs.  A call is
one step, since the first program has one thread and the second does a whole
call in its mutex; only the call of the first that extends the heap and calls
itself is two steps, with `pending` the request in between, whose size gets a
second header.  Each strategy is an operator that settles on a place in the
sequence of blocks that its search visits.  `status` says why a program stopped:
`killed` by the system (memory `sbrk` did not give, a `NULL` cursor, a `NULL`
list), or `astray`, when next fit has taken a block that the pointer it holds
does not lead to; from there the list is broken, and the model ends.

**FileCopy** has copiers that run either version once each.  A file is a sequence
of bytes of which only whether they are zero is kept, because a block of zeros is
skipped with a seek.  Reads and writes take any part of what they are given;
every call may fail.  `short` is history: `copy.c` lost the rest of a block.
`CopyRight` says what holds all the same; `CopiedWhole`, what a user would expect,
is false (see Findings).

**ChildProcesses** follows each call of `execute` and its child.  `table` is the
table of descriptors that the threads share and a fork copies, so a child also
inherits the pipes of calls that other threads have under way; `execvp` closes
them (`O_CLOEXEC`), and until then they are open.  A call whose `fork` fails leaves its
own pipe open, in the model as in the code, and `EndsClosed` excepts that call.  **Pipeline** keeps the ends
of its pipe that each of the three processes holds (`handles`) and how many
chunks were written and read; `dup2` and `waitpid` are taken to succeed there.  **DirectoryListing** keeps the activations of the
recursive `list` as a stack of frames.  At any entry `opendir`, `readdir`, `lstat`
or an allocation may fail, and the model does not ask why: a failing `lstat` passes
an entry over, an error of `readdir` is taken for the end, and the result of a
subdirectory is not looked at.  `missed` is history, the entries that each failure
has cost.  The result does not tell: it is 0 after any of these three.
`ls.c` prints an entry when `readdir` gives it, with the directory open;
`testing.c` collects the names, closes the directory and prints them in the order
of `strcmp` (`Rank`).

**BoundedBuffer** has one step per access to shared memory or call of a
semaphore or mutex; `buffer_index++` and `buffer_index--` are a load into the
thread and a store.  `mutexed` says which of the two programs runs.  Of the items and the index
`BufferRight` speaks with the mutex, or with a single slot; without the mutex and
with more slots only the semaphores are right.  An access
outside of the array is undefined behaviour, where the thread stops.

**RoundRobin** keeps the list as a sequence and drives it as `main` does, with
tasks that block or are reported ready at any time; `passed` is history.  That
`main` also reports `NULL` when the list was empty, and would crash
(`roundrobin.c:143`), is left out: its four tasks never wait.
**PagingPolicy** has two parts: the driver turns lines of a trace into pages,
leaves out repetitions, writes the file and starts the simulator for each size
and policy; the simulator takes one access per step, and for CLOCK one page it
looks at.  It may also be started by hand with the pages as strings, in which
`list.index` finds no number.  **ParseInt** wraps results at `INT_MAX`.

**SystemPrograms** and **LabPrograms** put four programs side by side each, and
**SmallPrograms** all eight, so that one run checks them: a behaviour starts one of
them and follows it while the others stay in their initial states.

Operators marked `Mutated:` are not used by any specification.  Each is a
variant of the operator it precedes with a plausible mistake, and
`PROJECT.json` pairs it with a property that fails when it takes the place of
the original.

## Runs

Bounds: a header of 2 and a word of 64 stand for 16 and 2^64; only their ratio
to the requests matters, and the proofs hold for the real ones.

| Run | Instance | Question |
|---|---|---|
| `heap` | heap of 8, two extensions (`MaxHeap` 24), requests that need blocks of 2, 4, 6 and 8 and one too large on retry | Do all sequences of calls keep a partition of aligned, coalesced, large enough blocks, and the promise of `MemoryService`? |
| `threads` | two threads, heap of 6 and one extension, blocks of 2 and 6, `debug` switched at any time | Is the threaded allocator atomic (does it implement `HeapBlocks`), its locking balanced, its list sorted and stable under a walk, memory in use left alone? |
| `threads_killed` | the same, no debug | Is a failed `sbrk` noticed? **No.** |
| `test_malloc` | three threads, four iterations whose blocks need 20 of a heap of 12 | Does the test end, with distinct blocks, and with all memory merged again? |
| `strategies` | heap of 8, one extension, blocks of 2, 4 and 8, four strategies changed at any time, both programs | Does the list hold the free memory exactly, in order and merged, does each strategy take what it should, are statistics and marks right, is `MemoryService` kept, and what stops the programs? |
| `next_fit` | the same, next fit only | Does the list stay whole under next fit? **No**: it overwrites `_firstFreeBlock` or unlinks another block. |
| `scheduler` | four tasks, three priorities, streaks of 3, priorities out of range | Are queues, counters and streaks right under every order of events, is the processor idle only for want of tasks, and do the tasks of the two highest priorities always run (with a fair timer)? |
| `scheduler_starvation` | three tasks, three priorities, streaks of 4, fair timer | The same of all priorities: **no**, priorities 0 and 1 alternate for ever. |
| `queue` | two servers, two clients with two messages each, a queue of two, signals and kills, fair servers | Are the additions before a quit answered in order and once, has each queue one reader, which removes its own name, does a start fail only where a server runs or was killed, and does a server that was told to quit end? |
| `page_table` | two directories, one static and two heap tables, directories and tables of two entries, pages of four addresses | Are tables never shared, leaked or used after they were freed, and does each directory translate as if it were a plain map? |
| `programs` | two copies of five files in blocks of one or two bytes or one block of 4096, both versions; two threads that call either `execute` with four kinds of program or `NULL`; three chunks through a pipe of one; a directory of three levels, three open at most, both editions of `list`; two producers, one consumer, three items, a buffer of two; three tasks; traces of up to five accesses to three pages, all sizes and seven policies; strings of up to three characters with `INT_MAX` 127 | Is what was copied right at every step (in `copy.c` until a write is cut short), does a result of `execute` tell the truth, is everything closed whatever fails (but the pipe of a failed `fork`), does a listing lack only what failed calls have cost it; are counts and items right with the mutex (and the semaphores without it), are turns taken in order, are the faults those of the definitions, is the numeral's value returned; and does each program end? |
| `copy_whole` | one copy of three files, one of which ends in a zero, blocks of two bytes or of 4096, both versions | Does a copy that reports success hold the source? **No**: `copy.c` drops the rest of a short write. |

A property of a run is often a conjunction of named parts (`HeapSafe`,
`ListInv`, `CopyRight`, `MemoryRight`, ...); each part has its own comment in
the module.

*Why the bounds are enough.*  In `heap` a free block can have free, used or no
neighbours on both sides, inside a heap and across a seam, and every branch of
`my_malloc` (exact fit, split, extension, refused retry) is taken.  The theorems
of `HeapBlocks_proofs` remove the bound.  In `threads` a heap of three minimal
blocks and one extension is the smallest in which a split, an exact fit, merges
with either neighbour and a nested call all occur while another thread waits
anywhere; the code treats all threads alike, so the two are symmetric (the
run uses that symmetry and checks no liveness).  The heap cannot be extended
twice in `ConcurrentMalloc`: the second time `allocHeap` asks `sbrk` for
nothing and the program is killed, which the model shows rather than bounds.
In `scheduler` two tasks share the highest priority, so that its queue need
never be empty, and streaks of 3 distinguish one turn too many from too few.
In `queue` the second server can start at every step of the first one's end,
two clients can write to different queues, four messages overfill a queue of
two, and a quit can stand before, between and after additions of either client.
In `page_table` two pages share a table and a third input lies inside a page;
three tables and two directories are the fewest in which a freed table can come
back in the other directory.  `PageTable_proofs` removes the bound.
In `strategies` four minimal blocks fill a heap, so that a block in use can
stand on either side of every cut, and one extension is all that the first
program survives (as in `ConcurrentMalloc`).  In `programs` the files
have zeros at the beginning, in the middle, at the end and nowhere, and blocks
of two leave a partial one and blocks of one cannot be cut short; a second copy or call is enough to be in the way of
the first; the programs exit, are killed, never end or cannot be run; with three
levels of directories and three open, memory or descriptors may run out at each.
Two producers race for a slot and three items overfill two
slots.  Three pages in five accesses give FIFO, LRU and OPT different faults, and a
page can come back after it was evicted; traces that differ only in the names of
their pages are taken once.

*Fairness.*  `TestMalloc` assumes that a thread that can take a step at any
time from some point on takes one.  That is what running threads on a
preemptive kernel means; the mutex itself need not be fair, since each thread
runs finitely many iterations.  `Scheduler` assumes that the turn of a running
task ends (a timer, or the task blocks) and that the kernel then asks for the
next task; nothing is assumed about wake-ups.  `HighestTwoRun`
speaks of the two highest priorities; `scheduler_starvation` shows that the same
fails for the third.  `MessageQueue` assumes that a server that
can receive, close or unlink does; that a signal interrupts it or that it is
killed is never assumed, clients may stop at any point, and nobody has to start.
A client that waits on a full queue whose server has ended waits for ever, which
the model allows and the properties do not speak of.

`SystemProgramsEnd` assumes that processes and threads which can take a step for
ever take one, not that `waitpid` or `read` fail, nor that a program that
`execute` runs ends: a call must return when its own program does.  For the
pipeline nobody has to leave `less`, but it reads on while it can.  `list` goes
on to its next entry.
`LabProgramsEnd` assumes fair threads, slices that end, and a scan of CLOCK that
goes on.  It is weak fairness of a thread's step: a thread that waits for a
semaphore is overtaken only finitely often, as items are finitely many.  Within
the bundle the fairness of one program asks nothing of the others: before a
program is started nothing of it but its first step is enabled, which no fairness
covers.

*Deadlock* is checked in `heap`, `threads`, `strategies` and `scheduler`.  The
others set `CHECK_DEADLOCK FALSE` because their programs end, or may be killed
(`page_table`) or wait for what nobody has to give (a full queue, an empty
buffer).

## Proofs

Assumptions, stated in the modules and evaluated by TLC: the size of the heap
is a positive multiple of the header's; requests stay two headers below the
word; a heap and two headers fit the word; pages and page tables are not empty,
addresses are below the address size, and no table is at `NULL` or both static
and on the heap; producers and consumers are finite and different; the
iterations of `allocator_test` ask for sizes within the word
(`SizeAssumption`); files are sequences of bytes that are zero or not, and
command lines have numbers as options (`CopyAssumption`); a program cannot be
run, or ends with an exit code, is killed, or runs for ever (`ExecAssumption`);
directories form a tree, since links are not followed, and names have an order
(`TreeAssumption`, `ListersAssumption`); strings are sequences of digits and one
other character (`ParseAssumption`); the lines of a trace have natural addresses,
pages are not empty, reference counts have at least one bit and `run_simulations`
names each policy once, as its default does (`PagingAssumption`).  Threads, tasks, servers, clients,
copiers, files and directories are any sets, and blocks, pipes and the number of
directories that may be open any numbers.

* `HeapBlocks_proofs`: `RoundUpCorrect` and `BlockSizeCorrect` come from
  lemmas about multiples of the header size (sums and differences of multiples
  are multiples, a positive one is at least one header).  `HeapSafety` shows the conjunction `HeapInv` inductive.
  None of its parts is on its own: that a merge leaves no overlap needs the
  blocks to tile the heap, that a split leaves room for a header needs
  alignment, that at most one block ends where another begins needs that they
  do not overlap, that a retry finds a block needs `PendingFits`.  `MergedSpan`
  describes the block that `my_free` makes of up to three; allocation,
  extension and free have a lemma each.  `HeapWhole` follows: a heap without
  live blocks is one block, because two free blocks always have a seam between
  them.  `HeapAlwaysSafe` is both, the invariant of run `heap`.  `ServesMemory`
  shows that each step of the blocks is a step of `MemoryService`, or none.
* `ConcurrentHeap_proofs`: `LocksInvariant` ties the label and locals of each
  thread to what it holds: at which labels recursion or a dump may be under
  way, and that the owner's depth is the sum of its pending activations.
  `StepOfOne` reduces a step to its own thread; then there is one case per
  action.  `LocksBalanced` and `MutualExclusion` follow.  Nothing is assumed
  about the contents of the heap, so the result also covers a corrupted list.
  `MemoryInv` adds the heap: the list is the free blocks in order of address
  (`Listed`), the blocks tile the heap (`Tiled`), each allocated block is the
  application's or one thread's (`Owned`), the heap was extended once at most
  (`Extent`), and the thread in the critical section knows a place in the list
  and what it has searched so far (`Knows`), because between its steps on the
  list nobody else changes it.  The set of blocks that the pointers lead to is a
  function defined by recursion on the addresses: that there is one such function,
  and that it gives the blocks of the list, is an induction on the least address
  at which it would fail (`Least`, `WalkUnique`), which needs `next` to go up.
  `ListAlwaysIntact` and `HeldIsUntouched` follow, and `ThreadsImplementBlocks`:
  the step that carves or merges is a step of `HeapBlocks`, every other stutters.
  `Proved` then instantiates the theorems about `HeapBlocks`, so that
  `ThreadsHeapSafe` and `ThreadsServeMemory` hold of the threads.  For the test,
  `TestInv` says which iteration every thread runs and where each block is: in
  `my_block`, or with the thread that makes it or frees it.  Hence its calls are
  calls that an application may make (`TestRunsThreads`), and when it ends all is
  free and one block per heap (`TestAlwaysPasses`).
* `ListHeap_proofs`: `IInv` describes the heap of either program by the set of
  its blocks, as `MemoryInv` does: they tile what `sbrk` gave, the list is the
  free ones in order of address, and no two free ones touch but where an
  extension was attached.  Alignment and room for a header (`HeadersFit`) come
  from it, and are needed so that a split leaves a block and not less than a
  header.  The cursor of next fit is a free block or `NULL`, which says nothing
  about its predecessor: that is why next fit goes astray, and from there
  nothing is claimed.  `ListIsRight` and `ListsServeMemory` follow.
  `StrategiesHold` needs that each search visits the free blocks in order of
  address, each once, so that the first of equals is the one with the least
  address; `ReportsAreRight` that what `getAllocStatistics` adds up along the
  list is what a sum over the set of free blocks is.
* `Scheduler_proofs`: `SchedulerSafety` proves the invariants of queues and of
  counters together.  `StreakBounded` rests on `StreakCounted`: the history
  never runs ahead of the code's counter.  `TurnsAlwaysComplete` rests on the
  other half of it: the counter never runs ahead of the turns, so it cannot run
  out early.  `ReadyAlwaysQueued` and, with it, `NeverIdleInVain` assume that
  memory for queue items never runs out (`AllocationFails = FALSE`); without it
  a task is ready and on no queue.
* `PageTable_proofs`: `TablesInv` (types, and `OnePlace`: a table in use is in one
  place of one directory and was not freed) is inductive and carries the
  refinement.  `OnePlace` is needed because a step writes one entry of one
  table, and only if nobody else uses that table does this change one page of
  one directory (`WriteEntry`).  That different pages have different entries is
  arithmetic of quotients and remainders (`PagesDiffer`).  Each operation then
  has a lemma that gives its step in `AddressSpace`; `Implementation` collects
  them, for any number of directories and tables and any sizes.

* `LabPrograms_proofs`: `BufferInv` adds to the types and the counts who is
  between lock and unlock (`MutexHeld`) and that the copy of the index a thread
  has loaded is still current (`IndexFresh`), both only with the mutex, or with
  one slot, where the semaphores do the same.  The counts are cardinalities of
  sets of threads; `CountMoves` says how they change when one thread moves on.
  `CountsAlwaysRight` and `IndexInRange` follow, for any number of threads and
  slots.  `ItemsAlwaysSafe` counts the places of an item that was produced: in a
  hand, in the buffer below the index, in the slot of a thread between its access
  and its change of the index, or returned.  A step moves it from one to another,
  so it is in exactly one.  All this is with the mutex or with one slot; of the
  semaphores alone `BufferAlwaysRight` also speaks without.
  `ServedInTurn` needs `NoneAheadPassed`: what is ahead of a task on the list has
  not run since that task was put there.
  `ParsesRight` compares two ways to read a numeral: `parseInt` goes from the left
  and multiplies what it has by the base, the definition adds digits with their
  weights from the right.  `ParseInv` says that what was read so far is the value
  of the string up to there, modulo what wraps around.
  `MemoryAlwaysRight` is about the paging experiment.  `PagingInv` says what each
  policy keeps in memory (`Cached`); for LRU the pages are in the order of their last
  use (`InOrder`) and those that left were used before all of them
  (`GoneBefore`).  `LruInv` adds that the misses so far are those which the
  definition gives: a page is in memory just when fewer others than there is room
  for were used since its last use.  The driver leaves repetitions out of the file;
  `DedupKeepsFaults` maps each place of the trace to the place of the file where it
  was folded into, and so shows that LRU's misses on the file are those on the
  whole trace.
  `FaultsAlwaysRight` is about the faults of OPT and the curves of the plot.
  `Fewest` is the table of the fewest faults from each place of the list on with each
  set of pages in memory, of which `MinFaults` is the first entry.  The argument is
  one of exchange: of two memories that differ in one page, the one whose page is
  used sooner has no more faults ahead, and the other at most one more
  (`HoldsBetterStep`, from the end of the list to its start); so the victim that is
  used last is as good as any (`LatestIsBest`).  In every simulation the faults so
  far and the fewest that can follow are together at least those of the whole list,
  and with OPT just as many (`Counting`).  `MinFaultsFall` and `LruFaultsFall` say
  that more room means no more faults, `DedupKeepsFewest` that the repetitions which
  the file leaves out cost none.  `ResultsRight` says which pair of size and policy
  each result and each waiting simulation is, so that the plot has one value for each.
* `MessageQueue_proofs`: `QueueInv` says who may own the name
  (`NameOwned`); that a queue has one reader, that a server unlinks its own name
  only, and that it starts unless another runs or was killed all rest on it.
  `QuitAlwaysMeansDone` needs `QueueHistory`: what a queue took is what was
  answered from it followed by what it still holds.
* `PageTable_proofs` also proves `NoTableLeaks`, given `TablesInv`: a table that
  the heap gave is in a directory and maps a page, because `mapPage` fills the
  table it adds and `unmapPage` frees a table with its last page.
* `SystemPrograms_proofs`: `PipelineInv` says which process holds which end at
  every label of the parent; the end of the data is seen only when nobody can
  write any more.  `ExecInv` says for each call what its child, its pipe and its
  ends in the shared table can be (`CallRight`); since a fork copies the ends of
  other calls, and `execvp` closes them, no call waits for another's child.
  `CopyInv` compares the two files at every step: the destination, continued with
  zeros, is the source up to the offset of the copy, but for what is still in the
  block to be written; only the process that made the destination is past the
  open.  `ListingInv` says of every file of a directory that `list` has reached
  whether it was printed, lost to a failed call, or is still to come in the
  activation of that directory, and of the names of `testing.c` that none that was printed comes
  after one that was not.  Directories form a tree, so no two activations list
  the same one.
* A behaviour of `SmallPrograms` is one of each of its eight programs
  (`EachProgramRuns`, in both modules of proofs for its own four); so all of this
  holds in the run that bundles them (`SystemAlwaysRight`, `LabAlwaysRight`).

Functions defined by recursion (the walk along a list, a fold over a sequence)
are reasoned about through the set of places where a claim about them fails: if
it is not empty it has a least member, and the claim holds before it (`Least`,
`LeastNat`).  That is how the proofs do without the induction theorems of the
library.

Every invariant and every action property that a passing run checks is stated by
a theorem.  Only model-checked is liveness (`HighestTwoRun`, `AddsAnswered`,
`ServerEnds`, `TestEnds`, `SystemProgramsEnd`, `LabProgramsEnd`), since fairness and
`ENABLED` are out of reach of the provers here.

## Findings

`PROJECT.json` quotes the lines of four, each shown by a run:

* `threads_killed`: `allocHeap` takes a failed `sbrk` for success, and asks for
  too little after the first extension.
* `next_fit`: next fit starts in the middle of the list without the block
  before, and takes blocks off the list that it did not allocate.
* `scheduler_starvation`: the counters are reset whenever two priorities
  alternate, so a third one starves.
* `copy_whole`: `copy.c` loses the rest of a block when a write takes only a part
  of it, and reports success.  The same property also fails, in both versions, for
  a source that ends in a block of zeros: the copy is shorter than the source.

Seen while modelling, and part of the models, but without a run of their own:

* The allocators' retry adds a second header to the request
  (`vika4/assignment04-templates/p1/malloc.c:231`), so a request that fits a
  heap exactly is refused after the heap was extended.
* A task whose queue item cannot be allocated is lost (`scheduler.c:12`).
* The queue that a killed server leaves (`message_queue.h:17`) is not the one
  `main` removes (`main.c:12`).
* The simplified buffer loses items with more than one slot, even with one
  producer and one consumer, though its comment says that the semaphores suffice.
* A failed copy leaves a destination that makes later ones fail (`O_EXCL`).
* The test of the scheduler says of a schedule that found no task that "future
  decisions regarding starvation prevention will not consider any execution before
  this" (`vika3/Passignment03-templates/p1/main.c:49-50`).  `scheduleNextTask` keeps
  `samePrioCounter` when it returns `NULL` (`scheduler.c:104`), so they do: turns
  before an idle spell count, and a lower priority may be preferred after fewer
  than four turns in a row.  `TurnsComplete` follows the code; with turns that
  begin anew after an idle spell it would be false.
* `list` returns 0 although entries are missing: after an `lstat` that failed, an
  error of `readdir`, or a subdirectory that could not be listed (`ls.c:30`, `48`,
  `98`; `testing.c:54`, `84`, `111`).
* OPT started by hand with `-a` keeps its pages as strings and finds none.
* `isEmpty` of `list.c` answers the wrong way round; nothing calls it.
* In `pipe.c` a failing `fork` leaves both ends of the pipe open.
* Under next fit, with all memory in use, `my_malloc` reads through `NULL`; so
  does `my_free` of `savesolmalloc.c`.
* The last address of the last frame is `INVALID_ADDRESS`, so its translation
  cannot be told from a failure.
* `page_table.h` (line 60) calls the accessed bit bit 6; its mask is bit 5.
* The `next` field of an allocated block is `NULL`, where `malloc.h` announces a
  magic number; only `savesolmalloc.c` writes it.

## Not modelled

What a program does after next fit has broken its list.  `initAllocator` with a
failing `sbrk`, another user of `sbrk` in the same process, a failing or too small
extension of the heap of assignment 4 (see `HeapBlocks`), the macOS variant of
`allocHeap`, and requests near 2^64 (where the sums wrap).  `my_malloc` and
`my_free` before `initAllocator` are not calls the programs make.  A source file
that changes while it is copied, the columns of a listing, the answer the
calculator prints, plotting and the sampling of more than 100 memory sizes.
Copies of the same text (`P5/mall.c`, `savemalloc.c`, the second set of
templates) are one program.  `vika7/P7/assignment07-templates/p2/analyse-mem.c`
maps a dump and leaves its page walks unwritten, `Synchronization2.c` shows a
recursive mutex to a single thread, and `print.c` and `convertDecimalDigit` are
one expression each.  Makefiles, the test library's timing and printing,
binaries and written answers hold no logic to model.

## Plan

Done: the allocators, the schedulers, the message queue, the page table, the
programs made of system calls and those of the labs, each with the proofs above.
What is left, in this order:

1. `allocHeap` over an `sbrk` that others use as well.
2. A run of `ConcurrentMalloc` with three threads, when time allows its states.
