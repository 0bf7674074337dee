# Models of parallel_programming

The repository is a collection of small C++ programs about threads, each in a
file of its own: lock-free queues and stacks, thread pools, barriers, locks,
message passing, parallel algorithms, and demonstrations of the standard
library.  No file includes another; code that several programs need (a
reference-counted queue, a guard that joins threads, a barrier) is repeated in
each.  This directory holds TLA+ models of those programs in which threads
share state in ways that are hard to get right, the TLC configurations that
check them, and proofs for TLAPS.

## 1. Inventory

In each program the components interact through shared memory only; a thread's
step is one access to an atomic or one critical section.

| component | state | operations | what is hard | what makes it correct |
|---|---|---|---|---|
| Hazard-pointer queue, `thread-safe-queue.cpp` | `head`, `tail`, linked `Element`s; `stored_pointers`, `protect_count`, `free_count`, thread-local `pointers_to_delete` | `enqueue`, `dequeue`, `protect`, `remove`, `cleanup_locals`, destructor | nodes freed while others read them, addresses that come back (ABA), a tail that lags, two counters that wait for each other | linearizable FIFO, no use after free, no double delete, calls that end |
| Reference-counted queue, `lock-free-queue-with-ref-counting.cpp` | counted `head`, `tail`, `next`; per node `internal_count`, `external_counters`, `data` | `push`, `pop` | who deletes, unsigned bit fields that wrap, helpers, a node whose `data` is null again | counts that balance, no use after free, nothing lost, nothing popped twice |
| Guarded variant, `lock-free-queue-with-olegts-ref-counting.cpp` | the same with three external counters and guard objects | `Push`, `Pop`, destructor | the same, and a final `assert` that everything is freed | every node deleted exactly once |
| Barrier, `barrier.cpp` | `waiting_count`, `spaces`, `generation` | `Wait`, `DoneWaiting` | reset in several steps, rounds that overlap | rounds in step, everybody gets through |
| Partial sum, `parallel-partial-sum-with-barrier.cpp` | two arrays, loop counters per thread, a barrier | one thread per element | reads of the neighbours' elements, threads that leave | no data race, right sums, termination |
| Hierarchical mutex, `hierarchical-mutex.cpp` | owner, thread-local `active_levels` | `lock`, `try_lock`, `unlock` | unlocking in any order, exceptions | the set is exact, no deadlock |
| Thread pools on a shared queue, `quick-sort-with-thread-pool.cpp`, `simple-thread-pool.cpp`, `thread-pool-with-expectation.cpp`, `parallel-accumulate-thread-pool.cpp` | `work_queue`, `done`, stacks of the threads, futures | `Submit`, `RunPendingTask`, `WorkerThread`, destructor; the clients | waiting inside a task, shutdown with tasks queued | each task runs once, waiting ends, nothing is dropped |
| Pools with local queues and with stealing, `thread-pool-local-memory.cpp`, `thread-pool-work-stealing.cpp`, `work-stealing-queue.cpp` | a queue per worker besides the shared one | the same, `TryPop`, `TrySteal` | tasks only one thread can see, an `assert(false)` | the same |
| Lock-free stacks, `lock-free-stack-with-hp.cpp`, `lock-free-stack-with-ref-counting.cpp`, `lock-free-stack2.cpp`, `lock_free_stack.cpp` | `head`, nodes, and what each scheme keeps to reclaim them | `push`, `pop` | reclamation, an empty stack, uninitialised counters | no use after free, each value popped once |
| Sort on a stack of blocks, `quick-sort-with-blocks-stack.cpp` | a stack of chunks, a vector of threads | `do_sort`, `try_sort_chunk` | the vector is shared without a lock | sorted, every chunk sorted once |
| Message passing, `message-passing.cpp` | mailboxes, the state function of each actor | `send`, `wait().handle()` | which state reads which message, closing | the actors end |
| Interruptible thread, `interruptible-thread.cpp` | flag, condition variable pointers | `Interrupt`, `InterruptibleWait` | an interrupt between test and wait, a flag that outlives its thread | an interrupted wait ends |
| Blocking queues, `data-separated-queue.cpp`, `complex-interface-*.cpp`, `shared-ptr-queue.cpp`, `queue-consumer-producer.cpp`, `test-queue.cpp` | lists under one or two mutexes, condition variables | `push`, blocking and non-blocking pops | notification without the consumer's lock, a full queue | FIFO, no lost wakeup |
| Locked containers, `thread-safe-list.cpp`, `thread-safe-hash-table.cpp`, `mutex-stack.cpp`, `swap-with-lock.cpp`, `semaphore.cpp`, `shared_mutex.cpp`, `spin-mutex.cpp` | a lock per container, bucket or node | one critical section each; the list locks hand over hand | order of locks | no deadlock, atomic operations |
| Sequential queues, `simple-one-thread-queue.cpp`, `one-thread-queue-with-odd-vertex.cpp` | `head`, `tail` | `push`, `try_pop` | the tail after the last pop | a sequence |
| Parallel algorithms, `parallel-*.cpp`, `async-sequential-sort.cpp` | blocks, futures and promises | fork, join | a promise set once, chains of futures | the sequential result |

The remaining programs demonstrate one feature of the language or the library
each (`PROJECT.json` lists them) and keep no state a model could speak of.
`PROJECT.json` also lists the hazards, each at its line, with the properties
that would catch it.

## 2. Modules

    FifoQueue                   abstract FIFO queue
    HazardPointer               class HazardPointer
      ThreadSafeQueue           class ThreadSafeQueue and main()
        ThreadSafeQueueRefinement  history variable, refinement of FifoQueue
          MCThreadSafeQueue
        ThreadSafeQueueProofs
          LinearizabilityProofs
    RefCountQueue, MCRefCountQueue
      RefCountQueueProofs
    OlegtsQueue, MCOlegtsQueue
      OlegtsQueueProofs

    LifoStack                   abstract stack
    LockFreeStack               the nodes and push(): lock_free_stack.cpp
      PopCountStack             lock-free-stack2.cpp
      HazardStack               lock-free-stack-with-hp.cpp
      CountedStack              lock-free-stack-with-ref-counting.cpp
        MCStacks                the three, and LifoStack
          StacksProofs

    ThreadPool                  class ThreadPool
      PoolQuickSort             quick-sort-with-thread-pool.cpp
        BlocksSort              quick-sort-with-blocks-stack.cpp
      PoolPrograms              the other five pools and their programs
        MCPools                 all of these

    Barrier                     class Barrier
      BarrierMain               its own main()
      PartialSumBarrier         the partial sum that uses it
        PartialSumBarrierProofs
    ParallelBlocks              algorithms on blocks, one thread each
    AsyncHalves                 recursive algorithms on std::async
    InterruptibleThread         interruptible-thread.cpp
    MessagePassing              message-passing.cpp
    MessagePiper                numerator.cpp
      MCTasks                   PartialSumBarrier and these five

    HierarchicalMutex           hierarchical-mutex.cpp
    Monitors                    classes with one lock and condition variables
      MonitorsProofs
    TwoLockQueue                the queues with a mutex at each end (and FifoQueue)
    ThreadSafeList              thread-safe-list.cpp
    HashTable                   thread-safe-hash-table.cpp
    SequentialQueues            the two queues for one thread
      MCContainers              the mutex and these five
        ContainersProofs        of the mutex and of the containers

The programs share no state.  `MCContainers`, `MCTasks`, `MCPools` and `MCStacks`
put several of them into one run: a variable (`which`, `program`, `scheme`)
chosen in the initial state says which program a behaviour is about, the
variables of the others stay at a constant, and each property there is the
conjunction of what the module of that program states.

**HazardPointer, ThreadSafeQueue.**  One action is one access to an atomic
(together with the thread-local work around it that no other thread can see).
`stage[t]` is where thread `t` is inside `HazardPointer`, `pc[t]` where it is
inside `ThreadSafeQueue`; a call of `protect()` or `remove()` sets `stage` in
the caller's action, and the caller goes on when `stage` says that it is done.
`stored_pointers` is indexed as in the code, `thread_id * dimention + num`.
`live` is the set of allocated addresses: `new` picks any address outside it,
so that a freed address comes back at once and ABA would show.  The thread ids
are `0 .. threadnum - 1`.  A script in `todo` replaces the lambdas of `main()`;
every thread ends with `cleanup_locals()`, and the destructor runs when all are
joined.  `compare_exchange_weak` may fail spuriously where `WeakFails` says so.

**FifoQueue, ThreadSafeQueueRefinement.**  The abstract queue has a call, an
effect and a return per operation.  `enqueue` takes effect when it links its
element (line 126), `dequeue` when it moves `head` (line 152).  A `dequeue` that
answers EMPTY took effect at some moment of its call at which the queue was
empty; the history variable `sawEmpty` remembers whether there was one.

**RefCountQueue, OlegtsQueue.**  One action per atomic operation.  A loop that
retries a compare-exchange after recomputing its value from what it read is
modelled by its successful round, since a failed round changes nothing.  The
two fields of `NodeCounter` are kept in their widths (30 and 2 bits, unsigned in
one file and signed in the other).  `live` stands for the heap; in OlegtsQueue
its size is `ref_counter`.

**LockFreeStack and the three stacks.**  `head` and `next` are an address and an
external count; only CountedStack changes the count.  Each scheme has the steps
of its own `pop()`: the count of threads in `pop` and the list `to_be_deleted`,
the slots claimed and released by `HPOwner` and the list `nodes_to_reclaim`, or
the split counts.  An access to a null pointer or a deleted node stops the
program (`fault`); that may happen only in the two ways that `NoUseAfterFree`
names, an empty `lock-free-stack2.cpp` and its uninitialised counter.
LifoStack says that `push` and `pop` take effect in one step.

**ThreadPool, PoolQuickSort, PoolPrograms, BlocksSort.**  The stack of each
thread is explicit, since a thread that waits runs other tasks on top of the
call that waits.  `std::partition` may leave a chunk in any order, so that every
element may come to be the partition value.  In PoolPrograms a program is a tree
of tasks: which pool, which tasks a task submits, and whether it leaves them
alone, blocks in `get()`, or runs pending tasks until they are there.  Where a
pool puts a task and where it looks for one (`SimplePlaces` .. `StealingPlaces`)
is what the five files differ in.  BlocksSort replaces the pool by a stack of
chunks and threads started on demand.  The lock-free queue or stack inside is
atomic here; the code's own are RefCountQueue, which shows that it can lose a
task, and CountedStack.

**Barrier, BarrierMain, PartialSumBarrier.**  `Wait()` and `DoneWaiting()` are
cut at each atomic access; `spaces = waiting_count.load()` is a load and a store
(`loaded`).  PartialSumBarrier adds the threads of the partial sum; reads and
writes of the plain arrays are one action, which `NoDataRace` justifies.

**ParallelBlocks, AsyncHalves.**  The first has the seven algorithms that give
each thread a block: `which` says which algorithm, `num_threads` and the blocks
follow the divisions of the code, promises are set once or throw.  In the second
a call hands one half to `std::async`, which starts a thread or defers the call
(the code leaves it to the library), and does the other half itself; calls are
named by their path in the recursion.  In both, `parallel_find` reads the flag
in one step and sets it in another, so that several threads may find a match.

**InterruptibleThread.**  The interrupted thread runs one of the loops that
`waits` names, around each form of `InterruptibleWait()`; `main` is inside
`Set()` or `Join()`.  A wait may time out or wake for no reason.

**MessagePassing, MessagePiper.**  A state of an agent is what it sends and the
messages its chain of handlers accepts (`States`); the queues and the dispatcher
are those of the code.  MessagePiper computes the numbering of processors and
edges that the base classes of `Piper` compute, for lists of edges between two
different processors (an edge from one to itself does not compile), and then
delivers messages edge by edge as `main()` does.

**HierarchicalMutex.**  The mutexes of any client: a thread locks what it does
not own and unlocks what it owns, in any order.  `lock()` is two steps, the
check and the acquisition.

**Monitors.**  A critical section is one step, since nothing in it gives up the
mutex but a wait.  A wait puts the thread to sleep on a condition variable, and
it tests its condition again when it is notified or wakes for no reason.
`Programs` are those of the six files, and some with more producers and consumers.

**TwoLockQueue, ThreadSafeList, HashTable, SequentialQueues.**  TwoLockQueue has
the steps between the locks, with the two members of the dummy node filled in
either order, and implements FifoQueue.  ThreadSafeList locks node by node.  In
HashTable finding the entry and using it are two steps under the bucket's lock.
SequentialQueues has both queues for one thread, `dummy` telling them apart.

Operators whose comment begins with "Mutant" are not part of any specification.
Each is a plausible mistake in the definition next to it, kept to show that the
properties notice it (`PROJECT.json`, "mutants").

## 3. Runs

| run | bounds | what it shows |
|---|---|---|
| `queue_two_threads` | 2 threads, 4 addresses, scripts of up to 4 calls in which one thread may be producer and consumer | all the safety properties of the queue, that it is linearizable, and that it ends unless a remover starves |
| `queue_three_threads` | 3 threads, one call each, 2 addresses, spurious failures | the handshake, with two removers and a third thread |
| `queue_lock_free` | 2 threads, one call each | a violation: see finding 1 |
| `refcount_queue` | 3 threads, up to 6 calls, 6 addresses | balance of the counts, no use after free, who leaks, each value popped once |
| `refcount_queue_lost` | 3 threads, 4 calls | a violation: see finding 2 |
| `olegts_queue` | 3 threads, 4 calls and the destructor, 6 addresses | nothing deleted is touched, and the assertion of `main()` |
| `stacks` | 3 threads, 2 pushes and 3 pops, 3 addresses, first counts -1, 0 and 1 | no use after free and no leak but those the code has, and push and pop are those of a stack |
| `pools` | 2 workers and the caller; 4 distinct values for the sorts; the program of each file, and trees of 4 or 5 tasks for the pools with local queues and with stealing | sorts are right, each task runs once, none is dropped but by the simple pool, every program ends |
| `barrier_main` | the four threads of `main()`, a barrier for two | a violation: see finding 3 |
| `tasks` | 5 elements for the partial sum; ranges of 1 to 9 elements in blocks of at least 3, with 0, 1 and 3 hardware threads; two levels of halves; the two agents; five graphs | no race, rounds in step, blocks whole and apart, sequential results, no lost interruption or message, termination |
| `interrupt_flag` | one thread and `main()` | a violation: see finding 4 |
| `containers` | 3 threads on 3 mutexes without a bound on the calls; 2 to 4 clients on each container, with scripts of up to 4 calls | exact levels, no deadlock, no fault, right contents, no lost wakeup, every call returns, the queue with two locks is linearizable |

*Why these bounds.*  A hazard needs a reader and a remover, and the handshake a
further thread that comes and goes: two and three threads.  ABA needs an address
to come back while it is remembered: with 4 addresses for 4 elements, as with 2
for 2, every freed address is handed out again; the stacks have one more address than
values, so that a push can reuse a node that a pop still remembers.  The reference counts need a
pusher, a helper and a popper on one node: three threads, with two pushes by one
of them so that the node is no longer the last.  Six addresses are more than any
script allocates at a time: an allocation never fails.  Five elements are the
fewest that take three rounds, with threads that leave before each; the inputs are powers of ten,
so that no two sums of different elements agree.  Four values give the sorts
calls that nest four deep, over three threads.  The lengths 8 and 9 with three
threads divide with and without a rest, 1 gives a single block, and 4 and 5 need two.
The list needs two traversals behind each other and one that removes; the
monitors, two threads of each kind, so that a notification can reach the wrong
one.

*Bounds in the models.*  `MaxExternal` (6, and 4 in the stacks) limits how far
pops that make each other fail may raise an external count: beyond it a pop
waits while another one holds the same value of `head`.  It excludes the endless
repetition (and, with it, an overflow of the count), and never blocks a pop of
the queues for good.  `MaxPushes` (5) bounds the calls of the sequential queues,
`Rounds` (2) the turns of the piper.  The scripts bound the calls, and they end
the behaviours of the queues and containers.  `min_per_thread` and the length of
a leaf are smaller than the 5 or 25 of the code, which only scales the ranges.

*Symmetry* is used on addresses only, and not in runs that check liveness.

*Deadlock* is checked in all passing runs: each specification but the mutex's,
whose clients never end, has a final step that only a finished program can take,
so that stopping earlier is an error.

## 4. Fairness

`WF` for the step of each thread: the operating system runs every thread that can run.
The code has no priorities and no thread that is ever suspended for good.
Algorithms whose threads only wait for one another (ParallelBlocks, AsyncHalves)
and the single thread of the piper have one `WF` for the step of all of them.
Spurious wakeups, timeouts of a condition variable that nobody depends on, and a third party
that makes a condition true are never assumed to happen; the 1 ms timeout of
`InterruptibleWait()` does happen, and is part of the thread's step.  In
`queue_two_threads` this is not enough: `real_remove()` can find
`protect_count` above 0 each time it looks, because the other thread keeps
coming back.  `Termination` therefore assumes, as an explicit premise and not as
part of the specification, that a remover is lucky again and again
(`LuckyRemovers`), and `OnlyRemoversStarve` says that without the premise this
is the only way not to end.  `queue_lock_free` uses `Progress`, which asks
that some thread takes steps, as the definition of lock-freedom does.

## 5. Proofs

`ThreadSafeQueueProofs`, for every number of threads, address set and script:

* `TypeCorrect`: `TypeOK`.  It is not inductive: that `node[t]` is an address
  when the code reads through it depends on the program point and on where the
  thread is inside `protect()`.  `TypeInv` adds `StageInv` (`pc` and `stage`
  agree) and `LocalInv` (which locals are not null where).
* `Handshake`: `HandshakeExclusion`.  `CountInv` says that `protect_count` and
  `free_count` are the numbers of threads between their increment and their
  decrement (finite sets and cardinality).  A remover goes on when it reads 0,
  hence nobody protects; a protector goes on when it reads 0, hence nobody frees.
* `HazardsRespected`: `DeletesOnlyUnhazarded`.  `ScanInv` says that each slot the
  scan has passed is null or registered; only the store of a hazard could break
  it, and `Handshake` excludes that store during a scan.  Slots that are
  cleared meanwhile (`Quiet`) only make the set smaller.

and, on top of these, in the second half of that module:

* `MemorySafe`: `NoUseAfterFree`.  Every allocated element is fresh, retired or a
  node of the list (`HeapInv`).  The nodes are what is left over, so that the
  list needs no sequence and no induction: they are closed under `next`, no two
  have one successor, the first is nobody's, and what is retired has a
  successor (`ListInv`).  `HoldInv` says, program point by program point, which
  element a thread's slots keep from being deleted: `tail` or `head` because
  `protect()` reloaded it while it was a node, the successor of the head because
  `head` was still there at line 140 after the successor had been published.
  `Considerate` is what every step owes the other threads (what a slot holds
  stays linked, successors are for ever, nothing returns to the list); the
  deletions owe it to `ScanInv`, hence to the handshake, and the move of `head`
  to the test of line 148, which keeps `tail` out of what is retired.
* `NoABA`: `AdvanceByOne`, from the same invariant: an exchange of `head` or `tail`
  that succeeds finds the very node whose successor it writes.

`LinearizabilityProofs`, which builds on `ThreadSafeQueueProofs`, for the same constants (the set of
addresses is finite):

* `Partition`: `MemoryPartition`, and `TailKept`: `TailInQueue`.  Both speak of the
  elements met by walking along `next` (`Walk`).  `OrderInv` carries a sequence
  of the nodes along: `ThreadSafeQueueProofs` shows that a step leaves the list alone,
  links one element behind the last, or takes the first one off (`ThreadList`), and
  the sequence stays, is made `Longer` or `Shorter`.  `WalkMeets` says that the
  recursive function `Walk` meets just that sequence: its equation has a solution,
  and two solutions would differ at a least index.  There are at most as many nodes
  as addresses (`NoMoreThanAddr`), so the walk is long enough.
* `Linearizable`: `HistorySpec` implements `FifoQueue` (`ImplementsFifo`).  The items
  are the values of the sequence after its first element; `ItemsEffect` says what
  each step does to them, `OthersSee` that no other caller notices.  One lemma for
  each step of `FifoQueue` (`EnqueueMaps` .. `EmptyMaps`) maps the step of the code
  to it, all other steps stutter (`InvisibleMaps`, `DestructorMaps`).  The step
  that is hard is the answer EMPTY, given two loads after the queue was empty:
  `EmptyInv` says that a thread which found a null successor has seen it empty.
  At the reload that confirms the null, its element cannot be retired, since what
  is retired has a successor, and so is still `head` (`DequeueInv`).

`RefCountQueueProofs`, for every script, finite set of addresses and number of threads
below 2^30 - 2, the references a node can count (`ThreadsAssumption`):

* `NoUse`: `NoUseAfterFree`, and `Balance`: `ReferenceBalance`.  Each needs the other:
  a node that a call holds is not deleted because the counts balance, and they
  balance because nobody settles a node twice.  The balance is that of
  `internal_count` and of what is yet to be settled, in its width: an unsigned
  field goes below 0 and comes back whenever references are returned before
  the pointer they were counted through is settled.  That a count of 0 then
  means no reference takes the bound on the threads.  `external_counters` is read
  together with who is still to take his pointer from it (`Sides`), which says
  where head and tail are: a node is Ahead of both, Passed by tail, or out of the queue
  (`ListInv`).  The rest of `MemoryInv` says what a new node looks like while one
  thread has it (`PrivateInv`), that what is held is linked (`HoldsInv`), and what
  a call knows where (`LocalInv`).  `StepKinds` sorts the actions into eight kinds of
  step by what they do to counts and list, with one lemma for each (`QuietKeeps` ..
  `LeavesKeeps`).
* `NoLeak`: `OnlyFirstLeaks`.  Without calls `Sides` is the field itself and the balance
  says that `internal_count` is 0 once the node has left the queue; both counts 0
  is what deletes it.  The node of the constructor starts with one reference
  too many in each pointer (line 61) and keeps two.  `OrderInv` carries the sequence of
  the nodes along, as in `LinearizabilityProofs`, and `ChainIsNodes` says that walking from
  `head` meets just them.
* `Once`: `PoppedOnce`.  A value is in one place at most (`Places`): still to be
  stored, in a node, in the hands of a pop, or returned; each step moves it on.
  It starts in one place because each `push()` allocates it (`DistinctAssumption`).
  What makes a pop find a value at all is `ListInv`: tail passes a node only when
  its value is there.

`OlegtsQueueProofs`, for every script, set of addresses and number of threads below 2^29
(`ThreadsAssumption`):

* `NoUse`: `NoUseAfterFree`.  Three counted pointers lead to a node, and at a step that
  deletes it nothing in the state says any more what was counted through those that
  are gone.  So `Memory` says that there are a set `linked` of nodes, an order `rank` of
  them, and for each node what has been counted through the tail, the head and its
  predecessor (`by_tail`, `by_head`, `by_next`: the external count of that pointer, 1 before
  it gets there, 0 once it is settled), such that `MemoryInv` holds; each step names
  the new ones.  Nodes are never taken out of the order in which they were linked:
  a rank below that of `head` is all that is known of a node the pops have passed.
  `BalanceInv` is the reason for the theorem: `internal_count` and what is
  outstanding come to the number of guards, in the width of the field, and
  `external_counters` is the number of pointers not settled yet, so that both are 0 only
  when nobody is left.  `TailInv`, `HeadInv` and `NextInv` say that a pointer is
  unsettled in the hands of one thread at most, `ListInv` where the links lead and that
  a link is cut by the pop that moved the head past it (`Uncut`), and `LagInv` that the
  tail is one node behind only while somebody is about to move it.  `LocalInv` says
  what a call knows where; its hard part is that a pusher which found the data of
  the node taken links or moves the tail to a node, never to the null that a pop
  leaves in `next` (line 142).  `SettleStep` is the one lemma for all the steps that
  may delete.
* `Deleted`: `AllDeleted`.  `DestructorInv` follows the destructor: its last pop found
  head and tail at one node (`PoppingInv`), and when no call is left `LastNode` shows
  that only this node was not deleted, its two counts being those of head and tail.
* `Once`: `PoppedOnce`, by the `Places` of the values, as for RefCountQueue.

`MaxExternal` is any number in both, so that the theorems speak of every finite
behaviour of the code.  `external_count` is a natural number, an `int` in the code (in
OlegtsQueue a `long long` that line 91 narrows to `int`):
beyond 2^31 uses of one pointer they say nothing.  `NothingLost` is false (finding 2).

`StacksProofs`, for every finite set of clients and addresses, every number of slots,
every script, and any first value of `threads_in_pop` at all:

* `NoUse`: `NoUseAfterFree`.  The nodes of the stack are a sequence `s` (`Leads`:
  from `head` along `next`, none twice, null behind the last), which a `push()` makes
  longer at its front, a `pop()` shorter, and every other step leaves alone.
  `BaseInv(s)` is what the three stacks have in common; with it goes an invariant
  of the scheme, and each accounts for every node that is allocated: it is on the
  stack, or in exactly one other place.
  `CountedInv`: the external count of a reference, less the one it starts with, is
  the number of pops that hold the node (`Holders`) while it is on the stack, and
  `internal_count` with what is left to settle is so afterwards (`Balanced`).
  `HazardInv`: a pop that has confirmed its hazard has a slot that nobody's scan
  for that node has passed (`Meets`): a node enters a scan only after it has left the
  stack, and no hazard on it is confirmed after that.
  `PopCountInv`: `threads_in_pop` is its first value plus the number of clients
  in the counted part of `pop()`, so whoever finds 1 is alone there (`OnlyOne`),
  and no other pop reads a node that it keeps or claims (`Excluding`, `Reading`).
  While a list of claimed nodes is put back its last node leads elsewhere (`Chained`).
  If the first value is negative, only `NullChained` is left, and it is proved for
  every first value.
* `NothingLeaks`: `NoLeak`.  Between calls the only places left are the stack and the
  list of what waits.
* `Linearizable`: `ImplementsLifo`, under `PushedOnceAssumption`, which the other two do
  not use.  `Becomes(s, r)` says what a step makes of `s`, and with it what callers
  see (`Effect`): nothing, or the value of the first node returned as the node goes, or
  the value of a new first node taken from those still to be pushed (`Awaiting`), or
  `Empty` returned while `head` is null.  All step lemmas conclude `Becomes`, and
  `EffectMaps` makes each of them a step of LifoStack: its items are the values in the
  nodes of `s` (`ItemsAre`).

`NodesFrom` walks the pointers by a recursive function; `NodesAre` shows that what it
meets is `s`, since two solutions of its equation would differ at a least index.

`ContainersProofs`, of the mutex, for all threads, mutexes and distinct levels:

* `Exact`: `LevelsExact`, which needs distinct levels in `unlock()`.
* `Blocked`: `BlockedBelow`, on which the next one rests.
* `NoDeadlock`: `DeadlockFree`.  From `BlockedBelow`, in a set of threads that
  wait for each other each waits below what another one waits for, and the
  least level waited for (`LeastNatural`, by well-founded induction on the naturals)
  has nothing below it.

and of TwoLockQueue, for all clients and calls (`CallsAssumption`):

* `TwoLocksLinearizable`: `ImplementsFifo`.  Nodes are allocated by who owns
  `tail_mutex`, so that `QueueInv` can number those of the list from `head` to `tail`
  and say of each where `next` points; the dummy's members are at their
  places, in either order, before `tail` moves (`PushInv`).  `Items` follows the pointers
  recursively, and `ItemsAre` shows from the greatest node where they would differ that
  it meets `Held`, the values between `head` and `tail`.  Then `SwingTail` appends one,
  `MoveHead` takes the first, all else stutters, and the answer "nothing" is justified by
  `SawInv`: a `try_pop()` under way while `head = tail` has seen the queue empty.

and of all containers of the run, for all clients, calls, buckets and elements
(`CallsAssumption`, `TableAssumption`, `ListAssumption`):

* `NoFaultAnywhere`: `NoFault`, by an invariant for each container (`WholeInv`).
  In the queue with two locks the ends meet in the
  last node only, where `push()` writes and `try_pop()` reads nothing (`head < tail` once it
  goes on), and old nodes are behind `head` and of one client each (`TakenInv`).
  In the list there is always a sequence `t` of nodes without repetition that the pointers follow
  (`Chained`); a traversal stands on a node of `t` whose mutex it owns, and owns the next
  one before it links around or goes on to it (`TravelInv`), so that nobody erases either; what is
  allocated is `t` and what one client each is about to delete (`HeapInv`).
  In the table a writer of a bucket is alone in it (`Alone`), so that the entry
  a call has found stays where it is, the only one of its key (`OneEntry`).
  In the simple queue for one thread `tail` stays on the first node until a value is popped
  (`OneFirst`), and nothing frees that node: it dangles after a pop only.
* `NoWakeupLost`: `NoLostWakeup`, by `MonitorsProofs` (below), whose invariant a behaviour on
  a monitor keeps and the others leave alone (`ProgramsAssumption`).

`PartialSumBarrierProofs`, for every number of threads and every input:

* `InStep`: `LockStep`.  It is far from inductive, since it says nothing of why a
  round ends when it should.  `CountInv` does: while nobody closes the round,
  `spaces` is the number of threads that have yet to arrive in it (`Pending`) and
  `waiting_count` that of those that stay (`Staying`).  Who takes `spaces` to 0
  is alone: `ClosingInv` says that all others spin or are gone while it
  copies `waiting_count`, and the new generation makes the two sets the same.
  `RoundInv` ties the round of a thread to the generation.
* `RaceFree`: `NoDataRace`.  Threads that touch the arrays have the generation
  as their round, so all write the one array, each its own element, and read
  the other (`OneArrayPerRound`); `LoopInv` keeps the strides in the range
  and says in which array the latest sum of a thread is.
* `Rounds`: `RoundSum`, and `Computes`: `PrefixSums`, which `Results` of `MCTasks` checks
  for 5 elements.  `SumInv` says what either array holds
  of every element, also of the elements of threads that are a round behind or have
  left: the latest sum of a thread is that of the window of its stride
  (`Window`, cut off at the first element), and a thread that is gone has left
  the whole prefix in both arrays.  `StrideInv` says that threads in the same round
  have the same stride.  Hence what a thread adds is the window that
  ends just below its own (`NeighbourHas`: the thread of that element is in the
  same round, has yet to leave the barrier of the one before, or is gone), and two
  such windows make one of twice the length (`WindowsJoin`).  `Sum` is a recursive function,
  which the provers know nothing of: `SumsExist` and `SumIs` show from the
  least counterexample that its equation has one solution, and the rest uses
  only that.

`MonitorsProofs`, for any number of clients and all programs on one class
(`OneClass`, which `ProgramsAssumption` of `MCContainers` asks of its programs):

* `EachWakeupCounts`: `NoLostWakeup`.  `SleepInv` says in which call a sleeper is,
  and since a program has one object (`ClassInv`), nobody sleeps on a condition
  variable that the step's class does not notify.  Where a condition variable is
  notified for one, `Enough` counts: a push makes the queue longer by one and
  wakes one (`EnoughAfterPush`), a pop takes one value and one awake
  client (`EnoughAfterTake`), and who goes to sleep found the queue empty.

The assumptions are those declared with the constants: distinct null values,
finitely many addresses and, of the stacks, the queue with two locks and the monitors, clients, scripts of calls,
for the list scripts that push no element twice, for the table numbers as keys and a bucket, `threadnum`
positive, distinct levels, as many places in the barrier as threads, and those of
RefCountQueue, OlegtsQueue and the stacks given above (`DistinctAssumption` holds of
both queues).

Only model-checked: liveness under fairness (the prover has no `ENABLED`);
everything about the other modules.

## 6. Findings

1. `thread-safe-queue.cpp` is called a lock-free queue by the README of the
   repository; it is not.  A thread stopped inside `protect()` stops all removers, a
   thread stopped inside `real_remove()` stops everybody, and two running
   threads can hold each other up for ever (`LockFree`).
2. `lock-free-queue-with-ref-counting.cpp` loses a value: a pusher that holds a
   reference to an old tail stores into a node that was popped, whose `data` is
   null again (`NothingLost`).
3. `main()` of `barrier.cpp` may hang: four threads share a barrier for two, and
   a third arrival between the last decrement and the reset is overwritten
   (`AllJoined`).  The partial sum, with as many threads as places, is
   not affected.
4. `main()` of `interruptible-thread.cpp` interrupts threads before it joins
   them, and the flag lives in the thread: a thread in `BackgroundThread()` may
   see the flag that `Set()` has stored, end, and destroy it with its mutex before
   `Set()` locks that (`FlagOutlivesSet`).

Some properties of passing runs say exactly when the code fails, where no
document of the repository promises otherwise.  They record these failures and do
not exclude them:

* `lock-free-stack2.cpp`: `pop()` of an empty stack dereferences null when
  another thread is in `pop()`, and the counter that has no initializer makes it
  delete nodes in use when it starts below 0 (`NoUseAfterFree` of PopCountStack).
  It may then also lose nodes and values: `NoLeak` and `ImplementsLifo` leave that
  start out.  They hold of it in the run, whose scripts are too short; one more push or
  pop (`<<1, 2>>, <<Empty>>, <<Empty, 3>>`) shows both broken.
* `simple-one-thread-queue.cpp`: `push()` moves `tail` in an empty queue only; a
  third `push()` frees the second value, and one after the last `try_pop()`
  writes through a dangling pointer (`FirstInFirstOut`, `NoneDangling`).
* `simple-thread-pool.cpp`: tasks that are queued when `main()` ends never run
  (`NothingAbandoned`).
* `thread-pool-local-memory.cpp`: the assertion in `RunPendingTask()` fails as
  soon as a task submits a task and waits by running tasks (`AssertionHolds`).

## 7. Not modelled

* Weak memory orders: the models' memory is sequentially consistent, and an
  execution that a `memory_order_acquire` or `relaxed` allows beyond that is not
  covered.  Padding bits in compare-exchange are not covered either.
* Failing allocation, exceptions of tasks, of the functions given to the
  algorithms and of thread constructors, printing.
* In RefCountQueue and OlegtsQueue the load that precedes a retry loop: a value
  that is stale by the time of the exchange costs a failed round and no more.
* The lock-free queues and stacks inside the pools and sorts: they are atomic
  there, so that a task lost by the queue (finding 2) is not shown to hang a pool.
  The two together are beyond what can be explored.
* Two `push_back()` at once on the vector of threads of
  `quick-sort-with-blocks-stack.cpp`, which is undefined behaviour: BlocksSort takes
  them for two in a row, so that it shows too many threads but no torn vector.
* Members that do not compile once they are used: `find_first_if()` of the list,
  `get_map()` of the hash table, `try_pop()` of `shared-ptr-queue.cpp` that
  returns a pointer, `wait_and_pop()` and `try_pop(T&)` of
  `complex-interface-data-separated-queue.cpp`.
* Copy constructors (`complex-interface-queue.cpp`, `mutex-stack.cpp`): they lock
  the mutex of the copy, not that of the original, and no program copies.
* Destructors of the lock-free stacks, the exception when all hazard pointers
  are taken, `swap-with-lock.cpp` and `spin-mutex.cpp`: one thread, or one call
  of the library.
* The components that `PROJECT.json` lists as not modelled, with the reasons:
  examples of memory orders, packed pointers, and demonstrations of a feature.

## 8. Plan

All programs of the repository in which threads share state of their own are
modelled.  What is left:

1. *Theorems*: `InOnePlace` of the pools, `BlocksApart` for every length and number of threads.
2. *Composition*: a pool over RefCountQueue, with one push and one pop at a time
   at full grain, to show what a lost task does to a program that waits for it.
3. *Liveness of reference counting*: a specification without `MaxExternal` in
   which external counts wrap, to say when pops make each other fail for ever.
