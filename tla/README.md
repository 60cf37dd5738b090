# libtxl in TLA+

A verification project for [libtxl](../src/README.md), a header-only C++ library
of containers, threading primitives, tasks, buffers and I/O helpers
(`src/include/txl`, 88 headers). The modules here model the parts of the library
that keep state and are hard to test; TLC checks them on small instances, and
TLAPS proves the most important invariants for every value of the constants.

`PROJECT.json` lists components, runs, mutants (one plausible bug per checked
property, which the property must catch), the source lines behind every
definition, findings and hazards.

## The system

| Component | State | Operations | Interacts with |
|---|---|---|---|
| `atomic_linked_list` (linked_list.h) | a 16-byte head {pointer, generation}, heap nodes, two counters | emplace_front, pop_and_release_front, release, clear | many threads share one list; each pool worker owns one |
| `awaiter` (threading.h) | a bool, a mutex, a condition variable | set, wait, reset, wait_and_reset | workers wait for work, clients for idleness, tasks for results |
| `thread_pool`, `thread_pool_worker` (threading.h) | next index, pending counter, idle awaiter; per worker a list, an awaiter, a stop flag, a thread | post_work, wait_for_idle, start_workers, stop_workers | list, awaiter, work objects (execute / next / complete) |
| `promise`, `task`, `task_closure` (tasks.h) | result union, awaiter, chain of functions | operator(), run, then, wait | posts closures that point into the task to a pool |
| `memory_pool` (memory_pool.h) | a buffer of pages, headers inside it, bump pointer, free list | rent, allocate, copy, release, close | io_reactor |
| `ring_buffer` (ring_buffer.h) | head, tail and slots in a mapping, perhaps a file | emplace, read, clear, size, open, close | memory_map |
| `ring_buffer_file` | byte ring in a file, cursors of writer and readers | open, read, write, close | readers in other mappings of the file |
| `work_list`, `work_distributor` | deques of units, retries left, busy flags | add, execute, run | work units, chains of them, workers |
| `atomic.h` | one atomic | atomic_swap, acquire_lock, lazy_atomic | – |
| `observer`, `global_dispatcher` | two subscription maps, the observers kept alive, a shared mutex | add, remove_all, dispatch | callbacks that unsubscribe themselves by answering false |
| `io_reactor` | lists of readers, a thread, completions | read_async, start, stop, join | memory_pool |
| `resource_pool` | queue of ready resources, a factory | get, put | handles that callers keep |
| owners of descriptors and mappings (file_base, file, socket, pipe, event_timer, event_poller, memory_map) | a descriptor, or an address and a size | open, close, move, assign | kernel |
| `storage_union`, `result` (and optional, expect) | which alternative is alive, and the object | construct, assign, move, release, swap, reset | tasks, every fallible call |
| `fixed_vector` | a count and slots, raw or with an object | insert, erase, push, assign, move, swap | – |
| btree, binary_search_tree, set, sorted | nodes, sorted arrays | insert, find, remove, merge, intersect | set is used by the lexer |
| csv, http, tar readers, tokenizer | a parser's state between two characters, chunks or blocks | push, process, read_entry | copy_until, position_reader |
| `copy`, size policies | bytes still asked for | copy | reader, writer |
| event loop, flat_map, other vectors, strings, pointers, utilities, test framework, tools | little or none | – | – |

What is hard here: lock-free updates with reused addresses; flags and counters
updated in several steps by threads that do not agree on who is waited for;
objects destroyed or reset while a worker is in its last steps with them;
headers inside memory that is handed out; wrap-around of indices; objects built in
raw storage and moved between places that say what they hold; input that is cut
where the parser is in the middle of something. `hazards` in
`PROJECT.json` lists them line by line.

## Modules

**AtomicLinkedList** is the list at the level of heap nodes. One action is one
access to shared memory; `head` is the `node_gen` word, `hd[t]` the local
variable `head` of thread t, `node` and `after` the other locals, `pc` the place
in `emplace_front`, `pop_and_release_front` or `release`. The allocator returns
any address not in use, so that addresses come back at once. Reading `next` of a
node that was deleted (linked_list.h:182) gives an arbitrary pointer. The
compare-and-swap is weak and may fail for no reason. `list` and `held` are
history variables that no guard reads. **AtomicStack** is what the list
promises, and `Linearizable` says the one implements the other, the successful
compare-and-swap being the instant of a call. Memory is sequentially consistent;
the acquire-only orders of linked_list.h:56 are out of reach of these modules.

**Awaiter** is `awaiter`: each critical section is one action, because nothing
blocks inside it; the unlocked read that opens `wait()` and the `notify_all`
after the unlock in `set()` are actions of their own, and so are spurious
wakeups. **Signal** is its abstraction, a flag, with liveness.

**ThreadPool** composes lists and awaiters at their abstract level: a work list is
a stack whose operations are atomic (AtomicStack), an awaiter a flag with a wait
that is enabled while the flag is up (Signal); `wait_and_reset` is two steps. A
worker's `wpc` walks through `process_work`, a client's `cpc` through
`post_work` and `wait_for_idle`, the owner's also through `start_workers` and
`stop_workers`. `pending` counts modulo `CounterMod` as a `size_t` wraps. A job is
a chain of `Steps[j]` executions.

**Tasks** is one task that its owner calls repeatedly on a pool. The pool is
reduced to what the closures see of it: a set of posted closures, workers that
take any of them and may run next to one another, a stop. The awaiter's `set()`
is two steps because the second one, the notification, uses the awaiter after
the waiter was let go. Every step of the chain may throw.

**MemoryPool** keeps one header per page where a chunk may start. The union
`next_chunk` / `num_references` is one field, `word`, and `Walk` is what following it
from `free_list_` comes to, as the code does, through chunks in use as well: the
smallest set that has the start and the successor of each chunk it has.
`discipline`, chosen at the start, restricts what clients ask for, see the findings.

**RingBuffer** has head, tail and slots, and for each slot whether it holds no
object, a live one, or the shell that `read()` leaves behind. **RecentQueue** is
its abstraction: a queue of the `Capacity - 1` most recent values.

**OrderedContainers** is a client of one ordered container, chosen at the start:
a B-tree of degree 3 or 5 (**BTree**), a binary search tree (**SearchTree**), a
`set` or a `sorted` (**SortedSet**). The three modules hold the functions of
btree.h, tree.h and set.h as operators that return the changed node or sequence;
`store` is the container, `contents` the sorted sequence of keys it should hold.
A pointer or iterator that walks down is a recursion that rebuilds the path. A
leaf of a B-tree keeps null children, whose number matters (`is_leaf`,
`remove_child_at`, the root of `remove`), and so the module keeps them as well.

### Parts that threads share

These four modules have the variables `mem` (what the threads share), `pc` and `loc`
(the place and the locals of each thread's call).

* **AtomicSwap**: the four loops of `atomic_swap` and `atomic_swap_if`, and
  `acquire_lock`. Each load and each weak compare-and-swap is a step. Threads
  exchange tokens through the atomic, so that a value lost or handed out twice shows.
* **LazyAtomic**: `lazy_atomic`, whose node is empty, pending or an address on a heap
  that reuses addresses; `ptr()`, `operator=` and `clear()` of any threads at once.
* **IoReactor**: the list of readers, the iterator that goes round it, `start`, `stop`,
  `join`, and the clients' waits, with callbacks that make further requests. The file
  is its positions, a file may be shorter than what is asked of it.
* **Observer**: both maps of the dispatcher, and the global dispatcher's shared lock and
  set of observers. Any thread adds and removes any observer. What is done under the
  unique lock is one action, and what takes it twice, `add` and `remove_all` of a
  `shared_ptr`, is two, between which any other thread may come. A dispatch calls one
  observer a step, and erases the one that answered false in another, while other threads
  dispatch: the lock is shared. An erase beside a dispatch of the same type is a data race,
  with no outcome to choose from. The model takes it (`EraseRacing`) and from then on does
  not follow that list (`torn`): whoever goes through it may call and erase anyone.

### Parts that one thread uses

These have the variables `store` (the object, as the code keeps it) and `contents`
(what a client may expect of it, kept apart and read by no step of the code).

* **WorkList**: units with functions that fail a number of times, chains, inline and
  chain workers, and the rounds of `work_distributor::run`. A chain is no sequence of steps
  that wait for each other: a function that is to be retried goes to the back of it, and one
  that has given up is complete like one that succeeded. What it does promise, that its
  functions take turns, is `TakeTurns`.
* **RingBufferFile**: the bytes of the mapping as cells, the cursor in the file, and
  the cursors of the writer and of each reader, which read while entries are dropped
  and overwritten behind and before them.
* **FixedVector**, **Results**, **StorageUnion**: slots that are raw, hold an object
  or the shell of one that was moved from, next to the count, flags or index that the
  code goes by. A destructor run on what is no object, or as one of another type, is
  recorded.
* **Csv**, **Http**, **Tar** and **Copy**: the readers, over everything that a writer
  within the bounds writes. In Http one action is one turn of the loop of `process`,
  and chunks end anywhere, in what follows the request as well. A cut in or right after an
  escape, in the query or before the last blank after a colon loses the parser's place:
  `Costs` says which cut costs what, and `RequestExact` what is left then. In Tar the archive
  is cut anywhere, and one read of it fails, of a header, of a long name or of data; a name
  that fills its field runs on into the next one, the mode, and times may not be octal. In
  Copy reads are short and either side fails.
* **ResourcePool** and **Handles**: who owns each resource, descriptor and mapping.
  The kernel of Handles gives out the lowest free descriptor, so that a second close
  hits another object's file.

**SharedParts** composes the first group with `awaiter`, **SequentialParts** the second,
but for the three readers, with `ring_buffer`. The parts do not use each other, and one
behaviour is one part's: it is chosen by `which` in the initial state, and the variables of
the others stay as they are. Each conjunct of a property of these modules is about one
part; each part keeps the fairness of its own specification. **MCContainersAndReaders**
does the same, by `kind`, for OrderedContainers and the readers, with the values it checks
them on: their operators are recursive, and no theorem could be stated in a module that
they are instances of.

The other `MC*` modules give TLC its instances, the `*_proofs` modules hold the proofs.

## Runs

| Run | Question | Bounds, and why they are enough |
|---|---|---|
| list | can any interleaving corrupt, double-free or leak, and is the list a linearizable stack? | 3 threads, one of which releases, 2 addresses, 2 values, no call starts after 3 changes of the head: an ABA needs a pop in flight, a second pop and a push of the reused address, and calls that started before the bound finish. `IInv` is proved for all values |
| pool | start, stop, restart, wait and completion with one client, in safety and liveness | 2 workers, 2 jobs, one of them a chain of 2, 2 starts: a worker may have to come round for a job posted before the restart |
| pool_shared | several posters racing the owner | 2 workers, 2 clients, 2 jobs, 1 start |
| pool_idle_early | wait_for_idle with two clients | 2 workers, 2 clients, 2 jobs; violation, see below |
| tasks | results, returns and overlapping closures of repeated calls | 2 workers, chains up to 2, 3 calls: the third call is the first that overlaps two earlier closures |
| tasks_destroy | the end of a call | as tasks; violation |
| memory_pool | counts, free list, tiling, for clients that never get a reused chunk and for clients that return one before they ask again | 5 pages, 3 handles per chunk |
| memory_pool_reuse | unrestricted clients | 5 pages; violation |
| containers | does any sequence of calls lose, repeat or misplace a key, or unbalance a tree? Do csv, http and tar give back what was written, but for what a cut is said to cost? | `MaxSize` 9 keys in a B-tree: three levels at degree 3, three leaves at degree 5; 5 keys in a search tree, with repetitions; sets of 5. `MaxNulls` bounds the null children of leaves, which pile up as keys come and go. csv: rows of 3 columns of 2 characters. http: 48 requests in two line endings, 6 malformed ones, a body of 2 characters, every chunking. tar: up to 3 members of 4 kinds (a directory, a file whose name fills its field, one with a long name, one whose time is not octal), every length of the file, buffers shorter and longer than a block, one failed read, wherever it falls |
| btree_absent | a B-tree asked to remove a key it does not hold | degree 3; violation |
| shared_parts | awaiter: lost wakeups, flag semantics, return of waits; atomics: is each value handed out and deleted once, does ptr() return; reactor: bytes, order, completion; dispatcher: do the two maps agree, is an observer alive while it is in a list, is each called once | awaiter: 3 threads, unbounded otherwise. Swaps: 2 threads, unbounded. lazy_atomic: 3 threads on 2 addresses, so that an address comes back, 1 clear or assignment, 1 spurious failure. Reactor: 3 requests of 1 or 3 bytes in chunks of 2 on a file of 4 bytes and one of 2: one fits in a chunk, one does not, one never completes. Dispatcher: 2 threads, unbounded otherwise, 2 observers, one of them by shared_ptr, 2 types: an erase beside a dispatch of another type, one beside a dispatch of its own, and an add that crosses a remove_all each need two threads, and a second type shows that it is left alone |
| sequential_parts | ring_buffer: lifetimes, queue; work list: tries, turns and return; ring file: entries read once and whole; values stored; what is copied; owners | ring_buffer and fixed_vector: 4 slots. Work: 3 functions that fail up to twice, alone and in chains (one of them empty, one in the opposite order), 4 crews. Ring file: 12 cells with entries of 3 and 1 cells, 5 entries: several laps, with and without wrap marker. Values: 3 payloads, so that a swap has all of its places filled. copy: 5 bytes through a buffer of 3. Handles: 2 files, a pipe, 2 maps, 3 descriptors |

Deadlock checking is off where a system may rightly stop: clients need not call
again, bounds end the calls, and a wait on a pool that was stopped blocks.

No run uses symmetry: the runs that would profit from it check refinement or
liveness, where it is not sound.

### Fairness

Weak fairness of each thread's own steps once a call has begun: operating systems
schedule every runnable thread, and a critical section of `awaiter` contains
nothing that blocks. No fairness is given to starting a call, to spurious
wakeups, to stopping a pool, or to destroying a task. `CallReturns` and
`WorkDone` are conditional on the pool not being stopped, since a stopped pool
leaves queued work where it is. In `shared_parts` the steps of each thread in a call of
the awaiter or of lazy_atomic and those of the I/O thread are fair, and `CallsReturn`
says nothing of a reactor that is not running; in `sequential_parts` the steps of
`run()` are, which nothing interrupts. AtomicLinkedList has no liveness property: a
compare-and-swap may lose for ever against others, as lock-free code allows.

### Findings

1. `pool_idle_early`: `post_work` counts a job after the worker can already
   have finished it, so `pending_` may read zero while another client's job is
   queued: with two posters `wait_for_idle` can return early.
2. `tasks_destroy`: a worker may still call `notify_all` on the condition variable
   of a task that was destroyed after its call returned.
3. `memory_pool_reuse`: a chunk served from the free list stays on it; the next
   request gets it again, and counts start over. The passing runs show what
   does hold: everything while no free chunk is reused (`fresh`), and the counts
   while the chunk that was reused is returned before the next request (`one`).
4. `btree_absent`: `remove` of an absent key from a tree that received one key
   empties it.

The client of a container in the run `containers` is `Careful`: it keeps off the calls that go
wrong, and only these. They are the removal just named; a second equal key in
a B-tree (btree.h:97 looks the halves of a split up by key, and three equal keys
with some removals already break the order); `set::erase` of an absent value
(set.h:132 takes the next greater one) and `set::merge_from` with a common value
(set.h:193 keeps both). With `Careful = FALSE` TLC shows each of them.

The clients of `sequential_parts` and the inputs of the readers in `containers` are `Careful`
in the same way, each about the calls or inputs that its part gets wrong. `Careful = FALSE` in
MCSequentialParts.cfg, or with `Kinds = {}` in MCContainersAndReaders.cfg, brings them back, and
TLC shows them:

* work_list: `run` adds the unit of an empty optional (work_list.h:252), which a chain
  worker executes.
* fixed_vector: `erase` moves the followers from the back (408-456), which is wrong
  when more follow than were erased; `insert` of a range or list (352-390) does not
  count what it inserted; moves and swaps touch raw slots.
* result: `release` leaves the shell of the value assigned, and assigning a value
  to an error, or the reverse, leaves the other side's flag wrong (80-110).
* storage_union: `std::swap` with one empty side leaves a shell occupied (223-233).
* csv: the quotes of a quoted first column are kept (103-109), a delimiter after a
  delimiter is data (158-165), an empty last column is dropped (278).
* tar: an entry of type K, a link's long target, is taken for the name (231).
* copy: what a writer does not take of a buffer is lost (35-41).

The module RingBufferFile states its bounds instead: with entries larger than half a
lap, `head` passes `tail` while `write` makes room (237-254), and an entry without
bytes is taken for the mark of the wrap (205).

Not careful but excluded, as undefined behaviour with no outcome to choose from:
`io_reactor::read_async` beside the I/O thread, which appends to a list without a
lock; callbacks that call the dispatcher back, under a `shared_mutex` that their own
thread holds. Of a list from which a dispatch erases beside another one of its type the
module Observer says no more, and takes the race to spoil no other list. An `add` and a
`remove_all` of one `shared_ptr` that cross leave it subscribed and not kept alive, or kept
alive for nothing (observer.h:314-332): `KeptAlive` speaks of the others (`crossed`), and of
these again after a `remove_all` with no `add` beside it. `io_completer::wait`
(io_reactor.h:38) has no predicate, and a completion before it is lost, so that
`CallsReturn` speaks of clients that were waiting. `atomic_swap_if` tests one load
and swaps from a second one (atomic.h:69-76): that the value swapped out meets the
condition is therefore not stated. `acquire_lock` drops its change when its one
attempt fails (atomic.h:149), and `lazy_atomic::ptr()` may answer null, or what
`clear()` deletes.

Seen and not made a run: a read that fails below a `tar_data_reader` is answered as if it had
filled the buffer. The length is taken out of the result although that is an error
(tar_file.h:78, `ReadFails`); in the layout of the build it is an address, so that `read`
slices the caller's whole buffer, and the error is gone. `read_entry` meets the same when it
reads a long name, and never returns its `read_string_error`. `EntriesExact` and `DataExact`
say what holds around such a read: the bytes that were read, and the entries behind, are the
right ones. Two clients of `wait_for_idle` share one idle
awaiter, and the reset of one can take the notification of the other, which
sleeps on beside an idle pool (`WaiterNotForgotten` with two clients); a task
without a function notifies twice, and the second may end the next call early;
`ring_buffer::size()` (ring_buffer.h:118)
answers the capacity for a full buffer whose indices are wrapped and one less
when they are not. It is a query, changes nothing, and is not modelled.

## Proofs

All theorems hold for every value of the constants, under the named assumptions
of the modules (`NullAssumption`, `PoolAssumption`, ...), which TLC evaluates too.

* **AtomicLinkedList_proofs.** `ListSound` alone is not inductive: that a
  successful compare-and-swap installs the right pointer depends on what the
  thread read before. `IInv` adds `FreshHead` (equal generations mean an untouched
  head, and then the `next` that was read is still the node's), `HeldKnown` (what
  a thread that took nodes out holds, and that `next` still leads through it) and
  `Exclusive` (no other thread's node is written). One lemma per action shows
  `IInv` is preserved, `Invariance` combines them, `Soundness` and `Ownership` are
  its parts that matter to callers.
* **Awaiter_proofs.** `TypeOK` and `NoLostWakeup` are inductive together;
  `ImplementsSignal` is the safety half of the refinement: each step maps to a
  step of Signal or to a stutter.
* **ThreadPool_proofs.** `TypeCorrect`, and from it `WorkIsSeen` and
  `StopIsSeen`: a set() that the worker has not consumed stays up until the
  worker comes round to look at its list and its stop flag.
* **ThreadPool_proofs, "Where the work objects are".** `JobsStayInPlace`: `OnePlace` counts, and is not inductive;
  `Places` says the same without counting. A job is posted exactly when it is in a
  list, in a worker's hands or complete (`Accounted`), no two clients, workers or
  places in the lists have the same one (`JobsApart`, `HandsApart`, `ListsApart`), and
  its chain is as far as its place says (`Progress`). `StartsIdle` keeps
  start_workers from starting a thread that runs. `CountedOnce` then counts: a set with
  one element for each place.
* **ThreadPool_proofs, "Counters that wrap".** `CounterIsExact`: with `CountInv`, `pending_`
  and the posts between their push and their `fetch_add` together are, modulo the counter's
  width, the jobs accepted and not complete; a decrement that comes before the increment of
  its own job wraps, and comes right again. Two theorems rest on it for a client who has the
  pool to himself, `Clients = {Owner}`: `WaiterIsWoken`, that `wait_for_idle` does not sleep
  on beside an idle pool, and `IdleIsDone`, that it returns only when all that was posted is
  complete, if the counter has a value for each number of jobs (`Cardinality(Jobs) <
  CounterMod`). The hypotheses are needed: with two clients the run `pool_idle_early`
  violates the second, and the first fails as told under "Seen and not made a run".
* **AtomicLinkedList_proofs, "No node leaks".** `NothingLeaks`: `NoLeak` node by node
  (`Kept`) with `IInv`; an action that takes a node out of one place puts it in another.
* **AtomicLinkedList_proofs, "Linearizable".** `ImplementsStack`: the list implements AtomicStack,
  the property `Linearizable` of the runs, in full, as AtomicStack states safety only. A
  push takes effect at its successful compare-and-swap, a pop at its own or at the load
  that finds the list empty, a release at its compare-and-swap; every other step is invisible
  (one lemma each). What a thread's call looks like from outside depends on the values
  in nodes that it alone owns, which is where `Exclusive` comes in: a thread that
  allocates a node writes no value that another call still shows. `NoResults` is
  the one fact that `IInv` lacks.
* **Tasks_proofs.** `ResultIsOwn` and `WriterIsAlone`. The inductive invariant says where
  the closure of the call that is on is: in the queue, then with one worker that is not
  past its set(), then done with the result in the promise. A worker of an earlier
  call can only be notifying. Tasks without a function are outside of it (`len > 0`).
* **RingBuffer_proofs.** `LiveSlots` and `ImplementsQueue`, for every capacity above one,
  and `RingFileIsExact`, for maps, paddings, headers and entries of any size within
  `FileAssumption` and any number of readers.
  - For ring_buffer the modulus of the operations is replaced by comparisons (`Between`,
    `Fill`, `Nth`), of which the provers know more; the queue of RecentQueue is the sequence of
    the slots from head to tail, and an emplace into a full buffer is an append after a tail.
  - `FileInv`, for ring_buffer_file, speaks of offsets, which only grow: each entry begins where
    the one before it ends, or on the next lap when the rest is too short (`LaidOut`), and from
    head on the map holds the entries whole and marks the rests (`Holds`). Stretches of less than
    a lap that follow each other lie apart in the map (`LieApart`), so that a stamp, a fill or an
    entry before head or behind tail leaves the others as they are (`HoldsStays`).
  - A cursor is at an entry: where the one before it ends, or at its start (`At`). What lies
    between the entry an object is to read next and the one its cursor is at has been dropped
    (`CursorPlaced`), which makes the entry that is due the one at the cursor brought up to date,
    also when the writer has lapped the reader (`EntryDue`).
  - The loop of `write` drops one entry a turn (`DropsOne`), and stops, within as many turns as
    the map has bytes, with room for the entry (`RoomIsMade`, an induction over the turns);
    what it drops leaves no room for the padding and one more entry (`DroppedForRoom`), which is
    the second half of `KeptWhole`.
* **MemoryPool_proofs.** `CountsAreExact`, `ChunksAreApart` and `ListHoldsTheFree`, for any
  number of pages and handles and clients of one of the disciplines `fresh` and `one`
  (`"any" \notin Disciplines`; with `any` the run `memory_pool_reuse` violates the counts).
  None is inductive alone: a free chunk's `word` must lead to a chunk (`LinksLead`), there
  must be nothing beyond `next_alloc_` (`RawAhead`), and the chunk that is served must be one
  that nobody has (`ServedIsFree`), which follows from the discipline. The walk is a smallest
  closed set, so that what it comes to is shown by giving a closed set (`WalkStays`), without
  induction. As the run does, `FreeListSound` speaks of `fresh` clients only: a chunk that
  was served from the list stays on it.
* **SharedParts_proofs.** Theorems of the composition, for any threads, tokens, addresses,
  requests, files, observers and types: `AtomicsAreExact`, `FactoriesSeeReplaced`,
  `ReactorIsExact`, `DispatchIsExact` and `TypesAreKept`. Each part has its inductive
  invariant, which the steps of the part keep and those of the others do not touch.
  - `LazyInv` says who has each value: one thread is making it while the node is pending
    (`LazyReserved`), and a value on the heap is in the node or with the one thread that is to
    install or delete it (`LazyOwned`). `LazyAnswered` is about `ptr()` when no clear came between.
  - `SwapInv` adds to the conservation of tokens that what is about to be swapped in is the
    thread's own token, made from what the swap compares with.
  - `ReactorInv` takes `BytesOnce` apart request by request, where the bytes given are the
    positions below that of the file, and knows of requests not made (`ReactorNew`): the
    callback of a request may make one, which is appended to the list before the request is
    erased from it. That a read gives no more than is lacking or left is `ReactorReadSize`.
  - `ObsInv` ties the lists of subscribers to the types of each observer, what was dropped
    taken away (`MapsKnown`). Of a shared observer whose calls have not crossed it says that no
    call is about to undo what another one did (`Handled`): between its two locks an `add` has
    it connected, and a `remove_all` has it in no list. Of a dispatch it says that the
    observers called and the rest of the list from the iterator on are those found at the
    start (`Rest`): erasing the observer just called moves the rest under the iterator, which
    then stays (`RestErases`). An erase by another thread is of another list, or tears this
    one (`ObsTears`), of which nothing is said from then on.
  - Facts about lists from which one element is taken, and to which one is appended, are
    lemmas of their own (`Removed`, `Erased`, `Appended`).

* **SequentialParts_proofs.** Theorems of the composition, for any handles, payloads, capacities,
  layouts and crews: `OwnersAreAlone`, `EachIsTried` and `StoredIsExact`. The last has
  the hypothesis `Careful`: without it TLC violates the property, as told under "Findings".
  The first two hold for every client; of the work list that says nothing of the chain
  worker that is handed a null pointer, which crashes and so never returns (`RunReturns`).
  - `PoolInv` and `HandleInv` say what `OwnedOnce` counts without counting: no two places have
    the same resource, descriptor or mapping, and what the pool or the kernel has given out
    is in one (`PoolApart`, `PoolAlive`, `FdsOwned`, `MapsOwned`). A set of as many elements as
    places follows from the places being different (`InjectiveImage`).
  - `WorkInv` places each function: in the units that wait, in those of one worker, or done with
    (`Placed`). Where it is, the calls made of it and those that its failures and retries still
    ask for are together what was due (`ListCounted`), and it is there once (`ListOnce`). A step
    of a chain takes a function from the front and puts it, or nothing, at the back, which
    `PartsExecute`, `UnitExecutes` and `ListExecutes` show for functions, units and workers in
    turn; a worker that is not busy has none, so that all is done when run() ends.
  - `TurnInv` adds in what order the functions of a chain stand in what is left of it
    (`Ordered`): as in the chain as it was given, up to a place, from which on those stand that
    have had one call more. Taking the front one to the back, or away, keeps that (`OrderKept`),
    and no other step touches the unit (`UnitsMove`); `TakeTurns` follows.
  - `ResultInv` and `UnionInv` tie the object to the flags or the index, and keep the payloads of
    the two apart. That `release` and a move leave a shell behind, for which the flags still
    speak, is why `ResultHolds` leaves the object of a result that was moved from open.
  - `VecInv` says slot by slot what is in it. That `move_backward` moves what it should
    (`MoveBackward`) is an induction over its turns: the set of turns after which the slots are
    `Shifted` has 0, and with each turn the next (`UpTo` of RingBuffer_proofs, which
    needs no operator as a parameter, and rests on a bijection between finite sets).
  - `CopyInv` says that each policy asks for no less than is left, and one for no more
    (`PoliciesAgree`), and that what has arrived and what is left are the source (`NothingLost`).

Only model-checked: all liveness, as fairness and ENABLED are beyond TLAPS here; the ordered
containers, csv, http and tar, whose operators are recursive, so that no theorem may be stated
of them (`ContentsExact`, `Findable`, `Balanced`, `ReadBackExact`).

## Mutants

Each property of a passing run is violated by one mutant of a definition, listed in
`PROJECT.json`. The composite properties of `shared_parts`, `sequential_parts` and `containers` have
one listed mutant, in one of their parts; the other parts hold mutants too, each of
which TLC was shown to catch in the same way:

| Property | Further mutants |
|---|---|
| AtomicsExact | LazyAtomic: `NotEmpty` for `HasValue`, `ReserveStore` for `ReserveCas` |
| ReactorExact | IoReactor: `ShortRead` for `IsComplete` |
| DispatchExact | Observer: `NewTypes` for `AddedTypes`, `NeverKept` for `FirstStep` |
| EachTried | WorkList: `UncountedLambda` for `ExecuteLambda`, `NoUnitLeft` for `MoreToDo` |
| RingFileExact | RingBufferFile: `NoExtra` for `Extra`, `NeverStamped` for `Stamped` |
| StoredExact | FixedVector: `closed_over` for `cleared_gap`, `MovedCount` for `LeftCount`; Results: `CopiesFlags` for `move_from`, `KeepsAssigned` for `StillAssigned`; StorageUnion: `KeepsIndex` for `assign`, `HalfSwapped` for `Swapped`; Copy: `KeepsValue` for `Processed` |
| ReadBackExact | Csv: `kept` for `emptied`; Tar: `Unaligned` for `Skipped`, `WholeBuffer` for `Remaining` |
| OwnedOnce | ResourcePool: `QueuesEmpty` for `Returned` |

## Not modelled

The components with status `not_modelled` in `PROJECT.json`, and why:

* flat_map.h and event_loop.h are unfinished: `flat_map::erase` does nothing and its
  insertion takes a position from a bool; event_loop.h does not compile.
* find.h, and with it the policy `until`: the table of prefixes is built with two
  elements whatever the length of the pattern, so that every longer pattern writes
  behind it.
* Strings, iterators, views, pointers, formatting and time hold no state that a
  sequence of calls could bring out of order; what tar needs of conversions is in Tar.
* The registration of events is one system call each; the test framework and the
  tools are clients.

Of the modelled components: moves of awaiters, pools and tasks (nothing may run
meanwhile), destruction of a pool with queued work (its work objects are never
deleted), weak memory, crashes inside `ring_buffer::emplace` (which leave
the indices in the file as they happened to be), the rounding of `memory_pool`'s page
count through a float, the writer of http, a second request on one http parser (it stays
complete), and the torn reads of a ring file by
another process: the module copies a cursor at once, the code does so field by field.

What would come next: a composition of IoReactor with MemoryPool, and field-wise copies
of the ring file's cursors.
