# Verification of Hisab's stateful core

TLA+ models of the parts of Hisab (XSigma), the C++ library under `src/Library`,
that keep state: threads, queues, graphs, GPU memory, tracing, reference counts
and hash tables, with TLC runs on small instances and TLAPS proofs for all
instances. `PROJECT.json` lists components, runs, mutants, the map from every
definition to its source lines, findings, hazards and theorems.

## 1. The system

Eight libraries. The numbers are lines without tests.

| Library | Lines | State and operations | What is hard | Correct means |
|---|---|---|---|---|
| Parallel | 5.3k | work queues, a thread pool, parallel loops | threads, locks, condition variables, nested waits, shutdown | every task runs once, after what it depends on; calls return; nothing is lost at shutdown |
| Graph | 0.9k | node tables, topological levels; an executor over `threaded_callback_queue` | order of discovery, a failing node | every node runs after its predecessors |
| Memory | 5k | free blocks per stream, deferred frees, statistics | the lock is dropped across driver calls; retry after a failure | blocks never overlap, and none is reused before its events have passed |
| Profiler | 33k | per-thread event queues, one global session, callback tables | recording races start and stop; one profiler of several fails | no event of another session, one session at a time |
| Core | 5k | reference counts, hash tables, registry | strong and weak counts race | an object dies once and is never revived |
| Logging | 5.5k | a cut-off, files, callbacks, scopes | callbacks run without the lock while sinks come and go | a message reaches the sinks in force, in one order; scopes nest |
| Models | 1.4k | numerics | floating point | - |
| Vectorization | 14k | SIMD kernels, expression templates | floating point | - |

Scripts, build files, `ThirdParty` and `Examples` are not part of the system
under study.

### The components of Parallel and how they interact

* `threaded_callback_queue` keeps a deque of *invokers* (tasks with a shared
  future), a table of worker threads and the list of *controls* (resizes).
  Clients push tasks, also with prior futures; a thread that waits for a task
  which is still queued takes it out of the deque and runs it; a finished task
  signals its dependents, which it may run inline. `graph_executor` is a client.
* `threaded_task_queue<R, Args...>` applies one function to the arguments that
  a main thread pushes, on several workers, and hands the results back: in push
  order and completely (*strict ordering*), or only ever newer ones. A bounded
  buffer drops the oldest queued task. The `void` form has no results, only a
  counter that `flush()` waits for.
* `parallel_thread_pool` has a fixed set of threads with a job stack each.
  `allocate_threads` makes a *proxy* on some of them, `do_job` hands out jobs
  round robin, `join` waits; a job may nest a proxy and then helps with the jobs
  that its own thread has. The `std_thread` backend of `parallel_for` is its
  only user.
* `parallel_tools`: `parallel_for` cuts a range into chunks and runs them on a
  backend (`std_thread` over the pool, OpenMP, TBB); settings (`initialize`,
  `set_nested_parallelism`, `local_scope`) say how many threads there are.
* `multi_threader` starts threads in numbered slots and joins them.

### The other libraries

* **Graph**: `graph_builder` sorts declared nodes into levels (Kahn),
  `keyed_graph_builder` traces a graph from resolvers that ask for other keys,
  `graph_executor` runs the nodes as tasks of a `threaded_callback_queue`.
* **Memory**: the CUDA and the Metal caching allocators share their idea (blocks
  of segments, split and merged, in pools by size); the first defers a free until
  the events of other streams have passed and drops its lock for driver calls.
* **Profiler**: a thread records events into its own lock-free queue, which a
  registry keeps (`per_thread`); a session takes the lock, starts its profilers
  through controllers and a collection, and collects the queues when it stops.
  Beside it, the memory tracker counts allocations, `record_function` runs
  observers around functions, and `collection.cpp` turns events into a tree.
* **Core**: `intrusive_ptr` counts strong and weak references in one word;
  `flat_hash` is the hash table of the profiler and the allocators.

## 2. Modules

| Module | Models | Lines mapped in |
|---|---|---|
| `CallbackQueue` | `threaded_callback_queue` | `tools/threaded_callback_queue.{h,cpp}` |
| `MCCallbackQueue` | client programs for it | |
| `CallbackQueueProofs`, `CallbackQueueOrderProofs` | theorems about the deque; about the order of tasks and resizes, `wait`, and the wake-ups | |
| `TaskQueue` | what both forms of `threaded_task_queue` share: the buffer, the workers, the destructor | `tools/threaded_task_queue.h` |
| `ResultTaskQueue`, `VoidTaskQueue` | the two forms; each extends `TaskQueue` and is run directly | same |
| `TaskQueueProofs`, `ResultTaskQueueProofs`, `VoidTaskQueueProofs` | lemmas and theorems | |
| `ThreadPool` | `parallel_thread_pool` and its proxies | `std_thread/parallel_thread_pool.cpp` |
| `MCThreadPool` | client programs for it | |
| `ThreadPoolProofs` | theorems about the job stacks, `join` and the destructor | |
| `ParallelFor`, `ParallelConfig` | `parallel_for` on its backends; the settings | `tools/parallel_tools.h`, `std_thread/`, `openmp/`, `tbb/` |
| `MultiThreader` | `multi_threader` | `tools/multi_threader.cpp` |
| `GraphBuilder`, `GraphExecutor` | declared and traced graphs; the executor on an abstract task queue | `Graph/` |
| `GraphEvaluation` | what the executor promises, as an abstract specification | |
| `ParallelProofs` | theorems about the slots of `multi_threader`, and that the executor implements `GraphEvaluation` | |
| `MCParallel` | these five side by side | |
| `BlockCache` | blocks, split, merge, pools: shared by both allocators | `Memory/gpu/cuda_caching_allocator.cpp`, `caching_allocator_config.h` |
| `CudaCachingAllocator`, `MetalCachingAllocator` | the two allocators | `Memory/gpu/`, `Memory/gpu/metal/` |
| `IntrusivePtr`, `FlatHash` | `intrusive_ptr`; `flat_hash_map` | `Core/common/intrusive_ptr.h`, `Core/util/flat_hash.h` |
| `Logger` | the logger on its native backend: cut-off, files, callbacks, scopes | `Logging/logger/logger.cpp` |
| `MCMemory` | these five side by side | |
| `LockFreeQueue`, `TraceSession` | the block queue; recording threads, the registry, recorder, lock and sessions | `Profiler/common/`, `Profiler/native/` |
| `MemoryTracker` | the memory tracker | `Profiler/native/memory/memory_tracker.cpp` |
| `RecordFunction` | observers, cached lists, sampling | `Profiler/bespoke/common/record_function.cpp` |
| `EventTree` | `build_tree`, `adjust_timestamps` | `Profiler/bespoke/common/collection.cpp` |
| `LifetimeProofs` | theorems about the counts of `intrusive_ptr`, and about the queues and the sessions | |
| `MCProfiler` | these five side by side | |

The `MC` modules with several components have a variable `part`, chosen in
`Init`: a behaviour exercises one component and leaves the others alone.

### How state and actions correspond to the code

**A step** is one critical section or one atomic access. Most locks are held
within one step only and need no variable. A lock is state exactly where its
holder can block, or where another thread acts without taking it:

* `CallbackQueue`: `queue_lock` (`mutex_`, held by `try_invoke` while it locks a
  future), `future_lock` (held by a non-void task while it runs and by
  `signal_dependent_shared_futures` while dependents run inline), `destroy_lock`.
* `ThreadPool`: `lock[t]`, because `joining_ = true` and the read of `jobs_` in
  `allocate_threads` do not take it. `WorkerCheck`/`WorkerBlock` are the
  evaluation of the wait's predicate and the block; `DoJob`/`DoJobEmplace` are
  the beginning and the end of the append.

**User code.** In `CallbackQueue` and `ThreadPool` a program is a `script`,
chosen in `Init` from the constant `Scripts` and never changed: for every client
and task the sequence of library calls it makes. One run covers several programs. Tasks are model values; their
data is irrelevant. `stack[th]` holds the frames a thread is executing, because
a thread may run a task inside `wait()` inside a task; `pc` says where in the
library a frame is, `todo`, `flag`, `tgt`, `launch` (and `index`, `old`, `to` in
`ThreadPool`) are the locals that survive a step. Variables carry the names of
the members they stand for, without the trailing underscore.

**Undefined behaviour.** The unlocked read in `allocate_threads` while an append
to the same vector is under way may do anything: `AllocateNested` is the
outcome in which the old value is read, `AllocateCorrupted` the other ones,
after which nothing is claimed.

**Notification.** `notify_one` wakes any one waiting thread or, when there is
none, is lost. Spurious wakeups change nothing: every wait has a predicate.

**The allocators.** `cache` is a record of blocks, segments, pools, deferred
frees and counters; sizes are small integers that keep the order of the code's
size classes (`kMinBlockSize`, `kSmallBuffer`, ...). `AllocateMapped`,
`DriverMalloc` and `DriverRefuses` happen with the lock released. The device
(`DeviceRuns`) does the work of a stream in its order, at any time. `work` has what
the streams have still to run on freed blocks, whether or not an event was
recorded behind it (`DeviceWork`); the allocator sees of it only which events the
device has passed.

**Sessions.** `Push` is a thread's write into its queue, in the middle of which a
session may drain it: queue operations are single accesses of `start`, `end` and
the blocks. Two histories say which events a session ought to see (`owed`), and how
many a thread has added since the recorder was stopped (`late`).

**The logger.** `logging` is where each thread is in `native_log_output`: `Lock`,
one `Write` per file and `Unlock` hold `g_io_mutex`, each `Callback` runs one of
the copies without it. A sink of `output` is the console, a path, or one
registration of a callback.

**Histories.** `RecordFunction`, `FlatHash`, `ParallelFor`, `Logger` and `IntrusivePtr`
carry variables or fields without a counterpart in the code: what was in force
while an observer list was looked up, the map that a hash table stands for, which
indexes were run, who holds a reference. Only properties read them.

**Weak atomics.** `compare_exchange_weak` may fail without a reason (`weak` in
`ParallelFor`); the loops that retry it are unaffected.

**Left out**: the lifetime of invokers, arguments and
return values, exceptions of tasks (a job that throws is cleaned up like one
that returns), names and logging.

## 3. Runs

Deadlock is checked unless noted. In passing runs `Terminated` or `Destroyed`
is the only state in which the system may stop.

| Run | Instance | Shows |
|---|---|---|
| `cq_safety` | `DependScript`: 2 workers, a chain of tasks with a last one that depends on both others. `ResizeScript`: 2 clients, 4 resizes, a queued task. `LaunchScript`: 1 worker, 2 clients, a task with 2 dependents that pushes itself | deque and statuses agree, indexes stay ordered, each task runs once and only after its priors however registration and completion interleave, no lost wakeup, resizes in order, a consistent thread table |
| `cq_return` | `HelpScript`: 1 worker, a client that waits for a task in the middle of the deque and then pushes behind the hole. `DismissScript`: a worker dismissed with a task queued. `ChainScript`: the destructor called with a task and a dependent of it queued | no null at the front, `wait` means ready, calls return and all tasks finish, also when the control runs on a thread that must go; the destructor drains the deque |
| `tq_result` | 2 workers, 4 pushes; strict, and with a buffer of 1 not strict | strict: nothing dropped, results in order. Else: results never go backwards, the newest survives. `pop` succeeds, calls and destructor return |
| `tq_void` | 2 workers, buffer 2, 4 pushes | the counter is backed by finished tasks; `flush` and the destructor return |
| `tp_pool` | 3 threads. `NestScript`: 3 levels of nesting. `CrowdScript`: 2 clients on one job stack, nesting. `ShutdownScript`: pool destroyed with jobs pending | kept indexes stay valid, each job once, `join` means done, threads wait for higher threads only, calls return; if the pool's destructor returns, all jobs are finished (it may stop: see `tp_shutdown_hang`; hence no deadlock check, `CallsReturn` covers the other stops) |
| `memory` | CUDA: three sets of clients on a device of 30 units (deferred frees between 3 streams, two threads in the driver near the limit, every setting changed). Metal: heaps, cap, limit, callbacks. 3 pointers to one object. Hash tables: 5 keys with two homes at the end of the array, 4 keys that always collide, 2 tables. The logger: 2 threads, 2 files, a callback, 4 calls; 5 calls of one thread for scopes | see below |
| `profiler` | 2 sessions, 2 recording threads, blocks of 2 slots, 5 programs. The tracker with 2 threads. 2 threads with observers. Every trace of 4 events on a thread and of 3 on two | see below |
| `parallel` | 3 backends, nested or not, 2 callers. Settings to a depth of 2. 2 callers of `multi_threader` with 2 slots. All graphs of 3 nodes and 3 edges, a diamond with every set of failing works on 2 threads, all ways in which 3 keys need each other | see below |

Most properties are conjunctions of named parts, which the modules state and
explain one by one:

| Run | Property | Parts |
|---|---|---|
| `cq_*` | `DequeSound` | statuses match the deque, indexes are ordered, no null in front |
| | `TasksInOrder` | a task runs once, and after its priors |
| | `NoLostWakeup`, `ResizesInOrder` | workers do not sleep on a queued task; controls in order and a consistent thread table |
| | `WaitMeansReady`, `QueueReturns` | `wait` returns only when the task is done; every call returns, every task ends, and the destructor does not return before |
| `tq_*` | `StrictOrder`, `NewestWins` | nothing dropped and 0, 1, 2, ...; never backwards and the newest survives |
| | `PopSucceeds`, `CounterBacked`, `DestroyRunsAll`, `AllReturn` | |
| `tp_pool` | `JobsRunOnce`, `JobsFinish` | kept indexes stay valid; `join` means done, and so does the destructor |
| | `WaitsUpwards`, `CallsReturn` | threads wait for higher threads only |
| `memory` | `CacheSound` | blocks tile their segments, one owner each, byte counters agree |
| | `NoEarlyReuse` | memory is not handed out, split off, merged or returned while a stream has not reached the event of its deferred free (streams whose event could not be recorded: see `cuda_lost_event`) |
| | `SegmentsKept` | everything can be released; cap and limit, up to what the dropped lock allows |
| | `MetalSound` | the same of Metal; interior pointers resolve to one allocation; heaps outlive buffers |
| | `PointersSound` | counts match the pointers, one deletion, no use after it, no leak, resources released once |
| | `TableIsMap` | a table is the map that the calls make; emplace and erase return the right iterator; no loop leaves the array |
| | `LogSound` | a message reaches once each sink in force when the lock is taken, and a fatal one does so before the abort; files and console agree on the order; scopes end in turn |
| `profiler` | `QueuesSafe`, `NothingLost` | blocks are linked and freed once, one consumer; every event recorded during a session is consumed by it |
| | `SessionsApart`, `StopReturns` | lock and current session agree, an idle recorder is off; `stop` returns once the events of thread pools cease, after at most one late event of each thread |
| | `TrackerAgrees` | usage and peak agree with the map between calls |
| | `ObserversSound` | caches are fresh, sampled observers run when a coin for every call would have them run, start and end are paired |
| | `TreeIsRight` | the parent is the innermost event around the start; pops find their frame; adjusted times nest and do not overlap |
| `parallel` | `ForSound` | every index once, initialized before (TBB), the parallel scope ends |
| | `SettingsHold`, `SlotsSound` | the number of threads is within the hardware, `local_scope` restores it; slots and threads match |
| | `GraphSound`, `ResultsAreRight` | levels are topological exactly if there is no cycle, traces leave no debris; a node has a result exactly if nothing it needs has failed |
| | `Evaluates` | `GraphExecutor` implements `GraphEvaluation` |
| | `ParallelReturns` | calls return |

`CHECK_DEADLOCK FALSE` in `profiler` and `parallel`: a program that has made its
calls stops there. That no call hangs is `StopReturns` and `ParallelReturns`.

### Refinement

`GraphEvaluation` has one variable per node: unknown, a result or a failure. A
node is evaluated in one step from its inputs, or fails if its work throws or an
input has failed. `GraphExecutor` maps to it with
`INSTANCE GraphEvaluation WITH ...` (tasks on several threads, the flag of the
first failure, nodes that skip their work); TLC checks `Evaluates` in `parallel`
on all its graphs, and `ParallelProofs` proves it for every graph.

### Where the code and its comments disagree

Each of these runs ends in a counterexample; `findings` quotes the comment.

| Run | The code |
|---|---|
| `cq_hole_wait` | a task pushed behind a hole has an index that does not match its place; `wait` on it from the only worker blocks forever |
| `tp_shutdown_hang` | `joining_` is stored without the lock; the wakeup can be lost |
| `cuda_lost_event` | `insert_events_locked` empties `stream_uses` first: a stream whose event cannot be recorded is forgotten, and the block is recycled by the other events, or at once, while that stream may still use it |
| `graph_discovery` | a dependency that another key has resolved before gets no edge in a graph made by `resolve_with_discovery` |

Met on the way, and kept out of the passing instances by the restriction that
the note of the hazard states:

* a task with a value holds its future's lock while it runs: `wait` and a push
  from the task deadlock; a task that resizes while a control joins its thread
  does as well;
* `flush` of the void task queue returns while an older task runs, with two
  workers;
* `jobs_` of the pool is read without its lock (`AllocateCorrupted`);
* `thread_local static` flags of `parallel_for` (std and OpenMP): the second call
  of a functor type does not initialize it; `local_scope` of OpenMP and TBB does
  not restore a number that was never set;
* two callers that terminate the same `multi_threader` slot can lose a thread;
* a session whose second profiler fails leaves others started;
* the events of a thread pool do not ask for the trace level
  (`threadpool_listener.cpp:56-84`), and the collector that they ask for is disabled
  only after the queues were drained (`traceme_recorder.cpp:184`): `stop()` goes on
  draining as long as a pool keeps recording. The programs of `TraceSession`
  have two pool events for a thread;
* a tracker that is reset in the middle of an allocation disagrees from then on;
* after `adjust_timestamps` siblings touch, and the second `build_tree` makes one
  the child of the other.

### Bounds, and why they are enough

* Scripts are finite, so no state constraint is needed in `CallbackQueue` and
  `ThreadPool`. (`MCCallbackQueue` and `MCThreadPool` define them.) Each is the shortest one in which the hazard it is for can
  happen: a hole needs two queued tasks and a push after the help; a race
  between priors needs two workers and two priors; trading places on dismissal
  needs the control to run on the last of two workers; the thread hierarchy
  needs three threads for a proxy that leaves one of them free, and a third
  level for one that finds none.
* `memory`: 4 calls (`calls`, `MetalCalls`) suffice to split a segment, defer a
  free, allocate the neighbour and free it; `DeviceMemory` of 30 is three large
  segments, so that the retry path is taken. `min_lookups = 3` instead of 4 and
  `HashBits = 5`: a chain of five keys reaches the limit, and tables grow to 32
  slots. The minimum 3 is an assumption: with 2 an empty table would be probed at
  its end item.
* `profiler`: `kNumSlots = 2`, so that three events fill a block and open the
  next; `TrackerCalls`, `TrackerControls` 2 each; `MaxTries = IntMax = 2`, so that
  counters of several sampled observers and the largest countdown meet;
  `EventTimes` 1 to 3: enough for three events that overlap in every way.
* `parallel`: ranges of at most 3 indexes with grains 0, 1 and 2 (a smaller last
  chunk, an empty range, one chunk); `SizeLimit` stands for the largest size_t.
* `MaxTasks` bounds the pushes of the task queues. Four are more than the
  number of workers plus a buffer of one, so a task can be dropped, finish late or
  wait; the proofs need no bound.
* No symmetry is used: liveness is checked in most runs and the instances are
  small.

### Fairness

`FairSpec` assumes weak fairness of each thread's step: the operating system
schedules every thread that can run, and a lock that stays free is obtained. In
the task queues the main thread is fair only within a call (`MainStep`): nobody
is obliged to call `pop`. `MCParallel` assumes only that while
some thread inside a call can go on, some thread does (`Progress`), which any
scheduler provides; `MCProfiler` that a thread inside `start()` or `stop()` is
scheduled again, whatever the recording threads do. That alone does not end the
drain: `StopReturns` also bounds what threads may add to it (`LateEvents`), except
for pool events, which nothing in the code bounds. Strong fairness is never assumed: no property relies
on a thread winning a lock that others keep taking.

## 4. Proofs

Each theorem holds for every value of the constants that satisfies the named
assumptions of the modules. None of the properties is inductive; every proof
module begins with the strengthening that is, which TLC has checked on the
instance of the run. The proofs have a lemma for the initial states, one for each
action or kind of action, and combine them with `PTL` in the last step.

| Theorem | Property of a run | For every |
|---|---|---|
| `StrictOrderKept`, `OnlyOldDropped`, `PopNeverFails`, `DestructorRunsAll` | `StrictOrder`, `NewestWins`, `PopSucceeds` | set of workers, buffer size, number of pushes |
| `CounterIsBacked`, `DestructorRunsAll`, `SoleWorkerFlush` | `CounterBacked`, `DestroyRunsAll` | the same; one worker for the last |
| `PointersAreSound`, `NeverRevived` | `PointersSound` | finite set of pointers |
| `DequeStaysSound`, `TasksStayInOrder`, `ResizesStayInOrder` | `DequeSound`, `TasksInOrder`, `ResizesInOrder` | set of clients, workers and invokers, set of programs |
| `WaitsEndReady`, `NoWakeupIsLost` | `WaitMeansReady`, `NoLostWakeup` | the same |
| `SlotsAreSound` | `SlotsSound` | set of callers, table size, maxima |
| `JobsAreRunOnce`, `JobsDoFinish`, `ThreadsWaitUpwards` | `JobsRunOnce`, `JobsFinish`, `WaitsUpwards` | number of threads, set of clients, proxies and jobs, set of programs |
| `RunEvaluates`, `WorksOnce` | `Evaluates` | graph, set of throwing works, number of tasks under way |
| `QueuesAreSafe`, `SessionsStayApart`, `DrainIsBounded` | `QueuesSafe`, `SessionsApart`, `LateEvents` in `StopReturns` | set of sessions and traced threads, program, block size |

### The callback queue

`ScriptAssumption` says which programs the theorems are about: any that call the
queue as its interface allows. A call that allocates an invoker names one, wait,
control and handle tasks return nothing, `wait()` of a future is called on one, and
only the owner destroys the queue, as its last call. The number of clients,
workers, tasks, dependents and resizes is not bounded, nor is the depth of tasks
that wait inside tasks. There are five layers, each inductive relative to those
before it.

`QueueInv` (`CallbackQueueProofs`) is what `DequeSound` needs:

* `OneFrame`, `Running`: an invoker is executed by one frame of one thread, and its
  status is RUNNING or, while it signals, READY. `RunsOnce` follows;
* `Claims`, `AllApart`: an invoker that is being allocated or registered belongs to
  one frame. This is what makes the unlocked writes of its fields safe;
* `Launches`: the dependents a frame is going to launch are on hold, wait for
  nothing more, and no other frame has them: two priors that end together do
  not launch the same task;
* `Handles`: a handle task that has not run is the only one to register its task;
* `Sound`: no invoker is in the deque twice, the front is no hole, and between two
  entries the indexes grow by at least one and at most the distance of their
  places. The indexes need not be the places (see `cq_hole_wait`), but the slot that
  `try_invoke` computes from them is in the deque, and distinct for every entry.

`TableInv`: whoever resizes holds `destroy_mutex_` (`Mutex`), each thread in the table
has its place as index (`Entries`), and in each stage of a resize the length of
the table and `number_of_threads_` are known (`Table`); `ResizesInOrder` needs this
and `PriorInv`.

`PriorInv` is the argument for `TasksInOrder`. `Out(x)` is the set of entries for
`x` in lists of dependents whose prior has still to signal it. The counter of `x` is at
least its cardinality, less one while an entry has been appended and not yet
counted (`Counted`); that the counter may be -1 for a moment is the
reason for the difference. A prior of an invoker on hold is ready or has such an
entry (`PriorsMet`), and the priors still to be registered are in the frame's
list (`Registers`). So a task whose counter is 0 and that is not being
registered has no prior left. `Follows`: the frame that signals is where
its list says, so each entry is signalled once.

`WaitInv`: a thread that helps has each future of its call in its list, or that
future is ready, or it is the one that the frame above runs (`Helped`); a thread
that blocks does so on a waiter that has registered the others (`Blocked`). Then what
lies behind a call of `wait` in the program is ready for good (`Waited`).

`WakeInv` is `NoLostWakeup` and the three facts that keep it: a client's own calls
are its lowest frame (`Roots`); once the destructor has begun nobody else is inside
the queue or resizes it (`Closing`); a worker that has to go is not in `wait` any
more when it has been notified (`Dismissed`), so it cannot swallow the
`notify_one` meant for one that stays. The delicate steps are the worker that goes to
sleep, which has just seen an empty deque, and the resize, which hires or notifies
before it ends. The premise that there are threads is necessary: a
client may set their number to 0, and what is queued then waits for a later resize
or a `wait`.

### Task queues

The assumption is `TaskQueueAssumption` (at least one worker, sizes are
naturals). `strict_ordering` is chosen in `Init`; if it is set the buffer size is
ignored, as by the constructor (`buffer_size`).

**`ResultTaskQueueProofs`**: `TypeCorrect`; `StrictOrderKept` (the property
`StrictOrder`, from `StrictDropsNothing` and `StrictInOrder`); `OnlyOldDropped`
(`NewestWins`, from `ResultsIncrease` and `NewestNotLost`); `PopNeverFails`
(`PopSucceeds`); `DestructorRunsAll`. None of the properties is inductive, since what may still be
delivered depends on which ids are where. `IInv` adds:

* `QueueIsSuffix`: the queued ids are the last ones given out, without a gap
  (the buffer drops at its old end); `First` is the oldest of them;
* `OneHolder`: an id below `First` is held by at most one worker or stored;
* `ResultsAhead`: stored results lie between `next_result_id_` and `First`;
* `StrictHolds`: under strict ordering *every* id in that range is held;
* `NewestHeld`: with an empty queue the newest id is held;
* `PoppedBehind`, `InOrder`, `PopSucceeds`.

There is one lemma per action that moves a task or a result (`Push`, `TakeTask`,
`Finish`, and `Deliver` for `TryPop` and `PopTake`) and one (`MoveIInv`) for all
steps that only move a thread. That `Min` of a set of results exists is
`MinNat`, from the well-foundedness of `<` in the library.

**`VoidTaskQueueProofs`**: `TypeCorrect`, `CounterIsBacked`,
`DestructorRunsAll`, and `SoleWorkerFlush`: with a single worker `flush()` does
what its comment says, for every buffer size. `SoleInv` says that the counter is
a lower bound of every queued or running id; with two workers it is false.

**`TaskQueueProofs`**: facts about sequences of ids, and `ExitInv` (a worker
leaves only with `done_` set and the queue empty), used by both.

### Pointers

`CountsInv` adds to `PointersSound`: at most one pointer takes the object down,
and then nobody else has a strong reference (`OneTakesDown`); a `reset_` that has
read the counts of a unique reference and stores 0 without looking is alone with
the object (`UniqueIsAlone`), since nobody else has anything to copy from; and
`release_resources` was not called before the strong count reached 0
(`NotYetReleased`). The counts are cardinalities of sets of pointers, so the proof
needs how adding and removing one changes them (`Counting`).
`NeverRevived`: once the strong count of a live object is 0 it stays 0, although
weak pointers are still in the loop of `lock()`.

### The thread pool

`ScriptsAssumption` says which programs the theorems are about. A proxy is a
local object of the code that allocates it, as in the `std_thread` backend: no
other code uses it, it is joined and given jobs between `allocate_threads` and the
end of its scope, it is joined after its last job, and its destructor does run. A job object is made by one call
of `do_job`. The code that destroys the pool submits nothing afterwards.

`PoolInv` (`PoolIsConsistent`) is what `JobsRunOnce` needs:

* `Frames`: the frames of a thread are jobs at growing places of its job stack,
  each kept index names its job, and all but the innermost frame are in `join`;
* `Queues`, `Started`: a submitted job is in one place of one job stack until it is
  finished, and it has been started if it has a frame or is finished;
* `ChildrenBehind`: what a running job has queued on its own thread lies behind
  it. This is why erasing an inner job never moves an outer one;
* `Submitted`, `OwnProxies`: only calls that were made have submitted jobs; an
  allocated proxy has threads, and that of a job begins with the job's thread.

`DoneInv` adds what `JobsFinish` needs:

* `Settled`: a job submitted through a live proxy is finished, or its future is
  held, or it waits on the submitter's own thread, where `join` will run it
  (`Owed`). So whoever leaves `await` owes nothing;
* `Stored`, `Left`: a submitted job is finished or on some job stack, and what a
  finished job has submitted is finished or on a thread that still runs;
* `Closing`, `Closed`, `Gone`: during the destructor no client submits anything, a
  thread exits only then, and the stack of an exited thread holds nothing that a
  client submitted (a job may still submit to it: `Left` and the join of that job
  exclude that it stays there); after the destructor all threads have exited;
* `Working`, `Target`: a thread with frames is neither waiting nor gone; a call in
  the middle of an append still has the thread that it locked.

`UpInv` adds what `WaitsUpwards` needs, the argument why the pool cannot block
itself by waiting:

* `LeftDone`: what a finished job has submitted is finished, since its code joins
  every proxy after its last job; a proxy in scope has ancestors in scope;
* `Nested`: the parent of a job's proxies is the proxy that has run the job;
* `Segments`: the threads of a proxy and its ancestors are the first `m` of the
  pool, so the ones a nested proxy takes next are higher than all of them;
* `Above`: apart from the caller's thread, which comes first, a nested proxy has
  only higher threads;
* `Members`, `Aimed`, `Held`: a job is queued on a thread of its proxy, and if the
  proxy is nested and holds its future, not on the caller's.

`Ancestors(p)` is stated as the least set that contains `p` and the parent of each
of its members, which the provers can use without recursion.

`fill_threads_for_nested_proxy` is a recursive function. That its result begins
with the caller's thread (`Filled`) is shown by the least index at which it does
not.

### multi_threader

`SlotsInv`: a thread that runs is in its creator's books (`OwnThreads`); a set flag
is held by a thread or by the caller that is taking or leaving the slot
(`FlagsHeld`); if the callers take turns a slot with a thread has its flag and its
number (`TakingTurns`); `execute` has started the indexes that are not left
(`Executing`). `ThreaderUses` assumes that a global maximum is not negative:
`get_number_of_threads` tests it for `> 0` and `execute` for `!= 0`.

### The executor

`RunInv` relates the stage of a node's task to what it has seen: the node is
`Behind` its dependencies (everything upstream is ready when its task runs), what
it has `Progressed` to agrees with whether its work was called, failed or was
skipped, and a reported failure is one that happened (`FailureKnown`). The steps
that read the results map to a step of `GraphEvaluation`, all others to a
stutter.

### Sessions and their queues

`TraceInv` has two halves. *The lock*: a session is busy exactly while it holds the
`ProfilerLock` (`LockHeld`), so the place of the one busy session determines the
trace level, whether the registry records, whether a dead recorder is kept and
who is current (`RecorderAt`, `CurrentAt`); a failed start has to leave by the same
stages. An application that has started the recorder itself (`preactive`) confines
sessions to the stages of a failed start. *The queues* (`QueueInv`): the queue of a
thread that is between two pushes has a free slot in its end block (`Published`);
one that is inside a push has a slot more than `end_` shows (`Written`); pops, which
may come between any two of its accesses, keep both. `ClearBounded`: `clear()` reads
`end_` once and then pops without looking; nothing it pops later is unpublished.
`LateInv` adds the history `late`: a thread that has checked the level and not yet
recorded (`Committed`) has no late event if the recorder was stopped behind its back,
and one that has recorded a late event has to find the level again; `DrainIsBounded`
follows. `NothingLost` is a statement about the whole history of a run and stays with TLC.

### What the proofs do not cover

Checked by TLC only, because the provers have no way to it: liveness (`AllReturn`,
`QueueReturns`, `CallsReturn`, `StopReturns`, `ParallelReturns`), and what recursive
definitions and folds compute (`TableIsMap`, `TreeIsRight`, `GraphSound`,
`ResultsAreRight`, which compare with a reference by recursion; the byte counters in
`CacheSound` and `MetalSound`, `TrackerAgrees`, which are sums). `DestroyDrains`, the
safety part of `QueueReturns`, needs that tasks do not depend on each other in a circle,
an induction over the order in which they are pushed. Not proved yet:
`ParallelFor`, `Logger`, `RecordFunction`, and `NoEarlyReuse` and `SegmentsKept` of
the allocator. `DequeStaysSound` bounds the indexes of the deque; that a slot
computed from them is the task's own place is not a theorem, since it is false
behind a hole (`cq_hole_wait`).

## 5. Not modelled

* Logging: the backends that are other libraries (loguru, the default; glog,
  spdlog), formatting, exceptions and back traces.
* Models, Vectorization: floating-point numerics without control state. They
  and the formats of the profiler are most of the repository's lines.
* Exporters, analysers, report formats, the Kineto and ITT wrappers, stack
  unwinding: conversions of data, and other people's libraries.
* `small_vector`, `strong_type`, `array_ref`: containers and wrappers without
  behaviour of their own.
* `profiler_scope`, statistics and memory snapshots: reads, or counters that are
  written one by one.
* The scheduling inside OpenMP and TBB: theirs. The models allow any.
* Parts of modelled components: the `note` of each in `PROJECT.json`.

## 6. Plan

Proofs, in this order:

1. `ParallelFor`: the chunks cover the range once (`CoversOnce`).
2. `CudaCachingAllocator`: `NoEarlyReuse`, from the blocks that tile a segment.
