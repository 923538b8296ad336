# Bun's concurrent core in TLA+

This directory holds TLA+ models of the concurrent core of Bun: the work-stealing
thread pool with the lock-free and blocking structures everything stands on
(`src/threading`), the door between a JavaScript VM and other threads
(`src/jsc/VmHandle.rs`) with the life of a worker thread around it
(`src/jsc/web_worker.rs`), and, as a protocol client driven by an event loop, the
Valkey client (`src/runtime/valkey_jsc`). TLC checks the models on small
instances, TLAPS proves the central invariants for every size. Paths are
relative to the repository; `PROJECT.json` maps each definition to its lines.

    tlc -workers 2 -config PoolEvent.cfg PoolEvent      # one run
    tlapm PoolEventProofs.tla                           # one module of proofs

## 1. Inventory

### The system and its parts

Bun is one process with a JavaScript thread per VM, a pool of workers
(`WorkPool`, the bundler's and the installer's pools), an HTTP thread, a file
watcher thread and a handful of helpers. They communicate in three ways: tasks
scheduled on a thread pool, tasks pushed to an event loop's concurrent queue
followed by a wake-up of that loop, and plain shared state under a `Mutex`.

| Component | State | Operations | Used by |
|---|---|---|---|
| Thread pool (`threading/ThreadPool.rs`) | packed `Sync` word (idle, spawned, notified, state), stack of workers, global queue, per worker a queue, a ring buffer and an idle queue | `schedule`, `schedule_inside_thread_pool`, `warm`, `push_idle_task_to_each_thread`, drop; in the workers `wait`, `pop`, `notify`, `unregister` | bundler, installer, file system, crypto, compression |
| `Event` (same file) | one futex word: two state bits and an epoch | `wait`, `notify`, `shutdown`, `wake_all` | the pool's idle and join events |
| `node::Queue` (same file) | tagged head pointer with two flags, a cache cell | `push`, `try_acquire_consumer`, `Consumer::pop`, release | the pool's queues |
| `node::Buffer` (same file) | ring of 256 slots, wrapping head and tail | `push` with overflow, `pop`, `consume`, `steal` | the workers |
| `UnboundedQueue` | `front`, `back`, intrusive links | `push`, `push_batch`, `pop`, `pop_batch`, `is_empty` | event loops, HTTP thread, installer |
| `Mutex`, `Condition`, `WaitGroup` | a futex word; a word and an epoch; a count, a mutex and a condition | lock, unlock; wait, timed wait, signal, broadcast; add, finish, wait | everywhere |
| `ResetEvent`, `Semaphore`, `RwLock`, `Channel`, `SignalRing`, `io_thread_pool` | small words, counts, rings | set/wait, post/wait, read/write, send/receive, enqueue/dequeue, acquire/release | bundle thread, resolver, macros, signal handlers |
| VM handle and jobs (`jsc/VmHandle.rs`, `jsc/job.rs`) | state (Open, Stopping, Draining, Closed), count of tickets, count of threads in the gate, a mutex and condition | `ticket`, `post`, `stop`, `request_termination`, `close_and_wait`; a job's completion | every thread that hands something to a VM |
| Web workers (`jsc/web_worker.rs`, `jsc/VirtualMachine.rs`) | the worker's VM and its published handle, `requested_terminate`, `terminated_by_parent`, `exit_called`, the count of unhandled errors, whether the exit handlers were dispatched | start, spin, `on_before_exit`, `terminate()`, `process.exit()`, uncaught errors, shutdown, teardown, join | `new Worker` |
| Event loop (`jsc/event_loop.rs`, `event_loop/`) | task queue, concurrent queue, deferred tasks, timers, wake-up | tick, enqueue, poll | JavaScript threads |
| Valkey client (`runtime/valkey_jsc/`) | connection status and flags, socket, offline queue, unanswered commands, write buffer, two timers, retry count | connect, send, close; callbacks for open, data, writable, close, dial error, timers, deferred flush and deferred close | `Bun.redis` |
| I/O (`io/`) | poll registrations, pipe readers and writers with buffered data | register, read, write, close | sockets, processes, files |
| HTTP client (`http/`) | queues of requests, writes, aborts and resumes, keep-alive pool | schedule, drain, start, abort | `fetch`, installer |
| Watcher (`watcher/`) | watch list, eviction list | add, remove, flush, shutdown | `--watch`, dev server |
| Installer, SQL clients, runtime, bundler | tasks in flight, connection states, JavaScript objects, syntax trees | | |

### What is hard

* Lost wake-ups. A thread looks, finds nothing, and goes to sleep; another puts
  something there and looks for sleepers. Every primitive has its own word
  layout for this (epochs, CONTENDED, the notified bit) and its own argument in
  comments. No test reaches the window.
* Roles handed from thread to thread: the pool's single *waking thread*.
* Lifetimes that end with a signal: the group freed when `wait()` returns, the
  pool freed when `join()` returns, a worker's stack frame freed when its join
  event is notified.
* Broken intermediate states: the unbounded queue between swap and link, the
  ring buffer while a thief copies slots the owner may overwrite.
* Numbers that wrap: ring indices, 14-bit counts, epochs.
* A thread the operating system refuses to create after it was counted.
* A VM that is destroyed while pool jobs, fetches and other threads hold pointers
  to it: two store-load pairs between the teardown and everybody else, and a
  post that chose whom to wake by a state that changes before it wakes.
* `terminate()` at any moment of a worker's life, against the worker ending by itself:
  by running dry, by `process.exit()`, by an error nobody handled. A worker has two event
  loops, and runs its exit handlers in one of three places.
* A protocol without names on its replies, over connections that are lost, redialled
  and closed, with script that may run inside the handling of any reply.

`PROJECT.json` lists these as hazards, each at its line with the properties that
watch it.

### What makes each part correct

| Part | Correct when |
|---|---|
| Thread pool | no task is lost, run twice or left behind while the workers sleep; exactly one waking thread; the counts in the word are exact; drop returns, and only when no worker uses the pool |
| Event | behaves like a one-token event; an idle task reaches a sleeping worker; shutdown releases all |
| Run queue | a bag of nodes with one consumer at a time |
| Run buffer | each task leaves once, in spite of stale reads and wrapping indices |
| Unbounded queue | first in, first out; no node is returned while a producer will still write to it |
| Mutex | a lock without deadlock |
| Condition | signals never exceed waiters, none is lost |
| WaitGroup | `wait()` returns after every finisher's last access, and does return |
| VM handle | a freed VM is out of everybody's reach, everything posted is run, released or refused, the teardown does not rely on its timeout |
| Web worker | asked to terminate, it ends and is joined; stopped by its parent, it begins no exit handlers; it does not end while a job it started is out; neither of its polls is slept through |
| Valkey client | a reply settles the command it answers; commands keep their order over reconnects and none is lost; one dial at a time; every promise is settled |

## 2. Modules

| Module | Models | Abstract specification |
|---|---|---|
| `PoolEvent` | `Event` of `ThreadPool.rs` | `BinaryEvent` |
| `ThreadPool`, `MCThreadPool` | the pool, workers and drop; its safety run, with symmetry | |
| `MCStranded` | one schedule of `ThreadPool` with four workers (section 4) | |
| `NodeQueue` | `node::Queue`, `node::Consumer` | `TaskBag` |
| `RunBuffer` | `node::Buffer` | |
| `UnboundedQueue` | `unbounded_queue.rs` | |
| `FutexMutex` | `FutexImpl` of `Mutex.rs` | `Lock` |
| `Condition` | `FutexImpl` of `Condition.rs` | |
| `WaitGroup` | `WaitGroup.rs` | |
| `VmHandle` | `VmHandle.rs` and the tickets of `job.rs` | |
| `WebWorker` | `web_worker.rs`, with the loop's ticks and poll, `on_before_exit`, uncaught errors, `process.exit()`, on_exit and teardown; extends `VmHandle` | `VmHandle` |
| `ValkeyClient` | `valkey.rs`, `js_valkey.rs` | |
| `PoolEventProofs`, `ThreadPoolProofs`, `NodeQueueProofs`, `RunBufferProofs`, `UnboundedQueueProofs`, `BlockingProofs`, `WebWorkerProofs`, `ValkeyProofs` | theorems; `BlockingProofs` is about `Condition`, `FutexMutex` and `WaitGroup`, `WebWorkerProofs` about `VmHandle` too | |

Composition is by contract. `ThreadPool` uses `Event` as the one-token event
that `PoolEvent` is shown to implement, and its queues and buffers as counted
pools, which is what `NodeQueue` (through `TaskBag`) and `RunBuffer` provide.
`WaitGroup` and `Condition` use the mutex as `Lock`, which `FutexMutex` is shown
to implement.

`WebWorker` is composed with `VmHandle` step by step: each of its actions conjoins one
of the door's actions, or leaves the door alone, with a change of the worker's own
state. That the composition is a behaviour of the door is the theorem
`WorkerUsesDoor`, so what is proved of the door holds of every worker.

### Conventions

* A thread's position in a function is its `pc` (`at` in `FutexMutex`, `stage` in `WaitGroup`:
  three modules that one module of proofs extends have no names in common). One
  action is one atomic access to shared memory, with the private computation around it.
* The interleaving is sequentially consistent. Memory orderings are not
  modelled: where the code's comments argue about a barrier, the model shows
  that the *order* the barrier enforces is the one that is needed.
* A load followed by a `compare_exchange` loop on the loaded value is one step on
  the current value: a failed exchange reloads and retries, which changes nothing.
  Where the code uses a loaded value for something else before the exchange (a
  thief's copy of slots, `pop` of the unbounded queue), load and exchange are
  separate steps.
* A futex wait compares and sleeps in one step. A sleeper may wake spuriously
  (a signal) at any time, and a wake picks any sleeper.
* Actions named like `...Quietly`, `...Beyond`, marked *Faulty* in their comment,
  are not part of any specification. They are plausible mistakes in the action
  that follows them; each property is checked to fail when its mistake is put in.

### State and actions

`PoolEvent`. The word is split into `state` (low two bits) and `epoch` (the rest);
`seen` is the epoch in the waiter's copy of the word, `acquire_with` and `is_idle`
are the locals of `wait()`. `Enter`, `ReturnShutdown`, `Consume`, `Arm`,
`DrainIdle`, `FutexWait`, `Timeout` are the steps of `wait()`'s loop; `Notify` and
`WakeOne`, `Shutdown` and `WakeEvery`, `WakeAll` and `WakeEvery` are the two halves
of the other calls: the change of the word and the futex wake. `idle_queue` is
whether the worker's idle queue has a task. Hand-over of heaps to the allocator's
scavenger is left out.

`ThreadPool`. `sync` is the packed word as a record. Tasks are alike, so `run_queue`,
`local_queue` and `run_buffer` are counts, and `hold` counts tasks taken from one
place and not yet visible in another (`consume` and `steal` publish the tail after
they claimed). `NotifyFast`, `NotifySlow`, `PostIdle`, `Spawn`, `SpawnFails`, `Unspawn`
are `notify`; `Register` to `SleepDrains` are `run` and `wait`; `PopBuffer` to
`PopNothing` are `pop`; `Unregister` to `Chain` are `unregister`; `DropPool` to
`SignalFirst` are drop with `shutdown` and `join`. A running task may schedule more,
on the global queue or inside the pool. The statistics, thread names and the
wrappers `each*` and `CountedTask` are left out: they schedule through these
actions and keep no state of the pool. A consume takes its nodes in one step
(`NodeQueue` has the detail).

`NodeQueue`. `stack` is the tagged pointer as a record; `cache` the non-atomic cell;
`local` the consumer's pointer. Nodes are real links (`next`), so a lost or shared
list shows as a difference between what is reachable and what is `owned` outside.

`RunBuffer`. Slots, indices modulo `IndexSize`, the owner's and each thief's locals.
`taken` is the history of tasks that left, in order.

`UnboundedQueue`. `PushSwap` and `PushLink` are the two halves of `push_batch`;
`PopFront` to `PopSetFront` are `pop`, `Batch...` are `pop_batch`. `order` and `popped`
are histories.

`FutexMutex`. `TryLock` is `fetch_or` on x86-64 and a compare-exchange elsewhere,
which act alike on this word. `SlowLoad`, `FutexWait`, `SlowSwap` are `lock_slow`;
`Unlock`, `WakeOne` are `unlock_raw`.

`Condition`. `waiters` and `signals` are the halves of the word. `WaitLoadEpoch`,
`WaitRegister`, `WaitUnlock`, `FutexWait`, `WaitReload`, `WaitConsume`, `WaitAgain`,
`TimedOut`, `Relock` are `wait`; `signal` and `broadcast` reserve, then `WakeBump` and
`WakeFutex` follow.

`WaitGroup`. `FinishFast` is the lock-free path, `FinishSlow` to `FinishUnlock` the one
under the mutex. A task still counted may add more. The owner may free the group or
use it again when `wait()` returns.

`VmHandle`. `state`, `tickets`, `active` are the atomics of the shared part; `task` is where
each completion or post is: in the concurrent queue (`queued`), in the loop's own
(`taken`), `run`, `released` unrun by the teardown, or `refused` to its poster. `Issue` to
`LastOut` are what a job or a poster does, one atomic access a step: `Enter`, `Admit`,
`Refuse` are the gate; `Push`, `ChooseWake`, `Wakeup`, `Notify` are `deliver`; `Drop`, `Leave`,
`LastOut` the two drops. `js` is the JS thread: running, or its place in
`close_and_wait`, from `Drain` to `LastService`. The condition's mutex is held from
`LockDrained` to the wait. A release during the teardown may start more work (`Service`).

`WebWorker`. `worker` is the thread's place from `start_vm` to the join, `parent` the
parent's in `request_termination`, which holds the lock of `vm_handle` throughout.
`RequestFlag` to `Return` are the parent; `Begin` to `SpinBegins`, `EntryFails`, `EntryLoaded` and
`EntryRejected` are the start. The thread has two event loops with the same turns
(`TickTake`, `TickRun`, `TickEnds` are `tick`; `PollReady` to `IoEvent` are `auto_tick_active`), and
`drain` says which one a turn belongs to: `LoopTest` is the head of spin()'s loop, which the
flag ends; `DrainTest` the head of the loop in `on_before_exit`, which the handle's state ends
and which dispatches `beforeExit` again when it ran dry after a turn (`drain` is `"ran"` then).
`ToldToEnd` is the test in the middle of a turn of either. `errors` is whether an unhandled
error was counted, which makes either loop dead.

Exit handlers run in three places. In shutdown() they have a place of their own, with the
handle unpublished. An error nobody handled (`NotHandled`: by `Uncaught` from any script, by
`EntryRejected` from the entry's promise) runs them at once, inside whatever the thread was
doing, with the handle published and its lock free: `ending` is `"last words"` until
`LastWordsDone` sets the flag and stops the VM. `process.exit()` does the same with
`"exiting"` (`ExitBegins`), until `reallyExit()` is reached (`ExitEnds`) or the trap of a
`terminate()` ends them first (`ExitCut`). `m_isExiting` lets only the first of these run
them. `TrapRaised` is that the parent's request has raised the trap, `TrapPossible` that it
may have: the raise lies between two steps of the door. While `ending` is not `"none"` the
worker's other steps wait. Script may start jobs, listen, throw, exit or fail wherever script
runs. `kept` are the jobs a loop can still see, which are all but those the exit handlers
of shutdown() start; `asked` records that the parent asked through a published handle.

`ValkeyClient`. One thread, so a callback is one action; its effect on the client is
composed of functions on the record `client` named like the methods (`on_close`,
`close`, `fail`, `reconnect`, `enqueue`...), because these call one another: closing a
socket runs its close callback before it returns. The kernel chooses how many
requests of the write buffer it takes (`Flushes`), whether a dial succeeds, fails later
or fails outright; the server answers in order, with an error to HELLO or SELECT or
something malformed to a command, or drops the connection. `turn` marks the place inside `on_data` where script resumed
by a reply runs before the rest of the callback. All combinations of the options
`autoReconnect`, `enableOfflineQueue`, `enableAutoPipelining` and a database to select are
initial states.

## 3. Runs

| Run | Instance | Shows |
|---|---|---|
| `event` | 2 waiters, 2 callers, 2 `wake_all` | a sleeper is never forgotten (`NoLostNotification`), not by shutdown (`ShutdownWakes`), not with an idle task (`NoStrandedIdleTask`, `IdleTaskRuns`); refines `BinaryEvent` with its liveness |
| `pool` | 2 workers (symmetric), 1 client, buffers of 2, 4 tasks in batches of up to 3, or 3 tasks and one push of idle tasks | `SyncCounts`, `OneWakingThread`, `TaskConservation`; nothing is left in the global queue or a run buffer while the workers sleep (`NoStrandedTask`); a worker's victims and the pool itself outlive their use (`NothingDangles`); idle tasks run before their worker ends (`IdleTasksRunBeforeExit`) |
| `pool_live` | 2 workers, 1 client, 2 tasks, no idle tasks | every task is run (no queue overflows here, see section 4), drop completes |
| `pool_join` | smallest that shows it | the finding below |
| `run_queue` | 4 nodes, 2 consumers | the cache is exclusive, flags and cache agree, nothing is lost; refines `TaskBag` |
| `run_buffer` | capacity 4, indices modulo 8 starting at 6, 5 tasks, 2 thieves | each task is taken once, sizes stay in bounds, nothing is lost |
| `unbounded_queue` | 3 nodes, reused, 2 producers, 6 pushes | order, the code's own assertions and links (`LinksAreSafe`), everything pushed is popped |
| `mutex` | 4 threads | exclusion, no lost waiter; refines `Lock` with its liveness |
| `condition` | 3 threads, 3 wakes | `signals <= waiters` and no lost signal (`NoLostSignal`), signals are consumed |
| `wait_group` | 4 tasks, groups reused | safe to free, `wait()` returns |
| `web_worker` | 1 job, 1 poster, the parent | the VM is freed out of reach with empty queues, its teardown is not slept through; jobs are completed with script, those of `beforeExit` listeners too; no exit handlers begin in a stopped worker; the polls of both loops have their waker; termination ends in the join; what is posted is handled |
| `valkey` | 2 pipelined commands and 1 that is not, 1 retry, 2 `connect()`, 1 lost connection, any number of `close()` and failed dials | replies match, order is kept, serial commands wait, one dial, promises are settled |

Each module has one type invariant; it is checked as a conjunct of the first
invariant that relates the same variables (for instance `SyncCounts`, `PendingInOrder`).

Why the bounds are enough. The arguments are pairwise: a sleeper, a waker, and one
thread that interferes. Two waiters and two callers (three or four threads where all
are alike) have all of these. In `pool` a batch of 3 overflows a buffer of 2, so
migration, the local queue, refilling with `Capacity + 1` nodes and stealing all
happen, and the pool is at `max_threads`. The epochs are bounded by the number of
calls and do not wrap; in `run_buffer` the indices do wrap. There, tasks are fewer
than `IndexSize`, because with a tiny index range a stalled thief would meet its old
head again after few tasks; in the code that takes 2^32 of them during one steal.
`run_buffer` does not check for deadlock, since it ends when its tasks are used up.
In `web_worker` one job and one poster are on both sides of each counter going to
zero, with the worker in either loop or at any moment of its exit handlers (575 thousand
states); that a second holder changes nothing is
what the proofs say for any number. In `valkey` two pipelined commands and one serial
command stand in every order, and one retry with one drop gives a connection that
is lost, redialled, and lost for good. A lost connection with commands both on the
wire and in the write buffer, and a `connect()` during the retry delay, both occur.

Fairness. Weak fairness for a thread inside a call of the library: the operating
system schedules threads that can run. None for callers' decisions (to schedule, to
drop, to notify), for timeouts, or for spurious wake-ups, so nothing depends on
them. The tasks of the pool and critical sections are assumed to end. In
`UnboundedQueue` the consumer is assumed to drain, as event loops do. In `WebWorker` the
worker, the parent inside `terminate()` and the other threads are weakly fair: script ends,
also that of a `beforeExit` listener or an exit handler, though it need not throw, exit or
stop to listen. Notifying is strongly fair: the teardown may take the condition's
mutex again and again, and the mutex is assumed not to starve the notifier for ever. Nobody need
terminate, exit or post, and the timeout of the teardown's wait is not assumed. In
`ValkeyClient` the kernel ends dials and takes data, the server answers, timers and queued
tasks run; script need do nothing, and the connection timeout need not fire. A server
that stops answering on an open connection is therefore outside `PromisesSettle`
(the code bounds it with the idle timeout only when one is configured).

## 4. Findings

`pool_join`, `ThreadPool.rs:1036`: "`pool` is live until this notify wakes the joiner".
`join()` skips its wait when the word already says Shutdown with nobody spawned,
which the last worker's `fetch_sub` makes true before that worker notifies. The pool
may be gone by then. TLC finds the interleaving.

A task left in a worker's own queue, `ThreadPool.rs:1357`. `pop` is allowed to miss
("Spurious reports of dequeue() returning empty are allowed", 1331) because whoever holds
a contended queue publishes what it took and notifies another worker. That worker looks
everywhere, "our own queue" included (1379), so `schedule`'s promise of a batch "to be
executed by some thread" (701) holds. It does not when a worker registers during
the look: `num_threads` is loaded once, the walk starts at the head of the stack, and a
worker that `warm()` adds is pushed there, so the walk of three steps visits the
newcomer and never gets to the oldest worker. If a consumer left part of that
worker's queue behind (it takes `Capacity + 1` nodes at most), and its owner found the
queue contended and went to sleep, then every worker sleeps, nobody is on the way, and the
tasks wait until something else is scheduled. The schedule has 107 steps, four workers,
buffers of 2 and 6 tasks:

    tlc -config ThreadPoolStranded.cfg MCStranded       # QueuedIsRun is violated

`MCStranded` fixes whose turn it is; the steps are those of `ThreadPool`. A search of
all interleavings of an instance that large is out of TLC's reach, so `pool` does not
meet it; the attempt to prove it for every pool did. It is not among the runs of
`PROJECT.json`, as it asks about one schedule only. `NoStrandedTask` therefore speaks
of the global queue and the buffers, and `pool_live` has an instance without overflow.

Two smaller disagreements, seen while reading and not among the runs:

* `web_worker.rs:1373`: `stopped_by_parent()` is `terminate()` of a worker that "did not also
  exit on its own (process.exit / uncaught error)", the case in which "no exit handlers
  run". It tests `exit_called`, which an uncaught error never sets and `process.exit()` sets
  after its handlers. A `terminate()` during those handlers makes it true of a worker
  whose handlers have run. In the model, `worker = "on exit" /\ stopped_by_parent /\ m_isExiting`
  is reachable (an error, `RequestFlag` during the last words, `MarkStopped`, `Unpublish`).
  `StoppedRunsNoHandlers` therefore speaks of when handlers *begin*.
* `docs/runtime/redis.mdx:281`: `enableAutoPipelining: false` is said to disable automatic
  pipelining. `send()` then waits, but commands that were queued are still written together:
  `send_next_command` (`valkey.rs:735`) registers the flusher whatever the option says.
  `SerialCommandsWait` is about commands that may never be pipelined, whatever the option.

## 5. Proofs

Each theorem is about the safety part (`SafeSpec`, `MutexSafeSpec`, `GroupSafeSpec`; `WSpec`
and `Spec` where no fairness is part of them) of the specification that TLC checks, for
every value of the constants that meets the module's ASSUME. The assumptions say that bounds are naturals, that model
values differ, and that sets whose members are counted are finite: threads of
`Condition`, workers and clients of `ThreadPool`, nodes of `NodeQueue`, tasks of
`WaitGroup`, jobs and posters of `VmHandle`, commands of `ValkeyClient`. In `RunBuffer` the
capacity is even and divides `IndexSize`, as 256 divides 2^32, and there are fewer tasks
than indices.

* `PoolEventProofs`. `Typing`, `LostNotification`, `ShutdownReleases`,
  `IdleTaskNotStranded`, `Refinement`. The invariant is
  `TypeOK /\ NoLostNotification /\ ShutdownWakes /\ EpochInv`. The first three are
  inductive given the types. `NoStrandedIdleTask` is not: it allows the wake of
  *some* `wake_all`, which might be one that started earlier. `EpochInv` says which:
  a sleeper under an old epoch is about to be woken by the call that moved it on, and
  an idle task behind a sleeper's drain under the current epoch belongs to a call
  that has not moved it on yet. `Refinement` maps each step to a step of
  `BinaryEvent` or to a stutter.
* `ThreadPoolProofs`. `SyncWordCounts`, `WakingRoleIsUnique`, `TasksAreConserved`,
  `NothingEverDangles`, `IdleTasksAreRun`, `NothingIsStranded`. The invariant has layers, each
  kept by a step given those below. `Shape`: types, and what a thread holds at each place.
  `Counted`: `spawned` and `idle` are the sizes of sets of threads; beside it, given `Shape`
  alone, the waking role. `Kept`: tasks scheduled equal tasks
  run, queued, in hand and held between two places. `Searching`: the counter of the
  steal loop is at most the number of workers and positive only where there is a
  list to walk. `Closing`: what each place of shutdown and unregister says about the
  word. `Linked` and `Chained`: the stack of workers is one list of those registered,
  and a worker has been signalled only by the owner or by the worker above it, so its
  frame is there when it is. `NoStrandedTask` is a statement about a moment; what lies
  behind it is `Woken`: a task in the global queue has its notification in the word, a
  thread about to put it there, or a worker that will look before it waits; and a
  notification while somebody sleeps has a token, a thread about to post one, or a worker
  that is up. It needs `Emptied` (whoever has taken from the global queue will publish, and
  no worker sleeps on its own buffer) and `Roles` (the waking role is with a worker that is
  up, and only one that counts itself idle sleeps). The steal loop is not part of the argument,
  which is why it does not extend to the workers' own queues.
* `NodeQueueProofs`. `NodesAreNeverLost`, `QueueIsBag` (`ImplementsTaskBag`). The invariant is
  that one consumer at a time has the list (`Exclusive`) and that there are two disjoint
  linked lists, the stack's and the consumer's, that have all nodes without an owner
  (`TwoLists`). A list is a finite sequence of distinct nodes along `next`; that the
  property's walk along the links visits exactly its nodes (`ListWalk`) is shown by
  taking the least number of steps after which it would not.
* `UnboundedQueueProofs`. `QueueIsFifo`, `LinksStaySafe`. The list is broken between the swap
  and the link of a push, so the invariant speaks of positions in the history `order`:
  what was returned is a prefix (`Prefix`); between two neighbours there is the link or
  exactly one producer that owes it (`Segment`, `Gaps`); where the part begins that later
  pushes will be linked to, which is the front or, in the middle of `pop_batch`, the
  end of the batch (`Segment`); and what the consumer's locals are at each place (`Phase`).
  Nodes may be pushed again after they were returned, so the histories have
  repetitions; only the nodes still queued are distinct (`Distinct`).
* `RunBufferProofs`. `Invariance`, `HandsOutOnce`, `KeepsAll`, for every even capacity and every
  start of the indices. Indices that wrap are first traded for positions that do not: `Abs`
  counts from `FirstIndex`, and since there are fewer tasks than `IndexSize` a position
  determines its index, while positions less than `Capacity` apart have different slots.
  `Order`: head and tail are at most `Capacity` apart, and the owner's loaded values lie
  where its place in `push` or `pop` says. `Stealing`: as long as the head has not moved
  since a thief loaded it, what the thief copied is still what the slots hold, so that
  its exchange takes the tasks that it copied. `Placed`: each task scheduled is in exactly
  one place: a live slot (buffered, stored and not published, or claimed by the owner),
  the owner's list, or the history of tasks handed out.
* `BlockingProofs`, about `Condition`. `SignalsNotLost`. `NoLostSignal` counts every thread
  that will look before it sleeps; it is not inductive, because a waiter that has loaded
  the current epoch may sleep on. `Announced` is the sharper count that is: signals are
  covered by the waiters that have not seen the current epoch and by the wakers that have
  yet to change it. `EpochBounded`: nobody has an epoch of the future.
* `BlockingProofs`, about `FutexMutex`. `Exclusion`, `WaiterNotLost`,
  `MutexIsLock` (it implements `Lock`). The invariant is
  `MutexTypeOK /\ MutualExclusion /\ NoLostWaiter`; `MutualExclusion` includes that the word is
  UNLOCKED exactly when nobody holds it.
* `BlockingProofs`, about `WaitGroup`. `Counting`, `SafeToFree`. `FinishedBeforeReturn` needs
  three more conjuncts: the count is the number of outstanding tasks, the steps under the
  mutex are those of its holder, and the owner past its check has seen zero under the
  mutex.
* `WebWorkerProofs`, first part, about `VmHandle`. `FreedIsUnreachable`, `QueuesEmptied`,
  `TeardownIsNotified`. `IInv` adds to the three properties: the counters are the
  cardinalities of the sets of ticket holders and of threads in the gate (`Counts`);
  the JS thread's place determines the state (`Phase`); no ticket is out once the
  teardown has seen none, and nobody is admitted once the gate was found empty
  (`Shut`), which is what the two store-load pairs buy; only posters are ever at the
  gate (`JobsHoldTickets`). `Coming` is `SleeperHasNotifier` strengthened to the moment the
  mutex is taken: what is pushed after the look under the mutex already has a
  notifier that cannot get in before the wait.
* `WebWorkerProofs`, second part. `WorkerUsesDoor`: `WSpec => Spec`, each step of the worker
  a step or a stutter of the door; `WorkerVmIsSafe` follows. The worker's own invariant
  `WorkerInv` is the door's with `LockProtocol` and `Polling`. `LockProtocol`: while the parent
  is in `request_termination` the handle is published; whoever was asked through a
  published handle is marked when the lock is free; and errors and `process.exit()` run
  handlers only while the handle is published. `Polling`: a worker in a loop that was told
  to end and is not stopped has its parent still at it, which is what ties the flag, which
  ends the first loop, to the state, which ends the second; and `PollerHasWaker` reaches
  back to the moment the worker decides to poll, since what arrives after its last look
  sets the wake-up. From it `SleepingWorkerIsWoken`, for both polls, and `StoppedIsSilent`, an
  action property: the step that begins exit handlers is one of an unasked worker, or of
  one whose parent has not raised the trap. `KeptJobsComplete` from `Completing`, which is
  invariant given the rest: a kept job is out with its ticket, queued, taken or run as
  long as the worker was not told to end, past the loops there is none that still waits,
  and an error counts only with the flag set or its handlers running.

* `ValkeyProofs`. `ClientInvariance`, `AnswersFindTheirCommand`, `PendingKept`,
  `SerialCommandsAlone`, `DialsOneAtATime`, `SettledOnlyOnce`, for any number of commands,
  retries, lost connections and calls. `Good(client)` is kept by every function on the
  client's record, one lemma for each, since they call one another. Its parts: `Typed`;
  `Dials`, who owns the next connection (a socket, a queued close and an armed retry
  exclude each other, and a client that gave up has no command and no promise);
  `Replies`, the requests sent or buffered are what is left of the handshake and then
  the commands in flight; `Serial`, only the oldest in flight may be one that must not be
  pipelined. `Ledger` keeps the books: the pending commands are those whose promise
  waits, each once, in the order of `send`. An action may do three things to the
  queues, and each keeps the books: some leave an end, the oldest is answered, one is
  added behind. `SettledOnlyOnce` is an action property that no run has: a promise that
  was answered or rejected stays so.

So every invariant that a run checks is a theorem too. Only model-checked, and why:

* all liveness, including the liveness of the refinements with fairness: out of the
  prover's reach;
* `QueuedIsRun` (section 4), which the code does not have.

## 6. Plan

Done: the modules above. Left, in this order:

1. Proofs: a bound on what may be left in a worker's own queue when nobody registers
   during a search.
2. The remaining primitives: `ResetEvent`; `Semaphore` and `RwLock` over `Lock`;
   `Channel` over `Lock` and `Condition`; `SignalRing`; the reference count of
   `io_thread_pool`.
3. The HTTP thread: its queues and drain order, aborts against starting requests,
   the keep-alive pool.
4. `MiniEventLoop` and `DeferredTaskQueue`; `PipeWriter` with partial writes and close; the
   watcher's evictions and shutdown; the SQL clients' pipelines; the installer's
   task counts.

## 7. Not modelled

* Futex system calls per platform, the Windows and macOS variants of `Mutex` and
  `Condition`: operating system primitives, used through their contracts.
* Memory orderings weaker than sequential consistency.
* Statistics, thread naming, allocator hand-over, debug owner checks.
* Of the VM handle: the macro loop, the test gate, keep-alive deltas sent through a
  handle. One caller clones a ticket on a pool thread (`shell/builtin/cp.rs:831`), which
  `Issue` leaves out: the cloner holds a ticket, so the count is not zero before or
  after, and the new holder is one that the thread could have started itself. That a
  release in the last service() starts no work (`LastService`) is the contract of
  `ticket()`, asserted in debug builds (`VmHandle.rs:523`).
* Of workers: stdio and message ports, event loop utilization, nested workers, a
  configuration that fails before the VM is built. An error thrown by an
  `uncaughtException` listener takes `Uncaught`'s path without being counted; the flag it
  sets ends the worker all the same. A stop that falls between the two tests of an
  uncaught error (`VirtualMachine.rs:2218`, `web_worker.rs:1460`) leaves an error counted
  in a worker that is stopped anyway. `--hot` and the test runner are not for workers here.
* Of the loop: timers, immediates and microtasks, except as moments at which script runs;
  immediates keep a loop alive as `server` does, but do not let it sleep.
* Of the Valkey client: TLS, subscriptions, the finalizer, disposed contexts, a VM that is
  exiting (on which `reconnect` returns at once, `js_valkey.rs:1155`, and leaves `connect()`
  pending), and the wire format (a request is a model value; a partial write takes whole
  requests; a malformed reply is one `Reply` may turn out to be).
* Parsers, printers, the bundler's and resolver's data, the type checker, wire formats
  and bindings to JavaScriptCore: transformations of large data, or state that lives
  in the engine. They are most of the repository's lines.
