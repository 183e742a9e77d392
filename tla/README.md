# TLA+ models of MicroErrorFramework (VOSP)

This directory specifies the stateful parts of the library: the worker pool of
`include/vosp/worker_pool.hpp`, the synchronous and asynchronous loggers and
the text sinks of `include/vosp/logger.hpp`, and the registers and systems of
`include/vosp/error.hpp`. Each module is written from the source, one action
per access to shared state, and its definitions keep the source's names (the
trailing `_` of members is dropped).

## Inventory

| Component | State | Operations | What is hard |
| --- | --- | --- | --- |
| `IndustrialWorkerPool` (worker_pool.hpp 86-691) | ring `tasks_`/`queue_head_`/`queue_tail_`, packed `queue_state_`, `producer_mutex_`, `consumer_mutex_`, `shutdown_mutex_`, `workers_`, waiting counters, `completion_epoch_` | `submit`, `dispatch`, their cancellable forms, `dispatch_bulk`, `wait`, `clear_queue`, `shutdown`, the worker loop | two mutexes for one ring, sleeping on one atomic word by two kinds of thread, the idle handshake, bulk claims, cancellation against execution, shutdown from a worker |
| Sync and parallel `Logger` (logger.hpp 338-553) | `sinks_`, `mutex_`, `callback_mutex_`, `single_non_owning_sink_` | `attach`, `detach`, `write`, `write_owned` | the fast-path pointer is read without the mutex; delivery works on a snapshot |
| Async `Logger` (559-734) | `queue_`, the worker's `batch`, `batch_active_`, `stopping_`, three condition variables, `shutdown_mutex_` | `write`, `flush`, `shutdown`, the worker loop | flush against a swapped-out batch, shutdown against blocked writers, callbacks that call the logger they serve |
| Text records (750-794) | a 512-byte prefix | `prepare_text_record` | the boundary between the buffered and the referenced message |
| Immediate and buffered `Sink` (816-1039) | per-thread shards, flush threshold, output lock | `write`, `flush` | a stream that fails or throws in the middle of a flush, the thread-local shard cache |
| `Error`, `Result`, `attempt` (error.hpp 30-203) | values | conversions | none that is stateful |
| `Register` (282-483) | errors by code, limits, a mutex or none | `add`, `remove`, `contains`, `find`, `snapshot`, `clear`, `reserve` | order of the duplicate and the capacity check; without a mutex, who keeps two calls apart |
| Handlers and `System` (498-746) | the routing table with its mutexes, shared ownership of the handler, an executor | `add`, `remove`, their asynchronous forms, destruction | routing locks; order of operations on several workers; a system destroyed before its operations have run |
| Tests, benchmarks, fuzzing, packaging | none | | not part of the library |

How they interact: an asynchronous `System` submits each operation to its
executor, normally the worker pool, and returns the future. The asynchronous
`Logger` owns a parallel `Logger` as backend and calls its sinks from one
thread. Sinks and tasks are user callbacks; they run on the library's threads
and may call the library again. Threads share state only through the mutexes
and atomics listed above.

What makes each component correct:

- pool: tasks are accepted in order and at most `queue_capacity` wait; each is
  executed or cancelled, once; nothing is accepted after the stop; `wait()`
  and `shutdown()` return only when they may, and do return; no accepted task
  is stranded and no submitter stays blocked while there is room;
- async logger: delivery in order of acceptance, bounded buffers, `flush()`
  and `shutdown()` cover everything accepted, nobody is left sleeping;
- sync logger: a detached sink is not selected again, delivery reaches every
  attached sink, callbacks are serialized where promised, a sink that may still
  be called exists;
- sinks: a line is never torn apart by another one, each producer's lines keep
  their order, and an accepted record reaches the stream or its loss is reported;
- register and system: one error per code, limits kept, every operation takes
  effect at one moment, each future tells what happened to its operation.

## Plan

Written, in this order: `PoolContract`, `WorkerPool`, `AsyncLoggerContract`,
`AsyncLogger`, `SyncLoggerContract`, `SyncLogger`, `TextRecord`, `StreamSink`,
`ErrorRegistry`, `ErrorSystem` (over `PoolContract`), each followed by its
proofs. What could follow:

1. `SyncLogger` as the backend of `AsyncLogger` in one instance, with attach and
   detach between two deliveries;
2. the relaxed waiting counters of the pool under a store-buffer semantics.

## Modules

| Module | Models |
| --- | --- |
| `PoolContract` | what callers of the pool may rely on: an abstract FIFO queue, the outcome of each task, the calls that wait |
| `WorkerPool` | the pool; properties; refinement mapping to `PoolContract` |
| `MCWorkerPool` | the submissions and the symmetry of the checked instances |
| `WorkerPoolProofs` | proofs about `WorkerPool`: mutexes, counts and the ring |
| `WorkerPoolTaskProofs` | proofs about `WorkerPool`: where each task is, the dispatch counters, the return of `wait()` |
| `WorkerPoolRefinement` | proofs about `WorkerPool`: what calls know of each other, stop requests, the refinement of `PoolContract` |
| `AsyncLoggerContract` | what callers of the asynchronous logger may rely on |
| `AsyncLogger` | the asynchronous logger; properties; refinement mapping |
| `AsyncLoggerProofs` | proofs about `AsyncLogger` |
| `SyncLoggerContract` | what callers of the synchronous logger may rely on: an atomic registry, delivery to what was selected |
| `SyncLogger` | the synchronous and parallel logger; properties; refinement mapping |
| `SyncLoggerProofs` | proofs about `SyncLogger` |
| `TextRecord` | the layout of a text record in its 512-byte prefix |
| `StreamSink` | the immediate and the buffered sink over a stream that fails, throws and is repaired; properties |
| `MCStreamSink` | the records and the flush threshold of the checked instance |
| `StreamSinkProofs` | proofs about `StreamSink` and `TextRecord` |
| `ErrorRegistry` | what callers of registers and systems may rely on: operations that take effect one at a time |
| `ErrorSystem` | registers, handlers and the three systems, the asynchronous one over `PoolContract`; properties; refinement mapping |
| `MCErrorSystem` | the registers and the requests of the checked instance |
| `ErrorSystemProofs`, `ErrorRegistryProofs` | proofs about `ErrorSystem`: exclusion, lifetimes and the order of the executor; types and the refinement |

### WorkerPool and the code

`pc[t]` names the next step of thread `t`; the prefix of a label names the
function (`e_` enqueue and dispatch_bulk with wait_for_space, `w_` run and
process_bulk, `i_` wait, `n_` notify_idle_waiters, `c_` cancel_pending, `s_`
shutdown and signal_shutdown). `submit`, `dispatch` and `dispatch_bulk` are one
path: a call carries a span of tasks, of length one for the scalar calls, and
goes through rounds of "find room, lock, emplace, publish, notify".

Each atomic operation is one action. A mutex acquisition is merged with the
load that follows it and a release with the store before it: a critical section
is thereby split only where another thread can see the difference. Under both
mutexes, the loop of `cancel_pending` over the slots is one action
(`CancelDrop`), separate from the subtraction of the count (`CancelSub`) and
from the test for idleness (`CancelIdle`). `workers_mutex_` protects sections
of one action and has no variable. The packed word is a record; `active` grows
without bound and `active_from_state` takes it modulo `2^CountBits`, which is
what a reader of the real word sees. Under `Capacity < 2^CountBits` the pending
field cannot overflow.

Sleeping: `std::atomic::wait` compares and blocks in one step (`EnqueueWait`,
`WorkerWait`, `IdleWait`), a woken thread compares again. With
`NotifyOneWakesAll = TRUE` a `notify_one` wakes everyone, as libraries do that
map the 64-bit word to a shared futex; with `FALSE` it wakes any one
*eligible* sleeper in the sense of the C++ standard, one that blocked before
the last modification (`eligible`).

A task's body is its effect on the pool: it ends with an outcome, may first
wait for its stop token (`Cooperative`), or make one call into the pool
(`Reentrant`). A `promise` is the status of its task. `failed_dispatches` and
`cancelled_dispatches` are the counters of the code. The destructor is a
`shutdown(CANCEL_PENDING)`. The constructor ends with all workers started or, at
any of them, with an exception (`ConstructionFailed`): it then stops, wakes and
joins the workers it has (`Construct`), and no call is ever made. A task that
submits to a full ring, all of whose possible consumers do the same, is blocked
for good; these states are named (`SelfBlocked`) and excused in the liveness
properties. The interleaving is sequentially consistent.

### AsyncLogger and the code

`mutex_` protects short sections, each one action; a thread in a condition
variable stands at `space_wait`, `drained_wait` or `available_wait` and goes
back to its predicate when notified. The sinks of the backend are one delivery
with a result; a callback may write, flush or shut down its own logger. A
filtered record returns before any shared state and is left out.

### SyncLogger and the code

A call is a pair of a thread and a level: `outer`, or `nested` for a call that a
sink callback makes into the logger that is calling it (one level deep).
`attach_slot` and `detach` hold `mutex_` over two steps: `Attach` or `Detach`
changes the registry, `Publish` (`refresh_single_sink_fast_path`) stores the
pointer. In between `MutexFree` keeps out other changes and the snapshot of
`write_entry`, but not a write that reads the pointer. A refused call, and a
snapshot, is one step under the mutex. The history variable `published` is the
registry for which the pointer was last stored: in the refinement it stands for
the atomic registry, so that a change takes effect when it is published, for
writes on both paths. The load of the
pointer (`WriteFast`, `WriteSlow`), the snapshot (`WriteSelect`), the callback
mutex (`WriteSerialize`) and the end of each callback (`WriteCallback`) are
separate, and anything may happen between them. `callback_mutex` is the set of
calls that hold it, which a recursive mutex allows only to one thread. A sink
is external or owned throughout: an owned one is attached by `shared_ptr` and
exists while the application (`held`), a slot, an attach in progress or a
snapshot (`owners`) points to it; an external one exists always, which is what
`attach` demands of its caller. The dispatch policy is chosen in `Init`.

### StreamSink and the code

A record is written to a stream in pieces, one line if `prepare_text_record`
could buffer it and prefix, message and newline otherwise; which of the two
follows from `TextRecord` and the lengths of the texts. A stream operation
writes all its pieces, or fails after any number of them, and throws if the
application asked for exceptions; a bad stream ignores further operations or
throws again (the standard libraries differ, so both are possible). The
application may `clear()` a stream that no call is using. Where a failed
operation cuts a piece in two is not told apart.

`current_thread_shard` is part of `CallWrite` (what `registry_mutex_` protects
is one step); the section under a shard's mutex is split where it takes the
output lock (`LockOutput`) and where it uses the stream (`FlushShard`,
`WritePiece`). `Restart` ends a thread and gives its id to a new one, whose
`thread_local` cache is empty. The policy of the sinks and the exception mask of
the streams are chosen in `Init`. The destructor is a flush that keeps its
result and its exceptions to itself.

### ErrorSystem and the code

A call names an operation, an error and a target: the system, or a register
directly. `Init` chooses the system (single-threaded, synchronized,
asynchronous) and the policy of the registers. `dispatch` finds the first
register of the category (`Route`); a synchronized handler locks the mutex of
that entry (`LockHandler`), a thread-safe register its own (`Enter`). Because
either mutex may be absent, the access to the map is two steps, the look at it
(`Enter`) and what follows from it (`Apply`): two calls that were not kept apart
would work on a stale map. What the application must serialize (a
single-threaded system, direct calls on a register without a mutex) is
serialized against every other call, which is more than such a caller needs to
do. An asynchronous operation is a task of `PoolContract`, instantiated here:
`Submit` is accepted or refused, at most `Workers` operations run at once,
`CancelQueue` and `Shutdown` may come at any time. `owners` are the holders of
the handler's `shared_ptr`: the system and every closure. `reserve` changes an
allocation only; `size` and `contains(code)` read what `snapshot` and `find`
read.

## Runs

| Run | Instance | What it shows |
| --- | --- | --- |
| `pool_queue` | 2 workers, 2 producers, ring of 2, a single, a bulk call of 2, a task that submits or calls `shutdown(CANCEL_PENDING)` from its worker; notify_one wakes any eligible sleeper | types, the ring, each task in one place, refinement of `PoolContract` |
| `pool_control` | 2 workers, 1 producer, 2 controllers with `clear_queue`, both shutdown modes and `wait()`; a cancellable task, and one that clears or cancels from its worker; ring of 2 | the ring under three users, the dispatch counters, whom a cancelling shutdown asks to stop, no early return of `wait()`, refinement |
| `pool_backpressure` | 2 workers, 1 producer, 4 tasks, one of them submitted by a task from its worker, ring of 1; broadcasting notify_one | liveness of blocked submissions and of accepted tasks |
| `pool_idle` | 2 workers, a thread that submits and waits, a cancelling shutdown, a cooperative task; the constructor may fail at any worker | liveness of `wait()` and of a cancelling shutdown, which must stop what runs |
| `pool_lost_wakeup` | 1 worker, 2 producers, ring of 1, single wake-ups | violation: an accepted task is never executed |
| `pool_count_wrap` | 2 workers, claims of 2, counts of 2 bits | violation: `wait()` returns while four tasks run |
| `pool_escalation` | a drain and a cancelling shutdown at once | violation: the cancelling shutdown hangs |
| `async_logger` | 2 producers, a flusher, a closer, queue of 1, 4 records, a callback that may call its logger | types, no missed notification, refinement, liveness |
| `sync_logger` | 2 threads, 2 external sinks and an owned one, a callback that may call its logger, both dispatch policies, 4 calls | types, lifetimes of selected sinks, serialized callbacks, refinement, liveness |
| `stream_sink` | 2 threads, 2 sinks of either policy, a short and a long record, a flush or a destruction, a repair, threads that end | types, the prefix, shard ownership, whole lines, order of each producer, reported losses, what a flush covers, liveness |
| `error_system` | 3 calls of 11 requests, 3 registers (2 categories, one register never reached), every system and register policy, 2 workers, queue of 2 | limits, exclusive access, the handler's lifetime, bounded overtaking, refinement of `ErrorRegistry`, liveness |
| `async_self_shutdown` | a callback and another thread both shut down | violation: both hang |

Bounds. Tasks are finitely many and are submitted once; `CallLimit` bounds the
`wait`, `clear_queue`, `shutdown` and `flush` calls of a client, and in
`SyncLogger` all calls together: four are a write that has selected its sinks,
two changes of the registry behind its back and one call from a callback. A ring of one or
two slots is full, empty and wrapped around within three or four tasks; with
`BulkClaim = 2` a claim is limited by the claim size, by the pending count and
by the first scalar task. Two workers are needed for a last and a
next-to-last completion, two submitters for a wrong wake-up. In
`pool_backpressure` the second submitter is a task on its worker, with the other
worker free to make room: there `SelfBlocked` is never reached and excuses
nothing. `pool_count_wrap`
scales the 11-bit field to 2 bits and 16 claims to 2: the condition it needs,
workers times claim size reaching the field's range, holds in the code from 128
workers on. In `stream_sink` each record is written once: two threads that
alternate between two sinks need two records, the long record reaches the flush
threshold exactly and the short one stays below it, and one repair is enough for
a stream that fails, is repaired and fails again. In `error_system` three calls
are an `add`, a call that races with it and one that comes late; `DirectLimit`
is one because two direct calls are told apart only by the mutex that
`error_system` also tries between a direct and a routed one. The instances of `pool_queue`, `pool_idle`, `pool_escalation` and
of the loggers may stop for good (workers asleep after a stall of the first
kind, a cancellable task nobody stops, a callback that blocks its own worker,
a bound on the calls), and so may those of `stream_sink` and `error_system`
(each call is made once), so deadlock is no error there; in the others the only states that may
last are those in which nobody is in a call (`AtRest`), tasks that submit keep
every worker (`SelfBlocked`) or a cancellable task runs that nobody asks to stop
(`Unstopped`): `Rest` stutters there, so that TLC's deadlock check excludes every
other standstill.

Fairness. `FairSpec` lets each thread that can take a step inside a call, or in
its loop, eventually take it: what a preemptive scheduler gives. No call is
ever forced to start. `std::mutex` promises no fairness; weak fairness is
enough because tasks and calls are finite, so that a mutex cannot be taken from
a thread for ever. In `StreamSink` this also says that a stream operation ends;
in `ErrorSystem` it is enough that some call or worker takes a step as long as
one can. A cancellable task that nobody stops, and a callback blocked
in a call to its own logger, are excused in the liveness properties, by name
(`Unstopped`, `CallbackBlocked`).

## Findings

- **Lost wake-up** (worker_pool.hpp 303, 227, 472, 500). Producers and workers
  sleep on the same word and are woken one at a time. A wake-up meant for a
  worker may reach a producer whose observed value has come back; it sleeps
  again, and the task stays in the queue for ever.
- **Count field** (670). The active count is bounded by workers times 16, not
  by workers.
- **Escalation** (388). A cancelling shutdown cannot overtake a drain. A
  task that calls `shutdown(CANCEL_PENDING)` after a drain has swapped
  `workers_` (394) returns, but requests nothing of the workers that the drain
  joins, since it looks for them in `workers_` (424). `pool_control` reaches this
  case, and `CancelStopsActive` excepts it by name.
- **Async logger** (logger.hpp 620). A sink callback that shuts its logger down
  deadlocks with a concurrent `shutdown()`.

## Proofs

Checked by TLAPS for every value of the constants that satisfies the named
assumptions of the modules (a positive capacity, finitely many threads and
tasks, at least one worker, workers that are no clients, no empty slot among the
tasks, no callback twice in one bulk call, each count fitting its field). TLC
evaluates these assumptions in every run. Two theorems about the pool have a
hypothesis besides: `NoWrap` says that workers times the claim size stay below
the range of the active field. The code asserts only that the number of workers
does, and without more `pool_count_wrap` refutes `WaitReturnsIdle`; with 16 tasks
a claim and 11 bits, `NoWrap` holds up to 127 workers.

| Theorem | States |
| --- | --- |
| `WorkerPoolProofs!TypeCorrect` | `Spec => []TypeOK`: no count or counter of the pool leaves its range |
| `WorkerPoolProofs!RingCorrect` | `Spec => []RingOK`: the ring, its indices and the packed pending count agree after every step |
| `WorkerPoolProofs!MutexesExclude` | no two threads are in sections of the same mutex |
| `WorkerPoolTaskProofs!TasksArePlaced` | `Spec => []TasksPlaced`: an accepted task is in one slot or in one batch until it has an outcome, and in none after it |
| `WorkerPoolTaskProofs!FailuresCounted` | `Spec => []FailuresAccounted`: both dispatch counters are exact after every step |
| `WorkerPoolTaskProofs!WaitersSeeIdle` | `NoWrap` implies `Spec => WaitReturnsIdle`: `wait()` does not return while an accepted task is without its outcome |
| `WorkerPoolRefinement!CancelReaches` | `Spec => []CancelStopsActive`: whom the requests of a cancelling shutdown reach |
| `WorkerPoolRefinement!Refinement` | `NoWrap` implies `Spec => ImplementsContract`: the pool is a bounded FIFO queue with one outcome per task, and its calls return only when the contract lets them |
| `AsyncLoggerProofs!TypeCorrect` | `Spec => []TypeOK`: neither buffer outgrows the reserved capacity |
| `AsyncLoggerProofs!FlusherAlwaysWoken` | `Spec => []FlusherIsWoken`: who sleeps in `flush()` has a batch or a record ahead that will notify it |
| `AsyncLoggerProofs!Refinement` | `Spec => ImplementsContract`: order of delivery, no acceptance after the stop, no early return of `flush()` or `shutdown()` |
| `SyncLoggerProofs!TypeCorrect` | `Spec => []TypeOK`: no sink twice in the registry; pointer, snapshots and mutex in their ranges |
| `SyncLoggerProofs!SelectedSinksAlive` | `Spec => []CallbacksAlive`: a selected sink exists until its callback has returned |
| `SyncLoggerProofs!CallbacksExclude` | `Spec => []CallbacksSerialized`: synchronized callbacks never overlap, on either path |
| `SyncLoggerProofs!Refinement` | `Spec => ImplementsContract`: an atomic registry, delivery to what it held |
| `ErrorSystemProofs!AccessesExclude` | `Spec => []AccessExclusive`: one call at a time in the map of a register |
| `ErrorSystemProofs!HandlerOutlives` | `Spec => []HandlerAlive`: no operation uses a handler that is gone |
| `ErrorSystemProofs!OvertakingBounded` | `Spec => []OvertakesOnlyRunning`: no operation overtakes one that still waits, nor more running ones than there are other workers |
| `ErrorRegistryProofs!TypeCorrect` | `Spec => []TypeOK`: limits, and one error per code, of its code and category |
| `ErrorRegistryProofs!Refinement` | `Spec => ImplementsRegistry`: operations take effect at one moment, refused and cancelled ones never |
| `StreamSinkProofs!RecordsFit` | `Spec => []RecordFits`: the prefix of every record fits its 512 bytes |
| `StreamSinkProofs!ShardsHaveOneOwner` | `Spec => []ShardsOwned`: one shard per producer and sink, and each write in its own |
| `StreamSinkProofs!TypeCorrect` | `Spec => []TypeOK`: types, and a shard that nobody has locked is below the threshold unless its stream throws |
| `StreamSinkProofs!LinesStayWhole` | `Spec => []LinesWhole`: no line on a stream is broken by a piece of another |
| `StreamSinkProofs!LossIsReported` | `Spec => []LossReported`: an accepted record is buffered, written, or its loss is reported |
| `StreamSinkProofs!FlushCoversAll` | `Spec => FlushCovers`: a `flush()` that returns true covers what was buffered when it was called |
| `StreamSinkProofs!LinesInProducerOrder` | `Spec => []ProducerOrder`: the lines of a producer are on the stream once and in the order of its writes, unless the stream throws and has said so |

**The pool.** `RingOK` and `TypeOK` are not inductive and need each other: that
a worker's batch holds tasks follows from the ring, that the ring survives an
`EnqueueSlot` follows from who holds the producer mutex and from what that
thread read when it took it, and that `active` and the waiting counters stay
natural numbers follows only from what they count. `IInv` adds to them

- `Exclusion`: at which labels a thread holds which mutex, and nobody else
  does; `notify_idle_waiters` runs with both (from `cancel_pending`) or with
  none (from `finish_tasks`);
- `Reserved`: room found under the producer mutex stays, since others only take
  tasks out; tasks found under the consumer mutex stay, since others only put
  tasks in; under both the pending count stands still;
- `Busy`: a worker between batches has claimed nothing, one inside has a task;
- `Counted` and `ActiveCounted`: each waiting counter is the number of threads
  between its two updates, and `active` is the number of pairs of a worker past
  its claim and a number up to what it claimed;
- `EligibleSleep`: only sleepers are eligible for a wake-up.

The 33 actions that touch neither the ring nor the counts go through one lemma
(`QuietStep`); each of the other twelve, `EnqueueLock` and `WorkerLock`
among them, has a lemma of its own with one step per conjunct. The arithmetic
of the ring is in `Extend` and `Shorten`. `IInv` was checked by TLC on the
instances of `pool_queue`, `pool_control` and `pool_idle` before it was proved.

**The tasks of the pool.** `PInv` says which status the tasks in each place have:
published slots are queued, a batch is queued until the claim is subtracted and
claimed after it, staged slots and spans are offered. No task is in two places
(`RingOnce`, `BatchOnce`, `SpanOnce`, `Apart`), and none of the queued and claimed
ones is in none (`Located`). It is inductive together with `IInv`, which says how
far the published part of the ring reaches. `SpanOnce` rests on the assumption
that no bulk call names a callback twice. `FailuresAccounted` follows from it,
because a task fails or is dropped once, and so does `WaitReturnsIdle`: pending
and active counts of zero leave no place for a task, and by `ClaimsSmall` (a
claim never exceeds `BulkClaim`) and `NoWrap` the bits that a reader sees are
zero only if the count is.

**The pool and its contract.** The abstract queue is what a worker or
`cancel_pending` has taken out and not yet subtracted, followed by the published
part of the ring; staged slots do not belong to it. The steps that the contract
sees are the publication (`Accept`, or `Refuse` when the stop came first), the
subtraction of a claim (`Start`) and of a cancellation (`Cancel`), the end of a
task (`Settle`), the stop bit (`Stop`), and the beginnings and ends of `wait`,
`clear_queue` and `shutdown` (`Call`, `Return`); every other step leaves the
contract's state alone. `CInv` is what the returns need: a `shutdown` that joins
has set the stop bit or waits for one that did (`Bit`), each worker's thread is in
`workers_`, in the vector that a shutdown joins, or done, which it is only after
the stop with an empty queue (`Lives`), somebody joins whatever was swapped out
(`Handover`), what a submission still offers is a suffix of its span
(`Submits`), and whoever a cancelling shutdown must ask it has asked (`Asked`,
from which `CancelStopsActive` follows). All this holds while the pool is
`InService`; a constructor that fails leaves it `Abandoned`, where nothing but
the stop ever happens. Each of the contract's actions has a lemma
(`TakeRefined`, `ClaimRefined`, `PublishRefined`, `ReturnRefined`, ...) and the
rest goes through `HiddenStep`. `PInv` and `CInv` were checked by TLC on small
instances before they were proved; TLC refuted a first `CancelStopsActive`, which
did not except the task that cancels during a drain.

**The async logger.** `TypeOK` is inductive by itself, `FlusherIsWoken` with it:
the only steps that empty the queue or end a batch wake every sleeping flusher
in the same step or leave the other of the two in place. The refinement maps the
contract's pending records to the batch followed by the queue; it needs that the
record a writer carries has not been given to anyone (`Carried`), that records
in the two buffers have left their callers (`Gone`), and that the worker is gone
only after the stop with both buffers empty (`Ended`), which is what lets
`shutdown()` return.

**The sync logger.** `Published`: the fast-path pointer is, at every instant,
what `refresh_single_sink_fast_path` computed from the registry it was last
called for. `Ahead`: the registry is that one, except while a call is between its
change and its store; then it is one sink longer or shorter, by the argument of
that call, and that call is alone there (`MutexFree`). So a write that reads the
pointer without the mutex and one that takes the mutex select the same registry,
and a store is one `attach` or `detach` of the contract. A selected owned sink
has an owner in the snapshot, a sink selected through the pointer is external.
`Serial` says who may hold the recursive callback mutex.

**Registers and systems.** `AccessExclusive` holds because a call that must not
be overlapped is alone (`Alone`), each mutex that a call holds is in `locks`
(`Locked`), and no two calls hold the same one (`Apart`): without a register
mutex two calls of a synchronized system still meet at the handler's entry.
`HandlerAlive` follows from `Shared`. `OvertakesOnlyRunning` is inductive with the
order of the executor: its queue is what was accepted after some position
(`Waiting`), nothing is accepted twice (`Once`), and the label of a call agrees with
the status of its operation up to its start (`Linked`), so that the step that the
contract takes is the one of this call. For the refinement the moment of an
operation is `Apply`: because nobody else is in the map, what the call saw is
still there (`SeenTrue`). A map with one error per code stands for a set of the
same size (`Map`, `MapSize`), the effects and answers on the map are those on
the set (`MapHolds`, `MapAdd`, `MapErase`; `RefusedMoment`, `AcceptedMoment`), and
every other step is a stutter, a call or a drop.

**Sinks.** `RecordFits` is arithmetic about the longest header (`PrefixFits`).
`ShardsOwned` needs that a producer has one shard in a sink (`OneShard`), that a
cached pointer is right for the sink it names (`CacheTrue`), and that a write
takes a shard it owns (`Directed`): these are `IInv`. Four theorems rest
on two more invariants, the last one on a fourth (`OInv`). `SInv` has the types and, for each label, what a call there
still has to do (`InCall`: the shards ahead of a flush, the pieces that remain of
a record), and that one thread works on a stream (`Exclusive`). `DInv` says what
shards and streams hold:

- `Low`: a shard that is not locked is below the threshold, or the stream throws;
- `Whole` and `Continued`: a line that was begun on a stream that still works is
  its last one, which is why the next piece of it fits;
- `Loss`: `LossReported` of one sink, which every step that empties a shard must
  keep, because a failed write leaves its mark in `success` before the buffer goes;
- `Covers`: what a flush, or a write that reached the threshold, has to bring out
  is on the stream or in a shard ahead of it, unless the stream has failed; another
  thread that empties such a shard puts it on the same stream.

`OInv` is about order, and is inductive with `IInv` and `SInv`. It compares places
in three sequences of a producer: what it wrote (`issued`), what its shard holds,
and what was begun on the stream.

- `Distinct`: no record is written twice, so that a record has one place in
  `issued`;
- `Queued`: a shard holds records of its producer, in the order of its writes;
- `Ordered`: lines were begun in that order, and before all that is still in a
  shard, so that the next flush may put the shard behind them;
- `Pending`: the record of a write that has not reached its shard, or its first
  piece, is nowhere yet, so that it may come last;
- `Solo`: nobody else uses a sink that is being destroyed.

Where the code may write a line twice the invariant lets go of the order, and no
earlier: a stream that throws and has reported it (`Twice`), because `flush_shard`
keeps the records then, and a sink whose destructor swallowed the exception
(`Gone`), whose shards hold what the stream already has. The lines of that stream
are still in order, because the destructor was its last user (`Solo`). TLC checked
`OInv` as an invariant of two small instances, three records on one sink and two
sinks, before it was proved.

An append to a shard, an emptied shard and a piece on a stream each have a lemma
about the one place they change, and `SInvFrame` and `DInvFrame` carry the rest
over. Buffers and streams are flattened and folded sequences of any length; what
`FlattenSeq` and `FoldLeft` give for them (`FlattenConcatenates`, `FoldOfNothing`)
is proved without an induction theorem that takes an operator: the lengths for
which a fact is false form a set, and `Least` takes its least element.

**Only model-checked.** Liveness (`AcceptedSettles`, `CallsReturn`, and every
other property of a `FairSpec`), which is beyond the prover. Every safety
property of the passing runs has a theorem (two of the pool under `NoWrap`). Two
of them say less than one might like because the code promises less:
`LossReported` is content with one report on the sink, and `ProducerOrder` exempts
a stream that throws and has reported it, where a repaired stream gets records a
second time.

## Not modelled

- `Error`, `Result`, `attempt`, `to_string`, `ErrorHash`: values and pure
  conversions of texts; an error is a record in `ErrorSystem`, a text its length
  in `TextRecord`.
- What is validated before any state exists (sizes of pools, queues, registers,
  buffers): it is the assumptions on the constants. Allocation failure.
- The pool's observers (pure loads) and the helgrind annotations (no effect
  outside the checker).
- Executions that are not sequentially consistent: the waiting counters are read
  and written relaxed, and a store buffer for every thread would multiply state
  spaces that are near the limit of a run.
- Attach and detach of the async logger: its backend is one delivery in
  `AsyncLogger` and is modelled by itself in `SyncLogger`.
- The `MCF` contracts (compile-time concepts of an external submodule), tests,
  benchmarks, fuzzing and packaging.
