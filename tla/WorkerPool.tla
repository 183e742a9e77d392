----------------------------- MODULE WorkerPool -----------------------------
(***************************************************************************)
(* IndustrialWorkerPool (include/vosp/worker_pool.hpp): a fixed ring of    *)
(* task slots, one packed atomic word (queue_state) that counts queued and *)
(* claimed tasks and holds the stopping bit, a mutex for each end of the   *)
(* ring, and threads that sleep on the word with std::atomic::wait.        *)
(*                                                                         *)
(* One action is one access to shared state: an atomic operation, or what  *)
(* a thread does to the ring between two of them.  Taking a mutex is       *)
(* merged with the load that follows it and releasing it with the store    *)
(* before it.  The prefix of a label names the function it stands in:      *)
(*   e_ enqueue, dispatch_bulk, wait_for_space    w_ run, process_bulk     *)
(*   i_ wait       n_ notify_idle_waiters         c_ cancel_pending        *)
(*   s_ shutdown, signal_shutdown                  x_ a failed constructor *)
(* The interleaving is sequentially consistent: what the relaxed orders of *)
(* the waiting_ counters add is outside this module.                       *)
(***************************************************************************)
EXTENDS Integers, Sequences, FiniteSets

CONSTANTS
  Workers,      \* the threads that execute run()
  Producers,    \* the threads that call submit, dispatch or dispatch_bulk
  Waiters,      \* the threads that call wait()
  Controllers,  \* the threads that call clear_queue() or shutdown()
  Tasks,        \* the callbacks
  Spans,        \* the arguments of the submissions: sequences of tasks
  BodySpans,    \* those submitted by a task's body, on a worker
  Bulk,         \* the tasks submitted by dispatch_bulk
  Tracked,      \* the tasks with a promise (submit, submit_cancellable)
  Cooperative,  \* cancellable tasks that run until their stop_token is set
  Reentrant,    \* the tasks whose body may call the pool once
  Outcomes,     \* how a body may end
  ControlOps,   \* what controllers call
  BodyOps,      \* what the bodies of reentrant tasks call
  Capacity,     \* queue_capacity
  CountBits,    \* count_bits: the width of the packed counts
  BulkClaim,    \* bulk_claim_size
  CallLimit,    \* bound: wait, clear_queue and shutdown calls of each client
  NotifyOneWakesAll, \* a library whose notify_one wakes every sleeper
  NoTask        \* an empty slot

Clients == Producers \cup Waiters \cup Controllers
Threads == Workers \cup Clients
ShutdownMode == {"DRAIN", "CANCEL_PENDING"}
Operations == ShutdownMode \cup {"clear_queue"}
Settled == {"value", "error", "exception", "cancelled"}
Statuses == {"caller", "offered", "queued", "claimed", "rejected"} \cup Settled
Slots == 0 .. Capacity - 1

ASSUME CapacityAssumption == Capacity \in Nat \ {0}
ASSUME CountAssumption == CountBits \in Nat /\ BulkClaim \in Nat \ {0}
ASSUME LimitAssumption == CallLimit \in Nat
ASSUME ThreadsAssumption ==
  Workers # {} /\ Workers \cap Clients = {} /\ IsFiniteSet(Threads)
ASSUME SpansAssumption == Spans \subseteq Seq(Tasks) /\ BodySpans \subseteq Spans
\* Every element of a span is a callback of its own.
ASSUME DistinctAssumption ==
  \A s \in Spans : \A i, j \in DOMAIN s : s[i] = s[j] => i = j
ASSUME TasksAssumption ==
  /\ NoTask \notin Tasks /\ IsFiniteSet(Tasks)
  /\ Bulk \subseteq Tasks /\ Tracked \subseteq Tasks \ Bulk
  /\ Cooperative \subseteq Tasks \ Bulk /\ Reentrant \subseteq Tasks
ASSUME CallsAssumption ==
  /\ Outcomes \subseteq {"value", "error", "exception"} /\ Outcomes # {}
  /\ ControlOps \subseteq Operations /\ BodyOps \subseteq Operations
ASSUME NotifyAssumption == NotifyOneWakesAll \in BOOLEAN
\* The static_asserts: either count alone fits its field.
ASSUME WidthAssumption ==
  Capacity < 2 ^ CountBits /\ Cardinality(Workers) < 2 ^ CountBits

VARIABLES
  queue_state,          \* [pending, active, stopping]: the packed word
  tasks, queue_head, queue_tail,                         \* the ring
  producer_mutex, consumer_mutex, shutdown_mutex,        \* sets of holders
  workers, workers_to_join,  \* joinable threads: in the pool, being joined
  stop_requested,       \* workers whose stop_source was signalled
  waiting_producers, waiting_workers, waiting_for_idle,  \* the hints
  completion_epoch,
  failed_dispatches, cancelled_dispatches,
  status,               \* where each task is, or how it ended
  eligible,             \* sleepers a notify may wake, by the library's rule
  pc,                   \* the next step of each thread
  observed, epoch,      \* locals: the value a sleeper compares with
  span,                 \* local: what the call has yet to enqueue
  count,                \* local: enqueued in a round, or cancelled
  claimed, batch,       \* locals of a worker: limit or claimed, and the items
  mode,                 \* argument of the control call in progress
  calls                 \* bound: control calls made so far

ring == <<tasks, queue_head, queue_tail>>
locks == <<producer_mutex, consumer_mutex, shutdown_mutex>>
jthreads == <<workers, workers_to_join, stop_requested>>
waiting == <<waiting_producers, waiting_workers, waiting_for_idle>>
failures == <<failed_dispatches, cancelled_dispatches>>
work == <<ring, failures, status, claimed, batch>>
call == <<span, count, mode, calls>>
seen == <<observed, epoch, completion_epoch>>
word == <<queue_state, eligible>>
vars == <<queue_state, tasks, queue_head, queue_tail, producer_mutex,
          consumer_mutex, shutdown_mutex, workers, workers_to_join,
          stop_requested, waiting_producers, waiting_workers,
          waiting_for_idle, completion_epoch, failed_dispatches,
          cancelled_dispatches, status, eligible, pc, observed, epoch, span,
          count, claimed, batch, mode, calls>>
-----------------------------------------------------------------------------
(* Operators on the packed word, the ring and the sleepers.                *)

EmptyState == [pending |-> 0, active |-> 0, stopping |-> FALSE]
\* active counts claimed tasks without a bound; a reader sees its low bits.
active_from_state(q) == q.active % 2 ^ CountBits
is_idle_IgnoresActive == queue_state.pending = 0               \* mutant
is_idle == queue_state.pending = 0 /\ active_from_state(queue_state) = 0
Full(q) == ~q.stopping /\ q.pending = Capacity
Empty(q) == ~q.stopping /\ q.pending = 0

Least(m, n) == IF m <= n THEN m ELSE n
\* next_queue_index applied n times, and its inverse.
AdvancePastEnd(i, n) ==                                        \* mutant
  IF i + n <= Capacity THEN i + n ELSE i + n - Capacity
Advance(i, n) == IF i + n < Capacity THEN i + n ELSE i + n - Capacity
Offset(i, from) == IF i >= from THEN i - from ELSE i - from + Capacity

Goto(t, label) == pc' = [pc EXCEPT ![t] = label]
\* Where a call into the pool returns to.
Resume(t) == IF t \in Workers THEN "w_settle" ELSE "idle"

QueueSleepers == {u \in Threads : pc[u] \in {"e_sleep", "w_sleep"}}
IdleSleepers == {u \in Threads : pc[u] = "i_sleep"}
\* The step t moves to, while the sleepers in S wake to compare again.
Wake(S, t, label) ==
  pc' = [u \in Threads |->
          IF u = t THEN label
          ELSE IF u \notin S THEN pc[u]
          ELSE CASE pc[u] = "e_sleep" -> "e_wait"
                 [] pc[u] = "w_sleep" -> "w_wait"
                 [] OTHER -> "i_wait"]

\* A modification of the word makes every sleeper eligible for a notify.
SetState(q) ==
  /\ queue_state' = q
  /\ eligible' = IF NotifyOneWakesAll THEN {} ELSE QueueSleepers
NotifyAll(t, label) == Wake(QueueSleepers, t, label) /\ eligible' = {}
NotifyOne(t, label) ==
  \/ NotifyOneWakesAll /\ NotifyAll(t, label)
  \/ ~NotifyOneWakesAll /\ eligible = {} /\ Goto(t, label) /\ UNCHANGED eligible
  \/ \E u \in eligible : /\ Wake({u}, t, label)
                         /\ eligible' = eligible \ {u}
-----------------------------------------------------------------------------
(* The constructor, once it has started all workers or failed to.          *)

Constructed ==
  /\ workers = Workers
  /\ pc = [t \in Threads |-> IF t \in Workers THEN "w_load" ELSE "idle"]
\* A thread could not be created: only some of the workers run, and nobody but
\* the creator knows the pool.
ConstructionFailed ==
  \E started \in (SUBSET Workers) \ {Workers} : \E creator \in Clients :
    /\ workers = started
    /\ pc = [t \in Threads |->
              IF t \in Workers
              THEN IF t \in started THEN "w_load" ELSE "exited"
              ELSE IF t = creator THEN "x_stop" ELSE "gone"]

Init ==
  /\ queue_state = EmptyState /\ eligible = {}
  /\ tasks = [i \in Slots |-> NoTask] /\ queue_head = 0 /\ queue_tail = 0
  /\ producer_mutex = {} /\ consumer_mutex = {} /\ shutdown_mutex = {}
  /\ Constructed \/ ConstructionFailed
  /\ workers_to_join = {} /\ stop_requested = {}
  /\ waiting_producers = 0 /\ waiting_workers = 0 /\ waiting_for_idle = 0
  /\ completion_epoch = 0 /\ failed_dispatches = 0 /\ cancelled_dispatches = 0
  /\ status = [k \in Tasks |-> "caller"]
  /\ observed = [t \in Threads |-> EmptyState] /\ epoch = [t \in Threads |-> 0]
  /\ span = [t \in Threads |-> <<>>] /\ count = [t \in Threads |-> 0]
  /\ claimed = [w \in Workers |-> 0] /\ batch = [w \in Workers |-> <<>>]
  /\ mode = [t \in Threads |-> "none"] /\ calls = [t \in Threads |-> 0]

\* The handler of the constructor: stop the workers, wake them, join them and
\* throw again.
ConstructStop(t) ==
  /\ pc[t] = "x_stop"
  /\ SetState([queue_state EXCEPT !.stopping = TRUE])
  /\ Goto(t, "x_notify")
  /\ UNCHANGED <<work, locks, jthreads, waiting, call, seen>>

ConstructNotify(t) ==
  /\ pc[t] = "x_notify"
  /\ NotifyAll(t, "x_join")
  /\ UNCHANGED <<queue_state, work, locks, jthreads, waiting, call, seen>>

ConstructJoin(t) ==
  /\ pc[t] = "x_join"
  /\ \A w \in workers : pc[w] = "exited"
  /\ stop_requested' = stop_requested \cup workers /\ workers' = {}
  /\ Goto(t, "gone")
  /\ UNCHANGED <<word, work, locks, workers_to_join, waiting, call, seen>>

Construct(t) == ConstructStop(t) \/ ConstructNotify(t) \/ ConstructJoin(t)
-----------------------------------------------------------------------------
(* enqueue and dispatch_bulk, by a client or by a task's body.             *)

TasksIn(s) == {s[i] : i \in DOMAIN s}
Running(w) == pc[w] = "w_exec" /\ Head(batch[w]) \in Reentrant
MayCall(t) == IF t \in Workers THEN Running(t) ELSE pc[t] = "idle"

CallEnqueue(t) ==
  /\ t \in Workers \cup Producers /\ MayCall(t)
  /\ \E s \in IF t \in Workers THEN BodySpans ELSE Spans \ BodySpans :
       /\ \A k \in TasksIn(s) : status[k] = "caller"
       /\ span' = [span EXCEPT ![t] = s]
       /\ status' = [k \in Tasks |->
                      IF k \in TasksIn(s) THEN "offered" ELSE status[k]]
  /\ Goto(t, "e_load")
  /\ UNCHANGED <<word, ring, locks, jthreads, waiting, failures, seen, count,
                 claimed, batch, mode, calls>>

\* Stopping: enqueue throws, dispatch_bulk returns what it has accepted.
Refuse(t) ==
  /\ queue_state.stopping
  /\ status' = [k \in Tasks |->
                 IF k \in TasksIn(span[t]) THEN "rejected" ELSE status[k]]
  /\ span' = [span EXCEPT ![t] = <<>>]
  /\ Goto(t, Resume(t))
  /\ UNCHANGED <<word, ring, locks, jthreads, waiting, failures, seen, count,
                 claimed, batch, mode, calls>>

\* A step that moves t and changes nothing else.
Move(t, label) ==
  /\ Goto(t, label)
  /\ UNCHANGED <<word, work, locks, jthreads, waiting, call, seen>>

EnqueueLoad(t) ==
  /\ pc[t] = "e_load"
  /\ \/ Refuse(t)
     \/ Full(queue_state) /\ Move(t, "e_inc")
     \/ ~queue_state.stopping /\ ~Full(queue_state) /\ Move(t, "e_lock")

EnqueueInc(t) ==
  /\ pc[t] = "e_inc"
  /\ waiting_producers' = waiting_producers + 1
  /\ Goto(t, "e_obs")
  /\ UNCHANGED <<word, work, locks, jthreads, waiting_workers,
                 waiting_for_idle, call, seen>>

EnqueueObserve(t) ==
  /\ pc[t] = "e_obs"
  /\ \/ /\ Full(queue_state)
        /\ observed' = [observed EXCEPT ![t] = queue_state]
        /\ Goto(t, "e_wait")
        /\ UNCHANGED <<word, work, locks, jthreads, waiting, call, epoch,
                       completion_epoch>>
     \/ ~Full(queue_state) /\ Move(t, "e_dec")

EnqueueWait(t) ==
  /\ pc[t] = "e_wait"
  /\ Move(t, IF queue_state = observed[t] THEN "e_sleep" ELSE "e_dec")

EnqueueDec(t) ==
  /\ pc[t] = "e_dec"
  /\ waiting_producers' = waiting_producers - 1
  /\ observed' = [observed EXCEPT ![t] = EmptyState]
  /\ Goto(t, "e_load")
  /\ UNCHANGED <<word, work, locks, jthreads, waiting_workers,
                 waiting_for_idle, call, epoch, completion_epoch>>

EnqueueLock(t) ==
  /\ pc[t] = "e_lock" /\ producer_mutex = {}
  /\ \/ Refuse(t)
     \/ Full(queue_state) /\ Move(t, "e_load")
     \/ /\ ~queue_state.stopping /\ ~Full(queue_state)
        /\ producer_mutex' = {t}
        /\ count' = [count EXCEPT ![t] =
                      Least(Len(span[t]), Capacity - queue_state.pending)]
        /\ Goto(t, "e_slot")
        /\ UNCHANGED <<word, work, consumer_mutex, shutdown_mutex, jthreads,
                       waiting, span, mode, calls, seen>>

EnqueueSlot(t) ==
  /\ pc[t] = "e_slot"
  /\ tasks' = [i \in Slots |-> IF Offset(i, queue_tail) < count[t]
                               THEN span[t][Offset(i, queue_tail) + 1]
                               ELSE tasks[i]]
  /\ queue_tail' = Advance(queue_tail, count[t])
  /\ Goto(t, "e_publish")
  /\ UNCHANGED <<word, queue_head, failures, status, claimed, batch, locks,
                 jthreads, waiting, call, seen>>

EnqueuePublish(t) ==
  /\ pc[t] = "e_publish"
  /\ SetState([queue_state EXCEPT !.pending = @ + count[t]])
  /\ status' = [k \in Tasks |->
                 IF k \in TasksIn(SubSeq(span[t], 1, count[t]))
                 THEN "queued" ELSE status[k]]
  /\ span' = [span EXCEPT ![t] = SubSeq(@, count[t] + 1, Len(@))]
  /\ producer_mutex' = {}
  /\ Goto(t, "e_check")
  /\ UNCHANGED <<ring, failures, claimed, batch, consumer_mutex,
                 shutdown_mutex, jthreads, waiting, count, mode, calls, seen>>

\* After a round: the next round of a bulk call, or the return.
NextRound(t) == IF span[t] = <<>> THEN Resume(t) ELSE "e_load"

EnqueueCheckSilent(t) ==                                       \* mutant
  /\ pc[t] = "e_check"
  /\ Goto(t, NextRound(t))
  /\ count' = [count EXCEPT ![t] = 0]
  /\ UNCHANGED <<word, work, locks, jthreads, waiting, span, mode, calls, seen>>
EnqueueCheck(t) ==
  /\ pc[t] = "e_check"
  /\ Goto(t, IF waiting_workers = 0 THEN NextRound(t) ELSE "e_notify")
  /\ count' = [count EXCEPT ![t] = IF waiting_workers = 0 THEN 0 ELSE @]
  /\ UNCHANGED <<word, work, locks, jthreads, waiting, span, mode, calls, seen>>

EnqueueNotify(t) ==
  /\ pc[t] = "e_notify"
  /\ IF count[t] = 1 THEN NotifyOne(t, NextRound(t))
                     ELSE NotifyAll(t, NextRound(t))
  /\ count' = [count EXCEPT ![t] = 0]
  /\ UNCHANGED <<queue_state, work, locks, jthreads, waiting, span, mode,
                 calls, seen>>

Enqueue(t) ==
  \/ EnqueueLoad(t) \/ EnqueueInc(t) \/ EnqueueObserve(t) \/ EnqueueWait(t)
  \/ EnqueueDec(t) \/ EnqueueLock(t) \/ EnqueueSlot(t) \/ EnqueuePublish(t)
  \/ EnqueueCheck(t) \/ EnqueueNotify(t)
-----------------------------------------------------------------------------
(* run and process_bulk: the loop of a worker.                             *)

WorkerLoad(w) ==
  /\ pc[w] = "w_load"
  /\ Move(w, IF queue_state.pending # 0 THEN "w_lock"
             ELSE IF queue_state.stopping THEN "exited" ELSE "w_inc")

WorkerInc(w) ==
  /\ pc[w] = "w_inc"
  /\ waiting_workers' = waiting_workers + 1
  /\ Goto(w, "w_obs")
  /\ UNCHANGED <<word, work, locks, jthreads, waiting_producers,
                 waiting_for_idle, call, seen>>

WorkerObserve(w) ==
  /\ pc[w] = "w_obs"
  /\ \/ /\ Empty(queue_state)
        /\ observed' = [observed EXCEPT ![w] = queue_state]
        /\ Goto(w, "w_wait")
        /\ UNCHANGED <<word, work, locks, jthreads, waiting, call, epoch,
                       completion_epoch>>
     \/ ~Empty(queue_state) /\ Move(w, "w_dec")

WorkerWait(w) ==
  /\ pc[w] = "w_wait"
  /\ Move(w, IF queue_state = observed[w] THEN "w_sleep" ELSE "w_dec")

WorkerDec(w) ==
  /\ pc[w] = "w_dec"
  /\ waiting_workers' = waiting_workers - 1
  /\ observed' = [observed EXCEPT ![w] = EmptyState]
  /\ Goto(w, "w_load")
  /\ UNCHANGED <<word, work, locks, jthreads, waiting_producers,
                 waiting_for_idle, call, epoch, completion_epoch>>

WorkerLock(w) ==
  /\ pc[w] = "w_lock" /\ consumer_mutex = {}
  /\ \/ queue_state.pending = 0 /\ Move(w, "w_load")
     \/ /\ queue_state.pending # 0
        /\ consumer_mutex' = {w}
        /\ claimed' = [claimed EXCEPT ![w] =
                        Least(BulkClaim, queue_state.pending)]
        /\ Goto(w, "w_take")
        /\ UNCHANGED <<word, ring, failures, status, batch, producer_mutex,
                       shutdown_mutex, jthreads, waiting, call, seen>>

\* The n tasks at the head of the ring.
Front(n) == [i \in 1 .. n |-> tasks[Advance(queue_head, i - 1)]]
\* The ring after the n slots at its head were reset.
EmptiedWithoutReset(n) == tasks                                \* mutant
Emptied(n) ==
  [i \in Slots |-> IF Offset(i, queue_head) < n THEN NoTask ELSE tasks[i]]
\* A bulk task takes the bulk tasks behind it along, up to the limit.
ClaimSizeAnyTask(limit) ==                                     \* mutant
  IF tasks[queue_head] \notin Bulk THEN 1 ELSE limit
ClaimSize(limit) ==
  IF tasks[queue_head] \notin Bulk THEN 1
  ELSE Cardinality({n \in 1 .. limit : TasksIn(Front(n)) \subseteq Bulk})

WorkerTake(w) ==
  /\ pc[w] = "w_take"
  /\ LET n == ClaimSize(claimed[w]) IN
       /\ batch' = [batch EXCEPT ![w] = Front(n)]
       /\ claimed' = [claimed EXCEPT ![w] = n]
       /\ tasks' = Emptied(n)
       /\ queue_head' = Advance(queue_head, n)
  /\ Goto(w, "w_claim")
  /\ UNCHANGED <<word, queue_tail, failures, status, locks, jthreads, waiting,
                 call, seen>>

WorkerClaim(w) ==
  /\ pc[w] = "w_claim"
  /\ SetState([queue_state EXCEPT !.pending = @ - claimed[w],
                                  !.active = @ + claimed[w]])
  /\ status' = [k \in Tasks |->
                 IF k \in TasksIn(batch[w]) THEN "claimed" ELSE status[k]]
  /\ consumer_mutex' = {}
  /\ Goto(w, "w_check")
  /\ UNCHANGED <<ring, failures, claimed, batch, producer_mutex,
                 shutdown_mutex, jthreads, waiting, call, seen>>

WorkerCheckSilent(w) == pc[w] = "w_check" /\ Move(w, "w_exec")  \* mutant
WorkerCheck(w) ==
  /\ pc[w] = "w_check"
  /\ Move(w, IF waiting_producers = 0 THEN "w_exec" ELSE "w_notify")

WorkerNotify(w) ==
  /\ pc[w] = "w_notify"
  /\ NotifyOne(w, "w_exec")
  /\ UNCHANGED <<queue_state, work, locks, jthreads, waiting, call, seen>>

\* Without a promise, an error or an exception is counted.
FailsOnException(k, outcome) ==                                \* mutant
  k \notin Tracked /\ outcome = "exception"
Fails(k, outcome) == k \notin Tracked /\ outcome # "value"

\* execute: the body ends and its promise, or the failure count, records how.
\* A reentrant body ends after its call returned (w_settle) or without one.
Execute(w) ==
  /\ pc[w] \in {"w_exec", "w_settle"}
  /\ Head(batch[w]) \in Cooperative => w \in stop_requested
  /\ \E outcome \in Outcomes :
       /\ status' = [status EXCEPT ![Head(batch[w])] = outcome]
       /\ failed_dispatches' = failed_dispatches +
            IF Fails(Head(batch[w]), outcome) THEN 1 ELSE 0
  /\ batch' = [batch EXCEPT ![w] = Tail(@)]
  /\ Goto(w, IF Len(batch[w]) = 1 THEN "w_finish" ELSE "w_exec")
  /\ UNCHANGED <<word, ring, cancelled_dispatches, claimed, locks, jthreads,
                 waiting, call, seen>>

\* finish_tasks: the last active task of an empty queue notifies wait().
WorkerFinish(w) ==
  /\ pc[w] = "w_finish"
  /\ SetState([queue_state EXCEPT !.active = @ - claimed[w]])
  /\ Goto(w, IF /\ active_from_state(queue_state) = claimed[w]
                /\ queue_state.pending = 0
             THEN "n_load" ELSE "w_load")
  /\ claimed' = [claimed EXCEPT ![w] = 0]
  /\ UNCHANGED <<ring, failures, status, batch, locks, jthreads, waiting,
                 call, seen>>

Run(w) ==
  \/ WorkerLoad(w) \/ WorkerInc(w) \/ WorkerObserve(w) \/ WorkerWait(w)
  \/ WorkerDec(w) \/ WorkerLock(w) \/ WorkerTake(w) \/ WorkerClaim(w)
  \/ WorkerCheck(w) \/ WorkerNotify(w) \/ Execute(w) \/ WorkerFinish(w)
-----------------------------------------------------------------------------
(* wait, and notify_idle_waiters as a step of its callers.                 *)

CallWait(t) ==
  /\ t \in Waiters /\ pc[t] = "idle" /\ calls[t] < CallLimit
  /\ calls' = [calls EXCEPT ![t] = @ + 1]
  /\ Goto(t, "i_check")
  /\ UNCHANGED <<word, work, locks, jthreads, waiting, span, count, mode, seen>>

IdleCheck(t) ==
  /\ pc[t] = "i_check"
  /\ Move(t, IF is_idle THEN "idle" ELSE "i_inc")

IdleInc(t) ==
  /\ pc[t] = "i_inc"
  /\ waiting_for_idle' = waiting_for_idle + 1
  /\ Goto(t, "i_epoch")
  /\ UNCHANGED <<word, work, locks, jthreads, waiting_producers,
                 waiting_workers, call, seen>>

IdleEpoch(t) ==
  /\ pc[t] = "i_epoch"
  /\ epoch' = [epoch EXCEPT ![t] = completion_epoch]
  /\ Goto(t, "i_recheck")
  /\ UNCHANGED <<word, work, locks, jthreads, waiting, call, observed,
                 completion_epoch>>

IdleRecheck(t) ==
  /\ pc[t] = "i_recheck"
  /\ Move(t, IF is_idle THEN "i_dec" ELSE "i_wait")

IdleWait(t) ==
  /\ pc[t] = "i_wait"
  /\ Move(t, IF completion_epoch = epoch[t] THEN "i_sleep" ELSE "i_dec")

IdleDec(t) ==
  /\ pc[t] = "i_dec"
  /\ waiting_for_idle' = waiting_for_idle - 1
  /\ epoch' = [epoch EXCEPT ![t] = 0]
  /\ Goto(t, "i_check")
  /\ UNCHANGED <<word, work, locks, jthreads, waiting_producers,
                 waiting_workers, call, observed, completion_epoch>>

\* cancel_pending calls it with both mutexes held, finish_tasks with none.
NotifyReturn(t) == IF consumer_mutex = {t} THEN "c_notify" ELSE "w_load"

NotifyLoad(t) ==
  /\ pc[t] = "n_load"
  /\ Move(t, IF waiting_for_idle = 0 THEN NotifyReturn(t) ELSE "n_epoch")

NotifyEpoch(t) ==
  /\ pc[t] = "n_epoch"
  /\ completion_epoch' = completion_epoch + 1
  /\ Goto(t, "n_notify")
  /\ UNCHANGED <<word, work, locks, jthreads, waiting, call, observed, epoch>>

NotifyWake(t) ==
  /\ pc[t] = "n_notify"
  /\ Wake(IdleSleepers, t, NotifyReturn(t))
  /\ UNCHANGED <<word, work, locks, jthreads, waiting, call, seen>>

Wait(t) ==
  \/ IdleCheck(t) \/ IdleInc(t) \/ IdleEpoch(t) \/ IdleRecheck(t)
  \/ IdleWait(t) \/ IdleDec(t)
NotifyIdle(t) == NotifyLoad(t) \/ NotifyEpoch(t) \/ NotifyWake(t)
-----------------------------------------------------------------------------
(* clear_queue and shutdown, by a client or by a task's body.              *)

\* clear_queue goes to cancel_pending; a worker's shutdown takes no
\* shutdown_mutex and joins nobody.
CallControl(t) ==
  /\ t \in Workers \cup Controllers /\ MayCall(t)
  /\ \E op \in IF t \in Workers THEN BodyOps ELSE ControlOps :
       /\ mode' = [mode EXCEPT ![t] = op]
       /\ Goto(t, IF op = "clear_queue" THEN "c_lock"
                  ELSE IF t \in Workers THEN "s_stop" ELSE "s_lock")
  /\ IF t \in Workers THEN UNCHANGED calls
     ELSE calls[t] < CallLimit /\ calls' = [calls EXCEPT ![t] = @ + 1]
  /\ UNCHANGED <<word, work, locks, jthreads, waiting, span, count, seen>>

\* After cancel_pending: clear_queue returns, shutdown requests stops.
AfterCancel(t) == IF mode[t] = "clear_queue" THEN Resume(t) ELSE "s_request"
ModeAfterCancel(t) ==
  [mode EXCEPT ![t] = IF @ = "clear_queue" THEN "none" ELSE @]

CancelLockProducerOnly(t) ==                                   \* mutant
  /\ pc[t] = "c_lock" /\ producer_mutex = {}
  /\ producer_mutex' = {t}
  /\ count' = [count EXCEPT ![t] = queue_state.pending]
  /\ Goto(t, "c_drop")
  /\ UNCHANGED <<word, work, consumer_mutex, shutdown_mutex, jthreads, waiting,
                 span, mode, calls, seen>>
CancelLock(t) ==
  /\ pc[t] = "c_lock" /\ producer_mutex = {} /\ consumer_mutex = {}
  /\ producer_mutex' = {t} /\ consumer_mutex' = {t}
  /\ count' = [count EXCEPT ![t] = queue_state.pending]
  /\ Goto(t, "c_drop")
  /\ UNCHANGED <<word, work, shutdown_mutex, jthreads, waiting, span, mode,
                 calls, seen>>

\* The loop over the slots, both mutexes held: every dropped promise gets
\* task_cancelled_error, every other item counts as a cancelled dispatch.
CancelDrop(t) ==
  /\ pc[t] = "c_drop"
  /\ LET dropped == TasksIn(Front(count[t])) IN
       /\ status' = [k \in Tasks |->
                      IF k \in dropped THEN "cancelled" ELSE status[k]]
       /\ cancelled_dispatches' =
            cancelled_dispatches + Cardinality(dropped \ Tracked)
  /\ tasks' = Emptied(count[t])
  /\ queue_head' = Advance(queue_head, count[t])
  /\ queue_tail' = Advance(queue_head, count[t])
  /\ IF count[t] # 0
     THEN Goto(t, "c_sub") /\ UNCHANGED <<locks, mode>>
     ELSE /\ producer_mutex' = {} /\ consumer_mutex' = {}
          /\ Goto(t, AfterCancel(t)) /\ mode' = ModeAfterCancel(t)
          /\ UNCHANGED shutdown_mutex
  /\ UNCHANGED <<word, failed_dispatches, claimed, batch, jthreads, waiting,
                 span, count, calls, seen>>

CancelSub(t) ==
  /\ pc[t] = "c_sub"
  /\ SetState([queue_state EXCEPT !.pending = @ - count[t]])
  /\ count' = [count EXCEPT ![t] = 0]
  /\ Goto(t, "c_idle")
  /\ UNCHANGED <<work, locks, jthreads, waiting, span, mode, calls, seen>>

CancelIdleSkipped(t) == pc[t] = "c_idle" /\ Move(t, "c_notify") \* mutant
CancelIdle(t) ==
  /\ pc[t] = "c_idle"
  /\ Move(t, IF active_from_state(queue_state) = 0 THEN "n_load"
             ELSE "c_notify")

CancelNotify(t) ==
  /\ pc[t] = "c_notify"
  /\ NotifyAll(t, AfterCancel(t)) /\ mode' = ModeAfterCancel(t)
  /\ producer_mutex' = {} /\ consumer_mutex' = {}
  /\ UNCHANGED <<queue_state, work, shutdown_mutex, jthreads, waiting, span,
                 count, calls, seen>>

CancelPending(t) ==
  \/ CancelLock(t) \/ CancelDrop(t) \/ CancelSub(t) \/ CancelIdle(t)
  \/ CancelNotify(t)

ShutdownLock(t) ==
  /\ pc[t] = "s_lock" /\ shutdown_mutex = {}
  /\ shutdown_mutex' = {t}
  /\ Goto(t, "s_stop")
  /\ UNCHANGED <<word, work, producer_mutex, consumer_mutex, jthreads,
                 waiting, call, seen>>

SignalStop(t) ==
  /\ pc[t] = "s_stop" /\ producer_mutex = {}
  /\ SetState([queue_state EXCEPT !.stopping = TRUE])
  /\ Goto(t, IF mode[t] = "CANCEL_PENDING" THEN "c_lock" ELSE "s_notify")
  /\ UNCHANGED <<work, locks, jthreads, waiting, call, seen>>

\* Only the threads still in workers_ are asked to stop.
SignalRequestSkipped(t) == pc[t] = "s_request" /\ Move(t, "s_notify") \* mutant
SignalRequest(t) ==
  /\ pc[t] = "s_request"
  /\ stop_requested' = stop_requested \cup workers
  /\ Goto(t, "s_notify")
  /\ UNCHANGED <<word, work, locks, workers, workers_to_join, waiting, call,
                 seen>>

SignalNotify(t) ==
  /\ pc[t] = "s_notify"
  /\ NotifyAll(t, IF t \in Workers THEN "w_settle" ELSE "s_swap")
  /\ mode' = [mode EXCEPT ![t] = IF t \in Workers THEN "none" ELSE @]
  /\ UNCHANGED <<queue_state, work, locks, jthreads, waiting, span, count,
                 calls, seen>>

ShutdownSwap(t) ==
  /\ pc[t] = "s_swap"
  /\ workers_to_join' = workers /\ workers' = {}
  /\ Goto(t, "s_join")
  /\ UNCHANGED <<word, work, locks, stop_requested, waiting, call, seen>>

ShutdownDetach(t) ==                                           \* mutant
  /\ pc[t] = "s_join"
  /\ workers_to_join' = {} /\ shutdown_mutex' = {}
  /\ mode' = [mode EXCEPT ![t] = "none"]
  /\ Goto(t, "idle")
  /\ UNCHANGED <<word, work, producer_mutex, consumer_mutex, workers,
                 stop_requested, waiting, span, count, calls, seen>>
ShutdownJoin(t) ==
  /\ pc[t] = "s_join"
  /\ \A w \in workers_to_join : pc[w] = "exited"
  /\ workers_to_join' = {} /\ shutdown_mutex' = {}
  /\ mode' = [mode EXCEPT ![t] = "none"]
  /\ Goto(t, "idle")
  /\ UNCHANGED <<word, work, producer_mutex, consumer_mutex, workers,
                 stop_requested, waiting, span, count, calls, seen>>

Shutdown(t) ==
  \/ ShutdownLock(t) \/ SignalStop(t) \/ SignalRequest(t) \/ SignalNotify(t)
  \/ ShutdownSwap(t) \/ ShutdownJoin(t)
-----------------------------------------------------------------------------
(* The specification.                                                      *)

\* A call, by a client or by the body of a reentrant task.
Call(t) == CallEnqueue(t) \/ CallWait(t) \/ CallControl(t)
\* A step inside a call, or of a worker's loop.
Step(t) ==
  \/ Enqueue(t) \/ (t \in Workers /\ Run(t)) \/ Wait(t) \/ NotifyIdle(t)
  \/ CancelPending(t) \/ Shutdown(t) \/ Construct(t)

\* Nobody is in a call and no work is left: the pool may rest here for ever.
AtRest ==
  /\ \A c \in Clients : pc[c] \in {"idle", "gone"}
  /\ \A w \in Workers : pc[w] \in {"w_sleep", "exited"}
  /\ queue_state.pending = 0
\* Every worker sleeps in a submission that its task makes to the full pool:
\* only a worker, or a call that cancels, could make room.
SelfBlocked ==
  /\ Full(queue_state) /\ \A w \in Workers : pc[w] = "e_sleep"
  /\ \A t \in Controllers : pc[t] = "idle"
\* A cancellable task that nobody has asked to stop may run for ever.
Unstopped ==
  \E w \in Workers \ stop_requested :
    pc[w] \in {"w_exec", "w_settle"} /\ Head(batch[w]) \in Cooperative
Rest == (AtRest \/ SelfBlocked \/ Unstopped) /\ UNCHANGED vars

Next == (\E t \in Threads : Call(t) \/ Step(t)) \/ Rest

Spec == Init /\ [][Next]_vars
\* The operating system runs every thread that can take a step; nobody has
\* to start a call.
FairSpec == Spec /\ \A t \in Threads : WF_vars(Step(t))
-----------------------------------------------------------------------------
(* Type invariant.                                                         *)

Labels ==
  {"idle", "exited", "e_load", "e_inc", "e_obs", "e_wait", "e_sleep", "e_dec",
   "e_lock", "e_slot", "e_publish", "e_check", "e_notify", "w_load", "w_inc",
   "w_obs", "w_wait", "w_sleep", "w_dec", "w_lock", "w_take", "w_claim",
   "w_check", "w_notify", "w_exec", "w_settle", "w_finish", "i_check",
   "i_inc", "i_epoch", "i_recheck", "i_wait", "i_sleep", "i_dec", "n_load",
   "n_epoch", "n_notify", "c_lock", "c_drop", "c_sub", "c_idle", "c_notify",
   "s_lock", "s_stop", "s_request", "s_notify", "s_swap", "s_join", "x_stop",
   "x_notify", "x_join", "gone"}
QueueState == [pending : 0 .. Capacity, active : Nat, stopping : BOOLEAN]
Holders == {{}} \cup {{t} : t \in Threads}

\* The type of every variable: the counts of the packed word and the indices
\* of the ring stay in range, a mutex has at most one holder.
TypeOK ==
  /\ queue_state \in QueueState
  /\ tasks \in [Slots -> Tasks \cup {NoTask}]
  /\ queue_head \in Slots /\ queue_tail \in Slots
  /\ producer_mutex \in Holders /\ consumer_mutex \in Holders
  /\ shutdown_mutex \in Holders
  /\ workers \subseteq Workers /\ workers_to_join \subseteq Workers
  /\ stop_requested \subseteq Workers
  /\ waiting_producers \in Nat /\ waiting_workers \in Nat
  /\ waiting_for_idle \in Nat /\ completion_epoch \in Nat
  /\ failed_dispatches \in Nat /\ cancelled_dispatches \in Nat
  /\ status \in [Tasks -> Statuses]
  /\ eligible \subseteq Threads
  /\ pc \in [Threads -> Labels]
  /\ observed \in [Threads -> QueueState] /\ epoch \in [Threads -> Nat]
  /\ span \in [Threads -> Seq(Tasks)] /\ count \in [Threads -> 0 .. Capacity]
  /\ claimed \in [Workers -> 0 .. Capacity]
  /\ batch \in [Workers -> Seq(Tasks)]
  /\ mode \in [Threads -> Operations \cup {"none"}]
  /\ calls \in [Threads -> 0 .. CallLimit]
-----------------------------------------------------------------------------
(* Safety.                                                                 *)

\* What the holder of the consumer mutex has emptied and not yet subtracted
\* from the pending count, and what the holder of the producer mutex has
\* emplaced and not yet added to it.
Holder(mutex) == CHOOSE t \in Threads : mutex = {t}
Held == IF consumer_mutex = {} THEN 0
        ELSE LET t == Holder(consumer_mutex) IN
             CASE pc[t] = "w_claim" -> claimed[t]
               [] pc[t] = "c_sub" -> count[t]
               [] OTHER -> 0
Staged == IF producer_mutex = {} THEN 0
          ELSE LET t == Holder(producer_mutex) IN
               IF pc[t] = "e_publish" THEN count[t] ELSE 0
Engaged == queue_state.pending - Held + Staged

\* The two ends of the ring work under different mutexes and meet only in the
\* pending count: the engaged slots are the Engaged ones from queue_head on,
\* queue_tail is just behind them, and with the slots a consumer still works
\* on they never exceed the ring, so that no producer writes a slot in use.
RingOK ==
  /\ queue_state.pending + Staged <= Capacity
  /\ Held <= queue_state.pending
  /\ queue_tail = Advance(queue_head, Engaged)
       \/ (Engaged = Capacity /\ queue_tail = queue_head)
  /\ \A i \in Slots :
       (tasks[i] # NoTask) <=> (Offset(i, queue_head) < Engaged)

\* The places a task can be in: slots of the ring and batches of workers.
Places(k) ==
  {<<i>> : i \in {j \in Slots : tasks[j] = k}} \cup
  UNION {{<<w, i>> : i \in {j \in DOMAIN batch[w] : batch[w][j] = k}} :
         w \in Workers}

\* An accepted task is in exactly one place until its outcome is recorded,
\* and a settled or refused one in none: no queued or claimed task is lost,
\* run twice, or both run and cancelled.
TasksPlaced ==
  \A k \in Tasks :
    CASE status[k] \in {"queued", "claimed"} -> Cardinality(Places(k)) = 1
      [] status[k] = "offered" -> Cardinality(Places(k)) <= 1
      [] OTHER -> Places(k) = {}

\* wait() returns only in a state where no accepted task is queued, claimed
\* or running, whatever the packed counts say.
WaitReturnsIdle ==
  [][\A t \in Waiters : pc[t] = "i_check" /\ pc'[t] = "idle"
       => \A k \in Tasks : status[k] \notin {"queued", "claimed"}]_vars

\* failed_dispatches and cancelled_dispatches count exactly the tasks without
\* a future that failed or were dropped, once each.
FailuresAccounted ==
  /\ failed_dispatches =
       Cardinality({k \in Tasks \ Tracked :
                     status[k] \in {"error", "exception"}})
  /\ cancelled_dispatches =
       Cardinality({k \in Tasks \ Tracked : status[k] = "cancelled"})

\* Once a shutdown(CANCEL_PENDING) has passed its requests, every worker that
\* runs a cancellable task has been asked to stop.  A client's call holds the
\* shutdown mutex, so no other shutdown can have taken the threads away; a
\* task's call does not, and it misses the workers that a shutdown in
\* progress has already swapped out to join them.
CancelStopsActive ==
  \A t \in Threads : pc[t] = "s_notify" /\ mode[t] = "CANCEL_PENDING" =>
    \A w \in Workers : TasksIn(batch[w]) \cap Cooperative # {} =>
      w \in stop_requested \/ (t \in Workers /\ w \in workers_to_join)
-----------------------------------------------------------------------------
(* Liveness, under FairSpec.                                               *)

\* Every accepted task is executed or cancelled, unless tasks that submit to
\* their own full pool keep all its workers.
AcceptedSettles ==
  \A k \in Tasks :
    (status[k] = "queued") ~> (status[k] \in Settled \/ SelfBlocked)

\* Every call returns: a producer blocked on a full queue, a waiter, a
\* canceller, a shutdown that joins, a failed constructor that joins the
\* workers it has started; unless it is a cancellable task that nobody has
\* asked to stop that keeps it, or the workers block themselves.
CallsReturn ==
  \A t \in Clients :
    (pc[t] # "idle") ~>
    (pc[t] \in {"idle", "gone"} \/ Unstopped \/ SelfBlocked)

\* A cancelling shutdown returns even when the running tasks are cancellable
\* ones that wait for their stop_token.
CancelShutdownReturns ==
  \A t \in Controllers : (mode[t] = "CANCEL_PENDING") ~> (mode[t] = "none")
-----------------------------------------------------------------------------
(* The pool implements its contract.                                       *)

\* The abstract queue is what a consumer has taken but not yet claimed, then
\* the engaged slots that are published, in ring order.
TakenItems == IF Held = 0 \/ pc[Holder(consumer_mutex)] # "w_claim" THEN <<>>
              ELSE batch[Holder(consumer_mutex)]
AbstractQueue == TakenItems \o Front(queue_state.pending - Held)
\* The control call of a client, as far as its caller can tell.
AbstractCall(t) ==
  CASE pc[t] \in {"i_check", "i_inc", "i_epoch", "i_recheck", "i_wait",
                  "i_sleep", "i_dec"} -> "wait"
    [] mode[t] \in ShutdownMode -> "shutdown"
    [] mode[t] = "clear_queue" ->
         IF pc[t] \in {"c_lock", "c_drop"} THEN "clear" ELSE "cleared"
    [] OTHER -> "none"

Contract == INSTANCE PoolContract WITH
  queue <- AbstractQueue, stopping <- queue_state.stopping,
  calls <- [t \in Clients |-> AbstractCall(t)]

\* Every step of the pool is a step of PoolContract or none: FIFO order,
\* capacity, one outcome per task, no acceptance after the stop, and what
\* the return of wait, clear_queue and shutdown tells the caller.
ImplementsContract == Contract!Spec
=============================================================================
