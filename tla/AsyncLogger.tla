---------------------------- MODULE AsyncLogger ----------------------------
(***************************************************************************)
(* Logger<Policy, AsyncSinkDispatch, Metadata> (include/vosp/logger.hpp):  *)
(* producers append to a bounded queue, one worker swaps the queue for an  *)
(* empty batch and calls the sinks, flush() and shutdown() wait for it.    *)
(*                                                                         *)
(* mutex_ is held only inside the critical sections, and each of those is  *)
(* one action here; a thread in a condition variable is at a "_wait" label *)
(* and re-evaluates its predicate after a notification.  A record that the *)
(* policy filters out returns at once and is no action.  The callbacks of  *)
(* the backend's sinks for one record are one delivery; a callback may     *)
(* call the logger it serves, on the worker.                               *)
(***************************************************************************)
EXTENDS Naturals, Sequences, FiniteSets

CONSTANTS
  Worker,       \* the thread that executes run()
  Producers,    \* the threads that write
  Flushers,     \* the threads that call flush()
  Closers,      \* the threads that call shutdown()
  Records,
  OwnRecords,   \* the records that a sink callback writes
  Reentrant,    \* the records whose callback may call the logger once
  CallbackOps,  \* what such a callback calls
  Capacity,     \* AsyncSinkDispatch::queue_capacity
  CallLimit     \* bound: flush and shutdown calls of each client

Clients == Producers \cup Flushers \cup Closers
Threads == Clients \cup {Worker}
Statuses == {"caller", "accepted", "delivered", "failed", "refused"}

ASSUME WorkerAssumption == Worker \notin Clients
ASSUME CapacityAssumption == Capacity \in Nat \ {0}
ASSUME RecordsAssumption ==
  OwnRecords \subseteq Records /\ Reentrant \subseteq Records
ASSUME CallsAssumption ==
  CallbackOps \subseteq {"write", "flush", "shutdown"} /\ CallLimit \in Nat

VARIABLES
  queue, batch,      \* accepted, and swapped out but not yet delivered
  batch_active, stopping,
  shutdown_mutex,    \* the set of its holders
  joinable,          \* worker_ has not been joined
  failed_records,
  status,            \* where each record is, or how its callbacks ended
  pc,
  record,            \* local: the record a write carries, in a set
  calls              \* bound: calls made so far

buffers == <<queue, batch, batch_active>>
closing == <<stopping, shutdown_mutex, joinable>>
outcome == <<failed_records, status>>
vars == <<queue, batch, batch_active, stopping, shutdown_mutex, joinable,
          failed_records, status, pc, record, calls>>

Init ==
  /\ queue = <<>> /\ batch = <<>> /\ batch_active = FALSE
  /\ stopping = FALSE /\ shutdown_mutex = {} /\ joinable = TRUE
  /\ failed_records = 0 /\ status = [r \in Records |-> "caller"]
  /\ pc = [t \in Threads |-> IF t = Worker THEN "run" ELSE "idle"]
  /\ record = [t \in Threads |-> {}] /\ calls = [t \in Clients |-> 0]

Goto(t, label) == pc' = [pc EXCEPT ![t] = label]
\* t moves to label and the threads waiting at "from" wake up at "to".
Notify(t, label, from, to) ==
  pc' = [u \in Threads |-> IF u = t THEN label
                           ELSE IF pc[u] = from THEN to ELSE pc[u]]
\* Where a call returns to.
Resume(t) == IF t = Worker THEN "delivered" ELSE "idle"
MayCall(t) == IF t = Worker
              THEN pc[t] = "deliver" /\ batch # <<>> /\ Head(batch) \in Reentrant
              ELSE pc[t] = "idle"
-----------------------------------------------------------------------------
(* write and write_owned: enqueue.                                         *)

CallWrite(t) ==
  /\ MayCall(t)
  /\ IF t = Worker THEN "write" \in CallbackOps ELSE t \in Producers
  /\ \E r \in IF t = Worker THEN OwnRecords ELSE Records \ OwnRecords :
       /\ status[r] = "caller" /\ \A u \in Threads : r \notin record[u]
       /\ record' = [record EXCEPT ![t] = {r}]
  /\ Goto(t, "enqueue")
  /\ UNCHANGED <<buffers, closing, outcome, calls>>

\* The predicate of space_available_, evaluated under mutex_.
HasSpaceOffByOne == stopping \/ Len(queue) <= Capacity          \* mutant
HasSpace == stopping \/ Len(queue) < Capacity

Enqueue(t) ==
  /\ pc[t] = "enqueue" /\ HasSpace
  /\ \E r \in record[t] :
       \/ /\ stopping
          /\ status' = [status EXCEPT ![r] = "refused"]
          /\ Goto(t, Resume(t)) /\ UNCHANGED queue
       \/ /\ ~stopping
          /\ queue' = Append(queue, r)
          /\ status' = [status EXCEPT ![r] = "accepted"]
          /\ Notify(t, Resume(t), "available_wait", "run")
  /\ record' = [record EXCEPT ![t] = {}]
  /\ UNCHANGED <<batch, batch_active, closing, failed_records, calls>>

EnqueueBlock(t) ==
  /\ pc[t] = "enqueue" /\ ~HasSpace
  /\ Goto(t, "space_wait")
  /\ UNCHANGED <<buffers, closing, outcome, record, calls>>
-----------------------------------------------------------------------------
(* flush.                                                                  *)

Counted(t) == IF t = Worker THEN UNCHANGED calls
              ELSE calls[t] < CallLimit /\ calls' = [calls EXCEPT ![t] = @ + 1]

CallFlush(t) ==
  /\ MayCall(t) /\ Counted(t)
  /\ IF t = Worker THEN "flush" \in CallbackOps ELSE t \in Flushers
  /\ Goto(t, "flush")
  /\ UNCHANGED <<buffers, closing, outcome, record>>

\* The predicate of drained_.
DrainedIgnoresBatch == queue = <<>>                            \* mutant
Drained == queue = <<>> /\ ~batch_active

Flush(t) ==
  /\ pc[t] = "flush"
  /\ Goto(t, IF Drained THEN Resume(t) ELSE "drained_wait")
  /\ UNCHANGED <<buffers, closing, outcome, record, calls>>
-----------------------------------------------------------------------------
(* shutdown.                                                               *)

CallShutdown(t) ==
  /\ MayCall(t) /\ Counted(t)
  /\ IF t = Worker THEN "shutdown" \in CallbackOps ELSE t \in Closers
  /\ Goto(t, "s_lock")
  /\ UNCHANGED <<buffers, closing, outcome, record>>

ShutdownLock(t) ==
  /\ pc[t] = "s_lock" /\ shutdown_mutex = {}
  /\ shutdown_mutex' = {t}
  /\ Goto(t, "s_stop")
  /\ UNCHANGED <<buffers, stopping, joinable, outcome, record, calls>>

\* The worker and the blocked writers look again; flush() waits for drained_.
ShutdownStop(t) ==
  /\ pc[t] = "s_stop"
  /\ stopping' = TRUE
  /\ pc' = [u \in Threads |-> IF u = t THEN "s_join"
                              ELSE CASE pc[u] = "available_wait" -> "run"
                                     [] pc[u] = "space_wait" -> "enqueue"
                                     [] OTHER -> pc[u]]
  /\ UNCHANGED <<buffers, shutdown_mutex, joinable, outcome, record, calls>>

ShutdownJoin(t) ==
  /\ pc[t] = "s_join"
  /\ joinable /\ t # Worker => pc[Worker] = "exited"
  /\ joinable' = (joinable /\ t = Worker)
  /\ shutdown_mutex' = {}
  /\ Goto(t, Resume(t))
  /\ UNCHANGED <<buffers, stopping, outcome, record, calls>>
-----------------------------------------------------------------------------
(* run: the worker.                                                        *)

RunWait ==
  /\ pc[Worker] = "run" /\ queue = <<>> /\ ~stopping
  /\ Goto(Worker, "available_wait")
  /\ UNCHANGED <<buffers, closing, outcome, record, calls>>

RunExitEarly ==                                                \* mutant
  /\ pc[Worker] = "run" /\ stopping
  /\ Notify(Worker, "exited", "drained_wait", "flush")
  /\ UNCHANGED <<buffers, closing, outcome, record, calls>>
RunExit ==
  /\ pc[Worker] = "run" /\ queue = <<>> /\ stopping
  /\ Notify(Worker, "exited", "drained_wait", "flush")
  /\ UNCHANGED <<buffers, closing, outcome, record, calls>>

RunSwapSilent ==                                               \* mutant
  /\ pc[Worker] = "run" /\ queue # <<>>
  /\ batch' = queue /\ queue' = <<>> /\ batch_active' = TRUE
  /\ Goto(Worker, "deliver")
  /\ UNCHANGED <<closing, outcome, record, calls>>
RunSwap ==
  /\ pc[Worker] = "run" /\ queue # <<>>
  /\ batch' = queue /\ queue' = <<>> /\ batch_active' = TRUE
  /\ Notify(Worker, "deliver", "space_wait", "enqueue")
  /\ UNCHANGED <<closing, outcome, record, calls>>

\* The callbacks of one record end: a false result and an exception count
\* as one failure.
RunDeliver ==
  /\ pc[Worker] \in {"deliver", "delivered"} /\ batch # <<>>
  /\ \/ /\ status' = [status EXCEPT ![Head(batch)] = "delivered"]
        /\ UNCHANGED failed_records
     \/ /\ status' = [status EXCEPT ![Head(batch)] = "failed"]
        /\ failed_records' = failed_records + 1
  /\ batch' = Tail(batch)
  /\ Goto(Worker, "deliver")
  /\ UNCHANGED <<queue, batch_active, closing, record, calls>>

RunBatchEndSilent ==                                           \* mutant
  /\ pc[Worker] = "deliver" /\ batch = <<>>
  /\ batch_active' = FALSE
  /\ Goto(Worker, "run")
  /\ UNCHANGED <<queue, batch, closing, outcome, record, calls>>
RunBatchEnd ==
  /\ pc[Worker] = "deliver" /\ batch = <<>>
  /\ batch_active' = FALSE
  /\ IF queue = <<>> THEN Notify(Worker, "run", "drained_wait", "flush")
                     ELSE Goto(Worker, "run")
  /\ UNCHANGED <<queue, batch, closing, outcome, record, calls>>

Run == RunWait \/ RunExit \/ RunSwap \/ RunDeliver \/ RunBatchEnd
-----------------------------------------------------------------------------
(* The specification.                                                      *)

Call(t) == CallWrite(t) \/ CallFlush(t) \/ CallShutdown(t)
Step(t) ==
  \/ Enqueue(t) \/ EnqueueBlock(t) \/ Flush(t)
  \/ ShutdownLock(t) \/ ShutdownStop(t) \/ ShutdownJoin(t)
  \/ (t = Worker /\ Run)
Next == \E t \in Threads : Call(t) \/ Step(t)

Spec == Init /\ [][Next]_vars
\* A thread that can take a step takes one; nobody has to start a call.
FairSpec == Spec /\ \A t \in Threads : WF_vars(Step(t))
-----------------------------------------------------------------------------
(* Properties.                                                             *)

Labels ==
  {"idle", "enqueue", "space_wait", "flush", "drained_wait", "s_lock",
   "s_stop", "s_join", "run", "available_wait", "deliver", "delivered",
   "exited"}
\* The type of every variable; neither buffer outgrows the capacity that
\* make_queue reserves.
TypeOK ==
  /\ queue \in Seq(Records) /\ Len(queue) <= Capacity
  /\ batch \in Seq(Records) /\ Len(batch) <= Capacity
  /\ batch_active \in BOOLEAN /\ stopping \in BOOLEAN /\ joinable \in BOOLEAN
  /\ shutdown_mutex \in {{}} \cup {{t} : t \in Threads}
  /\ failed_records \in Nat
  /\ status \in [Records -> Statuses]
  /\ pc \in [Threads -> Labels]
  /\ record \in [Threads -> SUBSET Records]
  /\ calls \in [Clients -> 0 .. CallLimit]

\* A flush() that sleeps is always followed by a notification: the worker
\* still has to end a batch, so no drained_ notification is missed.
FlusherIsWoken ==
  (\E t \in Threads : pc[t] = "drained_wait") => batch_active \/ queue # <<>>

AbstractCall(t) ==
  CASE pc[t] \in {"flush", "drained_wait"} -> "flush"
    [] pc[t] \in {"s_lock", "s_stop", "s_join"} -> "shutdown"
    [] OTHER -> "none"
Contract == INSTANCE AsyncLoggerContract WITH
  pending <- batch \o queue, calls <- [t \in Clients |-> AbstractCall(t)]
\* Every step is a step of AsyncLoggerContract or none: order of delivery,
\* no acceptance after the stop, and what flush() and shutdown() promise when
\* they return.
ImplementsContract == Contract!Spec

\* Every accepted record reaches its callbacks, and every call returns,
\* unless a sink callback is itself blocked in a call to the logger.
CallbackBlocked == pc[Worker] \in {"space_wait", "drained_wait", "s_lock"}
AcceptedDelivered ==
  \A r \in Records :
    (status[r] = "accepted") ~>
      (status[r] \in {"delivered", "failed"} \/ CallbackBlocked)
CallsReturn ==
  \A t \in Clients : (pc[t] # "idle") ~> (pc[t] = "idle" \/ CallbackBlocked)

\* shutdown() returns, also when a sink callback calls it, too.
ShutdownReturns ==
  \A t \in Closers : (pc[t] = "s_join") ~> (pc[t] = "idle")
=============================================================================
