---------------------------- MODULE PoolContract ----------------------------
(***************************************************************************)
(* What IndustrialWorkerPool promises to its callers, without the ring,    *)
(* the packed word, the locks or the sleeping: a bounded FIFO queue whose  *)
(* tasks are accepted in submission order, started in queue order, settled *)
(* once, and never accepted once the pool is stopping; wait() returns only *)
(* when nothing is queued or active, clear_queue() only after it emptied   *)
(* the queue, shutdown() only when nothing is left to run.                 *)
(***************************************************************************)
EXTENDS Integers, Sequences, FiniteSets

CONSTANTS
  Clients,    \* the threads that call the pool from outside
  Tasks, Spans, Bulk, Capacity, BulkClaim

Settled == {"value", "error", "exception", "cancelled"}
Accepted == {"queued", "claimed"}

VARIABLES
  queue,      \* the accepted tasks that have not started, oldest first
  status,     \* where each task is, or how it ended
  stopping,
  calls       \* the control call each client is in
vars == <<queue, status, stopping, calls>>

TasksIn(s) == {s[i] : i \in DOMAIN s}
Becomes(S, s) == status' = [k \in Tasks |-> IF k \in S THEN s ELSE status[k]]
NothingAccepted == \A k \in Tasks : status[k] \notin Accepted

Init ==
  /\ queue = <<>> /\ stopping = FALSE
  /\ status = [k \in Tasks |-> "caller"]
  /\ calls = [t \in Clients |-> "none"]

\* A submission starts: submit or dispatch with one task, dispatch_bulk.
Offer ==
  /\ \E s \in Spans : /\ \A k \in TasksIn(s) : status[k] = "caller"
                      /\ Becomes(TasksIn(s), "offered")
  /\ UNCHANGED <<queue, stopping, calls>>

\* The next tasks of a submission join the queue, in their order: whatever
\* of the span was accepted before precedes them, what follows is on offer.
Accept ==
  /\ ~stopping
  /\ \E s \in Spans : \E m \in 1 .. Len(s) : \E n \in m .. Len(s) :
       LET new == SubSeq(s, m, n) IN
       /\ \A i \in 1 .. Len(s) : (status[s[i]] = "offered") <=> (i >= m)
       /\ Len(queue) + Len(new) <= Capacity
       /\ queue' = queue \o new
       /\ Becomes(TasksIn(new), "queued")
  /\ UNCHANGED <<stopping, calls>>

\* A submission ends early: what was not accepted stays with the caller.
Refuse ==
  /\ stopping
  /\ \E s \in Spans :
       LET left == {k \in TasksIn(s) : status[k] = "offered"} IN
       left # {} /\ Becomes(left, "rejected")
  /\ UNCHANGED <<queue, stopping, calls>>

StartNewest ==                                                 \* mutant
  /\ queue # <<>> /\ Becomes({queue[Len(queue)]}, "claimed")
  /\ queue' = SubSeq(queue, 1, Len(queue) - 1)
  /\ UNCHANGED <<stopping, calls>>
\* A worker claims the oldest task, or a run of the oldest bulk tasks.
Start ==
  /\ \E n \in 1 .. Len(queue) :
       /\ n > 1 => n <= BulkClaim /\ TasksIn(SubSeq(queue, 1, n)) \subseteq Bulk
       /\ Becomes(TasksIn(SubSeq(queue, 1, n)), "claimed")
       /\ queue' = SubSeq(queue, n + 1, Len(queue))
  /\ UNCHANGED <<stopping, calls>>

\* A started task ends, once; it can no longer be cancelled in the queue.
Settle ==
  /\ \E k \in Tasks : \E outcome \in Settled \ {"cancelled"} :
       status[k] = "claimed" /\ Becomes({k}, outcome)
  /\ UNCHANGED <<queue, stopping, calls>>

\* Everything queued is cancelled: for clear_queue(), for a cancelling
\* shutdown, or for a task that calls either.
Cancel ==
  /\ queue # <<>> /\ queue' = <<>>
  /\ Becomes(TasksIn(queue), "cancelled")
  /\ \/ UNCHANGED calls
     \/ \E t \in Clients : /\ calls[t] = "clear"
                           /\ calls' = [calls EXCEPT ![t] = "cleared"]
  /\ UNCHANGED stopping

Stop == stopping' = TRUE /\ UNCHANGED <<queue, status, calls>>

Call(t) ==
  /\ calls[t] = "none"
  /\ \E op \in {"wait", "clear", "shutdown"} :
       calls' = [calls EXCEPT ![t] = op]
  /\ UNCHANGED <<queue, status, stopping>>

Return(t) ==
  /\ \/ calls[t] = "wait" /\ NothingAccepted
     \/ calls[t] = "clear" /\ queue = <<>>
     \/ calls[t] = "cleared"
     \/ calls[t] = "shutdown" /\ stopping /\ NothingAccepted
  /\ calls' = [calls EXCEPT ![t] = "none"]
  /\ UNCHANGED <<queue, status, stopping>>

Next ==
  \/ Offer \/ Accept \/ Refuse \/ Start \/ Settle \/ Cancel \/ Stop
  \/ \E t \in Clients : Call(t) \/ Return(t)

Spec == Init /\ [][Next]_vars
=============================================================================
