------------------------ MODULE AsyncLoggerContract ------------------------
(***************************************************************************)
(* What the asynchronous Logger promises: accepted records reach the sinks *)
(* one at a time in the order of their acceptance, none is accepted after  *)
(* shutdown began, at most two buffers of records are held, and flush()    *)
(* and shutdown() return only when every accepted record was delivered.    *)
(***************************************************************************)
EXTENDS Naturals, Sequences

CONSTANTS Records, Clients, Capacity

VARIABLES
  pending,    \* the accepted records not yet delivered, oldest first
  status, stopping,
  calls       \* the call of each client that has something to wait for
vars == <<pending, status, stopping, calls>>

Init ==
  /\ pending = <<>> /\ stopping = FALSE
  /\ status = [r \in Records |-> "caller"]
  /\ calls = [t \in Clients |-> "none"]

Accept(r) ==
  /\ ~stopping /\ status[r] = "caller" /\ Len(pending) < 2 * Capacity
  /\ pending' = Append(pending, r)
  /\ status' = [status EXCEPT ![r] = "accepted"]
  /\ UNCHANGED <<stopping, calls>>

Refuse(r) ==
  /\ stopping /\ status[r] = "caller"
  /\ status' = [status EXCEPT ![r] = "refused"]
  /\ UNCHANGED <<pending, stopping, calls>>

\* The callbacks of the oldest record end, with success or with a failure.
Deliver ==
  /\ pending # <<>> /\ pending' = Tail(pending)
  /\ \E outcome \in {"delivered", "failed"} :
       status' = [status EXCEPT ![Head(pending)] = outcome]
  /\ UNCHANGED <<stopping, calls>>

Stop == stopping' = TRUE /\ UNCHANGED <<pending, status, calls>>

Call(t) ==
  /\ calls[t] = "none"
  /\ \E op \in {"flush", "shutdown"} : calls' = [calls EXCEPT ![t] = op]
  /\ UNCHANGED <<pending, status, stopping>>

Return(t) ==
  /\ calls[t] # "none" /\ pending = <<>>
  /\ calls[t] = "shutdown" => stopping
  /\ calls' = [calls EXCEPT ![t] = "none"]
  /\ UNCHANGED <<pending, status, stopping>>

Next ==
  \/ \E r \in Records : Accept(r) \/ Refuse(r)
  \/ Deliver \/ Stop
  \/ \E t \in Clients : Call(t) \/ Return(t)

Spec == Init /\ [][Next]_vars
=============================================================================
