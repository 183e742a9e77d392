------------------------- MODULE AsyncLoggerProofs -------------------------
(***************************************************************************)
(* Proofs about AsyncLogger, for any number of threads, records and slots. *)
(***************************************************************************)
EXTENDS AsyncLogger, SequenceTheorems, TLAPS

\* Every step keeps the type of every variable and the bound on the buffers.
LEMMA TypeStep == TypeOK /\ [Next]_vars => TypeOK'
<1> SUFFICES ASSUME TypeOK, [Next]_vars PROVE TypeOK'
  OBVIOUS
<1>1. ASSUME NEW t \in Threads, CallWrite(t) PROVE TypeOK'
  <2>1. pc' \in [Threads -> Labels]
    BY <1>1 DEF CallWrite, Goto, TypeOK, Labels
  <2>2. record' \in [Threads -> SUBSET Records]
    BY <1>1, RecordsAssumption DEF CallWrite, TypeOK
  <2> QED
    BY <1>1, <2>1, <2>2 DEF TypeOK, CallWrite, buffers, closing, outcome
<1>2. ASSUME NEW t \in Threads, CallFlush(t) \/ CallShutdown(t) PROVE TypeOK'
  <2>1. pc' \in [Threads -> Labels]
    BY <1>2 DEF CallFlush, CallShutdown, Goto, TypeOK, Labels
  <2>2. calls' \in [Clients -> 0 .. CallLimit]
    BY <1>2, CallsAssumption
       DEF CallFlush, CallShutdown, Counted, Threads, TypeOK
  <2> QED
    BY <1>2, <2>1, <2>2
       DEF TypeOK, CallFlush, CallShutdown, buffers, closing, outcome
<1>3. ASSUME NEW t \in Threads, Enqueue(t) PROVE TypeOK'
  <2>1. /\ queue' \in Seq(Records) /\ Len(queue') <= Capacity
        /\ status' \in [Records -> Statuses]
    <3>1. PICK r \in record[t] :
            \/ /\ stopping /\ UNCHANGED queue
               /\ status' = [status EXCEPT ![r] = "refused"]
            \/ /\ ~stopping /\ queue' = Append(queue, r)
               /\ status' = [status EXCEPT ![r] = "accepted"]
      BY <1>3 DEF Enqueue
    <3>2. r \in Records
      BY <3>1 DEF TypeOK
    <3>3. stopping \/ Len(queue) < Capacity
      BY <1>3 DEF Enqueue, HasSpace
    <3>4. CASE stopping /\ UNCHANGED queue
      BY <3>1, <3>4 DEF TypeOK, Statuses
    <3>5. CASE ~stopping /\ queue' = Append(queue, r)
      <4>1. status' \in [Records -> Statuses]
        BY <3>1, <3>2 DEF TypeOK, Statuses
      <4>2. Len(queue) < Capacity
        BY <3>3, <3>5
      <4>3. /\ Append(queue, r) \in Seq(Records)
            /\ Len(Append(queue, r)) = Len(queue) + 1 /\ Len(queue) \in Nat
        BY <3>2, AppendProperties, LenProperties DEF TypeOK
      <4> QED
        BY <3>5, <4>1, <4>2, <4>3, CapacityAssumption
    <3> QED
      BY <3>1, <3>4, <3>5
  <2>2. pc' \in [Threads -> Labels]
    BY <1>3 DEF Enqueue, Goto, Notify, Resume, TypeOK, Labels
  <2> QED
    BY <1>3, <2>1, <2>2 DEF Enqueue, TypeOK, closing
<1>4. ASSUME NEW t \in Threads, EnqueueBlock(t) \/ Flush(t) PROVE TypeOK'
  <2>1. pc' \in [Threads -> Labels]
    BY <1>4 DEF EnqueueBlock, Flush, Goto, Resume, TypeOK, Labels
  <2> QED
    BY <1>4, <2>1 DEF TypeOK, EnqueueBlock, Flush, buffers, closing, outcome
<1>5. ASSUME NEW t \in Threads,
             ShutdownLock(t) \/ ShutdownStop(t) \/ ShutdownJoin(t)
      PROVE TypeOK'
  <2>1. pc' \in [Threads -> Labels]
    BY <1>5 DEF ShutdownLock, ShutdownStop, ShutdownJoin, Goto, Resume, TypeOK,
                Labels
  <2>2. /\ shutdown_mutex' \in {{}} \cup {{u} : u \in Threads}
        /\ stopping' \in BOOLEAN /\ joinable' \in BOOLEAN
    BY <1>5 DEF ShutdownLock, ShutdownStop, ShutdownJoin, TypeOK
  <2> QED
    BY <1>5, <2>1, <2>2
       DEF TypeOK, ShutdownLock, ShutdownStop, ShutdownJoin, buffers, outcome
<1>6. CASE RunWait \/ RunExit
  <2>1. pc' \in [Threads -> Labels]
    BY <1>6 DEF RunWait, RunExit, Goto, Notify, TypeOK, Labels
  <2> QED
    BY <1>6, <2>1 DEF TypeOK, RunWait, RunExit, buffers, closing, outcome
<1>7. CASE RunSwap
  <2>1. pc' \in [Threads -> Labels]
    BY <1>7 DEF RunSwap, Notify, TypeOK, Labels
  <2>2. queue' \in Seq(Records) /\ Len(queue') <= Capacity
    BY <1>7, CapacityAssumption DEF RunSwap
  <2> QED
    BY <1>7, <2>1, <2>2 DEF TypeOK, RunSwap, closing, outcome
<1>8. CASE RunDeliver
  <2>1. /\ batch' \in Seq(Records) /\ Len(batch') <= Capacity
        /\ failed_records' \in Nat
    BY <1>8, CapacityAssumption DEF TypeOK, RunDeliver
  <2>2. status' \in [Records -> Statuses] /\ pc' \in [Threads -> Labels]
    BY <1>8 DEF TypeOK, RunDeliver, Goto, Statuses, Labels
  <2> QED
    BY <1>8, <2>1, <2>2 DEF TypeOK, RunDeliver, closing
<1>9. CASE RunBatchEnd
  <2>1. pc' \in [Threads -> Labels]
    BY <1>9 DEF RunBatchEnd, Goto, Notify, TypeOK, Labels
  <2> QED
    BY <1>9, <2>1 DEF TypeOK, RunBatchEnd, closing, outcome
<1>10. CASE UNCHANGED vars
  BY <1>10 DEF TypeOK, vars
<1> QED
  BY <1>1, <1>2, <1>3, <1>4, <1>5, <1>6, <1>7, <1>8, <1>9, <1>10
     DEF Next, Call, Step, Run

LEMMA TypeInit == Init => TypeOK
<1> SUFFICES ASSUME Init PROVE TypeOK
  OBVIOUS
<1>1. /\ queue \in Seq(Records) /\ Len(queue) <= Capacity
      /\ batch \in Seq(Records) /\ Len(batch) <= Capacity
  BY CapacityAssumption DEF Init
<1>2. /\ pc \in [Threads -> Labels] /\ record \in [Threads -> SUBSET Records]
      /\ status \in [Records -> Statuses]
  BY DEF Init, Labels, Statuses
<1>3. calls \in [Clients -> 0 .. CallLimit]
  BY CallsAssumption DEF Init
<1> QED
  BY <1>1, <1>2, <1>3 DEF Init, TypeOK

\* The types hold in every behaviour: neither the queue nor the worker's
\* batch ever outgrows the reserved capacity.
THEOREM TypeCorrect == Spec => []TypeOK
BY TypeInit, TypeStep, PTL DEF Spec

\* A flusher that sleeps has a batch or a queue ahead of it, in every step.
LEMMA FlusherStep ==
  TypeOK /\ FlusherIsWoken /\ [Next]_vars => FlusherIsWoken'
<1> SUFFICES ASSUME TypeOK, FlusherIsWoken, [Next]_vars,
                    NEW u \in Threads, pc'[u] = "drained_wait"
             PROVE (batch_active \/ queue # <<>>)'
  BY DEF FlusherIsWoken
<1> USE DEF TypeOK, FlusherIsWoken
<1>1. ASSUME NEW t \in Threads, Flush(t)
      PROVE (batch_active \/ queue # <<>>)'
  BY <1>1 DEF Flush, Drained, Goto, Resume, buffers
<1>2. ASSUME NEW t \in Threads, Enqueue(t)
      PROVE (batch_active \/ queue # <<>>)'
  BY <1>2 DEF Enqueue, Goto, Notify, Resume
<1>3. ASSUME NEW t \in Threads,
             CallWrite(t) \/ CallFlush(t) \/ CallShutdown(t) \/ EnqueueBlock(t)
               \/ ShutdownLock(t) \/ ShutdownStop(t) \/ ShutdownJoin(t)
      PROVE (batch_active \/ queue # <<>>)'
  BY <1>3 DEF CallWrite, CallFlush, CallShutdown, EnqueueBlock, ShutdownLock,
              ShutdownStop, ShutdownJoin, Goto, Resume, buffers
<1>4. CASE RunWait \/ RunExit
  BY <1>4 DEF RunWait, RunExit, Goto, Notify, Threads, buffers
<1>5. CASE RunSwap
  BY <1>5 DEF RunSwap
<1>6. CASE RunDeliver
  BY <1>6 DEF RunDeliver, Goto
<1>7. CASE RunBatchEnd
  BY <1>7 DEF RunBatchEnd, Notify, Goto, Threads
<1>8. CASE UNCHANGED vars
  BY <1>8 DEF vars
<1> QED
  BY <1>1, <1>2, <1>3, <1>4, <1>5, <1>6, <1>7, <1>8
     DEF Next, Call, Step, Run

\* No drained_ notification is missed: whenever a thread sleeps in flush(),
\* the worker still has a batch to end or a queue to swap.
THEOREM FlusherAlwaysWoken == Spec => []FlusherIsWoken
<1>1. Init => FlusherIsWoken
  BY DEF Init, FlusherIsWoken
<1> QED
  BY <1>1, TypeCorrect, FlusherStep, PTL DEF Spec
-----------------------------------------------------------------------------
(* The refinement of AsyncLoggerContract.                                  *)

\* A record that a call still carries has been neither accepted nor refused,
\* and no other call carries it; what is in a buffer has left its caller.
Carried ==
  \A t \in Threads :
    /\ \A r \in record[t] : status[r] = "caller"
    /\ \A r, q \in record[t] : r = q
    /\ \A u \in Threads \ {t} : record[t] \cap record[u] = {}
Gone(s) == \A i \in DOMAIN s : status[s[i]] # "caller"

\* Between batches the worker holds none, and it ends with empty buffers,
\* which stay empty; nobody joins it before.
Ended ==
  /\ ~batch_active => batch = <<>>
  /\ pc[Worker] \in {"run", "available_wait", "exited"} => ~batch_active
  /\ pc[Worker] = "exited" => queue = <<>> /\ stopping
  /\ ~joinable => pc[Worker] = "exited"
  /\ \A t \in Threads : pc[t] = "s_join" => stopping

IInv == TypeOK /\ Carried /\ Gone(batch) /\ Gone(queue) /\ Ended

LEMMA CallStep ==
  ASSUME IInv, NEW t \in Threads, Call(t)
  PROVE  /\ Carried' /\ UNCHANGED <<buffers, closing, outcome>>
         /\ \E label \in {"enqueue", "flush", "s_lock"} :
              pc' = [pc EXCEPT ![t] = label]
         /\ pc[t] \in {"deliver", "idle"}
<1>1. /\ UNCHANGED <<buffers, closing, outcome>>
      /\ \E label \in {"enqueue", "flush", "s_lock"} :
           pc' = [pc EXCEPT ![t] = label]
      /\ pc[t] \in {"deliver", "idle"}
  BY DEF Call, CallWrite, CallFlush, CallShutdown, Goto, MayCall
<1>2. ASSUME UNCHANGED record PROVE Carried'
  BY <1>1, <1>2 DEF IInv, Carried, outcome
<1>3. ASSUME CallWrite(t) PROVE Carried'
  <2>1. PICK r \in Records :
          /\ status[r] = "caller" /\ \A u \in Threads : r \notin record[u]
          /\ record' = [record EXCEPT ![t] = {r}]
    BY <1>3, RecordsAssumption DEF CallWrite
  <2> QED
    BY <1>1, <2>1 DEF IInv, TypeOK, Carried, outcome
<1> QED
  BY <1>1, <1>2, <1>3 DEF Call, CallFlush, CallShutdown

\* The labels a step of t takes the others to: only who sleeps is moved.
Woken(t) ==
  \A u \in Threads \ {t} :
    \/ pc'[u] = pc[u]
    \/ pc[u] = "available_wait" /\ pc'[u] = "run"
    \/ pc[u] = "space_wait" /\ pc'[u] = "enqueue"
    \/ pc[u] = "drained_wait" /\ pc'[u] = "flush"

LEMMA EnqueueStep ==
  ASSUME IInv, NEW t \in Threads, Enqueue(t)
  PROVE  /\ Carried' /\ Gone(batch)' /\ Gone(queue)' /\ Ended'
         /\ Woken(t) /\ pc[t] = "enqueue" /\ pc'[t] \in {"idle", "delivered"}
<1>1. PICK r \in record[t] :
        \/ /\ stopping /\ UNCHANGED queue
           /\ status' = [status EXCEPT ![r] = "refused"]
           /\ pc' = [pc EXCEPT ![t] = Resume(t)]
        \/ /\ ~stopping /\ queue' = Append(queue, r)
           /\ status' = [status EXCEPT ![r] = "accepted"]
           /\ Notify(t, Resume(t), "available_wait", "run")
  BY DEF Enqueue, Goto
<1>2. /\ record' = [record EXCEPT ![t] = {}] /\ pc[t] = "enqueue"
      /\ UNCHANGED <<batch, batch_active, closing>>
  BY DEF Enqueue
<1>3. /\ r \in Records /\ r \notin {q \in Records : status'[q] = "caller"}
      /\ \A q \in Records \ {r} : status'[q] = status[q]
  BY <1>1 DEF IInv, TypeOK
<1>4. Carried'
  BY <1>2, <1>3 DEF IInv, TypeOK, Carried
<1>5. /\ Woken(t) /\ pc'[t] \in {"idle", "delivered"}
      /\ t = Worker => pc'[t] = "delivered"
  BY <1>1, <1>2 DEF IInv, TypeOK, Woken, Notify, Resume
<1>6. Gone(batch)'
  BY <1>2, <1>3 DEF IInv, TypeOK, Gone
<1>7. Gone(queue)'
  <2>1. CASE UNCHANGED queue
    BY <1>3, <2>1 DEF IInv, TypeOK, Gone
  <2>2. CASE queue' = Append(queue, r)
    <3>1. \A i \in DOMAIN queue' :
            queue'[i] = r \/ (i \in DOMAIN queue /\ queue'[i] = queue[i])
      BY <2>2, <1>3 DEF IInv, TypeOK
    <3>2. \A i \in DOMAIN queue : queue[i] \in Records
      BY DEF IInv, TypeOK
    <3> QED
      BY <1>3, <3>1, <3>2 DEF IInv, Gone
  <2> QED
    BY <1>1, <2>1, <2>2
<1>8. Ended'
  BY <1>1, <1>2, <1>5 DEF IInv, Ended, closing, Woken, Threads
<1> QED
  BY <1>2, <1>4, <1>5, <1>6, <1>7, <1>8

\* The steps in which no record changes its place or its status.
LEMMA WaitStep ==
  ASSUME IInv, NEW t \in Threads,
         \/ EnqueueBlock(t) \/ Flush(t) \/ ShutdownLock(t) \/ ShutdownStop(t)
         \/ ShutdownJoin(t) \/ (t = Worker /\ (RunWait \/ RunExit))
  PROVE  /\ UNCHANGED <<buffers, status, record>> /\ Woken(t) /\ Ended'
<1>1. UNCHANGED <<buffers, status, record>>
  BY DEF EnqueueBlock, Flush, ShutdownLock, ShutdownStop, ShutdownJoin, RunWait,
         RunExit, outcome
<1>2. Woken(t)
  BY DEF EnqueueBlock, Flush, ShutdownLock, ShutdownStop, ShutdownJoin, RunWait,
         RunExit, Goto, Notify, Woken, IInv, TypeOK
<1>3. ASSUME EnqueueBlock(t) \/ Flush(t) \/ ShutdownLock(t) PROVE Ended'
  <2>1. /\ pc[t] \in {"enqueue", "flush", "s_lock"} /\ UNCHANGED <<stopping, joinable>>
        /\ pc' \in [Threads -> Labels]
        /\ pc'[t] \notin {"run", "available_wait", "exited", "s_join"}
        /\ \A u \in Threads \ {t} : pc'[u] = pc[u]
    BY <1>3 DEF EnqueueBlock, Flush, ShutdownLock, Goto, Resume, closing, IInv,
                TypeOK, Labels
  <2> QED
    BY <1>1, <2>1 DEF buffers, IInv, Ended, Threads
<1>4. ASSUME ShutdownStop(t) PROVE Ended'
  <2>1. /\ stopping' /\ joinable' = joinable
        /\ pc[t] = "s_stop" /\ pc'[t] = "s_join"
    BY <1>4 DEF ShutdownStop, IInv, TypeOK
  <2>2. /\ pc'[Worker] = "exited" <=> pc[Worker] = "exited"
        /\ pc'[Worker] \in {"run", "available_wait"} =>
             pc[Worker] \in {"run", "available_wait"}
    BY <1>4 DEF ShutdownStop, IInv, TypeOK, Threads
  <2> QED
    BY <1>1, <2>1, <2>2 DEF buffers, IInv, Ended
<1>5. ASSUME ShutdownJoin(t) PROVE Ended'
  <2>1. /\ pc[t] = "s_join" /\ stopping' = stopping
        /\ pc' = [pc EXCEPT ![t] = Resume(t)]
        /\ joinable' = (joinable /\ t = Worker)
        /\ joinable /\ t # Worker => pc[Worker] = "exited"
    BY <1>5 DEF ShutdownJoin, Goto
  <2>2. /\ \A u \in Threads \ {t} : pc'[u] = pc[u]
        /\ pc'[t] \in {"idle", "delivered"}
        /\ t = Worker => pc'[t] = "delivered"
    BY <2>1 DEF IInv, TypeOK, Resume
  <2> QED
    BY <1>1, <2>1, <2>2 DEF buffers, IInv, Ended, Threads
<1>6. ASSUME t = Worker /\ (RunWait \/ RunExit) PROVE Ended'
  <2>1. /\ pc[Worker] = "run" /\ UNCHANGED <<stopping, joinable>>
        /\ queue = <<>> /\ Worker \in Threads
        /\ \/ pc'[Worker] = "available_wait"
           \/ pc'[Worker] = "exited" /\ stopping
    BY <1>6 DEF RunWait, RunExit, Goto, Notify, closing, IInv, TypeOK, Threads
  <2>2. \A u \in Threads : pc'[u] = "s_join" => pc[u] = "s_join"
    BY <1>2, <1>6, <2>1 DEF Woken
  <2> QED
    BY <1>1, <2>1, <2>2 DEF buffers, IInv, Ended
<1> QED
  BY <1>1, <1>2, <1>3, <1>4, <1>5, <1>6

LEMMA RunStep ==
  ASSUME IInv, RunSwap \/ RunDeliver \/ RunBatchEnd
  PROVE  /\ Carried' /\ Gone(batch)' /\ Gone(queue)' /\ Ended' /\ Woken(Worker)
<1>1. Woken(Worker)
  BY DEF RunSwap, RunDeliver, RunBatchEnd, Goto, Notify, Woken, IInv, TypeOK,
         Threads
<1>2. CASE RunSwap
  BY <1>1, <1>2 DEF RunSwap, Notify, outcome, closing, IInv, TypeOK, Carried,
                    Gone, Ended, Threads
<1>3. CASE RunBatchEnd
  BY <1>1, <1>3 DEF RunBatchEnd, Goto, Notify, outcome, closing, IInv, TypeOK,
                    Carried, Gone, Ended, Threads
<1>4. CASE RunDeliver
  <2>1. /\ batch # <<>> /\ batch \in Seq(Records) /\ batch' = Tail(batch)
        /\ UNCHANGED <<queue, batch_active, closing, record>>
        /\ pc' = [pc EXCEPT ![Worker] = "deliver"]
        /\ pc[Worker] \in {"deliver", "delivered"}
    BY <1>4 DEF RunDeliver, Goto, IInv, TypeOK
  <2>2. /\ \A q \in Records : status'[q] # "caller" <=> status[q] # "caller"
        /\ \A q \in Records : status[q] = "caller" => status'[q] = "caller"
    <3>1. Head(batch) = batch[1] /\ 1 \in DOMAIN batch
      BY <2>1
    <3>2. Head(batch) \in Records /\ status[Head(batch)] # "caller"
      BY <2>1, <3>1 DEF IInv, Gone
    <3> QED
      BY <1>4, <3>2 DEF RunDeliver, IInv, TypeOK
  <2>3. Carried'
    BY <2>1, <2>2 DEF IInv, TypeOK, Carried
  <2>4. Gone(queue)'
    BY <2>1, <2>2 DEF IInv, TypeOK, Gone
  <2>5. Gone(batch)'
    <3>1. \A i \in DOMAIN Tail(batch) :
            i + 1 \in DOMAIN batch /\ Tail(batch)[i] = batch[i + 1]
      BY <2>1
    <3>2. \A i \in DOMAIN batch : batch[i] \in Records
      BY <2>1
    <3> QED
      BY <2>1, <2>2, <3>1, <3>2 DEF IInv, Gone
  <2>6. Ended'
    BY <2>1 DEF closing, IInv, TypeOK, Ended, Threads
  <2> QED
    BY <1>1, <2>3, <2>4, <2>5, <2>6
<1> QED
  BY <1>2, <1>3, <1>4

LEMMA IInvInit == Init => IInv
<1> SUFFICES ASSUME Init PROVE IInv
  OBVIOUS
<1>1. TypeOK
  BY TypeInit
<1>2. Ended
  BY WorkerAssumption DEF Init, Ended, Threads
<1> QED
  BY <1>1, <1>2 DEF Init, IInv, Carried, Gone

LEMMA IInvStep == IInv /\ [Next]_vars => IInv'
<1> SUFFICES ASSUME IInv, [Next]_vars PROVE IInv'
  OBVIOUS
<1>1. TypeOK'
  BY TypeStep DEF IInv
<1>2. ASSUME NEW t \in Threads, Call(t) PROVE IInv'
  <2>1. Gone(batch)' /\ Gone(queue)'
    BY <1>2, CallStep DEF IInv, Gone, buffers, outcome
  <2>2. Ended'
    BY <1>2, CallStep DEF IInv, TypeOK, Ended, buffers, closing, Threads
  <2> QED
    BY <1>1, <1>2, <2>1, <2>2, CallStep DEF IInv
<1>3. ASSUME NEW t \in Threads, Enqueue(t) PROVE IInv'
  BY <1>1, <1>3, EnqueueStep DEF IInv
<1>4. ASSUME NEW t \in Threads,
             \/ EnqueueBlock(t) \/ Flush(t) \/ ShutdownLock(t)
             \/ ShutdownStop(t) \/ ShutdownJoin(t)
             \/ (t = Worker /\ (RunWait \/ RunExit))
      PROVE IInv'
  BY <1>1, <1>4, WaitStep DEF IInv, Carried, Gone, buffers
<1>5. CASE RunSwap \/ RunDeliver \/ RunBatchEnd
  BY <1>1, <1>5, RunStep DEF IInv
<1>6. CASE UNCHANGED vars
  BY <1>1, <1>6 DEF vars, IInv, Carried, Gone, Ended
<1> QED
  BY <1>2, <1>3, <1>4, <1>5, <1>6 DEF Next, Step, Run

LEMMA IInvHolds == Spec => []IInv
BY IInvInit, IInvStep, PTL DEF Spec

\* The call of a client that its wake-up does not change.
LEMMA AbstractCallKept ==
  ASSUME IInv, NEW t \in Threads, Woken(t), AbstractCall(t)' = AbstractCall(t)
  PROVE  [u \in Clients |-> AbstractCall(u)]' = [u \in Clients |-> AbstractCall(u)]
<1>1. ASSUME NEW u \in Clients PROVE AbstractCall(u)' = AbstractCall(u)
  BY DEF AbstractCall, Woken, Threads
<1> QED
  BY <1>1

\* The same when only one client's call changes.
LEMMA AbstractCallSet ==
  ASSUME IInv, NEW t \in Clients, Woken(t)
  PROVE  [u \in Clients |-> AbstractCall(u)]' =
           [[u \in Clients |-> AbstractCall(u)] EXCEPT ![t] = AbstractCall(t)']
<1>1. ASSUME NEW u \in Clients \ {t} PROVE AbstractCall(u)' = AbstractCall(u)
  BY DEF AbstractCall, Woken, Threads
<1> QED
  BY <1>1

\* The steps that the callers of the logger cannot see.
LEMMA HiddenStep ==
  ASSUME IInv, NEW t \in Threads, Woken(t), AbstractCall(t)' = AbstractCall(t),
         UNCHANGED <<status, stopping>>, batch' \o queue' = batch \o queue
  PROVE  UNCHANGED Contract!vars
BY AbstractCallKept DEF Contract!vars

LEMMA CallRefined ==
  ASSUME IInv, NEW t \in Threads, Call(t)
  PROVE  Contract!Next \/ UNCHANGED Contract!vars
<1>1. PICK label \in {"enqueue", "flush", "s_lock"} :
        pc' = [pc EXCEPT ![t] = label]
  BY CallStep
<1>2. /\ pc[t] \in {"deliver", "idle"}
      /\ UNCHANGED <<batch, queue, status, stopping>>
  BY CallStep DEF buffers, closing, outcome
<1>3. /\ Woken(t) /\ pc'[t] = label
  BY <1>1 DEF Woken, IInv, TypeOK
<1>4. CASE t \notin Clients
  <2>1. ASSUME NEW u \in Clients PROVE AbstractCall(u)' = AbstractCall(u)
    BY <1>3, <1>4, <2>1 DEF AbstractCall, Woken, Threads
  <2> QED
    BY <1>2, <2>1 DEF Contract!vars
<1>5. CASE label = "enqueue"
  <2>1. AbstractCall(t)' = AbstractCall(t)
    BY <1>2, <1>3, <1>5 DEF AbstractCall
  <2> QED
    BY <1>2, <1>3, <2>1, HiddenStep
<1>6. CASE t \in Clients /\ label \in {"flush", "s_lock"}
  <2>1. /\ AbstractCall(t) = "none"
        /\ AbstractCall(t)' \in {"flush", "shutdown"}
    BY <1>2, <1>3, <1>6 DEF AbstractCall
  <2>2. Contract!Call(t)
    BY <1>2, <1>3, <1>6, <2>1, AbstractCallSet DEF Contract!Call
  <2> QED
    BY <1>6, <2>2 DEF Contract!Next
<1> QED
  BY <1>4, <1>5, <1>6

LEMMA EnqueueRefined ==
  ASSUME IInv, NEW t \in Threads, Enqueue(t) PROVE Contract!Next
<1>1. PICK r \in record[t] :
        \/ /\ stopping /\ UNCHANGED queue
           /\ status' = [status EXCEPT ![r] = "refused"]
        \/ /\ ~stopping /\ queue' = Append(queue, r)
           /\ status' = [status EXCEPT ![r] = "accepted"]
  BY DEF Enqueue
<1>2. /\ r \in Records /\ status[r] = "caller"
      /\ UNCHANGED <<batch, stopping>>
  BY DEF Enqueue, closing, IInv, TypeOK, Carried
<1>3. /\ batch \in Seq(Records) /\ queue \in Seq(Records)
      /\ Len(batch) <= Capacity /\ (stopping \/ Len(queue) < Capacity)
  BY DEF Enqueue, HasSpace, IInv, TypeOK
<1>4. AbstractCall(t)' = AbstractCall(t)
  BY EnqueueStep DEF AbstractCall
<1>5. UNCHANGED [u \in Clients |-> AbstractCall(u)]
  BY <1>4, EnqueueStep, AbstractCallKept
<1>6. CASE stopping
  BY <1>1, <1>2, <1>5, <1>6 DEF Contract!Refuse, Contract!Next
<1>7. CASE ~stopping
  <2>1. batch \o Append(queue, r) = Append(batch \o queue, r)
    BY <1>2, <1>3
  <2>2. Len(batch \o queue) < 2 * Capacity
    BY <1>3, <1>7, CapacityAssumption
  <2> QED
    BY <1>1, <1>2, <1>5, <1>7, <2>1, <2>2 DEF Contract!Accept, Contract!Next
<1> QED
  BY <1>6, <1>7

\* flush() and shutdown() return to a client over empty buffers.
LEMMA WaitRefined ==
  ASSUME IInv, NEW t \in Threads,
         \/ EnqueueBlock(t) \/ Flush(t) \/ ShutdownLock(t) \/ ShutdownStop(t)
         \/ ShutdownJoin(t) \/ (t = Worker /\ (RunWait \/ RunExit))
  PROVE  Contract!Next \/ UNCHANGED Contract!vars
<1>1. UNCHANGED <<batch, queue, status>> /\ Woken(t) /\ pc \in [Threads -> Labels]
  BY WaitStep DEF buffers, IInv, TypeOK
<1>2. CASE ShutdownStop(t)
  <2>1. AbstractCall(t)' = AbstractCall(t) /\ stopping' = TRUE
    BY <1>1, <1>2 DEF ShutdownStop, AbstractCall
  <2> QED
    BY <1>1, <2>1, AbstractCallKept DEF Contract!Stop, Contract!Next
<1>3. CASE /\ UNCHANGED stopping /\ t \in Clients /\ pc'[t] = "idle"
           /\ pc[t] \in {"flush", "s_join"}
           /\ batch = <<>> /\ queue = <<>>
           /\ pc[t] = "s_join" => stopping
  <2>1. /\ AbstractCall(t)' = "none" /\ AbstractCall(t) \in {"flush", "shutdown"}
        /\ AbstractCall(t) = "shutdown" => stopping
    BY <1>3 DEF AbstractCall
  <2>2. batch \o queue = <<>>
    BY <1>3
  <2> QED
    BY <1>1, <1>3, <2>1, <2>2, AbstractCallSet DEF Contract!Return, Contract!Next
<1>4. CASE UNCHANGED stopping /\ AbstractCall(t)' = AbstractCall(t)
  BY <1>1, <1>4, HiddenStep
<1>5. CASE UNCHANGED stopping /\ t \notin Clients
  <2>1. ASSUME NEW u \in Clients PROVE AbstractCall(u)' = AbstractCall(u)
    BY <1>1, <1>5, <2>1 DEF AbstractCall, Woken, Threads
  <2> QED
    BY <1>1, <1>5, <2>1 DEF Contract!vars
<1>6. CASE EnqueueBlock(t) \/ ShutdownLock(t)
  BY <1>1, <1>4, <1>6 DEF EnqueueBlock, ShutdownLock, Goto, closing, AbstractCall
<1>7. CASE Flush(t)
  <2>1. /\ UNCHANGED stopping /\ pc[t] = "flush"
        /\ pc'[t] = IF Drained THEN Resume(t) ELSE "drained_wait"
    BY <1>1, <1>7 DEF Flush, Goto, closing
  <2>2. CASE ~Drained
    BY <1>4, <2>1, <2>2 DEF AbstractCall
  <2>3. CASE Drained /\ t \in Clients
    BY <1>3, <2>1, <2>3, WorkerAssumption DEF Drained, Resume, IInv, Ended
  <2> QED
    BY <1>5, <2>1, <2>2, <2>3
<1>8. CASE ShutdownJoin(t)
  <2>1. /\ UNCHANGED stopping /\ pc[t] = "s_join" /\ pc'[t] = Resume(t)
        /\ joinable /\ t # Worker => pc[Worker] = "exited"
    BY <1>1, <1>8 DEF ShutdownJoin, Goto
  <2>2. CASE t \in Clients
    <3>1. t # Worker /\ pc[Worker] = "exited"
      BY <2>1, <2>2, WorkerAssumption DEF IInv, Ended
    <3> QED
      BY <1>3, <2>1, <2>2, <3>1 DEF Resume, IInv, Ended
  <2> QED
    BY <1>5, <2>1, <2>2
<1>9. CASE t = Worker /\ (RunWait \/ RunExit)
  BY <1>5, <1>9, WorkerAssumption DEF RunWait, RunExit, closing
<1> QED
  BY <1>2, <1>6, <1>7, <1>8, <1>9

LEMMA RunRefined ==
  ASSUME IInv, RunSwap \/ RunDeliver \/ RunBatchEnd
  PROVE  Contract!Next \/ UNCHANGED Contract!vars
<1>1. /\ Woken(Worker) /\ Worker \in Threads /\ Worker \notin Clients
      /\ batch \in Seq(Records) /\ queue \in Seq(Records)
      /\ UNCHANGED stopping
  BY RunStep, WorkerAssumption
     DEF Threads, IInv, TypeOK, RunSwap, RunDeliver, RunBatchEnd, closing
<1>2. UNCHANGED [u \in Clients |-> AbstractCall(u)]
  <2>1. ASSUME NEW u \in Clients PROVE AbstractCall(u)' = AbstractCall(u)
    BY <1>1 DEF AbstractCall, Woken, Threads
  <2> QED
    BY <2>1
<1>3. CASE RunSwap
  <2>1. batch = <<>> /\ batch' = queue /\ queue' = <<>> /\ UNCHANGED status
    BY <1>3 DEF RunSwap, IInv, Ended, outcome
  <2>2. batch' \o queue' = batch \o queue
    BY <1>1, <2>1
  <2> QED
    BY <1>1, <1>2, <2>1, <2>2 DEF Contract!vars
<1>4. CASE RunBatchEnd
  BY <1>1, <1>2, <1>4 DEF RunBatchEnd, outcome, Contract!vars
<1>5. CASE RunDeliver
  <2>1. /\ batch # <<>> /\ batch' = Tail(batch) /\ UNCHANGED queue
        /\ \E result \in {"delivered", "failed"} :
             status' = [status EXCEPT ![Head(batch)] = result]
    BY <1>5 DEF RunDeliver
  <2>2. /\ batch \o queue # <<>> /\ Head(batch \o queue) = Head(batch)
        /\ Tail(batch \o queue) = Tail(batch) \o queue
    BY <1>1, <2>1
  <2> QED
    BY <1>1, <1>2, <2>1, <2>2 DEF Contract!Deliver, Contract!Next
<1> QED
  BY <1>3, <1>4, <1>5

LEMMA ContractInit == Init => Contract!Init
<1> SUFFICES ASSUME Init PROVE Contract!Init
  OBVIOUS
<1>1. ASSUME NEW t \in Clients PROVE AbstractCall(t) = "none"
  BY WorkerAssumption DEF Init, AbstractCall, Threads
<1>2. batch \o queue = <<>>
  BY DEF Init
<1> QED
  BY <1>1, <1>2 DEF Init, Contract!Init

LEMMA ContractStep == IInv /\ [Next]_vars => [Contract!Next]_Contract!vars
<1> SUFFICES ASSUME IInv, [Next]_vars PROVE [Contract!Next]_Contract!vars
  OBVIOUS
<1>1. CASE UNCHANGED vars
  BY <1>1 DEF vars, Contract!vars, AbstractCall
<1> QED
  BY <1>1, CallRefined, EnqueueRefined, WaitRefined, RunRefined
     DEF Next, Step, Run

\* The logger implements its contract: records are delivered in the order of
\* their acceptance, none after the stop, and flush() and shutdown() return
\* to a client only when everything accepted has been delivered.
THEOREM Refinement == Spec => ImplementsContract
BY ContractInit, ContractStep, IInvHolds, PTL
   DEF Spec, ImplementsContract, Contract!Spec
=============================================================================
