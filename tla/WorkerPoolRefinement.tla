------------------------ MODULE WorkerPoolRefinement ------------------------
(***************************************************************************)
(* WorkerPool implements PoolContract, for any number of threads, tasks    *)
(* and slots in which the claims of all workers fit their field (NoWrap),  *)
(* and a cancelling shutdown reaches every running cancellable task that   *)
(* it can reach (CancelStopsActive).                                       *)
(*                                                                         *)
(* IInv and PInv say what is in the ring and in the batches.  CInv adds    *)
(* what a call knows of the others: which calls are stopping the pool,     *)
(* where the joinable threads are, and what a submission has still to      *)
(* offer.  The pool of a failed constructor (Abandoned) never does more    *)
(* than stop.                                                              *)
(***************************************************************************)
EXTENDS WorkerPoolTaskProofs

(* The inductive invariant.                                                *)

WorkerLabels ==
  {"w_load", "w_inc", "w_obs", "w_wait", "w_sleep", "w_dec", "w_lock", "w_take",
   "w_claim", "w_check", "w_notify", "w_exec", "w_settle", "w_finish", "exited"}
ClientLabels ==
  {"idle", "i_check", "i_inc", "i_epoch", "i_recheck", "i_wait", "i_sleep",
   "i_dec", "s_lock", "s_swap", "s_join"}
CreatorLabels == {"x_stop", "x_notify", "x_join", "gone"}
DropLabels == {"c_lock"} \cup CancelLabels
JoinLabels == {"s_lock", "s_stop", "s_notify", "s_swap", "s_join"}

\* Inside cancel_pending, or in the notification that it makes.
Dropping(t) ==
  pc[t] \in DropLabels \/ (pc[t] \in NotifyLabels /\ consumer_mutex = {t})

\* Workers run the loop, clients call wait() and join; only cancel_pending
\* makes a client notify.
Role(t) ==
  /\ pc[t] \notin CreatorLabels
  /\ t \in Workers => pc[t] \notin ClientLabels
  /\ t \notin Workers => pc[t] \notin WorkerLabels
  /\ t \notin Workers /\ pc[t] \in NotifyLabels => consumer_mutex = {t}
\* mode is the argument of the control call in progress.
ModeOf(t) ==
  mode[t] \in IF Dropping(t) THEN {"clear_queue", "CANCEL_PENDING"}
              ELSE IF pc[t] = "s_request" THEN {"CANCEL_PENDING"}
              ELSE IF pc[t] \in JoinLabels THEN ShutdownMode
              ELSE {"none"}
\* A shutdown past its first step has set the stopping bit; a producer that
\* holds the mutex has seen it clear, and then it is.
Signalled(t) ==
  \/ pc[t] \in {"s_request", "s_notify", "s_swap", "s_join"}
  \/ Dropping(t) /\ mode[t] = "CANCEL_PENDING"
Bit(t) ==
  /\ Signalled(t) => queue_state.stopping
  /\ pc[t] \in {"e_slot", "e_publish"} => ~queue_state.stopping
\* A client's shutdown holds shutdown_mutex, and has swapped workers_ out
\* before it joins.
Joins(t) ==
  /\ t \notin Workers /\ mode[t] \in ShutdownMode /\ pc[t] # "s_lock" =>
       shutdown_mutex = {t}
  /\ pc[t] = "s_join" => workers = {}
\* A submission is a part of a span, and what precedes it was accepted.
PartOf(t, s, m) ==
  /\ span[t] = SubSeq(s, m, Len(s))
  /\ \A i \in 1 .. m - 1 : status[s[i]] \notin {"caller", "offered"}
Submits(t) ==
  span[t] # <<>> => \E s \in Spans : \E m \in 1 .. Len(s) : PartOf(t, s, m)

\* A worker's thread is in workers_, with a shutdown that joins it, or done,
\* which it is only after the stop and with the queue empty.
Lives(w) ==
  /\ w \in workers \cup workers_to_join \/ pc[w] = "exited"
  /\ pc[w] = "exited" => queue_state.stopping /\ queue_state.pending = 0
\* What a worker has taken and is about to claim.
Taken(w) ==
  pc[w] = "w_claim" =>
    /\ Len(batch[w]) = claimed[w]
    /\ claimed[w] > 1 => TasksIn(batch[w]) \subseteq Bulk

\* Threads wait to be joined only while a shutdown joins them.
Handover == workers_to_join # {} => \E t \in Threads : pc[t] = "s_join"

\* Whom a cancelling shutdown has asked to stop.
Reached(t, w) ==
  \/ w \in stop_requested \/ pc[w] = "exited"
  \/ t \in Workers /\ w \in workers_to_join
Asked(t) ==
  pc[t] = "s_notify" /\ mode[t] = "CANCEL_PENDING" =>
    \A w \in Workers : Reached(t, w)

InService ==
  /\ \A t \in Threads : /\ Role(t) /\ ModeOf(t) /\ Bit(t) /\ Joins(t)
                        /\ Submits(t) /\ Asked(t)
  /\ \A w \in Workers : Lives(w) /\ Taken(w)
  /\ Handover

\* The constructor has failed: its thread stops the workers that it started,
\* and they find nothing to do.
LoopLabels ==
  {"w_load", "w_inc", "w_obs", "w_wait", "w_sleep", "w_dec", "exited"}
Abandoned ==
  /\ \A t \in Threads : pc[t] \in IF t \in Workers THEN LoopLabels
                                  ELSE CreatorLabels
  /\ \A t \in Threads : mode[t] = "none"
  /\ queue_state.pending = 0

CInv == InService \/ Abandoned
-----------------------------------------------------------------------------
(* What a step of t leaves to the other threads.                           *)

Frame(t) ==
  /\ \A u \in Threads \ {t} :
       /\ mode'[u] = mode[u] /\ span'[u] = span[u]
       /\ consumer_mutex' = {u} <=> consumer_mutex = {u}
       /\ shutdown_mutex' = {u} <=> shutdown_mutex = {u}
  /\ queue_state.stopping => queue_state'.stopping
  /\ stop_requested \subseteq stop_requested'
\* Only a submission takes a task from its caller, and no step offers it again.
Onward ==
  \A k \in Tasks :
    status[k] \notin {"caller", "offered"} =>
      status'[k] \notin {"caller", "offered"}

\* A step that changes neither a mutex nor what belongs to the calls.
Plain ==
  /\ UNCHANGED <<mode, span, consumer_mutex, shutdown_mutex, status>>
  /\ queue_state'.stopping = queue_state.stopping
  /\ UNCHANGED jthreads

LEMMA PlainFrame ==
  ASSUME Plain, NEW t \in Threads PROVE Frame(t) /\ Onward
BY DEF Plain, Frame, Onward, jthreads

LEMMA MovePlain ==
  ASSUME NEW t \in Threads, NEW label, Move(t, label) PROVE Plain
BY DEF Move, Plain, word, work, locks, call

\* The types that the steps rely on.
LEMMA CallTypes ==
  ASSUME IInv
  PROVE  /\ mode \in [Threads -> Operations \cup {"none"}]
         /\ span \in [Threads -> Seq(Tasks)]
         /\ workers \subseteq Workers /\ workers_to_join \subseteq Workers
         /\ stop_requested \subseteq Workers
         /\ shutdown_mutex \in Holders /\ consumer_mutex \in Holders
         /\ producer_mutex \in Holders
BY DEF IInv, TypeOK

LEMMA RefuseFrame ==
  ASSUME IInv, NEW t \in Threads, Refuse(t) PROVE Frame(t) /\ Onward
<1>1. Frame(t)
  BY CallTypes DEF Refuse, Frame, word, locks, jthreads
<1>2. Onward
  BY DEF Refuse, Onward
<1> QED
  BY <1>1, <1>2

LEMMA EnqueueFrame ==
  ASSUME IInv, NEW t \in Threads, Enqueue(t) PROVE Frame(t) /\ Onward
<1>1. CASE EnqueueLoad(t)
  BY <1>1, RefuseFrame, MovePlain, PlainFrame DEF EnqueueLoad
<1>2. CASE EnqueueInc(t) \/ EnqueueDec(t) \/ EnqueueSlot(t) \/ EnqueueCheck(t)
  <2>1. Plain
    BY <1>2 DEF EnqueueInc, EnqueueDec, EnqueueSlot, EnqueueCheck, Plain, word,
       work, locks, call
  <2> QED
    BY <2>1, PlainFrame
<1>3. CASE EnqueueObserve(t) \/ EnqueueWait(t)
  <2>1. Plain
    BY <1>3, MovePlain DEF EnqueueObserve, EnqueueWait, Plain, word, work, locks,
       call
  <2> QED
    BY <2>1, PlainFrame
<1>4. CASE EnqueueLock(t)
  <2>1. CASE Refuse(t)
    BY <2>1, RefuseFrame
  <2>2. CASE Move(t, "e_load")
    BY <2>2, MovePlain, PlainFrame
  <2>3. CASE ~Refuse(t) /\ ~Move(t, "e_load")
    <3>1. Plain
      BY <1>4, <2>3 DEF EnqueueLock, Plain, word, work
    <3> QED
      BY <3>1, PlainFrame
  <2> QED
    BY <2>1, <2>2, <2>3
<1>5. CASE EnqueuePublish(t)
  <2>1. Frame(t)
    BY <1>5, RingTypes, CallTypes
       DEF EnqueuePublish, SetState, Frame, jthreads, QueueState
  <2>2. Onward
    BY <1>5 DEF EnqueuePublish, Onward
  <2> QED
    BY <2>1, <2>2
<1>6. CASE EnqueueNotify(t)
  <2>1. Plain
    BY <1>6 DEF EnqueueNotify, Plain, work, locks
  <2> QED
    BY <2>1, PlainFrame
<1> QED
  BY <1>1, <1>2, <1>3, <1>4, <1>5, <1>6 DEF Enqueue

LEMMA RunFrame ==
  ASSUME IInv, NEW w \in Workers, Run(w) PROVE Frame(w) /\ Onward
<1> w \in Threads
  BY DEF Threads
<1>1. CASE WorkerLoad(w) \/ WorkerWait(w) \/ WorkerCheck(w)
  BY <1>1, MovePlain, PlainFrame DEF WorkerLoad, WorkerWait, WorkerCheck
<1>2. CASE \/ WorkerInc(w) \/ WorkerDec(w) \/ WorkerObserve(w)
           \/ WorkerNotify(w) \/ WorkerTake(w)
  <2>1. Plain
    BY <1>2, MovePlain DEF WorkerInc, WorkerDec, WorkerObserve, WorkerNotify,
       WorkerTake, Plain, word, work, locks, call
  <2> QED
    BY <2>1, PlainFrame
<1>3. CASE WorkerLock(w)
  <2>1. CASE Move(w, "w_load")
    BY <2>1, MovePlain, PlainFrame
  <2>2. CASE consumer_mutex = {} /\ consumer_mutex' = {w}
    <3>1. /\ UNCHANGED <<mode, span, shutdown_mutex, status, queue_state>>
          /\ UNCHANGED jthreads
      BY <1>3 DEF WorkerLock, Move, word, work, locks, call
    <3> QED
      BY <2>2, <3>1 DEF Frame, Onward, jthreads
  <2> QED
    BY <1>3, <2>1, <2>2 DEF WorkerLock
<1>4. CASE WorkerClaim(w)
  <2>1. consumer_mutex = {w}
    BY <1>4 DEF WorkerClaim, IInv, Exclusion
  <2>2. Frame(w)
    BY <1>4, <2>1, RingTypes
       DEF WorkerClaim, SetState, Frame, call, jthreads, QueueState
  <2>3. Onward
    BY <1>4 DEF WorkerClaim, Onward
  <2> QED
    BY <2>2, <2>3
<1>5. CASE Execute(w)
  <2>1. Frame(w)
    BY <1>5 DEF Execute, Frame, word, locks, call, jthreads
  <2>2. PICK outcome \in Outcomes :
          status' = [status EXCEPT ![Head(batch[w])] = outcome]
    BY <1>5 DEF Execute
  <2>3. outcome \notin {"caller", "offered"}
    BY CallsAssumption
  <2>4. Onward
    BY <2>2, <2>3, RingTypes DEF Onward
  <2> QED
    BY <2>1, <2>4
<1>6. CASE WorkerFinish(w)
  <2>1. Plain
    BY <1>6, RingTypes
       DEF WorkerFinish, SetState, Plain, locks, call, QueueState
  <2> QED
    BY <2>1, PlainFrame
<1> QED
  BY <1>1, <1>2, <1>3, <1>4, <1>5, <1>6 DEF Run

LEMMA CallFrame ==
  ASSUME IInv, NEW t \in Threads, Call(t) PROVE Frame(t) /\ Onward
<1>1. CASE CallEnqueue(t)
  <2>1. Frame(t)
    BY <1>1, CallTypes DEF CallEnqueue, Frame, word, locks, jthreads
  <2>2. Onward
    BY <1>1 DEF CallEnqueue, Onward
  <2> QED
    BY <2>1, <2>2
<1>2. CASE CallWait(t)
  BY <1>2 DEF CallWait, Frame, Onward, word, work, locks, jthreads
<1>3. CASE CallControl(t)
  BY <1>3, CallTypes
     DEF CallControl, Frame, Onward, word, work, locks, jthreads
<1> QED
  BY <1>1, <1>2, <1>3 DEF Call

LEMMA WaitFrame ==
  ASSUME IInv, NEW t \in Threads, Wait(t) \/ NotifyIdle(t)
  PROVE  Plain /\ Frame(t) /\ Onward
<1>1. Plain
  BY MovePlain
     DEF Wait, IdleCheck, IdleInc, IdleEpoch, IdleRecheck, IdleWait, IdleDec,
         NotifyIdle, NotifyLoad, NotifyEpoch, NotifyWake, Plain, word, work,
         locks, call
<1> QED
  BY <1>1, PlainFrame

LEMMA CancelFrame ==
  ASSUME IInv, NEW t \in Threads, CancelPending(t) PROVE Frame(t) /\ Onward
<1>1. CASE CancelLock(t)
  BY <1>1 DEF CancelLock, Frame, Onward, word, work, jthreads
<1>2. CASE CancelDrop(t)
  <2>1. consumer_mutex = {t}
    BY <1>2 DEF CancelDrop, IInv, Exclusion, CancelLabels
  <2>2. Frame(t)
    <3>1. /\ consumer_mutex' \in {{t}, {}}
          /\ UNCHANGED <<queue_state, shutdown_mutex, span, stop_requested>>
          /\ mode' = mode \/ mode' = ModeAfterCancel(t)
      BY <1>2, <2>1 DEF CancelDrop, word, locks, jthreads
    <3> QED
      BY <2>1, <3>1, CallTypes DEF Frame, ModeAfterCancel
  <2>3. Onward
    BY <1>2 DEF CancelDrop, Onward
  <2> QED
    BY <2>2, <2>3
<1>3. CASE CancelSub(t) \/ CancelIdle(t)
  <2>1. Plain
    BY <1>3, MovePlain, RingTypes
       DEF CancelSub, CancelIdle, SetState, Plain, work, locks, QueueState
  <2> QED
    BY <2>1, PlainFrame
<1>4. CASE CancelNotify(t)
  <2>1. consumer_mutex = {t}
    BY <1>4 DEF CancelNotify, IInv, Exclusion, CancelLabels
  <2> QED
    BY <1>4, <2>1, CallTypes
       DEF CancelNotify, ModeAfterCancel, Frame, Onward, work, jthreads
<1> QED
  BY <1>1, <1>2, <1>3, <1>4 DEF CancelPending

\* Only a client gives shutdown_mutex back, and only where it holds it.
LEMMA ShutdownFrame ==
  ASSUME IInv, NEW t \in Threads, Shutdown(t),
         pc[t] = "s_join" => shutdown_mutex = {t}
  PROVE  Frame(t) /\ Onward
<1>1. CASE ShutdownLock(t)
  BY <1>1 DEF ShutdownLock, Frame, Onward, word, work, call, jthreads
<1>2. CASE SignalStop(t)
  BY <1>2, RingTypes
     DEF SignalStop, SetState, Frame, Onward, work, locks, call, jthreads,
         QueueState
<1>3. CASE SignalRequest(t) \/ ShutdownSwap(t)
  BY <1>3 DEF SignalRequest, ShutdownSwap, Frame, Onward, word, work, locks, call
<1>4. CASE SignalNotify(t)
  BY <1>4, CallTypes DEF SignalNotify, Frame, Onward, work, locks, jthreads
<1>5. CASE ShutdownJoin(t)
  BY <1>5, CallTypes DEF ShutdownJoin, Frame, Onward, word, work
<1> QED
  BY <1>1, <1>2, <1>3, <1>4, <1>5 DEF Shutdown

\* Nothing but a failed constructor ever constructs.
LEMMA InServiceFrame ==
  ASSUME IInv, InService, NEW t \in Threads, Call(t) \/ Step(t)
  PROVE  Frame(t) /\ Onward /\ ~Construct(t)
<1>1. pc[t] \notin CreatorLabels /\ (pc[t] = "s_join" => shutdown_mutex = {t})
  <2>1. Role(t) /\ ModeOf(t) /\ Joins(t)
    BY DEF InService
  <2> QED
    BY <2>1
       DEF Role, ModeOf, Joins, ClientLabels, JoinLabels, Dropping, DropLabels,
           CancelLabels, NotifyLabels
<1>2. ~Construct(t)
  BY <1>1 DEF Construct, ConstructStop, ConstructNotify, ConstructJoin,
              CreatorLabels
<1> QED
  BY <1>1, <1>2, CallFrame, EnqueueFrame, RunFrame, WaitFrame, CancelFrame,
     ShutdownFrame DEF Step
-----------------------------------------------------------------------------
(* The parts of InService that speak of one thread.                        *)

Own(t) == Role(t) /\ ModeOf(t) /\ Bit(t) /\ Joins(t)

\* The others keep what they know, while they sleep and wake.
LEMMA OthersOwn ==
  ASSUME IInv, NEW t \in Threads, NEW u \in Threads \ {t}, Own(u), Moved(u),
         Frame(t), workers' \subseteq workers,
         queue_state'.stopping = queue_state.stopping \/ producer_mutex = {}
  PROVE  Own(u)'
<1>1. /\ mode'[u] = mode[u]
      /\ consumer_mutex' = {u} <=> consumer_mutex = {u}
      /\ shutdown_mutex' = {u} <=> shutdown_mutex = {u}
      /\ queue_state.stopping => queue_state'.stopping
  BY DEF Frame
<1>2. Dropping(u)' <=> Dropping(u)
  BY <1>1 DEF Moved, Dropping, DropLabels, CancelLabels, NotifyLabels
<1>3. Role(u)'
  BY <1>1 DEF Own, Moved, Role, WorkerLabels, ClientLabels, CreatorLabels,
              NotifyLabels
<1>4. ModeOf(u)'
  BY <1>1, <1>2 DEF Own, Moved, ModeOf, JoinLabels
<1>5. Bit(u)'
  <2>1. Signalled(u)' <=> Signalled(u)
    BY <1>1, <1>2 DEF Moved, Signalled
  <2>2. pc'[u] \in {"e_slot", "e_publish"} =>
          pc[u] \in {"e_slot", "e_publish"} /\ producer_mutex # {}
    BY DEF Moved, IInv, Exclusion
  <2> QED
    BY <1>1, <2>1, <2>2 DEF Own, Bit
<1>6. Joins(u)'
  BY <1>1 DEF Own, Moved, Joins
<1> QED
  BY <1>3, <1>4, <1>5, <1>6 DEF Own

\* Labels of threads that are in no control call.
Uncontrolled(label) ==
  label \notin DropLabels \cup NotifyLabels \cup JoinLabels \cup {"s_request"}

\* A step outside of the control calls.
LEMMA PlainOwn ==
  ASSUME IInv, NEW t \in Threads, Own(t), mode'[t] = mode[t],
         Uncontrolled(pc[t]), Uncontrolled(pc'[t]), pc'[t] \notin CreatorLabels,
         pc'[t] \notin IF t \in Workers THEN ClientLabels ELSE WorkerLabels,
         pc'[t] \in {"e_slot", "e_publish"} => ~queue_state'.stopping
  PROVE  Own(t)'
<1>1. mode[t] = "none"
  BY DEF Own, ModeOf, Dropping, Uncontrolled
<1>2. ~Dropping(t)' /\ pc'[t] \notin JoinLabels \cup {"s_request"}
  BY DEF Dropping, Uncontrolled
<1>3. Role(t)' /\ ModeOf(t)'
  BY <1>1, <1>2 DEF Role, ModeOf, Uncontrolled
<1>4. Bit(t)'
  BY <1>2 DEF Bit, Signalled, JoinLabels
<1>5. Joins(t)'
  BY <1>1, <1>2 DEF Joins, ShutdownMode, JoinLabels
<1> QED
  BY <1>3, <1>4, <1>5 DEF Own

LEMMA CallOwn ==
  ASSUME IInv, NEW t \in Threads, Own(t), Call(t) PROVE Own(t)'
<1>1. t \in Workers => pc[t] = "w_exec"
  BY DEF Call, CallEnqueue, CallWait, CallControl, MayCall, Running, Own, Role,
         ClientLabels, ThreadsAssumption, Clients
<1>2. t \notin Workers => pc[t] = "idle"
  BY DEF Call, CallEnqueue, CallWait, CallControl, MayCall
<1>3. CASE CallEnqueue(t)
  <2>1. pc'[t] = "e_load" /\ mode'[t] = mode[t]
    BY <1>3, RingTypes DEF CallEnqueue, Goto
  <2> QED
    BY <1>1, <1>2, <2>1, PlainOwn
       DEF Uncontrolled, DropLabels, CancelLabels, NotifyLabels, JoinLabels,
           CreatorLabels, ClientLabels, WorkerLabels
<1>4. CASE CallWait(t)
  <2>1. pc'[t] = "i_check" /\ mode'[t] = mode[t] /\ t \notin Workers
    BY <1>4, RingTypes, ThreadsAssumption DEF CallWait, Goto, call, Clients
  <2> QED
    BY <1>2, <2>1, PlainOwn
       DEF Uncontrolled, DropLabels, CancelLabels, NotifyLabels, JoinLabels,
           CreatorLabels, ClientLabels, WorkerLabels
<1>5. CASE CallControl(t)
  <2>1. PICK op \in Operations :
          /\ mode' = [mode EXCEPT ![t] = op]
          /\ Goto(t, IF op = "clear_queue" THEN "c_lock"
                     ELSE IF t \in Workers THEN "s_stop" ELSE "s_lock")
    BY <1>5, CallsAssumption DEF CallControl
  <2>2. /\ mode'[t] = op
        /\ pc'[t] = IF op = "clear_queue" THEN "c_lock"
                    ELSE IF t \in Workers THEN "s_stop" ELSE "s_lock"
    BY <2>1, RingTypes, CallTypes DEF Goto
  <2>3. op \in ShutdownMode \cup {"clear_queue"}
    BY DEF Operations
  <2>4. Role(t)'
    BY <2>2 DEF Role, CreatorLabels, ClientLabels, WorkerLabels, NotifyLabels
  <2>5. ModeOf(t)'
    BY <2>2, <2>3 DEF ModeOf, Dropping, DropLabels, NotifyLabels, CancelLabels,
                      JoinLabels, ShutdownMode
  <2>6. Bit(t)'
    BY <2>2, <2>3 DEF Bit, Signalled, Dropping, DropLabels, NotifyLabels,
                      CancelLabels
  <2>7. Joins(t)'
    BY <2>2, <2>3 DEF Joins, ShutdownMode
  <2> QED
    BY <2>4, <2>5, <2>6, <2>7 DEF Own
<1> QED
  BY <1>3, <1>4, <1>5 DEF Call

\* The steps of a submission, or of the worker's loop, go from label to label.
EnqueueLabels ==
  {"e_load", "e_inc", "e_obs", "e_wait", "e_sleep", "e_dec", "e_lock", "e_slot",
   "e_publish", "e_check", "e_notify"}
Hop(t, S) == pc'[t] \in S /\ mode'[t] = mode[t]

LEMMA EnqueueHop ==
  ASSUME IInv, NEW t \in Threads, Own(t), Enqueue(t)
  PROVE  /\ pc[t] \in EnqueueLabels
         /\ Hop(t, EnqueueLabels \cup {Resume(t)})
         /\ pc'[t] \in {"e_slot", "e_publish"} => ~queue_state'.stopping
<1> USE DEF EnqueueLabels, Hop
<1>1. pc[t] \in EnqueueLabels
  BY DEF Enqueue, EnqueueLoad, EnqueueInc, EnqueueObserve, EnqueueWait,
         EnqueueDec, EnqueueLock, EnqueueSlot, EnqueuePublish, EnqueueCheck,
         EnqueueNotify
<1>2. ASSUME NEW label, Goto(t, label) PROVE pc'[t] = label
  BY <1>2, RingTypes DEF Goto
<1>3. ASSUME NEW label, Move(t, label) PROVE pc'[t] = label /\ mode'[t] = mode[t]
  BY <1>2, <1>3 DEF Move, call
<1>4. ASSUME Refuse(t) PROVE pc'[t] = Resume(t) /\ mode'[t] = mode[t]
  BY <1>2, <1>4 DEF Refuse
<1>5. NextRound(t) \in {"e_load", Resume(t)}
  BY DEF NextRound
<1>6. /\ Hop(t, EnqueueLabels \cup {Resume(t)})
      /\ pc'[t] \in {"e_slot", "e_publish"} => ~queue_state'.stopping
  <2>1. CASE EnqueueLoad(t) \/ EnqueueWait(t)
    BY <1>3, <1>4, <2>1, ResumeIs DEF EnqueueLoad, EnqueueWait
  <2>2. CASE EnqueueInc(t) \/ EnqueueDec(t)
    BY <1>2, <2>2 DEF EnqueueInc, EnqueueDec, call
  <2>3. CASE EnqueueObserve(t)
    BY <1>2, <1>3, <2>3 DEF EnqueueObserve, call
  <2>4. CASE EnqueueLock(t)
    BY <1>2, <1>3, <1>4, <2>4, ResumeIs DEF EnqueueLock, word
  <2>5. CASE EnqueueSlot(t)
    BY <1>2, <2>5 DEF EnqueueSlot, word, call, Own, Bit
  <2>6. CASE EnqueuePublish(t)
    BY <1>2, <2>6 DEF EnqueuePublish
  <2>7. CASE EnqueueCheck(t)
    BY <1>2, <1>5, <2>7, ResumeIs DEF EnqueueCheck
  <2>8. CASE EnqueueNotify(t)
    <3>1. pc'[t] = NextRound(t)
      BY <2>8, RingTypes DEF EnqueueNotify, NotifyOne, NotifyAll, Wake, Goto
    <3> QED
      BY <1>5, <2>8, <3>1, ResumeIs DEF EnqueueNotify
  <2> QED
    BY <2>1, <2>2, <2>3, <2>4, <2>5, <2>6, <2>7, <2>8 DEF Enqueue
<1> QED
  BY <1>1, <1>6

LEMMA EnqueueOwn ==
  ASSUME IInv, NEW t \in Threads, Own(t), Enqueue(t) PROVE Own(t)'
BY EnqueueHop, PlainOwn
   DEF EnqueueLabels, Hop, Resume, Uncontrolled, DropLabels, CancelLabels,
       NotifyLabels, JoinLabels, CreatorLabels, ClientLabels, WorkerLabels

LEMMA WaitOwn ==
  ASSUME IInv, NEW t \in Threads, Own(t), Wait(t) PROVE Own(t)'
<1> DEFINE S == {"idle", "i_check", "i_inc", "i_epoch", "i_recheck", "i_wait",
                 "i_sleep", "i_dec"}
<1>1. pc[t] \in S
  BY DEF Wait, IdleCheck, IdleInc, IdleEpoch, IdleRecheck, IdleWait, IdleDec
<1>2. pc'[t] \in S /\ mode'[t] = mode[t]
  BY RingTypes
     DEF Wait, IdleCheck, IdleInc, IdleEpoch, IdleRecheck, IdleWait, IdleDec,
         Move, Goto, call
<1>3. t \notin Workers
  BY <1>1 DEF Own, Role, ClientLabels
<1> QED
  BY <1>1, <1>2, <1>3, PlainOwn
     DEF Uncontrolled, DropLabels, CancelLabels, NotifyLabels, JoinLabels,
         CreatorLabels, WorkerLabels

LEMMA RunOwn ==
  ASSUME IInv, NEW w \in Workers, Own(w), Run(w) PROVE Own(w)'
<1> w \in Threads
  BY DEF Threads
<1>1. pc[w] \in WorkerLabels
  BY DEF Run, WorkerLoad, WorkerInc, WorkerObserve, WorkerWait, WorkerDec,
         WorkerLock, WorkerTake, WorkerClaim, WorkerCheck, WorkerNotify,
         Execute, WorkerFinish, WorkerLabels
<1>2. ASSUME NEW label, Goto(w, label) PROVE pc'[w] = label
  BY <1>2, RingTypes DEF Goto
<1>3. ASSUME NEW label, Move(w, label) PROVE pc'[w] = label /\ mode'[w] = mode[w]
  BY <1>2, <1>3 DEF Move, call
<1>4. CASE ~WorkerFinish(w)
  <2>1. pc'[w] \in WorkerLabels /\ mode'[w] = mode[w]
    <3>1. CASE WorkerLoad(w) \/ WorkerWait(w) \/ WorkerCheck(w)
      BY <1>3, <3>1 DEF WorkerLoad, WorkerWait, WorkerCheck, WorkerLabels
    <3>2. CASE WorkerInc(w) \/ WorkerDec(w) \/ WorkerTake(w) \/ WorkerClaim(w)
      BY <1>2, <3>2 DEF WorkerInc, WorkerDec, WorkerTake, WorkerClaim, call,
                        WorkerLabels
    <3>3. CASE WorkerObserve(w) \/ WorkerLock(w)
      BY <1>2, <1>3, <3>3 DEF WorkerObserve, WorkerLock, call, WorkerLabels
    <3>4. CASE WorkerNotify(w)
      BY <3>4, RingTypes DEF WorkerNotify, NotifyOne, NotifyAll, Wake, Goto, call,
                             WorkerLabels
    <3>5. CASE Execute(w)
      BY <1>2, <3>5 DEF Execute, call, WorkerLabels
    <3> QED
      BY <1>4, <3>1, <3>2, <3>3, <3>4, <3>5 DEF Run
  <2> QED
    BY <1>1, <2>1, PlainOwn
       DEF Uncontrolled, DropLabels, CancelLabels, NotifyLabels, JoinLabels,
           CreatorLabels, ClientLabels, WorkerLabels
<1>5. CASE WorkerFinish(w)
  <2>1. /\ pc[w] = "w_finish" /\ mode'[w] = mode[w]
        /\ consumer_mutex' = consumer_mutex
        /\ pc'[w] \in {"n_load", "w_load"}
    BY <1>2, <1>5 DEF WorkerFinish, call, locks
  <2>2. mode[w] = "none"
    BY <2>1 DEF Own, ModeOf, Dropping, DropLabels, CancelLabels, NotifyLabels,
                JoinLabels
  <2>3. consumer_mutex # {w}
    BY <2>1 DEF IInv, Exclusion, CancelLabels, NotifyLabels
  <2>4. ~Dropping(w)'
    BY <2>1, <2>3 DEF Dropping, DropLabels, CancelLabels
  <2>5. Role(w)' /\ ModeOf(w)' /\ Bit(w)' /\ Joins(w)'
    BY <2>1, <2>2, <2>4
       DEF Role, ModeOf, Bit, Joins, Signalled, CreatorLabels, ClientLabels,
           WorkerLabels, JoinLabels, ShutdownMode
  <2> QED
    BY <2>5 DEF Own
<1> QED
  BY <1>4, <1>5

LEMMA NotifyOwn ==
  ASSUME IInv, NEW t \in Threads, Own(t), NotifyIdle(t) PROVE Own(t)'
<1>1. pc[t] \in NotifyLabels
  BY DEF NotifyIdle, NotifyLoad, NotifyEpoch, NotifyWake, NotifyLabels
<1>2. pc'[t] \in {"n_epoch", "n_notify", NotifyReturn(t)}
  BY RingTypes DEF NotifyIdle, NotifyLoad, NotifyEpoch, NotifyWake, Move, Goto,
                   Wake
<1>3. /\ UNCHANGED <<mode, consumer_mutex, shutdown_mutex, workers>>
      /\ queue_state' = queue_state
  BY DEF NotifyIdle, NotifyLoad, NotifyEpoch, NotifyWake, Move, word, locks, call,
         jthreads
<1>4. pc'[t] = IF pc'[t] \in {"n_epoch", "n_notify"} THEN pc'[t]
               ELSE IF consumer_mutex = {t} THEN "c_notify" ELSE "w_load"
  BY <1>2 DEF NotifyReturn
<1>5. Dropping(t)' <=> Dropping(t)
  BY <1>1, <1>3, <1>4 DEF Dropping, NotifyLabels, DropLabels, CancelLabels
<1>6. Role(t)'
  BY <1>1, <1>3, <1>4 DEF Own, Role, WorkerLabels, ClientLabels, CreatorLabels,
                          NotifyLabels
<1>7. ModeOf(t)'
  BY <1>1, <1>3, <1>4, <1>5 DEF Own, ModeOf, NotifyLabels, JoinLabels
<1>8. Bit(t)'
  BY <1>1, <1>3, <1>4, <1>5 DEF Own, Bit, Signalled, NotifyLabels
<1>9. Joins(t)'
  BY <1>1, <1>3, <1>4 DEF Own, Joins, NotifyLabels
<1> QED
  BY <1>6, <1>7, <1>8, <1>9 DEF Own

\* A step inside cancel_pending.
LEMMA DropOwn ==
  ASSUME IInv, NEW t \in Threads, Own(t), Dropping(t), Dropping(t)',
         pc'[t] \notin NotifyLabels \/ consumer_mutex' = {t},
         mode'[t] = mode[t], shutdown_mutex' = shutdown_mutex,
         queue_state'.stopping = queue_state.stopping
  PROVE  Own(t)'
<1>1. pc[t] # "s_lock" /\ pc'[t] \notin {"s_join", "e_slot", "e_publish", "s_lock"}
  BY DEF Dropping, DropLabels, CancelLabels, NotifyLabels
<1>2. Role(t)'
  BY DEF Role, Dropping, DropLabels, CancelLabels, NotifyLabels, WorkerLabels,
         ClientLabels, CreatorLabels
<1>3. ModeOf(t)'
  BY DEF Own, ModeOf
<1>4. Bit(t)'
  <2>1. Signalled(t)' => mode[t] = "CANCEL_PENDING"
    BY DEF Signalled, Dropping, DropLabels, CancelLabels, NotifyLabels
  <2> QED
    BY <1>1, <2>1 DEF Own, Bit, Signalled
<1>5. Joins(t)'
  BY <1>1 DEF Own, Joins
<1> QED
  BY <1>2, <1>3, <1>4, <1>5 DEF Own

\* cancel_pending returns, to clear_queue or to a cancelling shutdown.
LEMMA AfterCancelOwn ==
  ASSUME IInv, NEW t \in Threads, Own(t), Dropping(t), pc'[t] = AfterCancel(t),
         mode' = ModeAfterCancel(t), shutdown_mutex' = shutdown_mutex,
         queue_state'.stopping = queue_state.stopping
  PROVE  Own(t)'
<1>1. mode[t] \in {"clear_queue", "CANCEL_PENDING"}
  BY DEF Own, ModeOf
<1>2. mode'[t] = IF mode[t] = "clear_queue" THEN "none" ELSE mode[t]
  BY CallTypes DEF ModeAfterCancel
<1>3. pc'[t] = IF mode[t] = "clear_queue"
               THEN IF t \in Workers THEN "w_settle" ELSE "idle"
               ELSE "s_request"
  BY DEF AfterCancel, Resume
<1>4. pc[t] # "s_lock" /\ ~Dropping(t)'
  BY <1>3 DEF Dropping, DropLabels, CancelLabels, NotifyLabels
<1>5. Role(t)'
  BY <1>3 DEF Role, WorkerLabels, ClientLabels, CreatorLabels, NotifyLabels
<1>6. ModeOf(t)'
  BY <1>1, <1>2, <1>3, <1>4 DEF ModeOf, JoinLabels
<1>7. Bit(t)'
  BY <1>1, <1>3, <1>4 DEF Own, Bit, Signalled
<1>8. Joins(t)'
  BY <1>1, <1>2, <1>3, <1>4 DEF Own, Joins, ShutdownMode
<1> QED
  BY <1>5, <1>6, <1>7, <1>8 DEF Own

LEMMA CancelOwn ==
  ASSUME IInv, NEW t \in Threads, Own(t), CancelPending(t) PROVE Own(t)'
<1>1. Dropping(t)
  BY DEF CancelPending, CancelLock, CancelDrop, CancelSub, CancelIdle,
         CancelNotify, Dropping, DropLabels, CancelLabels
<1>2. ASSUME NEW label, Goto(t, label) PROVE pc'[t] = label
  BY <1>2, RingTypes DEF Goto
<1>3. CASE CancelLock(t) \/ CancelSub(t)
  <2>1. /\ UNCHANGED <<mode, shutdown_mutex>>
        /\ queue_state'.stopping = queue_state.stopping
        /\ pc'[t] \in CancelLabels
    BY <1>2, <1>3, RingTypes
       DEF CancelLock, CancelSub, SetState, word, locks, QueueState, CancelLabels
  <2> QED
    BY <1>1, <2>1, DropOwn
       DEF Dropping, DropLabels, CancelLabels, NotifyLabels
<1>4. CASE CancelIdle(t)
  <2>1. consumer_mutex = {t}
    BY <1>4 DEF CancelIdle, IInv, Exclusion, CancelLabels
  <2>2. /\ UNCHANGED <<mode, shutdown_mutex, consumer_mutex>>
        /\ queue_state' = queue_state
        /\ pc'[t] \in {"n_load", "c_notify"}
    BY <1>2, <1>4 DEF CancelIdle, Move, word, locks, call
  <2> QED
    BY <1>1, <2>1, <2>2, DropOwn
       DEF Dropping, DropLabels, CancelLabels, NotifyLabels
<1>5. CASE CancelDrop(t)
  <2>1. UNCHANGED <<queue_state, shutdown_mutex>>
    BY <1>5 DEF CancelDrop, word, locks
  <2>2. CASE Goto(t, "c_sub") /\ UNCHANGED <<locks, mode>>
    <3>1. pc'[t] = "c_sub" /\ mode' = mode
      BY <1>2, <2>2
    <3> QED
      BY <1>1, <2>1, <3>1, DropOwn
         DEF Dropping, DropLabels, CancelLabels, NotifyLabels
  <2>3. CASE Goto(t, AfterCancel(t)) /\ mode' = ModeAfterCancel(t)
    BY <1>1, <1>2, <2>1, <2>3, AfterCancelOwn
  <2> QED
    BY <1>5, <2>2, <2>3 DEF CancelDrop
<1>6. CASE CancelNotify(t)
  <2>1. pc'[t] = AfterCancel(t) /\ pc[t] = "c_notify"
    BY <1>6, RingTypes DEF CancelNotify, NotifyAll, Wake
  <2>2. /\ mode' = ModeAfterCancel(t)
        /\ UNCHANGED <<queue_state, shutdown_mutex>>
    BY <1>6 DEF CancelNotify
  <2> QED
    BY <1>1, <2>1, <2>2, AfterCancelOwn
<1> QED
  BY <1>3, <1>4, <1>5, <1>6 DEF CancelPending

LEMMA ShutdownOwn ==
  ASSUME IInv, NEW t \in Threads, Own(t), Shutdown(t) PROVE Own(t)'
<1> USE DEF JoinLabels, ShutdownMode
<1>1. pc[t] \in JoinLabels \cup {"s_request"}
  BY DEF Shutdown, ShutdownLock, SignalStop, SignalRequest, SignalNotify,
         ShutdownSwap, ShutdownJoin
<1>2. ~Dropping(t)
  BY <1>1 DEF Dropping, DropLabels, CancelLabels, NotifyLabels
<1>3. /\ mode[t] \in ShutdownMode
      /\ pc[t] = "s_request" => mode[t] = "CANCEL_PENDING"
      /\ pc[t] \in {"s_lock", "s_swap", "s_join"} => t \notin Workers
  BY <1>1, <1>2 DEF Own, ModeOf, Role, ClientLabels
<1>4. ASSUME NEW label, Goto(t, label) PROVE pc'[t] = label
  BY <1>4, RingTypes DEF Goto
<1>5. ASSUME pc'[t] \in {"s_stop", "s_request", "s_notify", "s_swap", "s_join"},
             t \in Workers => pc'[t] \notin {"s_swap", "s_join"},
             mode'[t] = mode[t],
             t \notin Workers => shutdown_mutex' = {t},
             pc'[t] = "s_request" => mode[t] = "CANCEL_PENDING",
             pc'[t] # "s_stop" => queue_state'.stopping,
             pc'[t] = "s_join" => workers' = {}
      PROVE  Own(t)'
  <2>1. ~Dropping(t)'
    BY <1>5 DEF Dropping, DropLabels, CancelLabels, NotifyLabels
  <2>2. Role(t)'
    BY <1>5 DEF Role, WorkerLabels, ClientLabels, CreatorLabels, NotifyLabels
  <2>3. ModeOf(t)'
    BY <1>3, <1>5, <2>1 DEF ModeOf
  <2>4. Bit(t)' /\ Joins(t)'
    BY <1>5, <2>1 DEF Bit, Signalled, Joins
  <2> QED
    BY <2>2, <2>3, <2>4 DEF Own
<1>6. pc[t] # "s_lock" /\ t \notin Workers => shutdown_mutex = {t}
  BY <1>3 DEF Own, Joins
<1>7. pc[t] \in {"s_request", "s_notify", "s_swap"} => queue_state.stopping
  BY DEF Own, Bit, Signalled
<1>8. CASE ShutdownLock(t)
  <2>1. pc'[t] = "s_stop" /\ mode' = mode /\ shutdown_mutex' = {t}
    BY <1>4, <1>8 DEF ShutdownLock, call
  <2> QED
    BY <1>5, <2>1
<1>9. CASE SignalStop(t)
  <2>1. /\ mode' = mode /\ shutdown_mutex' = shutdown_mutex
        /\ queue_state'.stopping = TRUE
        /\ pc'[t] = IF mode[t] = "CANCEL_PENDING" THEN "c_lock" ELSE "s_notify"
        /\ pc[t] = "s_stop"
    BY <1>4, <1>9, RingTypes DEF SignalStop, SetState, call, locks, QueueState
  <2>2. CASE mode[t] = "CANCEL_PENDING"
    <3>1. Dropping(t)' /\ mode'[t] = "CANCEL_PENDING" /\ pc'[t] = "c_lock"
      BY <2>1, <2>2 DEF Dropping, DropLabels
    <3>2. Role(t)' /\ ModeOf(t)' /\ Bit(t)'
      BY <2>1, <3>1
         DEF Role, ModeOf, Bit, WorkerLabels, ClientLabels, CreatorLabels,
             NotifyLabels
    <3>3. Joins(t)'
      BY <1>6, <2>1, <3>1 DEF Joins
    <3> QED
      BY <3>2, <3>3 DEF Own
  <2>3. CASE mode[t] # "CANCEL_PENDING"
    BY <1>5, <1>6, <2>1, <2>3
  <2> QED
    BY <2>2, <2>3
<1>10. CASE SignalRequest(t)
  <2>1. /\ mode' = mode /\ UNCHANGED <<shutdown_mutex, queue_state>>
        /\ pc'[t] = "s_notify" /\ pc[t] = "s_request"
    BY <1>4, <1>10 DEF SignalRequest, call, locks, word
  <2> QED
    BY <1>5, <1>6, <1>7, <2>1
<1>11. CASE SignalNotify(t)
  <2>1. /\ UNCHANGED <<shutdown_mutex, queue_state>> /\ pc[t] = "s_notify"
        /\ pc'[t] = IF t \in Workers THEN "w_settle" ELSE "s_swap"
        /\ mode'[t] = IF t \in Workers THEN "none" ELSE mode[t]
    BY <1>11, RingTypes, CallTypes DEF SignalNotify, NotifyAll, Wake, locks
  <2>2. CASE t \in Workers
    <3>1. pc'[t] = "w_settle" /\ mode'[t] = "none"
      BY <2>1, <2>2
    <3>2. ~Dropping(t)'
      BY <3>1 DEF Dropping, DropLabels, CancelLabels, NotifyLabels
    <3>3. Role(t)' /\ ModeOf(t)' /\ Bit(t)' /\ Joins(t)'
      BY <2>2, <3>1, <3>2
         DEF Role, ModeOf, Bit, Signalled, Joins, WorkerLabels, ClientLabels,
             CreatorLabels, NotifyLabels
    <3> QED
      BY <3>3 DEF Own
  <2>3. CASE t \notin Workers
    BY <1>5, <1>6, <1>7, <2>1, <2>3
  <2> QED
    BY <2>2, <2>3
<1>12. CASE ShutdownSwap(t)
  <2>1. /\ mode' = mode /\ UNCHANGED <<shutdown_mutex, queue_state>>
        /\ pc'[t] = "s_join" /\ pc[t] = "s_swap" /\ workers' = {}
    BY <1>4, <1>12 DEF ShutdownSwap, call, locks, word
  <2> QED
    BY <1>3, <1>5, <1>6, <1>7, <2>1
<1>13. CASE ShutdownJoin(t)
  <2>1. pc'[t] = "idle" /\ mode'[t] = "none" /\ pc[t] = "s_join"
    BY <1>4, <1>13, CallTypes DEF ShutdownJoin
  <2>2. ~Dropping(t)'
    BY <2>1 DEF Dropping, DropLabels, CancelLabels, NotifyLabels
  <2>3. Role(t)' /\ ModeOf(t)' /\ Bit(t)' /\ Joins(t)'
    BY <1>3, <2>1, <2>2
       DEF Role, ModeOf, Bit, Signalled, Joins, WorkerLabels, CreatorLabels,
           NotifyLabels
  <2> QED
    BY <2>3 DEF Own
<1> QED
  BY <1>8, <1>9, <1>10, <1>11, <1>12, <1>13 DEF Shutdown
-----------------------------------------------------------------------------
(* Only SignalStop sets the bit, and only shutdowns move the threads.      *)

SameService ==
  queue_state'.stopping = queue_state.stopping /\ UNCHANGED jthreads

LEMMA EnqueueStopping ==
  ASSUME IInv, NEW t \in Threads, Enqueue(t) PROVE SameService
<1>1. ASSUME NEW label, Move(t, label) PROVE SameService
  BY <1>1, MovePlain DEF Plain, SameService
<1>2. ASSUME Refuse(t) PROVE SameService
  BY <1>2 DEF Refuse, SameService, word
<1>3. CASE EnqueueLoad(t) \/ EnqueueWait(t) \/ EnqueueObserve(t)
  BY <1>1, <1>2, <1>3
     DEF EnqueueLoad, EnqueueWait, EnqueueObserve, SameService, word
<1>4. CASE EnqueueLock(t)
  BY <1>1, <1>2, <1>4 DEF EnqueueLock, SameService, word
<1>5. CASE EnqueuePublish(t)
  BY <1>5, RingTypes DEF EnqueuePublish, SetState, SameService, QueueState
<1>6. CASE \/ EnqueueInc(t) \/ EnqueueDec(t) \/ EnqueueSlot(t)
           \/ EnqueueCheck(t) \/ EnqueueNotify(t)
  BY <1>6 DEF EnqueueInc, EnqueueDec, EnqueueSlot, EnqueueCheck, EnqueueNotify,
              SameService, word
<1> QED
  BY <1>3, <1>4, <1>5, <1>6 DEF Enqueue

LEMMA RunStopping ==
  ASSUME IInv, NEW w \in Workers, Run(w) PROVE SameService
<1>1. ASSUME NEW label, Move(w, label) PROVE SameService
  BY <1>1 DEF Move, SameService, word
<1>2. CASE \/ WorkerLoad(w) \/ WorkerWait(w) \/ WorkerObserve(w)
           \/ WorkerLock(w) \/ WorkerCheck(w)
  BY <1>1, <1>2
     DEF WorkerLoad, WorkerWait, WorkerObserve, WorkerLock, WorkerCheck,
         SameService, word
<1>3. CASE WorkerClaim(w) \/ WorkerFinish(w)
  BY <1>3, RingTypes
     DEF WorkerClaim, WorkerFinish, SetState, SameService, QueueState
<1>4. CASE \/ WorkerInc(w) \/ WorkerDec(w) \/ WorkerTake(w)
           \/ WorkerNotify(w) \/ Execute(w)
  BY <1>4 DEF WorkerInc, WorkerDec, WorkerTake, WorkerNotify, Execute,
              SameService, word
<1> QED
  BY <1>2, <1>3, <1>4 DEF Run

LEMMA CancelStopping ==
  ASSUME IInv, NEW t \in Threads, CancelPending(t) PROVE SameService
<1>1. CASE CancelSub(t)
  BY <1>1, RingTypes DEF CancelSub, SetState, SameService, QueueState
<1>2. CASE CancelLock(t) \/ CancelDrop(t) \/ CancelIdle(t) \/ CancelNotify(t)
  BY <1>2 DEF CancelLock, CancelDrop, CancelIdle, CancelNotify, Move,
              SameService, word
<1> QED
  BY <1>1, <1>2 DEF CancelPending

LEMMA OtherStopping ==
  ASSUME NEW t \in Threads, Call(t) \/ Wait(t) \/ NotifyIdle(t)
  PROVE  SameService
BY DEF Call, CallEnqueue, CallWait, CallControl, Wait, IdleCheck, IdleInc,
       IdleEpoch, IdleRecheck, IdleWait, IdleDec, NotifyIdle, NotifyLoad,
       NotifyEpoch, NotifyWake, Move, SameService, word

\* A step of a pool in service, as far as the bit and the threads matter.
LEMMA StoppingStep ==
  ASSUME IInv, InService, NEW t \in Threads, Call(t) \/ Step(t)
  PROVE  SameService \/ Shutdown(t)
BY InServiceFrame, EnqueueStopping, RunStopping, CancelStopping, OtherStopping
   DEF Step

LEMMA OwnStep ==
  ASSUME IInv, InService, NEW t \in Threads, Call(t) \/ Step(t)
  PROVE  \A u \in Threads : Own(u)'
<1>1. \A u \in Threads : Own(u)
  BY DEF InService, Own
<1>2. Frame(t) /\ ~Construct(t)
  BY InServiceFrame
<1>3. Own(t)'
  BY <1>1, <1>2, CallOwn, EnqueueOwn, RunOwn, WaitOwn, NotifyOwn, CancelOwn,
     ShutdownOwn DEF Step
<1>4. /\ queue_state'.stopping = queue_state.stopping \/ producer_mutex = {}
      /\ workers' \subseteq workers
  <2>1. CASE SameService
    BY <2>1 DEF SameService, jthreads
  <2>2. CASE Shutdown(t)
    BY <2>2, RingTypes
       DEF Shutdown, ShutdownLock, SignalStop, SignalRequest, SignalNotify,
           ShutdownSwap, ShutdownJoin, word, jthreads
  <2> QED
    BY <2>1, <2>2, StoppingStep
<1>5. ASSUME NEW u \in Threads \ {t} PROVE Own(u)'
  BY <1>1, <1>2, <1>4, OthersMoved, OthersOwn
<1> QED
  BY <1>3, <1>5
-----------------------------------------------------------------------------
(* What a submission has still to offer.                                   *)

LEMMA SubmitsKept ==
  ASSUME IInv, NEW u, Submits(u), span'[u] = span[u], Onward
  PROVE  Submits(u)'
<1> SUFFICES ASSUME span[u] # <<>>
             PROVE  \E s \in Spans : \E m \in 1 .. Len(s) : PartOf(u, s, m)'
  BY DEF Submits
<1>1. PICK s \in Spans : \E m \in 1 .. Len(s) : PartOf(u, s, m)
  BY DEF Submits
<1>2. PICK m \in 1 .. Len(s) : PartOf(u, s, m)
  BY <1>1
<1>3. s \in Seq(Tasks) /\ Len(s) \in Nat
  BY SpansAssumption, LenProperties
<1>4. ASSUME NEW i \in 1 .. m - 1
      PROVE  status'[s[i]] \notin {"caller", "offered"}
  <2>1. i \in 1 .. Len(s)
    BY <1>3
  <2>2. s[i] \in Tasks
    BY <1>3, <2>1, ElementOfSeq
  <2> QED
    BY <1>2, <2>2 DEF PartOf, Onward
<1>5. PartOf(u, s, m)'
  BY <1>2, <1>4 DEF PartOf
<1> QED
  BY <1>5

LEMMA CallSubmits ==
  ASSUME IInv, NEW t \in Threads, CallEnqueue(t) PROVE Submits(t)'
<1>1. PICK s \in Spans : span' = [span EXCEPT ![t] = s]
  BY SpansAssumption DEF CallEnqueue
<1>2. s \in Seq(Tasks) /\ Len(s) \in Nat
  BY SpansAssumption, LenProperties
<1>3. span'[t] = s
  BY <1>1, CallTypes
<1>4. CASE s = <<>>
  BY <1>3, <1>4 DEF Submits
<1>5. CASE s # <<>>
  <2>1. 1 \in 1 .. Len(s)
    BY <1>2, <1>5, EmptySeq
  <2>2. SubSeq(s, 1, Len(s)) = s
    BY <1>2, SubSeqFull
  <2>3. PartOf(t, s, 1)'
    BY <1>3, <2>2 DEF PartOf
  <2> QED
    BY <2>1, <2>3 DEF Submits
<1> QED
  BY <1>4, <1>5

LEMMA PartOfPart ==
  ASSUME NEW s \in Seq(Tasks), NEW i \in 1 .. Len(s), NEW j \in 1 .. Len(s),
         NEW m \in 1 .. j - i + 1, NEW n \in 1 .. j - i + 1
  PROVE  SubSeq(SubSeq(s, i, j), m, n) = SubSeq(s, i + m - 1, i + n - 1)
BY SubSeqOfSubSeq

LEMMA PublishSubmits ==
  ASSUME IInv, NEW t \in Threads, Submits(t), EnqueuePublish(t)
  PROVE  Submits(t)'
<1>0. PICK n : n = count[t]
  OBVIOUS
<1> DEFINE K == TasksIn(SubSeq(span[t], 1, n))
<1>1. span[t] \in Seq(Tasks) /\ n \in 0 .. Len(span[t]) /\ Len(span[t]) \in Nat
  <2>1. n <= Len(span[t])
    BY <1>0 DEF EnqueuePublish, IInv, Reserved
  <2>2. span[t] \in Seq(Tasks) /\ n \in 0 .. Capacity
    BY <1>0, RingTypes
  <2> QED
    BY <2>1, <2>2, LenProperties, CapacityAssumption
<1>2. /\ span'[t] = SubSeq(span[t], n + 1, Len(span[t]))
      /\ \A k \in K \cap Tasks : status'[k] = "queued"
  BY <1>0, RingTypes DEF EnqueuePublish
<1>3. CASE n = Len(span[t])
  <2>1. span'[t] = <<>>
    BY <1>1, <1>2, <1>3, SubSeqEmpty
  <2> QED
    BY <2>1 DEF Submits
<1>4. CASE n < Len(span[t])
  <2>1. span[t] # <<>>
    BY <1>1, <1>4, EmptySeq
  <2>2. PICK s \in Spans : \E m \in 1 .. Len(s) : PartOf(t, s, m)
    BY <2>1 DEF Submits
  <2>3. PICK m \in 1 .. Len(s) : PartOf(t, s, m)
    BY <2>2
  <2>4. s \in Seq(Tasks) /\ Len(s) \in Nat /\ \A i \in 1 .. Len(s) : s[i] \in Tasks
    BY SpansAssumption, LenProperties, ElementOfSeq
  <2>5. /\ span[t] = SubSeq(s, m, Len(s))
        /\ Len(span[t]) = Len(s) - m + 1
        /\ \A i \in 1 .. Len(s) - m + 1 : span[t][i] = s[m + i - 1]
    <3>1. m \in Int /\ Len(s) \in Int /\ \A i \in m .. Len(s) : s[i] \in Tasks
      BY <2>4
    <3> QED
      BY <2>3, <3>1, SubSeqProperties DEF PartOf
  <2>6. span'[t] = SubSeq(s, m + n, Len(s)) /\ m + n \in 1 .. Len(s)
    <3>1. /\ m \in 1 .. Len(s) /\ Len(s) \in 1 .. Len(s)
          /\ n + 1 \in 1 .. Len(s) - m + 1
          /\ Len(span[t]) \in 1 .. Len(s) - m + 1
      BY <1>1, <1>4, <2>4, <2>5
    <3>2. SubSeq(SubSeq(s, m, Len(s)), n + 1, Len(span[t])) =
            SubSeq(s, m + (n + 1) - 1, m + Len(span[t]) - 1)
      BY <2>4, <3>1, PartOfPart
    <3>3. /\ m + (n + 1) - 1 = m + n /\ m + Len(span[t]) - 1 = Len(s)
          /\ m + n \in 1 .. Len(s)
      BY <1>1, <1>4, <2>4, <2>5
    <3> QED
      BY <1>2, <2>5, <3>2, <3>3
  <2>7. PICK last \in 1 .. Len(s) : last = m + n
    BY <2>6
  <2>8. ASSUME NEW i \in 1 .. last - 1
        PROVE  status'[s[i]] \notin {"caller", "offered"}
    <3>1. i \in 1 .. Len(s) /\ s[i] \in Tasks
      BY <1>1, <2>4, <2>6, <2>7
    <3>2. CASE i \in 1 .. m - 1
      <4>1. status[s[i]] \notin {"caller", "offered"}
        BY <2>3, <3>2 DEF PartOf
      <4> QED
        BY <3>1, <4>1, EnqueueFrame DEF Enqueue, Onward
    <3>3. CASE i \in m .. m + n - 1
      <4>1. i - m + 1 \in 1 .. n /\ s[i] = span[t][i - m + 1]
        <5>1. i - m + 1 \in 1 .. n /\ i - m + 1 \in 1 .. Len(s) - m + 1
          BY <1>1, <2>5, <3>3
        <5>2. span[t][i - m + 1] = s[m + (i - m + 1) - 1]
          BY <2>5, <5>1
        <5>3. m + (i - m + 1) - 1 = i
          BY <3>3
        <5> QED
          BY <5>1, <5>2, <5>3
      <4>2. s[i] \in K
        BY <1>1, <4>1, Split
      <4> QED
        BY <1>2, <3>1, <4>2
    <3> QED
      BY <1>1, <2>7, <3>2, <3>3
  <2>9. PartOf(t, s, last)'
    <3>1. span'[t] = SubSeq(s, last, Len(s))
      BY <2>6, <2>7
    <3>2. \A i \in 1 .. last - 1 : status'[s[i]] \notin {"caller", "offered"}
      BY <2>8
    <3> QED
      BY <3>1, <3>2 DEF PartOf
  <2>10. (\E r \in Spans : \E p \in 1 .. Len(r) : PartOf(t, r, p))'
    <3>1. \E p \in 1 .. Len(s) : PartOf(t, s, p)'
      BY <2>9
    <3> QED
      BY <3>1
  <2> QED
    BY <2>10 DEF Submits
<1> QED
  BY <1>1, <1>3, <1>4

\* The steps that change a span.
LEMMA SpanSteps ==
  ASSUME IInv, NEW t \in Threads, Call(t) \/ Step(t), span'[t] # span[t],
         ~Construct(t)
  PROVE  CallEnqueue(t) \/ Refuse(t) \/ EnqueuePublish(t)
<1>1. ASSUME NEW label, Move(t, label) PROVE span' = span
  BY <1>1, MovePlain DEF Plain
<1>2. ~CallWait(t) /\ ~CallControl(t)
  BY DEF CallWait, CallControl
<1>3. CASE Enqueue(t)
  BY <1>1, <1>3
     DEF Enqueue, EnqueueLoad, EnqueueInc, EnqueueObserve, EnqueueWait,
         EnqueueDec, EnqueueLock, EnqueueSlot, EnqueueCheck, EnqueueNotify, call
<1>4. ~Run(t)
  BY <1>1 DEF Run, WorkerLoad, WorkerInc, WorkerObserve, WorkerWait, WorkerDec,
     WorkerLock, WorkerTake, WorkerClaim, WorkerCheck, WorkerNotify, Execute,
     WorkerFinish, call
<1>5. ~Wait(t) /\ ~NotifyIdle(t)
  BY WaitFrame DEF Plain
<1>6. ~CancelPending(t) /\ ~Shutdown(t)
  BY <1>1 DEF CancelPending, CancelLock, CancelDrop, CancelSub, CancelIdle,
     CancelNotify, Shutdown, ShutdownLock, SignalStop, SignalRequest,
     SignalNotify, ShutdownSwap, ShutdownJoin, call
<1> QED
  BY <1>2, <1>3, <1>4, <1>5, <1>6 DEF Call, Step

LEMMA SubmitsStep ==
  ASSUME IInv, InService, NEW t \in Threads, Call(t) \/ Step(t)
  PROVE  \A u \in Threads : Submits(u)'
<1>1. Frame(t) /\ Onward /\ ~Construct(t)
  BY InServiceFrame
<1>2. \A u \in Threads : Submits(u)
  BY DEF InService
<1>3. ASSUME NEW u \in Threads \ {t} PROVE Submits(u)'
  <2>1. span'[u] = span[u] /\ Submits(u)
    BY <1>1, <1>2 DEF Frame
  <2> QED
    BY <1>1, <2>1, SubmitsKept
<1>4. ASSUME span'[t] = span[t] PROVE Submits(t)'
  BY <1>1, <1>2, <1>4, SubmitsKept
<1>5. ASSUME span'[t] # span[t] PROVE Submits(t)'
  <2>1. CallEnqueue(t) \/ Refuse(t) \/ EnqueuePublish(t)
    BY <1>1, <1>5, SpanSteps
  <2>2. ASSUME Refuse(t) PROVE Submits(t)'
    BY <2>2, CallTypes DEF Refuse, Submits
  <2>3. Submits(t)
    BY <1>2
  <2> QED
    BY <2>1, <2>2, <2>3, CallSubmits, PublishSubmits
<1> QED
  BY <1>3, <1>4, <1>5
-----------------------------------------------------------------------------
(* Where a step of t begins and ends.                                      *)

LEMMA Begins ==
  ASSUME NEW t \in Threads
  PROVE  /\ Call(t) => pc[t] \in {"idle", "w_exec"}
         /\ Enqueue(t) => pc[t] \notin JoinLabels \cup {"exited", "s_request"}
         /\ Run(t) => pc[t] \in WorkerLabels \ {"exited"}
         /\ Wait(t) \/ NotifyIdle(t) =>
              pc[t] \notin WorkerLabels \cup JoinLabels
         /\ CancelPending(t) => pc[t] \in DropLabels
         /\ Shutdown(t) => pc[t] \in JoinLabels \cup {"s_request"}
<1>1. Call(t) => pc[t] \in {"idle", "w_exec"}
  BY DEF Call, CallEnqueue, CallWait, CallControl, MayCall, Running
<1>2. Enqueue(t) => pc[t] \notin JoinLabels \cup {"exited", "s_request"}
  BY DEF Enqueue, EnqueueLoad, EnqueueInc, EnqueueObserve, EnqueueWait,
         EnqueueDec, EnqueueLock, EnqueueSlot, EnqueuePublish, EnqueueCheck,
         EnqueueNotify, JoinLabels
<1>3. Run(t) => pc[t] \in WorkerLabels \ {"exited"}
  BY DEF Run, WorkerLoad, WorkerInc, WorkerObserve, WorkerWait, WorkerDec,
         WorkerLock, WorkerTake, WorkerClaim, WorkerCheck, WorkerNotify,
         Execute, WorkerFinish, WorkerLabels
<1>4. Wait(t) \/ NotifyIdle(t) => pc[t] \notin WorkerLabels \cup JoinLabels
  BY DEF Wait, IdleCheck, IdleInc, IdleEpoch, IdleRecheck, IdleWait, IdleDec,
         NotifyIdle, NotifyLoad, NotifyEpoch, NotifyWake, WorkerLabels,
         JoinLabels
<1>5. CancelPending(t) => pc[t] \in DropLabels
  BY DEF CancelPending, CancelLock, CancelDrop, CancelSub, CancelIdle,
         CancelNotify, DropLabels, CancelLabels
<1>6. Shutdown(t) => pc[t] \in JoinLabels \cup {"s_request"}
  BY DEF Shutdown, ShutdownLock, SignalStop, SignalRequest, SignalNotify,
         ShutdownSwap, ShutdownJoin, JoinLabels
<1> QED
  BY <1>1, <1>2, <1>3, <1>4, <1>5, <1>6

LEMMA BeginsAt ==
  ASSUME NEW t \in Threads, Call(t) \/ Step(t), ~Construct(t)
  PROVE  /\ pc[t] # "exited"
         /\ pc[t] = "s_join" => ShutdownJoin(t)
<1> USE DEF JoinLabels, WorkerLabels, DropLabels, CancelLabels
<1>1. pc[t] # "exited"
  BY Begins DEF Step
<1>2. ASSUME pc[t] = "s_join" PROVE ShutdownJoin(t)
  <2>1. Shutdown(t)
    BY <1>2, Begins DEF Step
  <2> QED
    BY <1>2, <2>1 DEF Shutdown, ShutdownLock, SignalStop, SignalRequest,
                      SignalNotify, ShutdownSwap
<1> QED
  BY <1>1, <1>2

LEMMA EndsAt ==
  ASSUME IInv, NEW t \in Threads, Call(t) \/ Step(t), ~Construct(t)
  PROVE  /\ pc'[t] = "exited" => t \in Workers /\ WorkerLoad(t)
         /\ pc'[t] = "w_claim" => t \in Workers /\ WorkerTake(t)
         /\ pc'[t] = "s_notify" => SignalStop(t) \/ SignalRequest(t)
<1> DEFINE Ends3 == {"exited", "w_claim", "s_notify"}
<1>1. ASSUME NEW label, Goto(t, label) PROVE pc'[t] = label
  BY <1>1, RingTypes DEF Goto
<1>2. ASSUME NEW label, Move(t, label) PROVE pc'[t] = label
  BY <1>1, <1>2 DEF Move
<1>3. ASSUME NEW S, NEW label, Wake(S, t, label) PROVE pc'[t] = label
  BY <1>3 DEF Wake
<1>4. Call(t) => pc'[t] \notin Ends3
  <2>1. CallEnqueue(t) \/ CallWait(t) => pc'[t] \notin Ends3
    BY <1>1 DEF CallEnqueue, CallWait
  <2>2. ASSUME CallControl(t) PROVE pc'[t] \notin Ends3
    <3>1. PICK op : Goto(t, IF op = "clear_queue" THEN "c_lock"
                            ELSE IF t \in Workers THEN "s_stop" ELSE "s_lock")
      BY <2>2 DEF CallControl
    <3> QED
      BY <3>1, RingTypes DEF Goto
  <2> QED
    BY <2>1, <2>2 DEF Call
<1>5. Enqueue(t) => pc'[t] \notin Ends3
  <2>1. Refuse(t) => pc'[t] \notin Ends3
    BY <1>1, ResumeIs DEF Refuse
  <2>2. NextRound(t) \notin Ends3
    BY ResumeIs DEF NextRound
  <2>3. EnqueueNotify(t) => pc'[t] \notin Ends3
    BY <1>1, <1>3, <2>2 DEF EnqueueNotify, NotifyOne, NotifyAll
  <2>4. EnqueueLoad(t) \/ EnqueueLock(t) => pc'[t] \notin Ends3
    BY <1>1, <1>2, <2>1 DEF EnqueueLoad, EnqueueLock
  <2>5. EnqueueCheck(t) => pc'[t] \notin Ends3
    <3>1. EnqueueCheck(t) => pc'[t] \in {NextRound(t), "e_notify"}
      BY RingTypes DEF EnqueueCheck, Goto
    <3> QED
      BY <2>2, <3>1
  <2>6. EnqueueWait(t) => pc'[t] \notin Ends3
    BY RingTypes DEF EnqueueWait, Move, Goto
  <2>7. ASSUME \/ EnqueueInc(t) \/ EnqueueObserve(t) \/ EnqueueDec(t)
               \/ EnqueueSlot(t) \/ EnqueuePublish(t)
        PROVE  pc'[t] \notin Ends3
    BY <1>1, <1>2, <2>7 DEF EnqueueInc, EnqueueObserve, EnqueueDec, EnqueueSlot,
                      EnqueuePublish
  <2> QED
    BY <2>3, <2>4, <2>5, <2>6, <2>7 DEF Enqueue
<1>6. Run(t) =>
        /\ pc'[t] = "exited" => WorkerLoad(t)
        /\ pc'[t] = "w_claim" => WorkerTake(t)
        /\ pc'[t] # "s_notify"
  <2>1. WorkerLoad(t) => pc'[t] \notin {"w_claim", "s_notify"}
    BY RingTypes DEF WorkerLoad, Move, Goto
  <2>2. WorkerTake(t) => pc'[t] \notin {"exited", "s_notify"}
    BY <1>1 DEF WorkerTake
  <2>3. WorkerWait(t) \/ WorkerCheck(t) \/ Execute(t) \/ WorkerFinish(t) =>
          pc'[t] \notin Ends3
    BY RingTypes DEF WorkerWait, WorkerCheck, Execute, WorkerFinish, Move, Goto
  <2>4. WorkerNotify(t) => pc'[t] \notin Ends3
    BY <1>1, <1>3 DEF WorkerNotify, NotifyOne, NotifyAll
  <2>5. ASSUME \/ WorkerInc(t) \/ WorkerObserve(t) \/ WorkerDec(t)
               \/ WorkerLock(t) \/ WorkerClaim(t)
        PROVE  pc'[t] \notin Ends3
    BY <1>1, <1>2, <2>5 DEF WorkerInc, WorkerObserve, WorkerDec, WorkerLock, WorkerClaim
  <2> QED
    BY <2>1, <2>2, <2>3, <2>4, <2>5 DEF Run
<1>7. Wait(t) => pc'[t] \notin Ends3
  BY RingTypes
     DEF Wait, IdleCheck, IdleInc, IdleEpoch, IdleRecheck, IdleWait, IdleDec,
         Move, Goto
<1>8. NotifyIdle(t) => pc'[t] \notin Ends3
  <2>1. NotifyReturn(t) \notin Ends3
    BY DEF NotifyReturn
  <2>2. NotifyIdle(t) => pc'[t] \in {NotifyReturn(t), "n_epoch", "n_notify"}
    BY RingTypes
       DEF NotifyIdle, NotifyLoad, NotifyEpoch, NotifyWake, Move, Goto, Wake
  <2> QED
    BY <2>1, <2>2
<1>9. CancelPending(t) => pc'[t] \notin Ends3
  <2>1. AfterCancel(t) \notin Ends3
    BY ResumeIs DEF AfterCancel
  <2>2. CancelNotify(t) => pc'[t] \notin Ends3
    BY <1>3, <2>1 DEF CancelNotify, NotifyAll
  <2>3. CancelDrop(t) => pc'[t] \notin Ends3
    BY <1>1, <2>1 DEF CancelDrop
  <2>4. CancelLock(t) \/ CancelSub(t) \/ CancelIdle(t) => pc'[t] \notin Ends3
    BY RingTypes DEF CancelLock, CancelSub, CancelIdle, Move, Goto
  <2> QED
    BY <2>2, <2>3, <2>4 DEF CancelPending
<1>10. Shutdown(t) =>
         /\ pc'[t] \notin {"exited", "w_claim"}
         /\ pc'[t] = "s_notify" => SignalStop(t) \/ SignalRequest(t)
  <2>1. SignalNotify(t) => pc'[t] \notin Ends3
    BY RingTypes DEF SignalNotify, NotifyAll, Wake
  <2>2. SignalStop(t) \/ SignalRequest(t) => pc'[t] \notin {"exited", "w_claim"}
    BY RingTypes DEF SignalStop, SignalRequest, Goto
  <2>3. ShutdownLock(t) \/ ShutdownSwap(t) \/ ShutdownJoin(t) =>
          pc'[t] \notin Ends3
    BY <1>1 DEF ShutdownLock, ShutdownSwap, ShutdownJoin
  <2> QED
    BY <2>1, <2>2, <2>3 DEF Shutdown
<1> QED
  BY <1>4, <1>5, <1>6, <1>7, <1>8, <1>9, <1>10 DEF Step
-----------------------------------------------------------------------------
(* The threads, and what they have taken.                                  *)

\* The steps that change the tasks, the pending count or a claim.
LEMMA Kinds ==
  ASSUME IInv, NEW t \in Threads, Call(t) \/ Step(t)
  PROVE  \/ Still(t)
         \/ CallEnqueue(t) \/ (pc[t] \in {"e_load", "e_lock"} /\ Refuse(t))
         \/ EnqueueSlot(t) \/ EnqueuePublish(t)
         \/ /\ t \in Workers
            /\ \/ WorkerLock(t) \/ WorkerTake(t) \/ WorkerClaim(t)
               \/ Execute(t) \/ WorkerFinish(t)
         \/ CancelDrop(t) \/ CancelSub(t)
<1>1. Call(t) => Still(t) \/ CallEnqueue(t)
  BY WaitStill, CancelStill DEF Call
<1>2. ASSUME Enqueue(t)
      PROVE  \/ Still(t) \/ (pc[t] \in {"e_load", "e_lock"} /\ Refuse(t))
             \/ EnqueueSlot(t) \/ EnqueuePublish(t)
  BY <1>2, EnqueueStill DEF Enqueue
<1>3. ASSUME Run(t), t \in Workers
      PROVE  \/ Still(t) \/ WorkerLock(t) \/ WorkerTake(t) \/ WorkerClaim(t)
             \/ Execute(t) \/ WorkerFinish(t)
  BY <1>3, RunStill DEF Run
<1>4. CancelPending(t) => Still(t) \/ CancelDrop(t) \/ CancelSub(t)
  BY CancelStill DEF CancelPending
<1>5. Wait(t) \/ NotifyIdle(t) \/ Shutdown(t) \/ Construct(t) => Still(t)
  BY WaitStill, NotifyStill, ShutdownStill, ConstructStill
<1> QED
  BY <1>1, <1>2, <1>3, <1>4, <1>5 DEF Step

\* After the stop nothing joins an empty queue.
LEMMA EmptyStays ==
  ASSUME IInv, InService, NEW t \in Threads, Call(t) \/ Step(t),
         queue_state.stopping, queue_state.pending = 0
  PROVE  queue_state'.pending = 0
<1>1. CASE Still(t)
  BY <1>1 DEF Still
<1>2. CASE CallEnqueue(t) \/ Refuse(t) \/ EnqueueSlot(t) \/ CancelDrop(t)
  BY <1>2 DEF CallEnqueue, Refuse, EnqueueSlot, CancelDrop, word
<1>3. ~EnqueuePublish(t)
  BY DEF EnqueuePublish, InService, Bit
<1>4. CASE t \in Workers /\ (WorkerLock(t) \/ WorkerTake(t) \/ Execute(t))
  BY <1>4 DEF WorkerLock, Move, WorkerTake, Execute, word
<1>5. ~WorkerClaim(t)
  <2>1. pc[t] # "w_claim"
    BY RingTypes DEF IInv, Reserved
  <2> QED
    BY <2>1 DEF WorkerClaim
<1>6. CASE WorkerFinish(t)
  BY <1>6, RingTypes DEF WorkerFinish, SetState, QueueState
<1>7. CASE CancelSub(t)
  <2>1. count[t] = 0
    BY <1>7 DEF CancelSub, IInv, Reserved
  <2> QED
    BY <1>7, <2>1, RingTypes DEF CancelSub, SetState, QueueState
<1> QED
  BY <1>1, <1>2, <1>3, <1>4, <1>5, <1>6, <1>7, Kinds

\* shutdown_mutex keeps the threads that are being joined to one client.
LEMMA NobodyJoins ==
  ASSUME IInv, InService, NEW t \in Threads \ Workers,
         pc[t] \in {"s_request", "s_swap"}
  PROVE  workers_to_join = {}
<1>1. ASSUME NEW u \in Threads, pc[u] = "s_join" PROVE FALSE
  <2>1. /\ Role(t) /\ ModeOf(t) /\ Joins(t)
        /\ Role(u) /\ ModeOf(u) /\ Joins(u)
    BY DEF InService
  <2>2. u \notin Workers /\ mode[u] \in ShutdownMode
    BY <1>1, <2>1 DEF Role, ModeOf, ClientLabels, JoinLabels, Dropping,
                      DropLabels, CancelLabels, NotifyLabels
  <2>3. mode[t] \in ShutdownMode
    BY <2>1 DEF ModeOf, JoinLabels, Dropping, DropLabels, CancelLabels,
                NotifyLabels, ShutdownMode
  <2>4. shutdown_mutex = {u} /\ shutdown_mutex = {t}
    BY <1>1, <2>1, <2>2, <2>3 DEF Joins
  <2> QED
    BY <1>1, <2>4
<1> QED
  BY <1>1 DEF InService, Handover

\* A thread that has left its loop stays out of it.
LEMMA ExitedStays ==
  ASSUME IInv, InService, NEW t \in Threads, Call(t) \/ Step(t)
  PROVE  \A u \in Threads : pc[u] = "exited" => pc'[u] = "exited"
<1>1. pc[t] # "exited"
  BY BeginsAt, InServiceFrame
<1> QED
  BY <1>1, OthersMoved DEF Moved

LEMMA ThreadsStep ==
  ASSUME IInv, InService, NEW t \in Threads, Call(t) \/ Step(t)
  PROVE  /\ \A w \in Workers \cap workers : w \in workers' \cup workers_to_join'
         /\ \A w \in Workers \cap workers_to_join :
              w \in workers_to_join' \/ pc[w] = "exited"
         /\ workers_to_join' \subseteq workers \cup workers_to_join
         /\ workers_to_join' # {} =>
              workers_to_join' = workers_to_join \/ pc'[t] = "s_join"
         /\ ShutdownJoin(t) => workers_to_join' = {}
<1>1. ShutdownJoin(t) =>
        /\ workers_to_join' = {} /\ workers' = workers
        /\ \A w \in workers_to_join : pc[w] = "exited"
  BY DEF ShutdownJoin
<1>2. ASSUME ShutdownSwap(t)
      PROVE  /\ workers_to_join' = workers /\ workers_to_join = {}
             /\ pc'[t] = "s_join"
  <2>1. t \notin Workers
    BY <1>2 DEF ShutdownSwap, InService, Role, ClientLabels
  <2> QED
    BY <1>2, <2>1, NobodyJoins, RingTypes DEF ShutdownSwap, Goto
<1>3. SameService \/ ShutdownLock(t) \/ SignalStop(t) \/ SignalRequest(t)
        \/ SignalNotify(t) => UNCHANGED <<workers, workers_to_join>>
  BY DEF SameService, jthreads, ShutdownLock, SignalStop, SignalRequest,
         SignalNotify
<1>4. \/ ShutdownJoin(t) \/ ShutdownSwap(t)
      \/ UNCHANGED <<workers, workers_to_join>>
  BY <1>3, StoppingStep DEF Shutdown
<1>5. CASE ShutdownJoin(t)
  BY <1>1, <1>5
<1>6. CASE ShutdownSwap(t)
  <2>1. ~ShutdownJoin(t)
    BY <1>6 DEF ShutdownSwap, ShutdownJoin
  <2> QED
    BY <1>2, <1>6, <2>1
<1>7. CASE UNCHANGED <<workers, workers_to_join>> /\ ~ShutdownJoin(t)
  BY <1>7
<1> QED
  BY <1>4, <1>5, <1>6, <1>7

LEMMA LivesStep ==
  ASSUME IInv, InService, NEW t \in Threads, Call(t) \/ Step(t)
  PROVE  (\A w \in Workers : Lives(w)') /\ Handover'
<1>1. Frame(t) /\ ~Construct(t)
  BY InServiceFrame
<1>2. ASSUME NEW w \in Workers PROVE Lives(w)'
  <2>1. Lives(w) /\ w \in Threads
    BY DEF InService, Threads
  <2>2. CASE pc[w] = "exited"
    <3>1. pc'[w] = "exited"
      BY <2>1, <2>2, ExitedStays
    <3>2. queue_state'.stopping /\ queue_state'.pending = 0
      BY <1>1, <2>1, <2>2, EmptyStays DEF Lives, Frame
    <3> QED
      BY <3>1, <3>2 DEF Lives
  <2>3. CASE pc[w] # "exited" /\ pc'[w] = "exited"
    <3>1. w = t
      BY <2>1, <2>3, OthersMoved DEF Moved
    <3>2. WorkerLoad(w)
      BY <1>1, <2>3, <3>1, EndsAt
    <3>3. queue_state.stopping /\ queue_state.pending = 0
      BY <2>1, <2>3, <3>2, RingTypes DEF WorkerLoad, Move, Goto
    <3>4. queue_state' = queue_state
      BY <3>2 DEF WorkerLoad, Move, word
    <3> QED
      BY <2>3, <3>3, <3>4 DEF Lives
  <2>4. CASE pc[w] # "exited" /\ pc'[w] # "exited"
    BY <2>1, <2>4, ThreadsStep DEF Lives
  <2> QED
    BY <2>2, <2>3, <2>4
<1>3. Handover'
  <2> SUFFICES ASSUME workers_to_join' # {}
               PROVE  \E u \in Threads : pc'[u] = "s_join"
    BY DEF Handover
  <2>1. CASE pc'[t] = "s_join"
    BY <2>1
  <2>2. CASE workers_to_join' = workers_to_join
    <3>1. PICK u \in Threads : pc[u] = "s_join"
      BY <2>2 DEF InService, Handover
    <3>2. u # t
      BY <1>1, <3>1, BeginsAt, ThreadsStep
    <3>3. pc'[u] = "s_join"
      BY <3>1, <3>2, OthersMoved DEF Moved
    <3> QED
      BY <3>3
  <2> QED
    BY <2>1, <2>2, ThreadsStep
<1> QED
  BY <1>2, <1>3

\* Nobody is forgotten between the request and the notification.
LEMMA AskedStep ==
  ASSUME IInv, InService, NEW t \in Threads, Call(t) \/ Step(t)
  PROVE  \A u \in Threads : Asked(u)'
<1>1. Frame(t) /\ ~Construct(t)
  BY InServiceFrame
<1> SUFFICES ASSUME NEW u \in Threads, pc'[u] = "s_notify",
                    mode'[u] = "CANCEL_PENDING", NEW w \in Workers
             PROVE  Reached(u, w)'
  BY DEF Asked
<1>2. w \in Threads /\ Lives(w)
  BY DEF Threads, InService
<1>3. pc[w] = "exited" => Reached(u, w)'
  BY <1>2, ExitedStays DEF Reached
<1>4. w \in workers_to_join /\ u \in Workers => Reached(u, w)'
  BY <1>3, ThreadsStep DEF Reached
<1>5. stop_requested \subseteq stop_requested'
  BY <1>1 DEF Frame
<1>6. CASE u # t
  <2>1. pc[u] = "s_notify" /\ mode[u] = "CANCEL_PENDING"
    BY <1>1, <1>6, OthersMoved DEF Moved, Frame
  <2>2. Reached(u, w)
    BY <2>1 DEF InService, Asked
  <2> QED
    BY <1>3, <1>4, <1>5, <2>2 DEF Reached
<1>7. CASE u = t
  <2>1. ~SignalStop(t)
    BY <1>7, RingTypes DEF SignalStop, Goto, call
  <2>2. SignalRequest(t)
    BY <1>1, <1>7, <2>1, EndsAt
  <2>3. /\ stop_requested' = stop_requested \cup workers
        /\ pc[t] = "s_request"
    BY <2>2 DEF SignalRequest
  <2>4. t \notin Workers => workers_to_join = {}
    BY <2>3, NobodyJoins
  <2>5. w \in workers => Reached(u, w)'
    BY <2>3 DEF Reached
  <2> QED
    BY <1>2, <1>3, <1>4, <1>7, <2>4, <2>5 DEF Lives
<1> QED
  BY <1>6, <1>7

\* A claim of more than one task is one of bulk tasks.
LEMMA ClaimSizeBulk ==
  ASSUME IInv, NEW limit \in 1 .. queue_state.pending, ClaimSize(limit) > 1
  PROVE  TasksIn(Front(ClaimSize(limit))) \subseteq Bulk
<1> DEFINE sizes == {n \in 1 .. limit : TasksIn(Front(n)) \subseteq Bulk}
<1>1. limit \in Nat \ {0}
  BY RingTypes
<1>2. PICK c \in 1 .. limit : c = ClaimSize(limit)
  BY ClaimSizeType
<1>3. c > 1 /\ c = Cardinality(sizes)
  BY <1>2 DEF ClaimSize
<1>4. ASSUME NEW m \in 1 .. limit, NEW n \in sizes, m <= n PROVE m \in sizes
  <2>1. TasksIn(Front(m)) \subseteq TasksIn(Front(n))
    BY <1>1, <1>4 DEF TasksIn, Front
  <2> QED
    BY <2>1
<1>5. c \in sizes
  <2> SUFFICES ASSUME c \notin sizes PROVE FALSE
    OBVIOUS
  <2>1. ASSUME NEW n \in sizes PROVE n \in 1 .. c - 1
    <3>1. n \in 1 .. limit /\ ~(c <= n)
      BY <1>4, <2>1
    <3> QED
      BY <1>1, <3>1
  <2>2. PICK d \in Nat : d = c - 1
    BY <1>1
  <2>3. IsFiniteSet(1 .. d) /\ Cardinality(1 .. d) = d
    <3>1. 1 \in Int /\ d \in Int /\ d >= 1
      BY <1>1, <1>3, <2>2
    <3> QED
      BY <3>1, FS_Interval
  <2>4. sizes \subseteq 1 .. d
    BY <2>1, <2>2
  <2> HIDE DEF sizes
  <2>5. Cardinality(sizes) <= d
    BY <2>3, <2>4, FS_Subset
  <2> QED
    BY <1>1, <1>3, <2>2, <2>5
<1> QED
  BY <1>2, <1>5

\* The steps that change what a worker has claimed.
LEMMA BatchesStep ==
  ASSUME IInv, NEW t \in Threads, Call(t) \/ Step(t)
  PROVE  \A w \in Workers \ {t} : batch'[w] = batch[w] /\ claimed'[w] = claimed[w]
<1>1. CASE Still(t)
  BY <1>1 DEF Still
<1>2. CASE CallEnqueue(t) \/ Refuse(t) \/ EnqueueSlot(t) \/ EnqueuePublish(t)
  BY <1>2 DEF CallEnqueue, Refuse, EnqueueSlot, EnqueuePublish
<1>3. CASE t \in Workers /\ (WorkerLock(t) \/ WorkerClaim(t) \/ WorkerFinish(t))
  BY <1>3, RingTypes DEF WorkerLock, Move, WorkerClaim, WorkerFinish, work
<1>4. CASE t \in Workers /\ (WorkerTake(t) \/ Execute(t))
  BY <1>4, RingTypes DEF WorkerTake, Execute
<1>5. CASE CancelDrop(t) \/ CancelSub(t)
  BY <1>5 DEF CancelDrop, CancelSub, work
<1> QED
  BY <1>1, <1>2, <1>3, <1>4, <1>5, Kinds

LEMMA TakenStep ==
  ASSUME IInv, InService, NEW t \in Threads, Call(t) \/ Step(t)
  PROVE  \A w \in Workers : Taken(w)'
<1> SUFFICES ASSUME NEW w \in Workers, pc'[w] = "w_claim"
             PROVE  /\ Len(batch'[w]) = claimed'[w]
                    /\ claimed'[w] > 1 => TasksIn(batch'[w]) \subseteq Bulk
  BY DEF Taken, TasksIn
<1>1. w \in Threads
  BY DEF Threads
<1>2. CASE w # t
  <2>1. pc[w] = "w_claim"
    BY <1>1, <1>2, OthersMoved DEF Moved
  <2>2. Taken(w) /\ batch'[w] = batch[w] /\ claimed'[w] = claimed[w]
    BY <1>2, BatchesStep DEF InService
  <2> QED
    BY <2>1, <2>2 DEF Taken
<1>3. CASE w = t
  <2>1. WorkerTake(t) /\ t \in Workers
    BY <1>1, <1>3, InServiceFrame, EndsAt
  <2>2. claimed[t] \in 1 .. queue_state.pending
    BY <2>1 DEF WorkerTake, IInv, Reserved
  <2>3. PICK n \in 1 .. claimed[t] : n = ClaimSize(claimed[t])
    BY <2>2, ClaimSizeType
  <2>4. batch'[t] = Front(n) /\ claimed'[t] = n
    BY <2>1, <2>3, RingTypes DEF WorkerTake
  <2>5. Len(Front(n)) = n
    <3>1. Held = 0
      BY <2>1, HeldAndStaged DEF WorkerTake, IInv, Exclusion
    <3>2. n \in 0 .. Engaged
      BY <2>2, <3>1, PublishedType, RingTypes DEF Published
    <3> QED
      BY <3>2, PublishedType, FrontType
  <2>6. n > 1 => TasksIn(Front(n)) \subseteq Bulk
    BY <2>2, <2>3, ClaimSizeBulk
  <2> QED
    BY <1>3, <2>4, <2>5, <2>6
<1> QED
  BY <1>2, <1>3

LEMMA InServiceStep ==
  ASSUME IInv, InService, NEW t \in Threads, Call(t) \/ Step(t)
  PROVE  InService'
<1>1. \A u \in Threads : Own(u)' /\ Submits(u)' /\ Asked(u)'
  BY OwnStep, SubmitsStep, AskedStep
<1>2. (\A w \in Workers : Lives(w)' /\ Taken(w)') /\ Handover'
  BY LivesStep, TakenStep
<1> QED
  BY <1>1, <1>2 DEF InService, Own
-----------------------------------------------------------------------------
(* The pool of a failed constructor.                                       *)

LEMMA AbandonedStep ==
  ASSUME IInv, Abandoned, NEW t \in Threads, Call(t) \/ Step(t)
  PROVE  /\ Abandoned'
         /\ \/ Construct(t)
            \/ /\ t \in Workers
               /\ \/ WorkerLoad(t) \/ WorkerInc(t) \/ WorkerObserve(t)
                  \/ WorkerWait(t) \/ WorkerDec(t)
<1>1. pc[t] \in IF t \in Workers THEN LoopLabels ELSE CreatorLabels
  BY DEF Abandoned
<1>2. ~Call(t) /\ ~Enqueue(t) /\ ~Wait(t) /\ ~NotifyIdle(t)
        /\ ~CancelPending(t) /\ ~Shutdown(t)
  <2>1. ~Call(t) /\ ~CancelPending(t) /\ ~Shutdown(t)
    BY <1>1, Begins DEF LoopLabels, CreatorLabels, DropLabels, CancelLabels,
                        JoinLabels
  <2>2. ~Enqueue(t)
    BY <1>1 DEF Enqueue, EnqueueLoad, EnqueueInc, EnqueueObserve, EnqueueWait,
         EnqueueDec, EnqueueLock, EnqueueSlot, EnqueuePublish, EnqueueCheck,
         EnqueueNotify, LoopLabels, CreatorLabels
  <2>3. ~Wait(t) /\ ~NotifyIdle(t)
    BY <1>1 DEF Wait, IdleCheck, IdleInc, IdleEpoch, IdleRecheck, IdleWait,
         IdleDec, NotifyIdle, NotifyLoad, NotifyEpoch, NotifyWake, LoopLabels,
         CreatorLabels
  <2> QED
    BY <2>1, <2>2, <2>3
<1>3. \/ Construct(t)
      \/ /\ t \in Workers
         /\ \/ WorkerLoad(t) \/ WorkerInc(t) \/ WorkerObserve(t)
            \/ WorkerWait(t) \/ WorkerDec(t)
  <2>1. Construct(t) \/ (t \in Workers /\ Run(t))
    BY <1>2 DEF Step
  <2>2. ASSUME t \in Workers, Run(t)
        PROVE  \/ WorkerLoad(t) \/ WorkerInc(t) \/ WorkerObserve(t)
               \/ WorkerWait(t) \/ WorkerDec(t)
    BY <1>1, <2>2 DEF Run, WorkerLock, WorkerTake, WorkerClaim, WorkerCheck,
       WorkerNotify, Execute, WorkerFinish, LoopLabels
  <2> QED
    BY <2>1, <2>2
<1>4. mode' = mode /\ queue_state'.pending = queue_state.pending
  <2>1. Still(t)
    BY <1>3, RunStill, ConstructStill
  <2>2. CASE Construct(t)
    BY <2>1, <2>2 DEF Construct, ConstructStop, ConstructNotify, ConstructJoin,
                      call, Still
  <2>3. CASE \/ WorkerLoad(t) \/ WorkerInc(t) \/ WorkerObserve(t)
             \/ WorkerWait(t) \/ WorkerDec(t)
    BY <2>1, <2>3 DEF WorkerLoad, WorkerInc, WorkerObserve, WorkerWait,
                      WorkerDec, Move, call, Still
  <2> QED
    BY <1>3, <2>2, <2>3
<1>5. pc'[t] \in IF t \in Workers THEN LoopLabels ELSE CreatorLabels
  <2>1. ASSUME Construct(t) PROVE t \notin Workers /\ pc'[t] \in CreatorLabels
    <3>1. t \notin Workers
      BY <1>1, <2>1 DEF Construct, ConstructStop, ConstructNotify,
                        ConstructJoin, LoopLabels
    <3>2. pc'[t] \in CreatorLabels
      BY <2>1, RingTypes DEF Construct, ConstructStop, ConstructNotify,
                  ConstructJoin, CreatorLabels, Goto, NotifyAll, Wake
    <3> QED
      BY <3>1, <3>2
  <2>2. ASSUME WorkerLoad(t) \/ WorkerWait(t) PROVE pc'[t] \in LoopLabels
    BY <2>2, RingTypes DEF Abandoned, WorkerLoad, WorkerWait, Move, Goto, LoopLabels
  <2>3. ASSUME WorkerInc(t) \/ WorkerObserve(t) \/ WorkerDec(t)
        PROVE  pc'[t] \in LoopLabels
    BY <2>3, RingTypes DEF WorkerInc, WorkerObserve, WorkerDec, Move, Goto,
                           LoopLabels
  <2> QED
    BY <1>3, <2>1, <2>2, <2>3
<1>6. ASSUME NEW u \in Threads \ {t}
      PROVE  pc'[u] \in IF u \in Workers THEN LoopLabels ELSE CreatorLabels
  BY OthersMoved DEF Abandoned, Moved, LoopLabels, CreatorLabels
<1>7. Abandoned'
  BY <1>4, <1>5, <1>6 DEF Abandoned
<1> QED
  BY <1>3, <1>7
-----------------------------------------------------------------------------
(* CInv holds in every state.                                              *)

LEMMA CInvInit == Init => CInv
<1> SUFFICES ASSUME Init PROVE CInv
  OBVIOUS
<1>1. /\ \A t \in Threads : mode[t] = "none" /\ span[t] = <<>>
      /\ consumer_mutex = {} /\ workers_to_join = {}
      /\ queue_state.pending = 0
  BY DEF Init, EmptyState
<1>2. ASSUME Constructed PROVE InService
  <2>1. /\ workers = Workers
        /\ \A t \in Threads : pc[t] = IF t \in Workers THEN "w_load" ELSE "idle"
    BY <1>2 DEF Constructed
  <2>2. ASSUME NEW t \in Threads
        PROVE  /\ Role(t) /\ ModeOf(t) /\ Bit(t) /\ Joins(t) /\ Submits(t)
               /\ Asked(t)
    <3>1. pc[t] \in {"w_load", "idle"} /\ ~Dropping(t)
      BY <2>1 DEF Dropping, DropLabels, CancelLabels, NotifyLabels
    <3>2. Role(t)
      BY <2>1 DEF Role, CreatorLabels, ClientLabels, WorkerLabels, NotifyLabels
    <3> QED
      BY <1>1, <3>1, <3>2
         DEF ModeOf, Bit, Signalled, Joins, Submits, Asked, JoinLabels,
             ShutdownMode
  <2>3. \A w \in Workers : Lives(w) /\ Taken(w)
    BY <2>1 DEF Lives, Taken, Threads
  <2> QED
    BY <1>1, <2>2, <2>3 DEF InService, Handover
<1>3. ASSUME ConstructionFailed PROVE Abandoned
  <2>1. PICK started \in SUBSET Workers, creator \in Clients :
          pc = [t \in Threads |->
                 IF t \in Workers
                 THEN IF t \in started THEN "w_load" ELSE "exited"
                 ELSE IF t = creator THEN "x_stop" ELSE "gone"]
    BY <1>3 DEF ConstructionFailed
  <2>2. \A t \in Threads : pc[t] \in IF t \in Workers THEN LoopLabels
                                     ELSE CreatorLabels
    BY <2>1 DEF LoopLabels, CreatorLabels
  <2> QED
    BY <1>1, <2>2 DEF Abandoned
<1> QED
  BY <1>2, <1>3 DEF Init, CInv

LEMMA CInvStep == IInv /\ CInv /\ [Next]_vars => CInv'
<1> SUFFICES ASSUME IInv, CInv, [Next]_vars PROVE CInv'
  OBVIOUS
<1>1. ASSUME NEW t \in Threads, Call(t) \/ Step(t) PROVE CInv'
  BY <1>1, InServiceStep, AbandonedStep DEF CInv
<1>2. CASE UNCHANGED vars
  <2>1. InService => InService'
    BY <1>2 DEF vars, InService, Role, ModeOf, Bit, Joins, Submits, PartOf,
       Asked, Reached, Lives, Taken, Handover, Dropping, Signalled
  <2>2. Abandoned => Abandoned'
    BY <1>2 DEF vars, Abandoned
  <2> QED
    BY <2>1, <2>2 DEF CInv
<1> QED
  BY <1>1, <1>2 DEF Next, Rest

\* CInv holds in every state of every behaviour.
THEOREM CallsKnow == Spec => []CInv
<1>1. Init => IInv /\ CInv
  BY IInvInit, CInvInit
<1>2. IInv /\ CInv /\ [Next]_vars => IInv' /\ CInv'
  BY IInvStep, CInvStep
<1> QED
  BY <1>1, <1>2, PTL DEF Spec

\* After the requests of shutdown(CANCEL_PENDING), every worker with a
\* cancellable task has a stop request, but for those that a shutdown already
\* joins when it is a task that cancels.
THEOREM CancelReaches == Spec => []CancelStopsActive
<1>1. IInv /\ PInv /\ CInv => CancelStopsActive
  <2> SUFFICES ASSUME IInv, PInv, CInv,
                      NEW t \in Threads, pc[t] = "s_notify",
                      mode[t] = "CANCEL_PENDING",
                      NEW w \in Workers, TasksIn(batch[w]) \cap Cooperative # {}
               PROVE  w \in stop_requested \/ (t \in Workers /\ w \in workers_to_join)
    BY DEF CancelStopsActive
  <2>1. InService
    BY DEF CInv, Abandoned
  <2>2. Reached(t, w)
    BY <2>1 DEF InService, Asked
  <2>3. pc[w] # "exited"
    <3> SUFFICES ASSUME pc[w] = "exited" PROVE FALSE
      OBVIOUS
    <3>1. claimed[w] = 0
      BY DEF IInv, Busy, Free
    <3>2. batch[w] = <<>>
      BY <3>1 DEF PInv, EmptyBatch, Unladen
    <3> QED
      BY <3>2 DEF TasksIn
  <2> QED
    BY <2>2, <2>3 DEF Reached
<1> QED
  BY <1>1, Invariance, Placement, CallsKnow, PTL
-----------------------------------------------------------------------------
(* The abstract queue.                                                     *)

\* What has been taken, whoever else there is.
TakenIs ==
  /\ \A t \in Threads : pc[t] = "w_claim" => TakenItems = batch[t]
  /\ (\A t \in Threads : pc[t] # "w_claim") => TakenItems = <<>>
  /\ TakenItems \in Seq(Tasks)

LEMMA TakenNow == IInv => TakenIs
<1> SUFFICES ASSUME IInv PROVE TakenIs
  OBVIOUS
<1>1. ASSUME NEW t \in Threads, pc[t] = "w_claim"
      PROVE  TakenItems = batch[t] /\ batch[t] \in Seq(Tasks)
  <2>1. /\ consumer_mutex = {t} /\ t \in Workers
        /\ claimed[t] \in 1 .. queue_state.pending
    BY <1>1 DEF IInv, Exclusion, Reserved
  <2>2. Held # 0 /\ Holder(consumer_mutex) = t
    BY <1>1, <2>1, HeldAndStaged, HolderIs, RingTypes
  <2> QED
    BY <1>1, <2>1, <2>2, RingTypes DEF TakenItems
<1>2. ASSUME \A t \in Threads : pc[t] # "w_claim" PROVE TakenItems = <<>>
  <2>1. CASE consumer_mutex = {}
    BY <2>1, HeldAndStaged DEF TakenItems
  <2>2. ASSUME NEW t \in Threads, consumer_mutex = {t} PROVE TakenItems = <<>>
    BY <1>2, <2>2, HolderIs DEF TakenItems
  <2> QED
    BY <2>1, <2>2, RingTypes DEF Holders
<1>3. <<>> \in Seq(Tasks)
  OBVIOUS
<1> QED
  BY <1>1, <1>2, <1>3 DEF TakenIs

LEMMA TakenNext == IInv' => TakenIs'
BY TakenNow, PTL

\* The published slots in ring order.
FrontIs ==
  /\ Published \in 0 .. Capacity /\ Published \in Nat
  /\ Front(Published) \in Seq(Tasks) /\ Len(Front(Published)) = Published
  /\ \A m \in 1 .. Published :
       /\ Advance(queue_head, m - 1) \in Slots
       /\ Offset(Advance(queue_head, m - 1), queue_head) = m - 1
       /\ Front(Published)[m] = tasks[Advance(queue_head, m - 1)]
  /\ AbstractQueue = TakenItems \o Front(Published)

LEMMA FrontNow == IInv => FrontIs
<1> SUFFICES ASSUME IInv PROVE FrontIs
  OBVIOUS
<1>1. /\ Published \in 0 .. Capacity /\ Engaged \in 0 .. Capacity
      /\ Published \in 0 .. Engaged /\ Published \in Nat
  BY PublishedType, CapacityAssumption
<1>2. Front(Published) \in Seq(Tasks) /\ Len(Front(Published)) = Published
  BY <1>1, FrontType, CapacityAssumption
<1>3. AbstractQueue = TakenItems \o Front(Published)
  BY DEF AbstractQueue, Published
<1> QED
  BY <1>1, <1>2, <1>3, FrontSlots DEF FrontIs

LEMMA FrontNext == IInv' => FrontIs'
BY FrontNow, PTL

\* A step that leaves the published slots leaves them in their order.
LEMMA FrontKept ==
  ASSUME IInv, IInv', Published' = Published, queue_head' = queue_head,
         \A i \in Slots : Offset(i, queue_head) < Published =>
                            tasks'[i] = tasks[i]
  PROVE  Front(Published)' = Front(Published)
<1>1. FrontIs /\ FrontIs'
  BY FrontNow, FrontNext
<1>2. ASSUME NEW m \in 1 .. Published
      PROVE  Front(Published)'[m] = Front(Published)[m]
  <2>1. Front(Published)'[m] = tasks'[Advance(queue_head, m - 1)]
    BY <1>1 DEF FrontIs, Advance
  <2>2. m - 1 < Published
    BY <1>1 DEF FrontIs
  <2> QED
    BY <1>1, <2>1, <2>2 DEF FrontIs
<1>3. /\ Front(Published)' \in Seq(Tasks) /\ Len(Front(Published)') = Published
      /\ Front(Published) \in Seq(Tasks) /\ Len(Front(Published)) = Published
  BY <1>1 DEF FrontIs
<1> QED
  BY <1>2, <1>3, SeqEqual

\* What is taken does not depend on a thread that takes nothing.
LEMMA TakenKept ==
  ASSUME IInv, IInv', NEW t \in Threads, pc[t] # "w_claim", pc'[t] # "w_claim",
         \A u \in Threads \ {t} : Moved(u),
         \A w \in Workers \ {t} : batch'[w] = batch[w]
  PROVE  TakenItems' = TakenItems
<1>1. TakenIs /\ TakenIs'
  BY TakenNow, TakenNext
<1>2. ASSUME NEW u \in Threads, pc[u] = "w_claim" PROVE TakenItems' = TakenItems
  <2>1. u # t /\ pc'[u] = "w_claim" /\ u \in Workers
    BY <1>2 DEF Moved, IInv, Reserved
  <2> QED
    BY <1>1, <1>2, <2>1 DEF TakenIs
<1>3. CASE \A u \in Threads : pc[u] # "w_claim"
  <2>1. \A u \in Threads : pc'[u] # "w_claim"
    BY <1>3 DEF Moved
  <2> QED
    BY <1>1, <1>3, <2>1 DEF TakenIs
<1> QED
  BY <1>2, <1>3

\* A step of a thread that neither takes nor drops leaves the queue.
LEMMA QueueKept ==
  ASSUME IInv, IInv', NEW t \in Threads, Call(t) \/ Step(t),
         pc[t] \notin {"w_claim", "c_sub"}, pc'[t] \notin {"w_claim", "c_sub"},
         queue_state'.pending = queue_state.pending, queue_head' = queue_head,
         \A u \in Threads \ {t} : count'[u] = count[u],
         \A i \in Slots : Offset(i, queue_head) < Published =>
                            tasks'[i] = tasks[i]
  PROVE  AbstractQueue' = AbstractQueue
<1>1. \A u \in Threads \ {t} : Moved(u)
  BY OthersMoved
<1>2. \A w \in Workers \ {t} : batch'[w] = batch[w] /\ claimed'[w] = claimed[w]
  BY BatchesStep
<1>3. Published' = Published
  BY <1>1, <1>2, HeldStill DEF Published
<1>4. TakenItems' = TakenItems
  BY <1>1, <1>2, TakenKept
<1>5. Front(Published)' = Front(Published)
  BY <1>3, FrontKept
<1>6. FrontIs /\ FrontIs'
  BY FrontNow, FrontNext
<1> QED
  BY <1>4, <1>5, <1>6 DEF FrontIs
-----------------------------------------------------------------------------
(* The abstract calls.                                                     *)

CallMap == [t \in Clients |-> AbstractCall(t)]
WaitLabels ==
  {"i_check", "i_inc", "i_epoch", "i_recheck", "i_wait", "i_sleep", "i_dec"}

\* A step of t can change the call of t alone.
LEMMA CallMapSet ==
  ASSUME IInv, InService, NEW t \in Threads, Call(t) \/ Step(t)
  PROVE  /\ t \in Clients => CallMap' = [CallMap EXCEPT ![t] = AbstractCall(t)']
         /\ t \notin Clients => CallMap' = CallMap
<1>1. ASSUME NEW u \in Clients \ {t} PROVE AbstractCall(u)' = AbstractCall(u)
  <2>1. u \in Threads \ {t}
    BY DEF Threads
  <2>2. Moved(u) /\ mode'[u] = mode[u]
    BY <2>1, OthersMoved, InServiceFrame DEF Frame
  <2> QED
    BY <2>2 DEF Moved, AbstractCall
<1> QED
  BY <1>1 DEF CallMap

\* A step after which t is in the call that it was in.
LEMMA CallMapKept ==
  ASSUME IInv, InService, NEW t \in Threads, Call(t) \/ Step(t),
         t \in Workers \/ AbstractCall(t)' = AbstractCall(t)
  PROVE  CallMap' = CallMap
<1>1. CASE t \in Clients
  <2>1. AbstractCall(t)' = AbstractCall(t)
    BY <1>1, ThreadsAssumption
  <2> QED
    BY <1>1, <2>1, CallMapSet DEF CallMap
<1>2. CASE t \notin Clients
  BY <1>2, CallMapSet
<1> QED
  BY <1>1, <1>2

LEMMA SameCall ==
  ASSUME NEW t, mode'[t] = mode[t],
         pc[t] \in WaitLabels <=> pc'[t] \in WaitLabels,
         pc[t] \in {"c_lock", "c_drop"} <=> pc'[t] \in {"c_lock", "c_drop"}
  PROVE  AbstractCall(t)' = AbstractCall(t)
BY DEF AbstractCall, WaitLabels

\* The variables of the contract are these four.
LEMMA HiddenStep ==
  ASSUME AbstractQueue' = AbstractQueue, status' = status,
         queue_state'.stopping = queue_state.stopping, CallMap' = CallMap
  PROVE  UNCHANGED Contract!vars
BY DEF Contract!vars, CallMap
-----------------------------------------------------------------------------
(* The steps of a submission.                                              *)

LEMMA OfferRefined ==
  ASSUME IInv, IInv', InService, NEW t \in Threads, CallEnqueue(t)
  PROVE  Contract!Next
<1>1. Call(t) /\ pc[t] \in {"idle", "w_exec"} /\ pc'[t] = "e_load"
  BY RingTypes, Begins DEF Call, CallEnqueue, Goto
<1>2. /\ UNCHANGED <<queue_state, tasks, queue_head, count, mode>>
  BY DEF CallEnqueue, word, ring
<1>3. AbstractQueue' = AbstractQueue
  BY <1>1, <1>2, QueueKept
<1>4. CallMap' = CallMap
  BY <1>1, <1>2, SameCall, CallMapKept DEF WaitLabels
<1>5. PICK s \in Spans :
        /\ \A k \in TasksIn(s) : status[k] = "caller"
        /\ status' = [k \in Tasks |->
                       IF k \in TasksIn(s) THEN "offered" ELSE status[k]]
  BY SpansAssumption DEF CallEnqueue
<1> QED
  BY <1>2, <1>3, <1>4, <1>5
     DEF CallMap, TasksIn, Contract!TasksIn, Contract!Becomes, Contract!Offer,
         Contract!Next

\* What is left of a span, as a part of it.
LEMMA PartIs ==
  ASSUME IInv, PInv, NEW t \in Threads, NEW s \in Spans, NEW m \in 1 .. Len(s),
         PartOf(t, s, m)
  PROVE  /\ s \in Seq(Tasks) /\ Len(s) \in Nat /\ Len(s) \in 1 .. Len(s)
         /\ DOMAIN s = 1 .. Len(s) /\ \A i \in 1 .. Len(s) : s[i] \in Tasks
         /\ DOMAIN span[t] = 1 .. Len(s) - m + 1 /\ Len(span[t]) = Len(s) - m + 1
         /\ \A i \in 1 .. Len(s) - m + 1 : span[t][i] = s[m + i - 1]
         /\ \A i \in 1 .. Len(s) : status[s[i]] = "offered" <=> i >= m
<1>1. /\ s \in Seq(Tasks) /\ Len(s) \in Nat /\ DOMAIN s = 1 .. Len(s)
      /\ \A i \in 1 .. Len(s) : s[i] \in Tasks
  BY SpansAssumption, LenProperties, ElementOfSeq
<1>2. /\ Len(span[t]) = Len(s) - m + 1
      /\ \A i \in 1 .. Len(s) - m + 1 : span[t][i] = s[m + i - 1]
  <2>1. m \in Int /\ Len(s) \in Int /\ \A i \in m .. Len(s) : s[i] \in Tasks
    BY <1>1
  <2> QED
    BY <2>1, SubSeqProperties DEF PartOf
<1>3. DOMAIN span[t] = 1 .. Len(s) - m + 1
  BY <1>1, <1>2, RingTypes, LenProperties
<1>4. ASSUME NEW i \in 1 .. Len(s), i >= m PROVE status[s[i]] = "offered"
  <2>1. PICK j \in 1 .. Len(s) - m + 1 : m + j - 1 = i
    <3>1. i - m + 1 \in 1 .. Len(s) - m + 1 /\ m + (i - m + 1) - 1 = i
      BY <1>1, <1>4
    <3> QED
      BY <3>1
  <2>2. status[span[t][j]] = "offered"
    BY <1>3, <2>1 DEF PInv, SpanStatus
  <2> QED
    BY <1>2, <2>1, <2>2
<1>5. ASSUME NEW i \in 1 .. Len(s), ~(i >= m) PROVE status[s[i]] # "offered"
  <2>1. i \in 1 .. m - 1
    BY <1>1, <1>5
  <2> QED
    BY <2>1 DEF PartOf
<1> QED
  BY <1>1, <1>2, <1>3, <1>4, <1>5

LEMMA RefuseRefined ==
  ASSUME IInv, IInv', PInv, InService, NEW t \in Threads, Step(t),
         pc[t] \in {"e_load", "e_lock"}, Refuse(t)
  PROVE  Contract!Next \/ UNCHANGED Contract!vars
<1>1. pc'[t] \in {"w_settle", "idle"}
  BY ResumeIs, RingTypes DEF Refuse, Goto
<1>2. /\ UNCHANGED <<queue_state, tasks, queue_head, count, mode>>
      /\ queue_state.stopping
      /\ status' = [k \in Tasks |->
                     IF k \in TasksIn(span[t]) THEN "rejected" ELSE status[k]]
  BY DEF Refuse, word, ring
<1>3. AbstractQueue' = AbstractQueue
  BY <1>1, <1>2, QueueKept
<1>4. CallMap' = CallMap
  BY <1>1, <1>2, SameCall, CallMapKept DEF WaitLabels
<1>5. CASE span[t] = <<>>
  <2>1. status' = status
    BY <1>2, <1>5, RingTypes DEF TasksIn
  <2> QED
    BY <1>2, <1>3, <1>4, <2>1, HiddenStep
<1>6. CASE span[t] # <<>>
  <2>1. PICK s \in Spans : \E m \in 1 .. Len(s) : PartOf(t, s, m)
    BY <1>6 DEF InService, Submits
  <2>2. PICK m \in 1 .. Len(s) : PartOf(t, s, m)
    BY <2>1
  <2> DEFINE left == {k \in TasksIn(s) : status[k] = "offered"}
  <2>3. TasksIn(span[t]) = left
    <3>1. ASSUME NEW k \in TasksIn(span[t]) PROVE k \in left
      <4>1. PICK j \in 1 .. Len(s) - m + 1 : k = span[t][j]
        BY <2>2, PartIs DEF TasksIn
      <4>2. k = s[m + j - 1] /\ m + j - 1 \in 1 .. Len(s) /\ m + j - 1 >= m
        <5>1. Len(s) \in Nat /\ k = s[m + j - 1]
          BY <2>2, <4>1, PartIs
        <5> QED
          BY <5>1
      <4>3. status[s[m + j - 1]] = "offered" /\ m + j - 1 \in DOMAIN s
        BY <2>2, <4>2, PartIs
      <4> QED
        BY <4>2, <4>3 DEF TasksIn
    <3>2. ASSUME NEW k \in left PROVE k \in TasksIn(span[t])
      <4>1. PICK i \in DOMAIN s : k = s[i]
        BY DEF TasksIn
      <4>2. i \in 1 .. Len(s) /\ i >= m
        BY <2>2, <4>1, PartIs
      <4>3. PICK j \in 1 .. Len(s) - m + 1 : m + j - 1 = i
        <5>1. i - m + 1 \in 1 .. Len(s) - m + 1 /\ m + (i - m + 1) - 1 = i
          BY <2>2, <4>2, PartIs
        <5> QED
          BY <5>1
      <4>4. k = span[t][j] /\ j \in DOMAIN span[t]
        BY <2>2, <4>1, <4>3, PartIs
      <4> QED
        BY <4>4 DEF TasksIn
    <3> QED
      BY <3>1, <3>2
  <2>4. left # {}
    <3>1. 1 \in DOMAIN span[t]
      BY <2>2, PartIs
    <3> QED
      BY <2>3, <3>1 DEF TasksIn
  <2>5. status' = [k \in Tasks |-> IF k \in left THEN "rejected" ELSE status[k]]
    BY <1>2, <2>3
  <2> QED
    BY <1>2, <1>3, <1>4, <2>4, <2>5
       DEF CallMap, TasksIn, Contract!TasksIn, Contract!Becomes, Contract!Refuse,
           Contract!Next
<1> QED
  BY <1>5, <1>6

LEMMA SlotRefined ==
  ASSUME IInv, IInv', InService, NEW t \in Threads, Step(t), EnqueueSlot(t)
  PROVE  UNCHANGED Contract!vars
<1>1. pc[t] = "e_slot" /\ pc'[t] = "e_publish"
  BY RingTypes DEF EnqueueSlot, Goto
<1>2. UNCHANGED <<queue_state, queue_head, count, status, mode>>
  BY DEF EnqueueSlot, word, call
<1>3. \A i \in Slots : Offset(i, queue_head) < Published => tasks'[i] = tasks[i]
  BY <1>1, SlotsFree DEF EnqueueSlot
<1>4. AbstractQueue' = AbstractQueue
  BY <1>1, <1>2, <1>3, QueueKept
<1>5. CallMap' = CallMap
  BY <1>1, <1>2, SameCall, CallMapKept DEF WaitLabels
<1> QED
  BY <1>2, <1>4, <1>5, HiddenStep

\* Nothing is in the abstract queue that the pending count does not count.
LEMMA QueueLength ==
  ASSUME IInv, InService
  PROVE  /\ TakenItems \in Seq(Tasks) /\ Front(Published) \in Seq(Tasks)
         /\ AbstractQueue \in Seq(Tasks)
         /\ Len(TakenItems) + Published <= queue_state.pending
         /\ Len(AbstractQueue) = Len(TakenItems) + Published
<1>1. TakenIs /\ FrontIs
  BY TakenNow, FrontNow
<1>2. Len(TakenItems) <= Held /\ Len(TakenItems) \in Nat
  <2>1. ASSUME NEW t \in Threads, pc[t] = "w_claim"
        PROVE  Len(TakenItems) <= Held
    <3>1. t \in Workers /\ Held = claimed[t] /\ claimed[t] \in Nat
      BY <2>1, HeldNow, RingTypes DEF HeldIs, IInv, Reserved
    <3>2. Len(batch[t]) = claimed[t]
      BY <2>1, <3>1 DEF InService, Taken
    <3> QED
      BY <1>1, <2>1, <3>1, <3>2 DEF TakenIs
  <2>2. CASE \A t \in Threads : pc[t] # "w_claim"
    <3>1. Len(TakenItems) = 0
      BY <1>1, <2>2 DEF TakenIs
    <3> QED
      BY <3>1, HeldType
  <2> QED
    BY <1>1, <2>1, <2>2, LenProperties DEF TakenIs
<1>3. Len(TakenItems \o Front(Published)) = Len(TakenItems) + Published
      /\ TakenItems \o Front(Published) \in Seq(Tasks)
  <2>1. /\ TakenItems \in Seq(Tasks) /\ Front(Published) \in Seq(Tasks)
        /\ Len(Front(Published)) = Published
    BY <1>1 DEF TakenIs, FrontIs
  <2>2. /\ TakenItems \o Front(Published) \in Seq(Tasks)
        /\ Len(TakenItems \o Front(Published))
             = Len(TakenItems) + Len(Front(Published))
    BY <2>1, ConcatProperties
  <2> QED
    BY <2>1, <2>2
<1>4. Len(TakenItems) + Published <= queue_state.pending
  BY <1>2, HeldType, RingTypes DEF Published
<1> QED
  BY <1>1, <1>3, <1>4 DEF TakenIs, FrontIs

LEMMA PublishRefined ==
  ASSUME IInv, IInv', PInv, InService, NEW t \in Threads, Step(t),
         EnqueuePublish(t)
  PROVE  Contract!Next \/ UNCHANGED Contract!vars
<1>0. PICK n : n = count[t]
  OBVIOUS
<1>1. pc[t] = "e_publish" /\ pc'[t] = "e_check"
  BY RingTypes DEF EnqueuePublish, Goto
<1>2. /\ UNCHANGED <<tasks, queue_head, count, mode, batch, claimed>>
      /\ queue_state'.pending = queue_state.pending + n
      /\ queue_state'.stopping = queue_state.stopping
      /\ status' = [k \in Tasks |-> IF k \in TasksIn(SubSeq(span[t], 1, n))
                                    THEN "queued" ELSE status[k]]
  BY <1>0, RingTypes DEF EnqueuePublish, SetState, QueueState, ring
<1>3. CallMap' = CallMap
  BY <1>1, <1>2, SameCall, CallMapKept DEF WaitLabels
<1>4. /\ n \in 0 .. Len(span[t]) /\ n \in Nat /\ Len(span[t]) \in Nat
      /\ queue_state.pending + n <= Capacity
  <2>1. n <= Len(span[t]) /\ queue_state.pending + n <= Capacity
    BY <1>0, <1>1 DEF IInv, Reserved
  <2>2. span[t] \in Seq(Tasks) /\ n \in 0 .. Capacity
    BY <1>0, RingTypes
  <2> QED
    BY <2>1, <2>2, LenProperties, CapacityAssumption
<1>5. CASE n = 0
  <2>1. TasksIn(SubSeq(span[t], 1, n)) = {}
    <3>1. \A k : ~(k \in TasksIn(SubSeq(span[t], 1, n)))
      BY <1>4, <1>5, Split, RingTypes
    <3> QED
      BY <3>1
  <2>2. status' = status /\ queue_state'.pending = queue_state.pending
    BY <1>2, <1>5, <2>1, RingTypes
  <2>3. AbstractQueue' = AbstractQueue
    BY <1>1, <1>2, <2>2, QueueKept
  <2> QED
    BY <1>2, <1>3, <2>2, <2>3, HiddenStep
<1>6. CASE n # 0
  <2>1. span[t] # <<>>
    BY <1>4, <1>6
  <2>2. PICK s \in Spans : \E m \in 1 .. Len(s) : PartOf(t, s, m)
    BY <2>1 DEF InService, Submits
  <2>3. PICK m \in 1 .. Len(s) : PartOf(t, s, m)
    BY <2>2
  <2>4. /\ s \in Seq(Tasks) /\ Len(s) \in Nat /\ Len(s) \in 1 .. Len(s)
        /\ Len(span[t]) = Len(s) - m + 1
        /\ \A i \in 1 .. Len(s) - m + 1 : span[t][i] = s[m + i - 1]
        /\ \A i \in 1 .. Len(s) : status[s[i]] = "offered" <=> i >= m
        /\ \A i \in 1 .. Len(s) : s[i] \in Tasks
    BY <2>3, PartIs
  <2>5. PICK last \in m .. Len(s) : last = m + n - 1
    <3>1. m + n - 1 \in m .. Len(s)
      BY <1>4, <1>6, <2>4
    <3> QED
      BY <3>1
  <2>6. last \in 1 .. Len(s) /\ last - m + 1 = n
    BY <1>4, <2>4, <2>5
  <2>7. PICK new : new = SubSeq(s, m, last)
    OBVIOUS
  <2>8. new = SubSeq(span[t], 1, n)
    <3>1. /\ 1 \in 1 .. Len(s) - m + 1 /\ n \in 1 .. Len(s) - m + 1
          /\ m + 1 - 1 = m /\ m + n - 1 = last
      BY <1>4, <1>6, <2>4, <2>5
    <3>2. SubSeq(SubSeq(s, m, Len(s)), 1, n) = SubSeq(s, m + 1 - 1, m + n - 1)
      BY <2>4, <3>1, PartOfPart
    <3> QED
      BY <2>3, <2>7, <3>1, <3>2 DEF PartOf
  <2>9. /\ new \in Seq(Tasks) /\ Len(new) = n
        /\ \A j \in 1 .. n : new[j] = span[t][j]
    <3>1. /\ m \in Int /\ last \in Int /\ m <= last
          /\ \A i \in m .. last : s[i] \in Tasks
      BY <2>4, <2>5
    <3>2. /\ new \in Seq(Tasks) /\ Len(new) = last - m + 1
          /\ \A j \in 1 .. last - m + 1 : new[j] = s[m + j - 1]
      BY <2>7, <3>1, SubSeqProperties
    <3>3. \A j \in 1 .. n : j \in 1 .. Len(s) - m + 1
      BY <1>4, <2>4
    <3> QED
      BY <2>4, <2>6, <3>2, <3>3
  <2>10. /\ TakenIs /\ FrontIs /\ FrontIs' /\ TakenItems' = TakenItems
         /\ Published' = Published + n /\ Staged = n /\ Engaged = Published + n
    <3>1. \A u \in Threads \ {t} : Moved(u)
      BY OthersMoved
    <3>2. Held' = Held /\ TakenItems' = TakenItems
      BY <1>1, <1>2, <3>1, HeldStill, TakenKept
    <3>3. Staged = n
      BY <1>0, <1>1, HeldNow DEF HeldIs
    <3>4. Published' = Published + n
      BY <1>2, <1>4, <3>2, HeldType, RingTypes DEF Published
    <3> QED
      BY <3>2, <3>3, <3>4, TakenNow, FrontNow, FrontNext, PublishedType
  <2>11. Front(Published)' = Front(Published) \o new
    <3>1. PICK P \in Nat : P = Published
      BY <2>10 DEF FrontIs
    <3>2. /\ Front(Published) \in Seq(Tasks) /\ Len(Front(Published)) = P
          /\ Front(Published)' \in Seq(Tasks) /\ Len(Front(Published)') = P + n
      BY <2>10, <3>1 DEF FrontIs
    <3>3. /\ Front(Published) \o new \in Seq(Tasks)
          /\ Len(Front(Published) \o new) = P + n
          /\ \A i \in 1 .. P + n : (Front(Published) \o new)[i] =
               IF i <= P THEN Front(Published)[i] ELSE new[i - P]
      BY <2>9, <3>2, ConcatProperties
    <3>4. ASSUME NEW i \in 1 .. P + n
          PROVE  Front(Published)'[i] = (Front(Published) \o new)[i]
      <4>1. /\ Front(Published)'[i] = tasks[Advance(queue_head, i - 1)]
            /\ Advance(queue_head, i - 1) \in Slots
            /\ Offset(Advance(queue_head, i - 1), queue_head) = i - 1
        BY <1>2, <2>10, <3>1, <3>4 DEF FrontIs, Advance, Offset, Slots
      <4>2. CASE i <= P
        <5>1. Front(Published)[i] = tasks[Advance(queue_head, i - 1)]
          BY <2>10, <3>1, <4>2 DEF FrontIs
        <5> QED
          BY <3>3, <4>1, <4>2, <5>1
      <4>3. CASE ~(i <= P)
        <5>1. i - 1 < Engaged /\ i - 1 >= Published /\ i - P \in 1 .. n
              /\ i - 1 - Published + 1 = i - P
          BY <1>4, <2>10, <3>1, <4>3
        <5>2. tasks[Advance(queue_head, i - 1)] # NoTask
          BY <4>1, <5>1, PublishedType
        <5>3. tasks[Advance(queue_head, i - 1)] = span[t][i - 1 - Published + 1]
          BY <1>1, <4>1, <5>1, <5>2 DEF PInv, StagedSlots
        <5> QED
          BY <2>9, <3>3, <4>1, <4>3, <5>1, <5>3
      <4> QED
        BY <4>2, <4>3
    <3> QED
      BY <3>2, <3>3, <3>4, SeqEqual
  <2>12. AbstractQueue' = AbstractQueue \o new
    <3>1. AbstractQueue' = TakenItems \o (Front(Published) \o new)
      BY <2>10, <2>11 DEF FrontIs
    <3>2. AbstractQueue = TakenItems \o Front(Published)
      BY <2>10 DEF FrontIs
    <3>3. (TakenItems \o Front(Published)) \o new
            = TakenItems \o (Front(Published) \o new)
      <4>1. TakenItems \in Seq(Tasks) /\ Front(Published) \in Seq(Tasks)
        BY QueueLength
      <4>2. PICK taken \in Seq(Tasks) : taken = TakenItems
        BY <4>1
      <4>3. PICK front \in Seq(Tasks) : front = Front(Published)
        BY <4>1
      <4>4. new \in Seq(Tasks)
        BY <2>9
      <4>5. (taken \o front) \o new = taken \o (front \o new)
        BY <4>4, ConcatAssociative
      <4> QED
        BY <4>2, <4>3, <4>5
    <3> QED
      BY <3>1, <3>2, <3>3
  <2>13. Len(AbstractQueue) + Len(new) <= Capacity
    <3>1. Len(AbstractQueue) <= queue_state.pending /\ Len(AbstractQueue) \in Nat
      BY QueueLength, LenProperties
    <3>2. PICK pending \in Nat : pending = queue_state.pending
      BY RingTypes, CapacityAssumption
    <3>3. PICK length \in Nat : length = Len(AbstractQueue)
      BY <3>1
    <3>4. length <= pending /\ pending + n <= Capacity
      BY <1>4, <3>1, <3>2, <3>3
    <3>5. length + n <= Capacity
      BY <1>4, <3>2, <3>3, <3>4, CapacityAssumption
    <3> QED
      BY <2>9, <3>3, <3>5
  <2>14. ~queue_state.stopping
    BY <1>1 DEF InService, Bit
  <2>15. status' = [k \in Tasks |-> IF k \in TasksIn(new) THEN "queued"
                                    ELSE status[k]]
    BY <1>2, <2>8
  <2>16. Contract!Accept
    <3>1. \A i \in 1 .. Len(s) : (status[s[i]] = "offered") <=> (i >= m)
      BY <2>4
    <3>2. Contract!Becomes(Contract!TasksIn(SubSeq(s, m, last)), "queued")
      BY <2>7, <2>15 DEF TasksIn, Contract!TasksIn, Contract!Becomes
    <3>3. UNCHANGED <<queue_state.stopping, CallMap>>
      BY <1>2, <1>3
    <3>4. /\ Len(AbstractQueue) + Len(SubSeq(s, m, last)) <= Capacity
          /\ AbstractQueue' = AbstractQueue \o SubSeq(s, m, last)
      BY <2>7, <2>12, <2>13
    <3> QED
      BY <2>14, <3>1, <3>2, <3>3, <3>4 DEF CallMap, Contract!Accept
  <2> QED
    BY <2>16 DEF Contract!Next
<1> QED
  BY <1>5, <1>6
-----------------------------------------------------------------------------
(* The steps of a worker.                                                  *)

LEMMA WorkerHidden ==
  ASSUME IInv, IInv', InService, NEW w \in Workers, Step(w),
         WorkerLock(w) \/ WorkerFinish(w)
  PROVE  UNCHANGED Contract!vars
<1> w \in Threads
  BY DEF Threads
<1>1. /\ pc[w] \in {"w_lock", "w_finish"}
      /\ pc'[w] \in {"w_take", "w_load", "n_load"}
  BY RingTypes DEF WorkerLock, WorkerFinish, Move, Goto
<1>2. /\ UNCHANGED <<tasks, queue_head, count, status>>
      /\ queue_state'.pending = queue_state.pending
      /\ queue_state'.stopping = queue_state.stopping
  BY RingTypes DEF WorkerLock, WorkerFinish, Move, SetState, QueueState, word,
                   work, ring, call
<1>3. AbstractQueue' = AbstractQueue
  BY <1>1, <1>2, QueueKept
<1>4. CallMap' = CallMap
  BY CallMapKept
<1> QED
  BY <1>2, <1>3, <1>4, HiddenStep

\* What a worker takes from the head stays the head of the abstract queue.
LEMMA TakeRefined ==
  ASSUME IInv, IInv', InService, NEW w \in Workers, Step(w), WorkerTake(w)
  PROVE  UNCHANGED Contract!vars
<1> w \in Threads
  BY DEF Threads
<1>1. /\ pc[w] = "w_take" /\ pc'[w] = "w_claim" /\ consumer_mutex = {w}
      /\ claimed[w] \in 1 .. queue_state.pending
  BY RingTypes DEF WorkerTake, Goto, IInv, Exclusion, Reserved
<1>2. PICK n \in 1 .. claimed[w] : n = ClaimSize(claimed[w])
  BY <1>1, ClaimSizeType
<1>3. /\ UNCHANGED <<queue_state, status, count>>
      /\ batch'[w] = Front(n) /\ claimed'[w] = n
      /\ queue_head' = Advance(queue_head, n)
      /\ tasks' = Emptied(n)
  BY <1>2, RingTypes DEF WorkerTake, word, call
<1>4. CallMap' = CallMap
  BY CallMapKept
<1>5. /\ n \in 1 .. queue_state.pending /\ n \in 0 .. Capacity
      /\ n \in Nat /\ queue_state.pending \in Nat
  BY <1>1, <1>2, RingTypes, CapacityAssumption
<1>6. PICK P \in Nat : P = Published
  BY FrontNow DEF FrontIs
<1>7. Held = 0 /\ P = queue_state.pending /\ Published' = P - n /\ P - n \in Nat
  <2>1. Held = 0
    BY <1>1, HeldAndStaged
  <2>2. Held' = n
    BY <1>1, <1>3, HeldNext DEF HeldIs
  <2> QED
    BY <1>3, <1>5, <1>6, <2>1, <2>2, RingTypes DEF Published
<1>8. TakenItems = <<>> /\ TakenItems' = Front(n)
  <2>1. \A u \in Threads : pc[u] # "w_claim"
    BY <1>1 DEF IInv, Exclusion
  <2> QED
    BY <1>1, <1>3, <2>1, TakenNow, TakenNext DEF TakenIs
<1>9. FrontIs /\ FrontIs'
  BY FrontNow, FrontNext
<1>10. /\ Front(n) \in Seq(Tasks) /\ Len(Front(n)) = n
       /\ \A m \in 1 .. n : Front(n)[m] = tasks[Advance(queue_head, m - 1)]
  <2>1. n \in 0 .. Engaged
    BY <1>5, <1>6, <1>7, PublishedType
  <2> QED
    BY <1>5, <2>1, PublishedType, FrontType, FrontSlots
<1>11. /\ Front(Published) \in Seq(Tasks) /\ Len(Front(Published)) = P
       /\ Front(Published)' \in Seq(Tasks) /\ Len(Front(Published)') = P - n
  BY <1>6, <1>7, <1>9 DEF FrontIs
<1>12. PICK all : all = Front(n) \o Front(Published)'
  OBVIOUS
<1>13. /\ all \in Seq(Tasks) /\ Len(all) = P
       /\ \A m \in 1 .. P :
            all[m] = IF m <= n THEN Front(n)[m] ELSE Front(Published)'[m - n]
  <2>1. PICK later : later = Front(Published)'
    OBVIOUS
  <2>2. later \in Seq(Tasks) /\ Len(later) = P - n /\ n + (P - n) = P
    BY <1>5, <1>11, <2>1
  <2>3. /\ all \in Seq(Tasks) /\ Len(all) = Len(Front(n)) + Len(later)
        /\ \A m \in 1 .. Len(Front(n)) + Len(later) :
             all[m] = IF m <= Len(Front(n)) THEN Front(n)[m]
                      ELSE later[m - Len(Front(n))]
    BY <1>10, <1>12, <2>1, <2>2, ConcatProperties
  <2> QED
    BY <1>10, <2>1, <2>2, <2>3
<1>14. ASSUME NEW m \in 1 .. P PROVE all[m] = Front(Published)[m]
  <2>1. PICK i \in Slots : i = Advance(queue_head, m - 1)
    BY <1>6, <1>9 DEF FrontIs
  <2>2. Offset(i, queue_head) = m - 1 /\ Front(Published)[m] = tasks[i]
    BY <1>6, <1>9, <2>1 DEF FrontIs
  <2>3. CASE m <= n
    <3>1. m \in 1 .. n
      BY <1>5, <2>3
    <3> QED
      BY <1>10, <1>13, <2>1, <2>2, <2>3, <3>1
  <2>4. CASE ~(m <= n)
    <3>1. PICK l \in 1 .. P - n : l = m - n
      <4>1. m - n \in 1 .. P - n
        BY <1>5, <2>4
      <4> QED
        BY <4>1
    <3>2. l - 1 = Offset(i, queue_head')
      <4>1. Offset(i, queue_head) >= n
        BY <1>5, <2>2, <2>4
      <4>2. Offset(i, queue_head') = Offset(i, queue_head) - n
        BY <1>3, <1>5, <4>1, OffsetBehind, RingTypes
      <4> QED
        BY <1>5, <2>2, <3>1, <4>2
    <3>3. Advance(queue_head', l - 1) = i
      <4>1. queue_head' \in Slots
        BY DEF IInv, TypeOK
      <4> QED
        BY <3>2, <4>1, OffsetType
    <3>4. Front(Published)'[l] = tasks'[i]
      <4>1. Front(Published)'[l] = tasks'[Advance(queue_head', l - 1)]
        BY <1>7, <1>9, <3>1 DEF FrontIs, Advance
      <4> QED
        BY <3>3, <4>1
    <3>5. tasks'[i] = tasks[i]
      BY <1>3, <1>5, <2>2, <2>4 DEF Emptied
    <3> QED
      BY <1>13, <2>2, <2>4, <3>1, <3>4, <3>5
  <2> QED
    BY <2>3, <2>4
<1>15. all = Front(Published)
  BY <1>11, <1>13, <1>14, SeqEqual
<1>16. AbstractQueue' = AbstractQueue
  <2>1. AbstractQueue' = all /\ AbstractQueue = <<>> \o Front(Published)
    BY <1>8, <1>9, <1>12 DEF FrontIs
  <2>2. <<>> \o Front(Published) = Front(Published)
    BY <1>11, ConcatEmptySeq
  <2> QED
    BY <1>15, <2>1, <2>2
<1> QED
  BY <1>3, <1>4, <1>16, HiddenStep

\* A worker claims what it has taken: the oldest task, or some of the oldest
\* bulk tasks.
LEMMA ClaimRefined ==
  ASSUME IInv, IInv', ClaimsSmall, InService, NEW w \in Workers, Step(w),
         WorkerClaim(w)
  PROVE  Contract!Next
<1> w \in Threads
  BY DEF Threads
<1>1. /\ pc[w] = "w_claim" /\ pc'[w] = "w_check" /\ consumer_mutex = {w}
      /\ claimed[w] \in 1 .. queue_state.pending
  BY RingTypes DEF WorkerClaim, Goto, IInv, Exclusion, Reserved
<1>2. PICK n \in Nat \ {0} : n = claimed[w]
  BY <1>1, RingTypes
<1>3. PICK new \in Seq(Tasks) : new = batch[w]
  BY RingTypes
<1>4. /\ UNCHANGED <<tasks, queue_head, count>>
      /\ queue_state'.pending = queue_state.pending - n
      /\ queue_state'.stopping = queue_state.stopping
      /\ status' = [k \in Tasks |-> IF k \in TasksIn(new) THEN "claimed"
                                    ELSE status[k]]
      /\ consumer_mutex' = {}
  BY <1>2, <1>3, RingTypes DEF WorkerClaim, SetState, QueueState, ring, call
<1>5. /\ Len(new) = n /\ n <= BulkClaim
      /\ n > 1 => TasksIn(new) \subseteq Bulk
  BY <1>1, <1>2, <1>3 DEF InService, Taken, ClaimsSmall
<1>6. CallMap' = CallMap
  BY CallMapKept
<1>7. FrontIs /\ FrontIs'
  BY FrontNow, FrontNext
<1>8. Published' = Published
  <2>1. Held = n
    BY <1>1, <1>2, HeldNow DEF HeldIs
  <2>2. Held' = 0
    BY <1>4, HeldAndStagedNext
  <2> QED
    BY <1>2, <1>4, <2>1, <2>2, RingTypes DEF Published
<1>9. TakenItems = new /\ TakenItems' = <<>>
  <2>1. \A u \in Threads : pc'[u] # "w_claim"
    <3>1. \A u \in Threads \ {w} : pc[u] # "w_claim"
      BY <1>1 DEF IInv, Exclusion
    <3> QED
      BY <1>1, <3>1, OthersMoved DEF Moved
  <2> QED
    BY <1>1, <1>3, <2>1, TakenNow, TakenNext DEF TakenIs
<1>10. PICK rest \in Seq(Tasks) : rest = Front(Published)
  BY <1>7 DEF FrontIs
<1>11. AbstractQueue = new \o rest /\ AbstractQueue' = rest
  <2>1. Front(Published)' = rest
    BY <1>4, <1>8, <1>10, FrontKept
  <2>2. AbstractQueue' = <<>> \o rest
    BY <1>7, <1>9, <2>1 DEF FrontIs
  <2>3. <<>> \o rest = rest
    BY ConcatEmptySeq
  <2> QED
    BY <1>7, <1>9, <1>10, <2>2, <2>3 DEF FrontIs
<1>12. PICK q : q = new \o rest
  OBVIOUS
<1>13. PICK l \in Nat : l = Len(rest)
  BY LenProperties
<1>14. /\ q \in Seq(Tasks) /\ Len(q) = n + l
       /\ \A i \in 1 .. n + l : q[i] = IF i <= n THEN new[i] ELSE rest[i - n]
  BY <1>5, <1>12, <1>13, ConcatProperties
<1>15. \A i \in 1 .. n + l : q[i] \in Tasks
  BY <1>14, ElementOfSeq
<1>16. SubSeq(q, 1, n) = new
  <2>1. 1 \in 1 .. Len(new) /\ n \in 1 .. Len(new)
    BY <1>5
  <2>2. SubSeq(q, 1, n) = SubSeq(new, 1, n)
    BY <1>12, <2>1, SubSeqOfConcat1
  <2>3. SubSeq(new, 1, Len(new)) = new
    BY SubSeqFull
  <2> QED
    BY <1>5, <2>2, <2>3
<1>17. SubSeq(q, n + 1, Len(q)) = rest
  <2>1. PICK back : back = SubSeq(q, n + 1, Len(q))
    OBVIOUS
  <2>2. /\ n \in 0 .. Len(q) /\ Len(q) - n = l
        /\ n + 1 \in Int /\ Len(q) \in Int
        /\ \A i \in n + 1 .. Len(q) : q[i] \in Tasks
    BY <1>14, <1>15
  <2>3. back \in Seq(Tasks)
    BY <2>1, <2>2, SubSeqProperties
  <2>4. DOMAIN back = 1 .. l /\ \A i \in 1 .. l : back[i] = q[n + i]
    BY <1>14, <2>1, <2>2, Split
  <2>5. Len(back) = l
    BY <2>3, <2>4, LenProperties
  <2>6. ASSUME NEW i \in 1 .. l PROVE back[i] = rest[i]
    <3>1. n + i \in 1 .. n + l /\ ~(n + i <= n) /\ n + i - n = i
      OBVIOUS
    <3> QED
      BY <1>14, <2>4, <3>1
  <2> QED
    BY <1>13, <2>1, <2>3, <2>5, <2>6, SeqEqual
<1>18. Contract!Start
  <2>1. AbstractQueue = q /\ AbstractQueue' = SubSeq(q, n + 1, Len(q))
    BY <1>11, <1>12, <1>17
  <2>2. n \in 1 .. Len(q)
    BY <1>14
  <2>3. Contract!Becomes(Contract!TasksIn(SubSeq(q, 1, n)), "claimed")
    BY <1>4, <1>16 DEF TasksIn, Contract!TasksIn, Contract!Becomes
  <2>4. n > 1 => /\ n <= BulkClaim
                 /\ Contract!TasksIn(SubSeq(q, 1, n)) \subseteq Bulk
    BY <1>5, <1>16 DEF TasksIn, Contract!TasksIn
  <2>5. UNCHANGED <<queue_state.stopping, CallMap>>
    BY <1>4, <1>6
  <2> QED
    BY <2>1, <2>2, <2>3, <2>4, <2>5 DEF CallMap, Contract!Start
<1> QED
  BY <1>18 DEF Contract!Next

LEMMA ExecuteRefined ==
  ASSUME IInv, IInv', PInv, InService, NEW w \in Workers, Step(w), Execute(w)
  PROVE  Contract!Next
<1> w \in Threads
  BY DEF Threads
<1>1. /\ pc[w] \in {"w_exec", "w_settle"} /\ pc'[w] \in {"w_exec", "w_finish"}
      /\ batch[w] # <<>> /\ batch[w] \in Seq(Tasks)
  BY RingTypes DEF Execute, Goto, IInv, Busy, Free, NotifyLabels
<1>2. /\ UNCHANGED <<queue_state, tasks, queue_head, count>>
  BY DEF Execute, word, ring, call
<1>3. AbstractQueue' = AbstractQueue
  BY <1>1, <1>2, QueueKept
<1>4. CallMap' = CallMap
  BY CallMapKept
<1>5. PICK k \in Tasks : k = Head(batch[w]) /\ status[k] = "claimed"
  <2>1. 1 \in DOMAIN batch[w] /\ Head(batch[w]) = batch[w][1]
    BY <1>1, LenProperties, EmptySeq
  <2>2. Head(batch[w]) \in Tasks /\ status[Head(batch[w])] = "claimed"
    BY <1>1, <2>1, Elements DEF PInv, BatchStatus
  <2> QED
    BY <2>2
<1>6. PICK outcome \in Outcomes : status' = [status EXCEPT ![k] = outcome]
  BY <1>5 DEF Execute
<1>7. outcome \in Contract!Settled \ {"cancelled"}
  BY CallsAssumption DEF Contract!Settled
<1>8. status' = [j \in Tasks |-> IF j \in {k} THEN outcome ELSE status[j]]
  BY <1>6, RingTypes
<1>9. Contract!Becomes({k}, outcome)
  BY <1>8 DEF Contract!Becomes
<1> QED
  BY <1>2, <1>3, <1>4, <1>5, <1>7, <1>9
     DEF CallMap, Contract!Settle, Contract!Next
-----------------------------------------------------------------------------
(* The steps that begin or end a call.                                     *)

LEMMA CallIs ==
  ASSUME NEW t, pc[t] \notin WaitLabels
  PROVE  /\ mode[t] \in ShutdownMode => AbstractCall(t) = "shutdown"
         /\ mode[t] = "clear_queue" => AbstractCall(t) =
              IF pc[t] \in {"c_lock", "c_drop"} THEN "clear" ELSE "cleared"
         /\ mode[t] = "none" => AbstractCall(t) = "none"
BY DEF AbstractCall, WaitLabels, ShutdownMode

LEMMA CallBecomes ==
  ASSUME NEW t, pc'[t] \notin WaitLabels
  PROVE  /\ mode'[t] \in ShutdownMode => AbstractCall(t)' = "shutdown"
         /\ mode'[t] = "clear_queue" => AbstractCall(t)' =
              IF pc'[t] \in {"c_lock", "c_drop"} THEN "clear" ELSE "cleared"
         /\ mode'[t] = "none" => AbstractCall(t)' = "none"
BY DEF AbstractCall, WaitLabels, ShutdownMode

LEMMA ReturnRefined ==
  ASSUME IInv, InService, NEW t \in Clients, Call(t) \/ Step(t),
         AbstractQueue' = AbstractQueue, status' = status,
         queue_state'.stopping = queue_state.stopping,
         AbstractCall(t)' = "none",
         \/ AbstractCall(t) = "wait" /\ Contract!NothingAccepted
         \/ AbstractCall(t) = "clear" /\ AbstractQueue = <<>>
         \/ AbstractCall(t) = "cleared"
         \/ /\ AbstractCall(t) = "shutdown"
            /\ queue_state.stopping /\ Contract!NothingAccepted
  PROVE  Contract!Next
<1>1. t \in Threads
  BY DEF Threads
<1>2. CallMap' = [CallMap EXCEPT ![t] = "none"] /\ CallMap[t] = AbstractCall(t)
  BY <1>1, CallMapSet DEF CallMap
<1>3. Contract!Return(t)
  BY <1>2 DEF CallMap, Contract!Return
<1> QED
  BY <1>3 DEF Contract!Next

LEMMA BeginRefined ==
  ASSUME IInv, InService, NEW t \in Clients, Call(t) \/ Step(t),
         AbstractQueue' = AbstractQueue, status' = status,
         queue_state'.stopping = queue_state.stopping,
         AbstractCall(t) = "none",
         AbstractCall(t)' \in {"wait", "clear", "shutdown"}
  PROVE  Contract!Next
<1>1. t \in Threads
  BY DEF Threads
<1>2. PICK op \in {"wait", "clear", "shutdown"} : op = AbstractCall(t)'
  OBVIOUS
<1>3. CallMap' = [CallMap EXCEPT ![t] = op] /\ CallMap[t] = "none"
  BY <1>1, <1>2, CallMapSet DEF CallMap
<1>4. Contract!Call(t)
  BY <1>3 DEF CallMap, Contract!Call
<1> QED
  BY <1>4 DEF Contract!Next
-----------------------------------------------------------------------------
(* Cancellation.                                                           *)

\* In cancel_pending, mode says for which call.
LEMMA DropMode ==
  ASSUME InService, NEW t \in Threads, Dropping(t)
  PROVE  mode[t] \in {"clear_queue", "CANCEL_PENDING"}
BY DEF InService, ModeOf

LEMMA DropRefined ==
  ASSUME IInv, IInv', InService, NEW t \in Threads, Step(t), CancelDrop(t)
  PROVE  Contract!Next \/ UNCHANGED Contract!vars
<1>1. /\ pc[t] = "c_drop" /\ consumer_mutex = {t} /\ producer_mutex = {t}
      /\ mode[t] \in {"clear_queue", "CANCEL_PENDING"}
  BY DropMode DEF CancelDrop, IInv, Exclusion, Dropping, DropLabels, CancelLabels
<1>2. PICK n \in Nat : n = count[t] /\ n = queue_state.pending
  BY <1>1, RingTypes DEF IInv, Reserved
<1>3. /\ UNCHANGED <<queue_state, count>>
      /\ status' = [k \in Tasks |-> IF k \in TasksIn(Front(n)) THEN "cancelled"
                                    ELSE status[k]]
      /\ pc'[t] = IF n # 0 THEN "c_sub" ELSE AfterCancel(t)
      /\ mode' = IF n # 0 THEN mode ELSE ModeAfterCancel(t)
      /\ n = 0 => consumer_mutex' = {}
  BY <1>2, RingTypes DEF CancelDrop, Goto, word
<1>4. Published = n /\ Published' = 0
  <2>1. Held = 0
    BY <1>1, HeldAndStaged
  <2>2. CASE n # 0
    <3>1. Held' = n
      BY <1>2, <1>3, <2>2, HeldNext DEF HeldIs
    <3> QED
      BY <1>2, <1>3, <2>1, <3>1 DEF Published
  <2>3. CASE n = 0
    <3>1. Held' = 0
      BY <1>3, <2>3, HeldAndStagedNext
    <3> QED
      BY <1>2, <1>3, <2>1, <2>3, <3>1 DEF Published
  <2> QED
    BY <2>2, <2>3
<1>5. TakenItems = <<>> /\ TakenItems' = <<>>
  <2>1. \A u \in Threads : pc[u] # "w_claim" /\ pc'[u] # "w_claim"
    <3>1. \A u \in Threads : pc[u] # "w_claim"
      BY <1>1 DEF IInv, Exclusion
    <3>2. pc'[t] # "w_claim"
      BY <1>3, ResumeIs DEF AfterCancel
    <3> QED
      BY <3>1, <3>2, OthersMoved DEF Moved
  <2> QED
    BY <2>1, TakenNow, TakenNext DEF TakenIs
<1>6. FrontIs /\ FrontIs'
  BY FrontNow, FrontNext
<1>7. PICK q \in Seq(Tasks) : q = Front(n)
  BY <1>4, <1>6 DEF FrontIs
<1>8. Len(q) = n /\ AbstractQueue = q /\ AbstractQueue' = <<>>
  <2>1. AbstractQueue = <<>> \o q /\ <<>> \o q = q
    BY <1>4, <1>5, <1>6, <1>7, ConcatEmptySeq DEF FrontIs
  <2>2. PICK p \in Seq(Tasks) : p = Front(Published)'
    BY <1>6 DEF FrontIs
  <2>3. Len(p) = 0
    BY <1>4, <1>6, <2>2 DEF FrontIs
  <2>4. p = <<>>
    BY <2>3, EmptySeq
  <2>5. AbstractQueue' = <<>> \o p /\ <<>> \o p = p
    BY <1>5, <1>6, <2>2, ConcatEmptySeq DEF FrontIs
  <2> QED
    BY <1>4, <1>6, <1>7, <2>1, <2>4, <2>5 DEF FrontIs
<1>9. CASE n = 0
  <2>1. q = <<>>
    BY <1>8, <1>9, EmptySeq
  <2>2. status' = status
    BY <1>3, <1>7, <2>1, RingTypes DEF TasksIn
  <2>3. AbstractQueue' = AbstractQueue /\ AbstractQueue = <<>>
    BY <1>8, <2>1
  <2>4. CASE mode[t] = "clear_queue" /\ t \in Clients
    <3>1. AbstractCall(t) = "clear"
      BY <1>1, <2>4, CallIs DEF WaitLabels
    <3>2. pc'[t] = "idle" /\ mode'[t] = "none"
      BY <1>3, <1>9, <2>4, CallTypes, ThreadsAssumption
         DEF AfterCancel, ModeAfterCancel, Resume
    <3>3. AbstractCall(t)' = "none"
      BY <3>2, CallBecomes DEF WaitLabels
    <3> QED
      BY <1>3, <2>2, <2>3, <2>4, <3>1, <3>3, ReturnRefined
  <2>5. CASE mode[t] = "CANCEL_PENDING" \/ t \notin Clients
    <3>1. ASSUME t \in Clients PROVE AbstractCall(t)' = AbstractCall(t)
      <4>1. pc'[t] = "s_request" /\ mode'[t] = mode[t]
        BY <1>3, <1>9, <2>5, <3>1, CallTypes DEF AfterCancel, ModeAfterCancel
      <4> QED
        BY <1>1, <2>5, <3>1, <4>1, CallIs, CallBecomes DEF WaitLabels, ShutdownMode
    <3>2. CallMap' = CallMap
      BY <3>1, CallMapKept DEF Threads
    <3> QED
      BY <1>3, <2>2, <2>3, <3>2, HiddenStep
  <2> QED
    BY <1>1, <2>4, <2>5
<1>10. CASE n # 0
  <2>1. /\ q # <<>>
        /\ Contract!Becomes(Contract!TasksIn(q), "cancelled")
    BY <1>3, <1>7, <1>8, <1>10, EmptySeq
       DEF TasksIn, Contract!TasksIn, Contract!Becomes
  <2>2. \/ UNCHANGED CallMap
        \/ \E u \in Clients : /\ CallMap[u] = "clear"
                              /\ CallMap' = [CallMap EXCEPT ![u] = "cleared"]
    <3>1. CASE mode[t] = "clear_queue" /\ t \in Clients
      <4>1. AbstractCall(t) = "clear" /\ AbstractCall(t)' = "cleared"
        BY <1>1, <1>3, <1>10, <3>1, CallIs, CallBecomes DEF WaitLabels
      <4> QED
        BY <3>1, <4>1, CallMapSet DEF CallMap
    <3>2. CASE mode[t] = "CANCEL_PENDING" \/ t \notin Clients
      <4>1. ASSUME t \in Clients PROVE AbstractCall(t)' = AbstractCall(t)
        BY <1>1, <1>3, <1>10, <3>2, <4>1, CallIs, CallBecomes
           DEF WaitLabels, ShutdownMode
      <4> QED
        BY <4>1, CallMapKept DEF Threads
    <3> QED
      BY <1>1, <3>1, <3>2
  <2>3. Contract!Cancel
    BY <1>3, <1>8, <2>1, <2>2 DEF CallMap, Contract!Cancel
  <2> QED
    BY <2>3 DEF Contract!Next
<1> QED
  BY <1>9, <1>10

LEMMA SubRefined ==
  ASSUME IInv, IInv', InService, NEW t \in Threads, Step(t), CancelSub(t)
  PROVE  UNCHANGED Contract!vars
<1>1. /\ pc[t] = "c_sub" /\ pc'[t] = "c_idle" /\ consumer_mutex = {t}
      /\ count[t] = queue_state.pending
  BY RingTypes DEF CancelSub, Goto, IInv, Exclusion, Reserved, CancelLabels
<1>2. /\ UNCHANGED <<tasks, queue_head, status, mode, consumer_mutex>>
      /\ queue_state'.pending = 0
      /\ queue_state'.stopping = queue_state.stopping
  BY <1>1, RingTypes DEF CancelSub, SetState, QueueState, work, ring, locks
<1>3. CallMap' = CallMap
  BY <1>1, <1>2, SameCall, CallMapKept DEF WaitLabels
<1>4. Published = 0 /\ Published' = 0
  <2>1. Held = count[t]
    BY <1>1, HeldNow DEF HeldIs
  <2>2. Held' = 0
    BY <1>1, <1>2, HeldAndStagedNext
  <2> QED
    BY <1>1, <1>2, <2>1, <2>2, RingTypes DEF Published
<1>5. TakenItems' = TakenItems
  <2>1. \A w \in Workers \ {t} : batch'[w] = batch[w]
    BY BatchesStep
  <2> QED
    BY <1>1, <2>1, OthersMoved, TakenKept
<1>6. Front(Published)' = Front(Published)
  BY <1>2, <1>4, FrontKept
<1>7. FrontIs /\ FrontIs'
  BY FrontNow, FrontNext
<1>8. AbstractQueue' = AbstractQueue
  BY <1>5, <1>6, <1>7 DEF FrontIs
<1> QED
  BY <1>2, <1>3, <1>8, HiddenStep
-----------------------------------------------------------------------------
(* The steps that move no task.                                            *)

LEMMA StillQueue ==
  ASSUME IInv, IInv', NEW t \in Threads, Call(t) \/ Step(t), Still(t)
  PROVE  AbstractQueue' = AbstractQueue /\ status' = status
BY QueueKept DEF Still, Sections

\* A step inside a call, or of a worker, that is not the stop.
LEMMA StillHidden ==
  ASSUME IInv, IInv', InService, NEW t \in Threads, Call(t) \/ Step(t),
         Still(t), queue_state'.stopping = queue_state.stopping,
         t \in Workers \/ AbstractCall(t)' = AbstractCall(t)
  PROVE  UNCHANGED Contract!vars
BY StillQueue, CallMapKept, HiddenStep

LEMMA StopRefined ==
  ASSUME IInv, IInv', InService, NEW t \in Threads, SignalStop(t)
  PROVE  Contract!Next
<1>1. Step(t) /\ Shutdown(t) /\ Still(t)
  BY ShutdownStill DEF Step, Shutdown
<1>2. mode[t] \in ShutdownMode
  BY DEF InService, ModeOf, SignalStop, JoinLabels, Dropping, DropLabels,
         CancelLabels, NotifyLabels
<1>3. /\ pc[t] = "s_stop" /\ pc'[t] \in {"c_lock", "s_notify"} /\ mode' = mode
      /\ queue_state'.stopping = TRUE
  BY RingTypes DEF SignalStop, Goto, call, SetState, QueueState
<1>4. AbstractCall(t)' = AbstractCall(t)
  BY <1>2, <1>3, CallIs, CallBecomes DEF WaitLabels
<1>5. CallMap' = CallMap
  BY <1>1, <1>4, CallMapKept
<1>6. AbstractQueue' = AbstractQueue /\ status' = status
  BY <1>1, StillQueue
<1> QED
  BY <1>3, <1>5, <1>6 DEF CallMap, Contract!Stop, Contract!Next

\* The only other steps at which the bit could change leave it.
LEMMA BitKept ==
  ASSUME IInv, InService, NEW t \in Threads, Call(t) \/ Step(t), ~SignalStop(t)
  PROVE  queue_state'.stopping = queue_state.stopping
<1>1. CASE SameService
  BY <1>1 DEF SameService
<1>2. CASE Shutdown(t)
  BY <1>2 DEF Shutdown, ShutdownLock, SignalRequest, SignalNotify, ShutdownSwap,
              ShutdownJoin, word
<1> QED
  BY <1>1, <1>2, StoppingStep

LEMMA CallWaitRefined ==
  ASSUME IInv, IInv', InService, NEW t \in Threads \ Workers,
         CallWait(t) \/ CallControl(t)
  PROVE  Contract!Next
<1>1. Call(t) /\ Still(t) /\ pc[t] = "idle" /\ t \in Clients
  BY WaitStill, CancelStill
     DEF Call, CallWait, CallControl, MayCall, Threads
<1>2. /\ AbstractQueue' = AbstractQueue /\ status' = status
      /\ queue_state' = queue_state
  BY <1>1, StillQueue DEF CallWait, CallControl, word
<1>3. AbstractCall(t) = "none"
  <2>1. mode[t] = "none"
    BY <1>1 DEF InService, ModeOf, Dropping, DropLabels, CancelLabels,
                NotifyLabels, JoinLabels
  <2> QED
    BY <1>1, <2>1, CallIs DEF WaitLabels
<1>4. AbstractCall(t)' \in {"wait", "clear", "shutdown"}
  <2>1. CASE CallWait(t)
    <3>1. pc'[t] = "i_check"
      BY <2>1, RingTypes DEF CallWait, Goto
    <3>2. mode'[t] = "none"
      BY <1>1, <2>1 DEF InService, ModeOf, Dropping, DropLabels, CancelLabels,
                        NotifyLabels, JoinLabels, CallWait
    <3> QED
      BY <3>1, <3>2 DEF AbstractCall, ShutdownMode
  <2>2. CASE CallControl(t)
    <3>1. PICK op \in ControlOps :
            /\ mode' = [mode EXCEPT ![t] = op]
            /\ Goto(t, IF op = "clear_queue" THEN "c_lock"
                       ELSE IF t \in Workers THEN "s_stop" ELSE "s_lock")
      BY <2>2 DEF CallControl
    <3>2. /\ mode'[t] = op /\ op \in Operations
          /\ pc'[t] = IF op = "clear_queue" THEN "c_lock" ELSE "s_lock"
      BY <3>1, RingTypes, CallTypes, CallsAssumption DEF Goto
    <3> QED
      BY <3>2, CallBecomes DEF WaitLabels, Operations
  <2> QED
    BY <2>1, <2>2
<1> QED
  BY <1>1, <1>2, <1>3, <1>4, BeginRefined

\* wait() returns because the pool is idle, and an idle pool has nothing left.
LEMMA WaitRefined ==
  ASSUME IInv, IInv', PInv, ClaimsSmall, NoWrap, InService,
         NEW t \in Threads \ Workers, Wait(t)
  PROVE  Contract!Next \/ UNCHANGED Contract!vars
<1>1. Step(t) /\ Still(t) /\ t \in Clients
  BY WaitStill DEF Step, Threads
<1>2. /\ AbstractQueue' = AbstractQueue /\ status' = status
      /\ queue_state' = queue_state /\ mode' = mode
  BY <1>1, StillQueue
     DEF Wait, IdleCheck, IdleInc, IdleEpoch, IdleRecheck, IdleWait, IdleDec,
         Move, word, call
<1>3. pc[t] \in WaitLabels /\ pc'[t] \in WaitLabels \cup {"idle"}
  BY RingTypes
     DEF Wait, IdleCheck, IdleInc, IdleEpoch, IdleRecheck, IdleWait, IdleDec,
         Move, Goto, WaitLabels
<1>4. mode[t] = "none" /\ mode'[t] = "none"
  BY <1>2, <1>3 DEF InService, ModeOf, Dropping, DropLabels, CancelLabels,
                    NotifyLabels, JoinLabels, WaitLabels
<1>5. CASE pc'[t] \in WaitLabels
  <2>1. AbstractCall(t)' = AbstractCall(t)
    BY <1>2, <1>3, <1>4, <1>5, SameCall DEF WaitLabels
  <2> QED
    BY <1>1, <1>2, <2>1, StillHidden
<1>6. CASE pc'[t] = "idle"
  <2>1. is_idle
    BY <1>6, RingTypes
       DEF Wait, IdleCheck, IdleInc, IdleEpoch, IdleRecheck, IdleWait, IdleDec,
           Move, Goto
  <2>2. Contract!NothingAccepted
    BY <2>1, IdleMeansDone DEF Contract!NothingAccepted, Contract!Accepted
  <2>3. AbstractCall(t) = "wait"
    BY <1>3, <1>4 DEF AbstractCall, WaitLabels, ShutdownMode
  <2>4. AbstractCall(t)' = "none"
    BY <1>4, <1>6, CallBecomes DEF WaitLabels
  <2> QED
    BY <1>1, <1>2, <2>2, <2>3, <2>4, ReturnRefined
<1> QED
  BY <1>3, <1>5, <1>6

\* A step that moves a client from label to label of a call.
LEMMA CancelRefined ==
  ASSUME IInv, IInv', InService, NEW t \in Threads \ Workers,
         CancelLock(t) \/ CancelIdle(t) \/ CancelNotify(t)
  PROVE  Contract!Next \/ UNCHANGED Contract!vars
<1>1. Step(t) /\ Still(t) /\ t \in Clients
  BY CancelStill DEF Step, CancelPending, Threads
<1>2. AbstractQueue' = AbstractQueue /\ status' = status
  BY <1>1, StillQueue
<1>3. queue_state' = queue_state
  BY DEF CancelLock, CancelIdle, CancelNotify, Move, word
<1>4. CASE CancelLock(t) \/ CancelIdle(t)
  <2>1. /\ mode' = mode
        /\ \/ pc[t] = "c_lock" /\ pc'[t] = "c_drop"
           \/ pc[t] = "c_idle" /\ pc'[t] \in {"n_load", "c_notify"}
    BY <1>4, RingTypes DEF CancelLock, CancelIdle, Move, Goto, call
  <2>2. AbstractCall(t)' = AbstractCall(t)
    BY <2>1, SameCall DEF WaitLabels
  <2> QED
    BY <1>1, <1>3, <2>2, StillHidden
<1>5. CASE CancelNotify(t)
  <2>1. /\ pc[t] = "c_notify" /\ pc'[t] = AfterCancel(t)
        /\ mode' = ModeAfterCancel(t)
        /\ mode[t] \in {"clear_queue", "CANCEL_PENDING"}
    BY <1>5, RingTypes, DropMode
       DEF CancelNotify, NotifyAll, Wake, Dropping, DropLabels, CancelLabels
  <2>2. CASE mode[t] = "clear_queue"
    <3>1. AbstractCall(t) = "cleared"
      BY <2>1, <2>2, CallIs DEF WaitLabels
    <3>2. pc'[t] = "idle" /\ mode'[t] = "none"
      BY <2>1, <2>2, CallTypes DEF AfterCancel, ModeAfterCancel, Resume
    <3>3. AbstractCall(t)' = "none"
      BY <3>2, CallBecomes DEF WaitLabels
    <3> QED
      BY <1>1, <1>2, <1>3, <3>1, <3>3, ReturnRefined
  <2>3. CASE mode[t] = "CANCEL_PENDING"
    <3>1. pc'[t] = "s_request" /\ mode'[t] = mode[t]
      BY <2>1, <2>3, CallTypes DEF AfterCancel, ModeAfterCancel
    <3>2. AbstractCall(t)' = AbstractCall(t)
      BY <2>1, <2>3, <3>1, SameCall DEF WaitLabels
    <3> QED
      BY <1>1, <1>3, <3>2, StillHidden
  <2> QED
    BY <2>1, <2>2, <2>3
<1> QED
  BY <1>4, <1>5

\* shutdown() returns when it has joined every worker, and a worker ends only
\* after the stop, with the queue empty and its batch executed.
LEMMA JoinRefined ==
  ASSUME IInv, IInv', PInv, InService, NEW t \in Threads \ Workers,
         ShutdownJoin(t)
  PROVE  Contract!Next
<1>1. Step(t) /\ Still(t) /\ t \in Clients /\ pc[t] = "s_join"
  BY ShutdownStill DEF Step, Shutdown, ShutdownJoin, Threads
<1>2. AbstractQueue' = AbstractQueue /\ status' = status
  BY <1>1, StillQueue
<1>3. /\ queue_state' = queue_state /\ pc'[t] = "idle" /\ mode'[t] = "none"
  BY RingTypes, CallTypes DEF ShutdownJoin, Goto, word
<1>4. mode[t] \in ShutdownMode /\ workers = {}
  BY <1>1 DEF InService, ModeOf, Joins, Dropping, DropLabels, CancelLabels,
              NotifyLabels, JoinLabels
<1>5. AbstractCall(t) = "shutdown" /\ AbstractCall(t)' = "none"
  BY <1>1, <1>3, <1>4, CallIs, CallBecomes DEF WaitLabels
<1>6. ASSUME NEW w \in Workers
      PROVE  /\ queue_state.stopping /\ queue_state.pending = 0
             /\ batch[w] = <<>>
  <2>1. Lives(w)
    BY DEF InService
  <2>2. pc[w] = "exited"
    BY <1>4, <2>1 DEF Lives, ShutdownJoin
  <2>3. claimed[w] = 0
    BY <2>2 DEF IInv, Busy, Free
  <2> QED
    BY <2>1, <2>2, <2>3 DEF Lives, PInv, EmptyBatch, Unladen
<1>7. queue_state.stopping /\ queue_state.pending = 0
  BY <1>6, ThreadsAssumption
<1>8. Contract!NothingAccepted
  BY <1>6, <1>7, EmptyMeansDone DEF Contract!NothingAccepted, Contract!Accepted
<1> QED
  BY <1>1, <1>2, <1>3, <1>5, <1>7, <1>8, ReturnRefined

LEMMA ShutdownRefined ==
  ASSUME IInv, IInv', PInv, InService, NEW t \in Threads \ Workers,
         Shutdown(t)
  PROVE  Contract!Next \/ UNCHANGED Contract!vars
<1>1. Step(t) /\ Still(t)
  BY ShutdownStill DEF Step
<1>2. CASE SignalStop(t)
  BY <1>2, StopRefined
<1>3. CASE ShutdownJoin(t)
  BY <1>3, JoinRefined
<1>4. CASE \/ ShutdownLock(t) \/ SignalRequest(t) \/ SignalNotify(t)
           \/ ShutdownSwap(t)
  <2>1. /\ queue_state' = queue_state /\ mode'[t] = mode[t]
        /\ pc[t] \in {"s_lock", "s_request", "s_notify", "s_swap"}
        /\ pc'[t] \in {"s_stop", "s_notify", "s_swap", "s_join"}
    <3>1. CASE SignalNotify(t)
      BY <3>1, RingTypes, CallTypes DEF SignalNotify, NotifyAll, Wake
    <3>2. CASE ShutdownLock(t) \/ SignalRequest(t) \/ ShutdownSwap(t)
      BY <3>2, RingTypes
         DEF ShutdownLock, SignalRequest, ShutdownSwap, Goto, word, call
    <3> QED
      BY <1>4, <3>1, <3>2
  <2>2. AbstractCall(t)' = AbstractCall(t)
    BY <2>1, SameCall DEF WaitLabels
  <2> QED
    BY <1>1, <2>1, <2>2, StillHidden
<1> QED
  BY <1>2, <1>3, <1>4 DEF Shutdown

\* The steps of a submission and of a notification belong to no other call,
\* or to the same.
LEMMA SubmissionHidden ==
  ASSUME IInv, IInv', InService, NEW t \in Threads \ Workers, Still(t),
         Enqueue(t) \/ NotifyIdle(t)
  PROVE  UNCHANGED Contract!vars
<1>1. Step(t) /\ ~SignalStop(t)
  <2>1. Enqueue(t) => pc[t] \in EnqueueLabels
    BY EnqueueHop DEF InService, Own
  <2>2. NotifyIdle(t) => pc[t] \in NotifyLabels
    BY DEF NotifyIdle, NotifyLoad, NotifyEpoch, NotifyWake, NotifyLabels
  <2> QED
    BY <2>1, <2>2 DEF Step, SignalStop, EnqueueLabels, NotifyLabels
<1>2. AbstractCall(t)' = AbstractCall(t)
  <2>1. CASE Enqueue(t)
    <3>1. /\ pc[t] \in EnqueueLabels
          /\ pc'[t] \in EnqueueLabels \cup {Resume(t)} /\ mode'[t] = mode[t]
      BY <2>1, EnqueueHop DEF InService, Own, Hop
    <3> QED
      BY <3>1, ResumeIs, SameCall DEF EnqueueLabels, WaitLabels
  <2>2. CASE NotifyIdle(t)
    <3>1. /\ pc[t] \in NotifyLabels /\ mode' = mode
          /\ pc'[t] \in {"n_epoch", "n_notify", "c_notify", "w_load"}
      BY <2>2, RingTypes
         DEF NotifyIdle, NotifyLoad, NotifyEpoch, NotifyWake, NotifyReturn,
             NotifyLabels, Move, Goto, Wake, call
    <3> QED
      BY <3>1, SameCall DEF NotifyLabels, WaitLabels
  <2> QED
    BY <2>1, <2>2
<1> QED
  BY <1>1, <1>2, BitKept, StillHidden
-----------------------------------------------------------------------------
(* Every step of the pool is a step of the contract, or none.              *)

LEMMA StillRefined ==
  ASSUME IInv, IInv', PInv, ClaimsSmall, NoWrap, InService, NEW t \in Threads,
         Call(t) \/ Step(t), Still(t)
  PROVE  Contract!Next \/ UNCHANGED Contract!vars
<1>1. CASE SignalStop(t)
  BY <1>1, StopRefined
<1>2. CASE t \in Workers /\ ~SignalStop(t)
  BY <1>2, BitKept, StillHidden
<1>3. CASE t \notin Workers /\ Call(t)
  BY <1>3, OfferRefined, CallWaitRefined DEF Call
<1>4. CASE t \notin Workers /\ Step(t)
  <2>1. ~Construct(t)
    BY InServiceFrame
  <2>2. CASE Enqueue(t) \/ NotifyIdle(t)
    BY <1>4, <2>2, SubmissionHidden
  <2>3. CASE Wait(t)
    BY <1>4, <2>3, WaitRefined
  <2>4. CASE CancelPending(t)
    BY <1>4, <2>4, CancelRefined, DropRefined, SubRefined DEF CancelPending
  <2>5. CASE Shutdown(t)
    BY <1>4, <2>5, ShutdownRefined
  <2> QED
    BY <1>4, <2>1, <2>2, <2>3, <2>4, <2>5 DEF Step
<1> QED
  BY <1>1, <1>2, <1>3, <1>4

LEMMA InServiceRefined ==
  ASSUME IInv, IInv', PInv, ClaimsSmall, NoWrap, InService, NEW t \in Threads,
         Call(t) \/ Step(t)
  PROVE  Contract!Next \/ UNCHANGED Contract!vars
<1>1. CASE Still(t)
  BY <1>1, StillRefined
<1>2. CASE CallEnqueue(t)
  BY <1>2, OfferRefined
<1>3. CASE pc[t] \in {"e_load", "e_lock"} /\ Refuse(t)
  <2>1. Step(t)
    BY <1>3, Begins
  <2> QED
    BY <1>3, <2>1, RefuseRefined
<1>4. CASE EnqueueSlot(t) \/ EnqueuePublish(t)
  <2>1. Step(t)
    BY <1>4 DEF Step, Enqueue
  <2> QED
    BY <1>4, <2>1, SlotRefined, PublishRefined
<1>5. CASE /\ t \in Workers
           /\ \/ WorkerLock(t) \/ WorkerTake(t) \/ WorkerClaim(t)
              \/ Execute(t) \/ WorkerFinish(t)
  <2>1. Step(t)
    BY <1>5 DEF Step, Run
  <2> QED
    BY <1>5, <2>1, WorkerHidden, TakeRefined, ClaimRefined, ExecuteRefined
<1>6. CASE CancelDrop(t) \/ CancelSub(t)
  <2>1. Step(t)
    BY <1>6 DEF Step, CancelPending
  <2> QED
    BY <1>6, <2>1, DropRefined, SubRefined
<1> QED
  BY <1>1, <1>2, <1>3, <1>4, <1>5, <1>6, Kinds

\* Nobody is in a call of a pool whose constructor has failed.
LEMMA AbandonedCalls ==
  Abandoned => \A t \in Clients : AbstractCall(t) = "none"
<1> SUFFICES ASSUME Abandoned, NEW t \in Clients PROVE AbstractCall(t) = "none"
  OBVIOUS
<1>1. pc[t] \notin WaitLabels /\ mode[t] = "none"
  BY DEF Abandoned, Threads, LoopLabels, CreatorLabels, WaitLabels
<1> QED
  BY <1>1, CallIs

LEMMA AbandonedCallsNext ==
  Abandoned' => \A t \in Clients : AbstractCall(t)' = "none"
<1>1. Abandoned' => (\A t \in Clients : AbstractCall(t) = "none")'
  BY AbandonedCalls, PTL
<1> QED
  BY <1>1

LEMMA AbandonedRefined ==
  ASSUME IInv, IInv', Abandoned, NEW t \in Threads, Call(t) \/ Step(t)
  PROVE  Contract!Next \/ UNCHANGED Contract!vars
<1>1. /\ Abandoned'
      /\ \/ Construct(t)
         \/ /\ t \in Workers
            /\ \/ WorkerLoad(t) \/ WorkerInc(t) \/ WorkerObserve(t)
               \/ WorkerWait(t) \/ WorkerDec(t)
  BY AbandonedStep
<1>2. Still(t)
  BY <1>1, RunStill, ConstructStill
<1>3. AbstractQueue' = AbstractQueue /\ status' = status
  BY <1>2, StillQueue
<1>4. CallMap' = CallMap
  BY <1>1, AbandonedCalls, AbandonedCallsNext DEF CallMap
<1>5. CASE ConstructStop(t)
  <2>1. queue_state'.stopping = TRUE
    BY <1>5, RingTypes DEF ConstructStop, SetState, QueueState
  <2> QED
    BY <1>3, <1>4, <2>1 DEF CallMap, Contract!Stop, Contract!Next
<1>6. CASE ~ConstructStop(t)
  <2>1. queue_state' = queue_state
    BY <1>1, <1>6
       DEF Construct, ConstructNotify, ConstructJoin, WorkerLoad, WorkerInc,
           WorkerObserve, WorkerWait, WorkerDec, Move, word
  <2> QED
    BY <1>3, <1>4, <2>1, HiddenStep
<1> QED
  BY <1>5, <1>6

LEMMA StutterRefined == UNCHANGED vars => UNCHANGED Contract!vars
<1> SUFFICES ASSUME UNCHANGED vars PROVE UNCHANGED Contract!vars
  OBVIOUS
<1>1. /\ UNCHANGED <<queue_state, status, tasks, queue_head, pc, mode, claimed,
                     count, batch, consumer_mutex>>
  BY DEF vars
<1>2. Held' = Held
  BY <1>1 DEF Held, Holder
<1>3. AbstractQueue' = AbstractQueue
  BY <1>1, <1>2 DEF AbstractQueue, TakenItems, Holder, Front, Advance
<1>4. CallMap' = CallMap
  BY <1>1 DEF CallMap, AbstractCall
<1> QED
  BY <1>1, <1>3, <1>4, HiddenStep

LEMMA InitRefined == Init => Contract!Init
<1> SUFFICES ASSUME Init PROVE Contract!Init
  OBVIOUS
<1>1. IInv
  BY IInvInit
<1>2. Held = 0
  BY HeldAndStaged DEF Init
<1>3. TakenItems = <<>>
  BY <1>2 DEF TakenItems
<1>4. AbstractQueue = <<>>
  <2>1. Published = 0
    BY <1>2 DEF Published, Init, EmptyState
  <2>2. PICK q \in Seq(Tasks) : q = Front(Published) /\ Len(q) = 0
    BY <1>1, <2>1, FrontNow DEF FrontIs
  <2>3. q = <<>> /\ <<>> \o q = q
    BY <2>2, EmptySeq, ConcatEmptySeq
  <2> QED
    BY <1>1, <1>3, <2>2, <2>3, FrontNow DEF FrontIs
<1>5. \A t \in Clients : AbstractCall(t) = "none"
  <2> SUFFICES ASSUME NEW t \in Clients PROVE AbstractCall(t) = "none"
    OBVIOUS
  <2>1. t \in Threads /\ t \notin Workers
    BY ThreadsAssumption DEF Threads
  <2>2. pc[t] \in {"idle", "x_stop", "gone"}
    BY <2>1 DEF Init, Constructed, ConstructionFailed
  <2>3. mode[t] = "none"
    BY <2>1 DEF Init
  <2> QED
    BY <2>2, <2>3, CallIs DEF WaitLabels
<1>6. ~queue_state.stopping /\ status = [k \in Tasks |-> "caller"]
  BY DEF Init, EmptyState
<1> QED
  BY <1>4, <1>5, <1>6 DEF Contract!Init, Init, EmptyState

LEMMA NextRefined ==
  ASSUME IInv, IInv', PInv, ClaimsSmall, CInv, NoWrap, [Next]_vars
  PROVE  [Contract!Next]_(Contract!vars)
<1>1. ASSUME NEW t \in Threads, Call(t) \/ Step(t)
      PROVE  Contract!Next \/ UNCHANGED Contract!vars
  BY <1>1, InServiceRefined, AbandonedRefined DEF CInv
<1>2. UNCHANGED vars => UNCHANGED Contract!vars
  BY StutterRefined
<1> QED
  BY <1>1, <1>2 DEF Next, Rest

\* The pool implements its contract: FIFO order, capacity, one outcome per
\* task, no acceptance after the stop, and what the returns of wait,
\* clear_queue and shutdown tell the caller.  NoWrap is needed, because
\* wait() compares the low bits of the active count with zero.
THEOREM Refinement ==
  ASSUME NoWrap
  PROVE  Spec => ImplementsContract
<1>1. Init => IInv /\ PInv /\ ClaimsSmall /\ CInv /\ Contract!Init
  <2>1. Init => ClaimsSmall
    BY CountAssumption DEF Init, ClaimsSmall
  <2> QED
    BY <2>1, IInvInit, PInvInit, CInvInit, InitRefined
<1>2. IInv /\ PInv /\ ClaimsSmall /\ CInv /\ [Next]_vars =>
        /\ IInv' /\ PInv' /\ ClaimsSmall' /\ CInv'
        /\ [Contract!Next]_(Contract!vars)
  BY IInvStep, PInvStep, ClaimsSmallStep, CInvStep, NextRefined
<1> QED
  BY <1>1, <1>2, PTL DEF Spec, ImplementsContract, Contract!Spec
=============================================================================
