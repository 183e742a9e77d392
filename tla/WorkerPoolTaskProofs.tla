------------------------ MODULE WorkerPoolTaskProofs ------------------------
(***************************************************************************)
(* Where the tasks of WorkerPool are, for any number of threads, tasks and *)
(* slots: every accepted task is in exactly one place until its outcome is *)
(* recorded (TasksPlaced), every failed or dropped task without a promise  *)
(* is counted once (FailuresAccounted), and, when the claimed tasks fit    *)
(* the field of the packed word (NoWrap), wait() returns only when no      *)
(* accepted task is left (WaitReturnsIdle).                                *)
(*                                                                         *)
(* IInv speaks of slots and counts; PInv relates them to the statuses: the *)
(* slots that the pending count covers hold the queued tasks, those behind *)
(* them what a producer is about to publish, the batches of the workers    *)
(* what is claimed, and no task occurs twice.                              *)
(***************************************************************************)
EXTENDS WorkerPoolProofs

(* The inductive invariant.                                                *)

\* The engaged slots that the pending count covers: those of accepted tasks.
Published == queue_state.pending - Held

\* The tasks of these slots are queued, those behind them still on offer.
SlotStatus ==
  \A i \in Slots : tasks[i] # NoTask =>
    status[tasks[i]] = IF Offset(i, queue_head) < Published THEN "queued"
                       ELSE "offered"
\* A producer about to publish has emplaced the next tasks of its span.
StagedSlots(t) ==
  pc[t] = "e_publish" =>
    \A i \in Slots :
      tasks[i] # NoTask /\ Offset(i, queue_head) >= Published =>
        tasks[i] = span[t][Offset(i, queue_head) - Published + 1]
\* The tasks of a batch are claimed, or about to be.
BatchStatus(w) ==
  \A n \in DOMAIN batch[w] :
    status[batch[w][n]] = IF pc[w] = "w_claim" THEN "queued" ELSE "claimed"
\* Who has claimed nothing, or executed it all, holds no task.
Unladen(w) == claimed[w] = 0 \/ pc[w] \in {"w_take", "w_finish"}
EmptyBatch(w) == Unladen(w) => batch[w] = <<>>
SpanStatus(t) == \A n \in DOMAIN span[t] : status[span[t][n]] = "offered"

\* No task is twice in the ring, in the batches or in the spans, nor in the
\* ring and in a batch.
RingOnce == \A i, j \in Slots : tasks[i] # NoTask /\ tasks[i] = tasks[j] => i = j
BatchOnce ==
  \A v, w \in Workers : \A m \in DOMAIN batch[v], n \in DOMAIN batch[w] :
    batch[v][m] = batch[w][n] => v = w /\ m = n
SpanOnce ==
  \A t, u \in Threads : \A m \in DOMAIN span[t], n \in DOMAIN span[u] :
    span[t][m] = span[u][n] => t = u /\ m = n
Apart ==
  \A w \in Workers : \A n \in DOMAIN batch[w] : \A i \in Slots :
    tasks[i] # batch[w][n]

\* A queued or claimed task is in the ring or in a batch.
InRing(k) == \E i \in Slots : tasks[i] = k
InBatch(k) == \E w \in Workers : \E n \in DOMAIN batch[w] : batch[w][n] = k
Located ==
  \A k \in Tasks : status[k] \in {"queued", "claimed"} => InRing(k) \/ InBatch(k)

PInv ==
  /\ SlotStatus /\ RingOnce /\ BatchOnce /\ SpanOnce /\ Apart /\ Located
  /\ \A t \in Threads : StagedSlots(t) /\ SpanStatus(t)
  /\ \A w \in Workers : BatchStatus(w) /\ EmptyBatch(w)
-----------------------------------------------------------------------------
(* Published, seen from the steps at which a thread holds tasks.           *)

\* Who determines Held and Staged, whoever else there is.
HeldIs ==
  /\ \A t \in Threads : /\ pc[t] = "w_claim" => Held = claimed[t]
                        /\ pc[t] = "c_sub" => Held = count[t]
                        /\ pc[t] = "e_publish" => Staged = count[t]
  /\ (\A t \in Threads : pc[t] \notin {"w_claim", "c_sub"}) => Held = 0
  /\ (\A t \in Threads : pc[t] # "e_publish") => Staged = 0

LEMMA HeldNow == IInv => HeldIs
<1> SUFFICES ASSUME IInv PROVE HeldIs
  OBVIOUS
<1>1. ASSUME NEW t \in Threads
      PROVE  /\ pc[t] = "w_claim" => Held = claimed[t]
             /\ pc[t] = "c_sub" => Held = count[t]
             /\ pc[t] = "e_publish" => Staged = count[t]
  BY HeldAndStaged DEF IInv, Exclusion, CancelLabels
<1>2. ASSUME \A t \in Threads : pc[t] \notin {"w_claim", "c_sub"}
      PROVE  Held = 0
  <2>1. CASE consumer_mutex = {}
    BY <2>1, HeldAndStaged
  <2>2. ASSUME NEW t \in Threads, consumer_mutex = {t} PROVE Held = 0
    BY <1>2, <2>2, HeldAndStaged
  <2> QED
    BY <2>1, <2>2, RingTypes DEF Holders
<1>3. ASSUME \A t \in Threads : pc[t] # "e_publish" PROVE Staged = 0
  <2>1. CASE producer_mutex = {}
    BY <2>1, HeldAndStaged
  <2>2. ASSUME NEW t \in Threads, producer_mutex = {t} PROVE Staged = 0
    BY <1>3, <2>2, HeldAndStaged
  <2> QED
    BY <2>1, <2>2, RingTypes DEF Holders
<1> QED
  BY <1>1, <1>2, <1>3 DEF HeldIs

LEMMA HeldNext == IInv' => HeldIs'
BY HeldNow, PTL

\* The slots of the ring, split at Published.
LEMMA PublishedType ==
  ASSUME IInv
  PROVE  /\ Published \in 0 .. Capacity /\ Staged \in 0 .. Capacity
         /\ Engaged = Published + Staged /\ Engaged \in 0 .. Capacity
         /\ \A i \in Slots :
              (tasks[i] # NoTask) <=> (Offset(i, queue_head) < Engaged)
BY HeldType, StagedType, RingTypes, CapacityAssumption
   DEF Published, Engaged, IInv, RingOK

\* A batch or a span that is a sequence of tasks holds tasks.
LEMMA Elements ==
  ASSUME IInv
  PROVE  /\ \A w \in Workers : \A n \in DOMAIN batch[w] : batch[w][n] \in Tasks
         /\ \A t \in Threads : \A n \in DOMAIN span[t] : span[t][n] \in Tasks
         /\ \A i \in Slots : tasks[i] # NoTask => tasks[i] \in Tasks
BY RingTypes
-----------------------------------------------------------------------------
(* A step that leaves the tasks where they are.                            *)

Untouched ==
  /\ UNCHANGED <<tasks, queue_head, status, batch, span>>
  /\ Published' = Published
  /\ \A t \in Threads :
       pc'[t] \in {"e_publish", "w_claim"} \/ pc[t] \in {"e_publish", "w_claim"}
         => pc'[t] = pc[t]
  /\ \A w \in Workers : Unladen(w)' => Unladen(w)

LEMMA UntouchedStep ==
  ASSUME PInv, Untouched PROVE PInv'
<1>1. SlotStatus' /\ RingOnce' /\ BatchOnce' /\ SpanOnce' /\ Apart' /\ Located'
  BY DEF PInv, Untouched, SlotStatus, RingOnce, BatchOnce, SpanOnce, Apart,
         Located, InRing, InBatch, Offset
<1>2. ASSUME NEW t \in Threads PROVE StagedSlots(t)' /\ SpanStatus(t)'
  BY DEF PInv, Untouched, StagedSlots, SpanStatus, Offset
<1>3. ASSUME NEW w \in Workers PROVE BatchStatus(w)' /\ EmptyBatch(w)'
  <2>1. w \in Threads
    BY DEF Threads
  <2> QED
    BY <2>1 DEF PInv, Untouched, BatchStatus, EmptyBatch
<1> QED
  BY <1>1, <1>2, <1>3 DEF PInv

\* The steps at which a thread holds tasks.
Sections == {"e_publish", "w_take", "w_claim", "w_finish", "c_sub"}
Still(t) ==
  /\ UNCHANGED <<tasks, queue_head, status, batch, span, claimed>>
  /\ queue_state'.pending = queue_state.pending
  /\ pc[t] \notin Sections /\ pc'[t] \notin Sections
  /\ \A u \in Threads \ {t} : Moved(u) /\ count'[u] = count[u]

\* What is held does not depend on a thread outside of these steps.
LEMMA HeldStill ==
  ASSUME IInv, IInv', NEW t \in Threads,
         pc[t] \notin {"w_claim", "c_sub"}, pc'[t] \notin {"w_claim", "c_sub"},
         \A u \in Threads \ {t} : Moved(u) /\ count'[u] = count[u],
         \A w \in Workers \ {t} : claimed'[w] = claimed[w]
  PROVE  Held' = Held
<1>1. HeldIs /\ HeldIs'
  BY HeldNow, HeldNext
<1>2. ASSUME NEW u \in Threads, pc[u] = "w_claim" PROVE Held' = Held
  <2>1. u # t /\ pc'[u] = "w_claim" /\ u \in Workers
    BY <1>2 DEF Moved, IInv, Reserved
  <2> QED
    BY <1>1, <1>2, <2>1 DEF HeldIs
<1>3. ASSUME NEW u \in Threads, pc[u] = "c_sub" PROVE Held' = Held
  <2>1. u # t /\ pc'[u] = "c_sub"
    BY <1>3 DEF Moved
  <2> QED
    BY <1>1, <1>3, <2>1 DEF HeldIs
<1>4. CASE \A u \in Threads : pc[u] \notin {"w_claim", "c_sub"}
  <2>1. \A u \in Threads : pc'[u] \notin {"w_claim", "c_sub"}
    BY <1>4 DEF Moved
  <2> QED
    BY <1>1, <1>4, <2>1 DEF HeldIs
<1> QED
  BY <1>2, <1>3, <1>4

LEMMA StillStep ==
  ASSUME IInv, IInv', NEW t \in Threads, Still(t)
  PROVE  Untouched
<1>1. Held' = Held
  BY HeldStill DEF Still, Sections
<1>2. Published' = Published
  BY <1>1 DEF Still, Published
<1>3. ASSUME NEW u \in Threads
      PROVE  pc'[u] \in Sections \/ pc[u] \in Sections => pc'[u] = pc[u]
  BY DEF Still, Sections, Moved
<1>4. ASSUME NEW w \in Workers PROVE Unladen(w)' => Unladen(w)
  <2>1. w \in Threads
    BY DEF Threads
  <2> QED
    BY <1>3, <2>1 DEF Unladen, Still, Sections
<1> QED
  BY <1>2, <1>3, <1>4 DEF Untouched, Still, Sections
-----------------------------------------------------------------------------
(* The steps between the sections leave the tasks alone.                   *)

LEMMA MovesStill ==
  ASSUME NEW t \in Threads, NEW label, Moves(t, label),
         pc[t] \notin Sections, label \notin Sections,
         UNCHANGED <<tasks, queue_head, status, batch, span, claimed>>,
         queue_state'.pending = queue_state.pending,
         \A u \in Threads \ {t} : count'[u] = count[u]
  PROVE  Still(t)
BY DEF Moves, Still

LEMMA GotoStill ==
  ASSUME IInv, NEW t \in Threads, NEW label, Goto(t, label),
         pc[t] \notin Sections, label \notin Sections,
         UNCHANGED <<tasks, queue_head, status, batch, span, claimed>>,
         queue_state'.pending = queue_state.pending,
         \A u \in Threads \ {t} : count'[u] = count[u]
  PROVE  Still(t)
BY RingTypes DEF Goto, Still, Moved

LEMMA MoveStill ==
  ASSUME IInv, NEW t \in Threads, NEW label, Move(t, label),
         pc[t] \notin Sections, label \notin Sections
  PROVE  Still(t)
BY GotoStill DEF Move, work, ring, word, call

LEMMA ResumeIs == \A t : Resume(t) \in {"w_settle", "idle"}
BY DEF Resume

LEMMA EnqueueStill ==
  ASSUME IInv, NEW t \in Threads,
         \/ EnqueueLoad(t) \/ EnqueueInc(t) \/ EnqueueObserve(t)
         \/ EnqueueWait(t) \/ EnqueueDec(t) \/ EnqueueLock(t)
         \/ EnqueueCheck(t) \/ EnqueueNotify(t)
  PROVE  Still(t) \/ (pc[t] \in {"e_load", "e_lock"} /\ Refuse(t))
<1>1. CASE EnqueueLoad(t)
  BY <1>1, MoveStill DEF EnqueueLoad, Sections
<1>2. CASE EnqueueInc(t)
  BY <1>2, GotoStill DEF EnqueueInc, Sections, word, work, ring, call
<1>3. CASE EnqueueObserve(t)
  BY <1>3, GotoStill, MoveStill
     DEF EnqueueObserve, Sections, word, work, ring, call
<1>4. CASE EnqueueWait(t)
  BY <1>4, MoveStill DEF EnqueueWait, Sections
<1>5. CASE EnqueueDec(t)
  BY <1>5, GotoStill DEF EnqueueDec, Sections, word, work, ring, call
<1>6. CASE EnqueueLock(t)
  <2>1. CASE Refuse(t)
    BY <1>6, <2>1 DEF EnqueueLock
  <2>2. CASE Move(t, "e_load")
    BY <1>6, <2>2, MoveStill DEF EnqueueLock, Sections
  <2>3. CASE ~Refuse(t) /\ ~Move(t, "e_load")
    BY <1>6, <2>3, GotoStill, RingTypes
       DEF EnqueueLock, Sections, word, work, ring
  <2> QED
    BY <2>1, <2>2, <2>3
<1>7. CASE EnqueueCheck(t)
  <2> DEFINE label == IF waiting_workers = 0 THEN NextRound(t) ELSE "e_notify"
  <2>1. label \notin Sections
    BY ResumeIs DEF NextRound, Sections
  <2> QED
    BY <1>7, <2>1, GotoStill, RingTypes
       DEF EnqueueCheck, Sections, word, work, ring
<1>8. CASE EnqueueNotify(t)
  <2>1. NextRound(t) \in {"w_settle", "idle", "e_load"}
    BY ResumeIs DEF NextRound
  <2>2. NextRound(t) \in Labels /\ NextRound(t) \notin Sections
    BY <2>1 DEF Labels, Sections
  <2>3. Moves(t, NextRound(t))
    BY <1>8, <2>2, NotifyOneMoves, NotifyAllMoves
       DEF EnqueueNotify, IInv, Sleeping
  <2> QED
    BY <1>8, <2>2, <2>3, MovesStill, RingTypes
       DEF EnqueueNotify, Sections, work, ring
<1> QED
  BY <1>1, <1>2, <1>3, <1>4, <1>5, <1>6, <1>7, <1>8

LEMMA RunStill ==
  ASSUME IInv, NEW t \in Threads,
         \/ WorkerLoad(t) \/ WorkerInc(t) \/ WorkerObserve(t)
         \/ WorkerWait(t) \/ WorkerDec(t) \/ WorkerCheck(t) \/ WorkerNotify(t)
  PROVE  Still(t)
<1>1. CASE WorkerLoad(t)
  BY <1>1, MoveStill DEF WorkerLoad, Sections
<1>2. CASE WorkerInc(t)
  BY <1>2, GotoStill DEF WorkerInc, Sections, word, work, ring, call
<1>3. CASE WorkerObserve(t)
  BY <1>3, GotoStill, MoveStill
     DEF WorkerObserve, Sections, word, work, ring, call
<1>4. CASE WorkerWait(t)
  BY <1>4, MoveStill DEF WorkerWait, Sections
<1>5. CASE WorkerDec(t)
  BY <1>5, GotoStill DEF WorkerDec, Sections, word, work, ring, call
<1>6. CASE WorkerCheck(t)
  BY <1>6, MoveStill DEF WorkerCheck, Sections
<1>7. CASE WorkerNotify(t)
  <2>1. Moves(t, "w_exec")
    BY <1>7, NotifyOneMoves DEF WorkerNotify, IInv, Sleeping, Labels
  <2> QED
    BY <1>7, <2>1, MovesStill DEF WorkerNotify, Sections, work, ring, call
<1> QED
  BY <1>1, <1>2, <1>3, <1>4, <1>5, <1>6, <1>7

LEMMA WaitStill ==
  ASSUME IInv, NEW t \in Threads, CallWait(t) \/ Wait(t)
  PROVE  Still(t)
<1>1. CASE CallWait(t)
  BY <1>1, GotoStill DEF CallWait, Sections, word, work, ring
<1>2. CASE IdleCheck(t) \/ IdleRecheck(t) \/ IdleWait(t)
  BY <1>2, MoveStill DEF IdleCheck, IdleRecheck, IdleWait, Sections
<1>3. CASE IdleInc(t)
  BY <1>3, GotoStill DEF IdleInc, Sections, word, work, ring, call
<1>4. CASE IdleEpoch(t)
  BY <1>4, GotoStill DEF IdleEpoch, Sections, word, work, ring, call
<1>5. CASE IdleDec(t)
  BY <1>5, GotoStill DEF IdleDec, Sections, word, work, ring, call
<1> QED
  BY <1>1, <1>2, <1>3, <1>4, <1>5 DEF Wait

LEMMA NotifyStill ==
  ASSUME IInv, NEW t \in Threads, NotifyIdle(t)
  PROVE  Still(t)
<1>1. NotifyReturn(t) \in {"c_notify", "w_load"}
  BY DEF NotifyReturn
<1>2. CASE NotifyLoad(t)
  BY <1>1, <1>2, MoveStill DEF NotifyLoad, Sections
<1>3. CASE NotifyEpoch(t)
  BY <1>3, GotoStill DEF NotifyEpoch, Sections, word, work, ring, call
<1>4. CASE NotifyWake(t)
  <2>1. \A u \in IdleSleepers : u \notin eligible /\ pc[u] \in Sleeping
    BY DEF IdleSleepers, Sleeping, IInv, EligibleSleep, QueueSleepers
  <2>2. Moves(t, NotifyReturn(t))
    BY <1>1, <1>4, <2>1, WakeMoves
       DEF NotifyWake, IInv, word, IdleSleepers, Sleeping, Labels
  <2> QED
    BY <1>1, <1>4, <2>2, MovesStill
       DEF NotifyWake, Sections, word, work, ring, call
<1> QED
  BY <1>2, <1>3, <1>4 DEF NotifyIdle

LEMMA CancelStill ==
  ASSUME IInv, NEW t \in Threads,
         CallControl(t) \/ CancelLock(t) \/ CancelIdle(t) \/ CancelNotify(t)
  PROVE  Still(t)
<1>1. CASE CallControl(t)
  <2>1. PICK op : Goto(t, IF op = "clear_queue" THEN "c_lock"
                          ELSE IF t \in Workers THEN "s_stop" ELSE "s_lock")
    BY <1>1 DEF CallControl
  <2>2. pc[t] \in {"w_exec", "idle"}
    BY <1>1 DEF CallControl, MayCall, Running
  <2>3. /\ UNCHANGED <<tasks, queue_head, status, batch, span, claimed, count>>
        /\ queue_state' = queue_state
    BY <1>1 DEF CallControl, word, work, ring
  <2> DEFINE label == IF op = "clear_queue" THEN "c_lock"
                      ELSE IF t \in Workers THEN "s_stop" ELSE "s_lock"
  <2>4. label \notin Sections
    BY DEF Sections
  <2> QED
    BY <2>1, <2>2, <2>3, <2>4, GotoStill DEF Sections
<1>2. CASE CancelLock(t)
  BY <1>2, GotoStill, RingTypes DEF CancelLock, Sections, word, work, ring
<1>3. CASE CancelIdle(t)
  BY <1>3, MoveStill DEF CancelIdle, Sections
<1>4. CASE CancelNotify(t)
  <2>1. AfterCancel(t) \in {"w_settle", "idle", "s_request"}
    BY DEF AfterCancel, Resume
  <2>2. AfterCancel(t) \in Labels /\ AfterCancel(t) \notin Sections
    BY <2>1 DEF Labels, Sections
  <2>3. Moves(t, AfterCancel(t))
    BY <1>4, <2>2, NotifyAllMoves DEF CancelNotify, IInv, Sleeping
  <2> QED
    BY <1>4, <2>2, <2>3, MovesStill DEF CancelNotify, Sections, work, ring
<1> QED
  BY <1>1, <1>2, <1>3, <1>4

LEMMA ShutdownStill ==
  ASSUME IInv, NEW t \in Threads, Shutdown(t)
  PROVE  Still(t)
<1>1. CASE ShutdownLock(t)
  BY <1>1, GotoStill DEF ShutdownLock, Sections, word, work, ring, call
<1>2. CASE SignalStop(t)
  <2>1. queue_state'.pending = queue_state.pending
    BY <1>2, RingTypes DEF SignalStop, SetState, QueueState
  <2> QED
    BY <1>2, <2>1, GotoStill DEF SignalStop, Sections, work, ring, call
<1>3. CASE SignalRequest(t)
  BY <1>3, GotoStill DEF SignalRequest, Sections, word, work, ring, call
<1>4. CASE SignalNotify(t)
  <2> DEFINE label == IF t \in Workers THEN "w_settle" ELSE "s_swap"
  <2>1. label \in Labels /\ label \notin Sections
    BY DEF Labels, Sections
  <2>2. Moves(t, label)
    BY <1>4, <2>1, NotifyAllMoves DEF SignalNotify, IInv, Sleeping
  <2> QED
    BY <1>4, <2>1, <2>2, MovesStill DEF SignalNotify, Sections, work, ring
<1>5. CASE ShutdownSwap(t)
  BY <1>5, GotoStill DEF ShutdownSwap, Sections, word, work, ring, call
<1>6. CASE ShutdownJoin(t)
  BY <1>6, GotoStill DEF ShutdownJoin, Sections, word, work, ring
<1> QED
  BY <1>1, <1>2, <1>3, <1>4, <1>5, <1>6 DEF Shutdown

LEMMA ConstructStill ==
  ASSUME IInv, NEW t \in Threads, Construct(t)
  PROVE  Still(t)
<1>1. CASE ConstructStop(t)
  <2>1. queue_state'.pending = queue_state.pending
    BY <1>1, RingTypes DEF ConstructStop, SetState, QueueState
  <2> QED
    BY <1>1, <2>1, GotoStill DEF ConstructStop, Sections, work, ring, call
<1>2. CASE ConstructNotify(t)
  <2>1. Moves(t, "x_join")
    BY <1>2, NotifyAllMoves DEF ConstructNotify, IInv, Sleeping, Labels
  <2> QED
    BY <1>2, <2>1, MovesStill DEF ConstructNotify, Sections, work, ring, call
<1>3. CASE ConstructJoin(t)
  BY <1>3, GotoStill DEF ConstructJoin, Sections, word, work, ring, call
<1> QED
  BY <1>1, <1>2, <1>3 DEF Construct
-----------------------------------------------------------------------------
(* Submission.                                                             *)

\* Only the status of tasks that are in no place changes, and the spans.
Respan(t, K, new, s) ==
  /\ UNCHANGED <<tasks, queue_head, batch, claimed>> /\ Published' = Published
  /\ pc[t] \notin Sections /\ pc'[t] \notin Sections
  /\ \A u \in Threads \ {t} : pc'[u] = pc[u] /\ span'[u] = span[u]
  /\ span'[t] = s
  /\ status' = [k \in Tasks |-> IF k \in K THEN new ELSE status[k]]
  /\ \A k \in K : status[k] \notin {"queued", "claimed"}
  /\ new \notin {"queued", "claimed"}
  /\ \A k \in K : \A i \in Slots : tasks[i] # k
  /\ \A u \in Threads \ {t} : \A n \in DOMAIN span[u] : span[u][n] \notin K
  /\ \A n \in DOMAIN s : s[n] \in K /\ s[n] \in Tasks
  /\ \A m, n \in DOMAIN s : s[m] = s[n] => m = n
  /\ DOMAIN s # {} => new = "offered"

LEMMA SpansStep ==
  ASSUME IInv, PInv, NEW t \in Threads, NEW K, NEW new, NEW s,
         Respan(t, K, new, s)
  PROVE  PInv'
<1> USE DEF Respan
<1>1. ASSUME NEW k \in Tasks
      PROVE  /\ k \notin K => status'[k] = status[k]
             /\ k \in K => status'[k] = new
  OBVIOUS
<1>2. SlotStatus'
  BY <1>1, Elements DEF PInv, SlotStatus, Offset
<1>3. RingOnce' /\ BatchOnce' /\ Apart'
  BY DEF PInv, RingOnce, BatchOnce, Apart
<1>4. SpanOnce'
  <2>1. ASSUME NEW u \in Threads, NEW v \in Threads,
               NEW m \in DOMAIN span'[u], NEW n \in DOMAIN span'[v],
               span'[u][m] = span'[v][n]
        PROVE  u = v /\ m = n
    <3>1. CASE u = t /\ v = t
      BY <2>1, <3>1
    <3>2. CASE u # t /\ v # t
      BY <2>1, <3>2 DEF PInv, SpanOnce
    <3>3. CASE u = t /\ v # t
      BY <2>1, <3>3
    <3>4. CASE u # t /\ v = t
      BY <2>1, <3>4
    <3> QED
      BY <3>1, <3>2, <3>3, <3>4
  <2> QED
    BY <2>1 DEF SpanOnce
<1>5. Located'
  BY <1>1 DEF PInv, Located, InRing, InBatch
<1>6. ASSUME NEW u \in Threads PROVE StagedSlots(u)' /\ SpanStatus(u)'
  <2>1. CASE u = t
    <3>1. \A n \in DOMAIN s : status'[s[n]] = "offered"
      BY <1>1
    <3> QED
      BY <2>1, <3>1 DEF StagedSlots, SpanStatus, Sections
  <2>2. CASE u # t
    <3>1. SpanStatus(u)'
      BY <1>1, <2>2, Elements DEF PInv, SpanStatus
    <3>2. StagedSlots(u)'
      BY <2>2 DEF PInv, StagedSlots, Offset
    <3> QED
      BY <3>1, <3>2
  <2> QED
    BY <2>1, <2>2
<1>7. ASSUME NEW w \in Workers PROVE BatchStatus(w)' /\ EmptyBatch(w)'
  <2>1. w \in Threads
    BY DEF Threads
  <2>2. pc'[w] \in {"w_take", "w_claim", "w_finish"} <=>
          pc[w] \in {"w_take", "w_claim", "w_finish"}
    BY <2>1 DEF Sections
  <2>3. pc'[w] = "w_claim" <=> pc[w] = "w_claim"
    BY <2>1 DEF Sections
  <2>4. \A n \in DOMAIN batch[w] : status[batch[w][n]] \in {"queued", "claimed"}
    BY DEF PInv, BatchStatus
  <2>5. BatchStatus(w)'
    BY <1>1, <2>3, <2>4, Elements DEF PInv, BatchStatus
  <2>6. EmptyBatch(w)'
    BY <2>1 DEF PInv, EmptyBatch, Unladen, Sections
  <2> QED
    BY <2>5, <2>6
<1> QED
  BY <1>2, <1>3, <1>4, <1>5, <1>6, <1>7 DEF PInv

LEMMA CallEnqueuePlaced ==
  ASSUME IInv, IInv', PInv, NEW t \in Threads, CallEnqueue(t) PROVE PInv'
<1>1. PICK s \in Spans :
        /\ \A k \in TasksIn(s) : status[k] = "caller"
        /\ span' = [span EXCEPT ![t] = s]
        /\ status' = [k \in Tasks |->
                       IF k \in TasksIn(s) THEN "offered" ELSE status[k]]
  BY SpansAssumption DEF CallEnqueue
<1>2. pc[t] \in {"w_exec", "idle"} /\ Goto(t, "e_load")
  BY DEF CallEnqueue, MayCall, Running
<1>3. /\ pc'[t] = "e_load" /\ \A u \in Threads \ {t} : pc'[u] = pc[u]
  BY <1>2, RingTypes DEF Goto
<1>4. /\ span'[t] = s /\ \A u \in Threads \ {t} : span'[u] = span[u]
  BY <1>1, RingTypes
<1>5. UNCHANGED <<queue_state, tasks, queue_head, batch, claimed, count>>
  BY DEF CallEnqueue, word, ring
<1>6. Published' = Published
  BY <1>2, <1>3, <1>5, HeldStill DEF Published, Moved
<1>7. \A k \in TasksIn(s) : \A i \in Slots : tasks[i] # k
  <2> SUFFICES ASSUME NEW k \in TasksIn(s), NEW i \in Slots, tasks[i] = k
               PROVE  FALSE
    OBVIOUS
  <2>1. k \in Tasks
    BY SpansAssumption DEF TasksIn
  <2> QED
    BY <1>1, <2>1, TasksAssumption DEF PInv, SlotStatus
<1>8. \A u \in Threads \ {t} : \A n \in DOMAIN span[u] :
        span[u][n] \notin TasksIn(s)
  BY <1>1 DEF PInv, SpanStatus
<1>9. /\ \A n \in DOMAIN s : s[n] \in TasksIn(s) /\ s[n] \in Tasks
      /\ \A m, n \in DOMAIN s : s[m] = s[n] => m = n
  BY SpansAssumption, DistinctAssumption DEF TasksIn
<1> DEFINE K == TasksIn(s)
<1>10. \A k \in K : status[k] = "caller"
  BY <1>1
<1> HIDE DEF K
<1>11. Respan(t, K, "offered", s)
  BY <1>1, <1>2, <1>3, <1>4, <1>5, <1>6, <1>7, <1>8, <1>9, <1>10
     DEF Sections, K, Respan
<1> QED
  BY <1>11, SpansStep

LEMMA RefusePlaced ==
  ASSUME IInv, IInv', PInv, NEW t \in Threads, pc[t] \in {"e_load", "e_lock"},
         Refuse(t)
  PROVE  PInv'
<1> DEFINE K == TasksIn(span[t])
<1>1. /\ status' = [k \in Tasks |-> IF k \in K THEN "rejected" ELSE status[k]]
      /\ Goto(t, Resume(t))
  BY DEF Refuse
<1>2. /\ pc'[t] \in {"w_settle", "idle"} /\ \A u \in Threads \ {t} : pc'[u] = pc[u]
  BY <1>1, RingTypes, ResumeIs DEF Goto
<1>3. /\ span'[t] = <<>> /\ \A u \in Threads \ {t} : span'[u] = span[u]
  BY RingTypes DEF Refuse
<1>4. UNCHANGED <<queue_state, tasks, queue_head, batch, claimed, count>>
  BY DEF Refuse, word, ring
<1>5. Published' = Published
  BY <1>2, <1>4, HeldStill DEF Published, Moved
<1>6. \A k \in K : status[k] = "offered"
  BY DEF PInv, SpanStatus, TasksIn
<1>7. \A u \in Threads \ {t} : \A n \in DOMAIN span[u] : span[u][n] \notin K
  BY DEF PInv, SpanOnce, TasksIn
<1>8. \A k \in K : \A i \in Slots : tasks[i] # k
  <2> SUFFICES ASSUME NEW k \in K, NEW i \in Slots, tasks[i] = k PROVE FALSE
    OBVIOUS
  <2>1. k \in Tasks /\ tasks[i] # NoTask
    BY RingTypes, TasksAssumption DEF TasksIn
  <2>2. ~(Offset(i, queue_head) < Published)
    BY <1>6, <2>1 DEF PInv, SlotStatus
  <2>3. Offset(i, queue_head) < Published + Staged
    BY <2>1, PublishedType
  <2>4. Staged # 0
    BY <2>2, <2>3, PublishedType
  <2>5. PICK u \in Threads : pc[u] = "e_publish" /\ Staged = count[u]
    BY <2>4, HeldNow DEF HeldIs
  <2>6. u # t
    BY <2>5
  <2> DEFINE n == Offset(i, queue_head) - Published + 1
  <2> DEFINE o == Offset(i, queue_head)
  <2>10. o \in Nat /\ Published \in Nat /\ count[u] \in Nat
    BY OffsetType, PublishedType, RingTypes DEF Slots
  <2>7. n \in 1 .. count[u] /\ o >= Published
    BY <2>2, <2>3, <2>5, <2>10
  <2>8. n \in DOMAIN span[u]
    BY <2>5, <2>7, RingTypes, LenProperties DEF IInv, Reserved
  <2>9. tasks[i] = span[u][n]
    BY <2>1, <2>5, <2>7 DEF PInv, StagedSlots
  <2> QED
    BY <1>7, <2>6, <2>8, <2>9
<1> HIDE DEF K
<1>9. Respan(t, K, "rejected", <<>>)
  BY <1>1, <1>2, <1>3, <1>4, <1>5, <1>6, <1>7, <1>8 DEF Sections, Respan
<1> QED
  BY <1>9, SpansStep
-----------------------------------------------------------------------------
(* The critical section of a producer.                                     *)

\* Behind e engaged slots, the slots that n more reach, by their offsets.
LEMMA Behind ==
  ASSUME NEW head \in Slots, NEW tail \in Slots, NEW e \in 0 .. Capacity,
         tail = Advance(head, e) \/ (e = Capacity /\ tail = head)
  PROVE  \A i \in Slots :
           Offset(i, tail) = IF Offset(i, head) >= e THEN Offset(i, head) - e
                             ELSE Offset(i, head) - e + Capacity
<1> SUFFICES ASSUME NEW i \in Slots
             PROVE  Offset(i, tail) =
                      IF Offset(i, head) >= e THEN Offset(i, head) - e
                      ELSE Offset(i, head) - e + Capacity
  OBVIOUS
<1>1. CASE e = Capacity /\ tail = head
  BY <1>1, CapacityAssumption DEF Offset, Slots
<1>2. CASE tail = Advance(head, e)
  <2>1. CASE head + e < Capacity
    BY <1>2, <2>1, CapacityAssumption DEF Advance, Offset, Slots
  <2>2. CASE ~(head + e < Capacity)
    BY <1>2, <2>2, CapacityAssumption DEF Advance, Offset, Slots
  <2> QED
    BY <2>1, <2>2
<1> QED
  BY <1>1, <1>2

\* A sequence without its first n elements.
LEMMA Split ==
  ASSUME NEW s \in Seq(Tasks), NEW n \in 0 .. Len(s)
  PROVE  /\ DOMAIN s = 1 .. Len(s) /\ Len(s) \in Nat
         /\ \A k : k \in TasksIn(SubSeq(s, 1, n)) <=> \E m \in 1 .. n : k = s[m]
         /\ DOMAIN SubSeq(s, n + 1, Len(s)) = 1 .. Len(s) - n
         /\ \A m \in 1 .. Len(s) - n : SubSeq(s, n + 1, Len(s))[m] = s[n + m]
<1> DEFINE front == SubSeq(s, 1, n)
           back == SubSeq(s, n + 1, Len(s))
<1>1. DOMAIN s = 1 .. Len(s) /\ Len(s) \in Nat /\ \A i \in 1 .. Len(s) : s[i] \in Tasks
  BY LenProperties, ElementOfSeq
<1>2. /\ front \in Seq(Tasks) /\ Len(front) = IF 1 <= n THEN n - 1 + 1 ELSE 0
      /\ \A i \in 1 .. n - 1 + 1 : front[i] = s[1 + i - 1]
  <2>1. /\ 1 \in Int /\ n \in Int /\ \A i \in 1 .. n : s[i] \in Tasks
    BY <1>1
  <2> QED
    BY <2>1, SubSeqProperties
<1>3. /\ back \in Seq(Tasks)
      /\ Len(back) = IF n + 1 <= Len(s) THEN Len(s) - (n + 1) + 1 ELSE 0
      /\ \A i \in 1 .. Len(s) - (n + 1) + 1 : back[i] = s[n + 1 + i - 1]
  <2>1. /\ n + 1 \in Int /\ Len(s) \in Int
        /\ \A i \in n + 1 .. Len(s) : s[i] \in Tasks
    BY <1>1
  <2> QED
    BY <2>1, SubSeqProperties
<1>4. DOMAIN front = 1 .. n /\ \A i \in 1 .. n : front[i] = s[i]
  BY <1>1, <1>2, LenProperties
<1>5. /\ DOMAIN back = 1 .. Len(s) - n
      /\ \A m \in 1 .. Len(s) - n : back[m] = s[n + m]
  <2>1. DOMAIN back = 1 .. Len(s) - n
    BY <1>1, <1>3, LenProperties
  <2>2. ASSUME NEW m \in 1 .. Len(s) - n PROVE back[m] = s[n + m]
    <3>1. m \in 1 .. Len(s) - (n + 1) + 1 /\ n + 1 + m - 1 = n + m
      BY <1>1
    <3> QED
      BY <1>3, <3>1
  <2> QED
    BY <2>1, <2>2
<1> HIDE DEF front, back
<1>6. \A k : k \in TasksIn(front) <=> \E m \in 1 .. n : k = s[m]
  BY <1>4 DEF TasksIn
<1> QED
  BY <1>1, <1>5, <1>6 DEF front, back

LEMMA OffsetInjective ==
  ASSUME NEW i \in Slots, NEW j \in Slots, NEW head \in Slots,
         Offset(i, head) = Offset(j, head)
  PROVE  i = j
BY CapacityAssumption DEF Offset, Slots

LEMMA OffsetOfAdvance ==
  ASSUME NEW head \in Slots, NEW n \in Slots
  PROVE  Advance(head, n) \in Slots /\ Offset(Advance(head, n), head) = n
BY CapacityAssumption DEF Advance, Offset, Slots

\* The slots a producer fills are behind the published ones, and empty.
LEMMA SlotsFree ==
  ASSUME IInv, NEW t \in Threads, pc[t] = "e_slot"
  PROVE  \A i \in Slots : Offset(i, queue_tail) < count[t] =>
           tasks[i] = NoTask /\ ~(Offset(i, queue_head) < Published)
<1>0. PICK n : n = count[t]
  OBVIOUS
<1>1. producer_mutex = {t} /\ n \in 0 .. Capacity
  BY <1>0, RingTypes DEF IInv, Exclusion
<1>2. Staged = 0 /\ Engaged = Published
  BY <1>1, HeldAndStaged, PublishedType
<1>3. /\ queue_tail = Advance(queue_head, Published)
            \/ (Published = Capacity /\ queue_tail = queue_head)
      /\ \A i \in Slots : tasks[i] # NoTask <=> Offset(i, queue_head) < Published
  BY <1>2 DEF IInv, RingOK
<1>4. \A i \in Slots : Offset(i, queue_tail) =
        IF Offset(i, queue_head) >= Published
        THEN Offset(i, queue_head) - Published
        ELSE Offset(i, queue_head) - Published + Capacity
  BY <1>3, Behind, RingTypes, PublishedType
<1>5. ASSUME NEW i \in Slots, Offset(i, queue_tail) < n
      PROVE  ~(Offset(i, queue_head) < Published)
  <2> SUFFICES ASSUME Offset(i, queue_head) < Published PROVE FALSE
    OBVIOUS
  <2>1. Published + n <= Capacity
    BY <1>0, <1>1, PublishedType, HeldType, RingTypes, CapacityAssumption
       DEF IInv, Reserved, Published
  <2>2. /\ Offset(i, queue_head) \in Nat /\ Published \in Nat
        /\ n \in Nat /\ Capacity \in Nat
    BY <1>1, RingTypes, PublishedType, OffsetType, CapacityAssumption DEF Slots
  <2>3. Offset(i, queue_tail) = Offset(i, queue_head) - Published + Capacity
    BY <1>4, <2>2
  <2> QED
    BY <1>5, <2>1, <2>2, <2>3
<1> QED
  BY <1>0, <1>3, <1>5

LEMMA EnqueueSlotPlaced ==
  ASSUME IInv, IInv', PInv, NEW t \in Threads, EnqueueSlot(t) PROVE PInv'
<1> DEFINE n == count[t]
           New(i) == Offset(i, queue_tail) < n
           Item(i) == span[t][Offset(i, queue_tail) + 1]
<1>1. /\ pc[t] = "e_slot" /\ producer_mutex = {t}
      /\ n <= Len(span[t]) /\ n \in 0 .. Capacity
  BY RingTypes DEF EnqueueSlot, IInv, Exclusion, Reserved
<1>2. /\ UNCHANGED <<queue_state, queue_head, status, batch, span, claimed, count>>
      /\ \A i \in Slots : tasks'[i] = IF New(i) THEN Item(i) ELSE tasks[i]
  BY DEF EnqueueSlot, word, call
<1>3. /\ pc'[t] = "e_publish" /\ \A u \in Threads \ {t} : pc'[u] = pc[u]
  BY RingTypes DEF EnqueueSlot, Goto
<1>4. Held' = Held /\ Published' = Published
  BY <1>1, <1>2, <1>3, HeldStill DEF Published, Moved
<1>5. Staged = 0 /\ Engaged = Published
  BY <1>1, HeldAndStaged, PublishedType
<1>6. \A i \in Slots : tasks[i] # NoTask => status[tasks[i]] = "queued"
  BY <1>5, PublishedType DEF PInv, SlotStatus
<1>7. ASSUME NEW i \in Slots, New(i)
      PROVE  /\ Offset(i, queue_tail) + 1 \in DOMAIN span[t]
             /\ Item(i) \in Tasks /\ status[Item(i)] = "offered"
  <2>1. Offset(i, queue_tail) \in Nat
    BY OffsetType, RingTypes DEF Slots
  <2>2. Offset(i, queue_tail) + 1 \in DOMAIN span[t]
    BY <1>1, <1>7, <2>1, RingTypes, LenProperties
  <2> QED
    BY <2>2, Elements DEF PInv, SpanStatus
<1>8. /\ queue_tail = Advance(queue_head, Published)
            \/ (Published = Capacity /\ queue_tail = queue_head)
      /\ \A i \in Slots : tasks[i] # NoTask <=> Offset(i, queue_head) < Published
  BY <1>5 DEF IInv, RingOK
<1>9. \A i \in Slots : Offset(i, queue_tail) =
        IF Offset(i, queue_head) >= Published
        THEN Offset(i, queue_head) - Published
        ELSE Offset(i, queue_head) - Published + Capacity
  BY <1>8, Behind, RingTypes, PublishedType
<1>10. \A i \in Slots : New(i) => tasks[i] = NoTask
  BY <1>1, SlotsFree
<1> HIDE DEF New, Item
<1>11. SlotStatus'
  <2> SUFFICES ASSUME NEW i \in Slots, tasks'[i] # NoTask
               PROVE  status[tasks'[i]] = IF Offset(i, queue_head) < Published
                                          THEN "queued" ELSE "offered"
    BY <1>2, <1>4 DEF SlotStatus, Offset
  <2>1. CASE New(i)
    BY <1>2, <1>7, <1>8, <1>10, <2>1
  <2>2. CASE ~New(i)
    BY <1>2, <1>6, <1>8, <2>2
  <2> QED
    BY <2>1, <2>2
<1>12. RingOnce'
  <2> SUFFICES ASSUME NEW i \in Slots, NEW j \in Slots,
                      tasks'[i] # NoTask, tasks'[i] = tasks'[j]
               PROVE  i = j
    BY DEF RingOnce
  <2>1. CASE New(i) /\ New(j)
    <3>1. Item(i) = Item(j)
      BY <1>2, <2>1
    <3>2. Offset(i, queue_tail) + 1 = Offset(j, queue_tail) + 1
      BY <1>7, <2>1, <3>1 DEF PInv, SpanOnce, Item
    <3>3. Offset(i, queue_tail) \in Nat /\ Offset(j, queue_tail) \in Nat
      BY OffsetType, RingTypes DEF Slots
    <3>4. Offset(i, queue_tail) = Offset(j, queue_tail)
      BY <3>2, <3>3
    <3> QED
      BY <3>4, OffsetInjective, RingTypes
  <2>2. CASE ~New(i) /\ ~New(j)
    BY <1>2, <2>2 DEF PInv, RingOnce
  <2>3. CASE New(i) <=> ~New(j)
    BY <1>2, <1>6, <1>7, <2>3
  <2> QED
    BY <2>1, <2>2, <2>3
<1>13. Apart'
  <2> SUFFICES ASSUME NEW w \in Workers, NEW m \in DOMAIN batch[w], NEW i \in Slots
               PROVE  tasks'[i] # batch[w][m]
    BY <1>2 DEF Apart
  <2>1. status[batch[w][m]] \in {"queued", "claimed"}
    BY DEF PInv, BatchStatus
  <2> QED
    BY <1>2, <1>7, <2>1 DEF PInv, Apart
<1>14. BatchOnce' /\ SpanOnce'
  BY <1>2 DEF PInv, BatchOnce, SpanOnce
<1>15. Located'
  <2>1. ASSUME NEW k \in Tasks, InRing(k) PROVE InRing(k)'
    BY <1>2, <1>10, <2>1, TasksAssumption DEF InRing
  <2> QED
    BY <1>2, <2>1 DEF PInv, Located, InBatch
<1>16. ASSUME NEW u \in Threads PROVE StagedSlots(u)' /\ SpanStatus(u)'
  <2>1. CASE u = t
    <3>1. \A i \in Slots :
            tasks'[i] # NoTask /\ Offset(i, queue_head) >= Published =>
              tasks'[i] = span[t][Offset(i, queue_head) - Published + 1]
      <4> SUFFICES ASSUME NEW i \in Slots, tasks'[i] # NoTask,
                          Offset(i, queue_head) >= Published
                   PROVE  tasks'[i] = span[t][Offset(i, queue_head) - Published + 1]
        OBVIOUS
      <4>1. ~(Offset(i, queue_head) < Published)
        <5>1. Offset(i, queue_head) \in Nat
          BY OffsetType, RingTypes DEF Slots
        <5>2. Published \in Nat
          BY PublishedType
        <5> QED
          BY <5>1, <5>2
      <4>2. New(i)
        BY <1>2, <1>8, <4>1
      <4> QED
        BY <1>2, <1>9, <4>2 DEF Item
    <3>2. StagedSlots(u)'
      BY <1>2, <1>4, <2>1, <3>1 DEF StagedSlots, Offset
    <3> QED
      BY <1>2, <3>2 DEF PInv, SpanStatus
  <2>2. CASE u # t
    <3>1. pc'[u] # "e_publish"
      BY <1>1, <1>3, <2>2 DEF IInv, Exclusion
    <3> QED
      BY <1>2, <3>1 DEF PInv, StagedSlots, SpanStatus
  <2> QED
    BY <2>1, <2>2
<1>17. ASSUME NEW w \in Workers PROVE BatchStatus(w)' /\ EmptyBatch(w)'
  <2>1. w \in Threads
    BY DEF Threads
  <2> QED
    BY <1>1, <1>2, <1>3, <2>1 DEF PInv, BatchStatus, EmptyBatch, Unladen
<1> QED
  BY <1>11, <1>12, <1>13, <1>14, <1>15, <1>16, <1>17 DEF PInv

LEMMA EnqueuePublishPlaced ==
  ASSUME IInv, IInv', PInv, NEW t \in Threads, EnqueuePublish(t) PROVE PInv'
<1> DEFINE n == count[t]
           K == TasksIn(SubSeq(span[t], 1, n))
<1>1. /\ pc[t] = "e_publish" /\ n <= Len(span[t]) /\ n \in 0 .. Capacity
      /\ producer_mutex = {t}
  BY RingTypes DEF EnqueuePublish, IInv, Reserved, Exclusion
<1>2. /\ UNCHANGED <<tasks, queue_head, batch, claimed, count>>
      /\ queue_state'.pending = queue_state.pending + n
      /\ status' = [k \in Tasks |-> IF k \in K THEN "queued" ELSE status[k]]
  BY RingTypes DEF EnqueuePublish, SetState, QueueState, ring
<1>3. /\ pc'[t] = "e_check" /\ \A u \in Threads \ {t} : pc'[u] = pc[u]
  BY RingTypes DEF EnqueuePublish, Goto
<1>4. Published' = Published + n /\ Staged = n /\ Engaged = Published + n
  <2>1. Held' = Held
    BY <1>1, <1>2, <1>3, HeldStill DEF Moved
  <2>2. Staged = n
    BY <1>1, HeldNow DEF HeldIs
  <2> QED
    BY <1>1, <1>2, <2>1, <2>2, PublishedType, HeldType, RingTypes DEF Published
<1>5. /\ \A k : k \in K <=> \E m \in 1 .. n : k = span[t][m]
      /\ DOMAIN span[t] = 1 .. Len(span[t]) /\ Len(span[t]) \in Nat
  BY <1>1, RingTypes, Split
<1>6. /\ \A u \in Threads \ {t} : span'[u] = span[u]
      /\ DOMAIN span'[t] = 1 .. Len(span[t]) - n
      /\ \A m \in DOMAIN span'[t] : /\ span'[t][m] = span[t][n + m]
                                    /\ n + m \in DOMAIN span[t] /\ n + m \notin 1 .. n
  <2>1. span'[t] = SubSeq(span[t], n + 1, Len(span[t]))
        /\ \A u \in Threads \ {t} : span'[u] = span[u]
    BY RingTypes DEF EnqueuePublish
  <2>2. /\ DOMAIN span'[t] = 1 .. Len(span[t]) - n
        /\ \A m \in 1 .. Len(span[t]) - n : span'[t][m] = span[t][n + m]
    BY <1>1, <2>1, RingTypes, Split
  <2>3. ASSUME NEW m \in DOMAIN span'[t]
        PROVE  /\ span'[t][m] = span[t][n + m]
               /\ n + m \in DOMAIN span[t] /\ n + m \notin 1 .. n
    BY <1>1, <1>5, <2>2
  <2> QED
    BY <2>1, <2>2, <2>3
<1>7. ASSUME NEW k \in Tasks
      PROVE  /\ k \notin K => status'[k] = status[k]
             /\ k \in K => status'[k] = "queued" /\ status[k] = "offered"
  <2>1. k \in K => status[k] = "offered"
    BY <1>1, <1>5 DEF PInv, SpanStatus
  <2> HIDE DEF K
  <2> QED
    BY <1>2, <2>1
<1>8. \A i \in Slots : tasks[i] # NoTask =>
        Offset(i, queue_head) < Published \/ tasks[i] \in K
  <2> SUFFICES ASSUME NEW i \in Slots, tasks[i] # NoTask,
                      ~(Offset(i, queue_head) < Published)
               PROVE  tasks[i] \in K
    OBVIOUS
  <2>1. /\ Offset(i, queue_head) \in Nat /\ Published \in Nat
        /\ Offset(i, queue_head) < Published + n
    BY <1>4, OffsetType, PublishedType, RingTypes DEF Slots
  <2>2. tasks[i] = span[t][Offset(i, queue_head) - Published + 1]
    BY <1>1, <2>1 DEF PInv, StagedSlots
  <2>3. Offset(i, queue_head) - Published + 1 \in 1 .. n
    BY <1>1, <2>1
  <2> QED
    BY <1>5, <2>2, <2>3
<1> HIDE DEF K
<1>9. SlotStatus'
  <2> SUFFICES ASSUME NEW i \in Slots, tasks[i] # NoTask
               PROVE  /\ status'[tasks[i]] = "queued"
                      /\ Offset(i, queue_head) < Published'
    BY <1>2 DEF SlotStatus, Offset
  <2>1. Offset(i, queue_head) < Published'
    BY <1>4, PublishedType
  <2>2. tasks[i] \in Tasks
    BY Elements
  <2> QED
    BY <1>7, <1>8, <2>1, <2>2 DEF PInv, SlotStatus
<1>10. RingOnce' /\ BatchOnce' /\ Apart'
  BY <1>2 DEF PInv, RingOnce, BatchOnce, Apart
<1>11. SpanOnce'
  <2> SUFFICES ASSUME NEW u \in Threads, NEW v \in Threads,
                      NEW l \in DOMAIN span'[u], NEW m \in DOMAIN span'[v],
                      span'[u][l] = span'[v][m]
               PROVE  u = v /\ l = m
    BY DEF SpanOnce
  <2>1. ASSUME NEW x \in Threads, NEW i \in DOMAIN span'[x]
        PROVE  \E j \in DOMAIN span[x] :
                 span'[x][i] = span[x][j] /\ j = IF x = t THEN n + i ELSE i
    BY <1>6
  <2>2. PICK j \in DOMAIN span[u] :
          span'[u][l] = span[u][j] /\ j = IF u = t THEN n + l ELSE l
    BY <2>1
  <2>3. PICK k \in DOMAIN span[v] :
          span'[v][m] = span[v][k] /\ k = IF v = t THEN n + m ELSE m
    BY <2>1
  <2>4. u = v /\ j = k
    <3>1. SpanOnce
      BY DEF PInv
    <3>2. span[u][j] = span[v][k]
      BY <2>2, <2>3
    <3> QED
      BY <3>1, <3>2 DEF SpanOnce
  <2>5. u = t => l \in Int /\ m \in Int
    <3>1. DOMAIN span'[t] \subseteq Int
      BY <1>1, <1>5, <1>6
    <3> QED
      BY <2>4, <3>1
  <2> QED
    BY <1>1, <2>2, <2>3, <2>4, <2>5
<1>12. Located'
  <2> SUFFICES ASSUME NEW k \in Tasks, status'[k] \in {"queued", "claimed"}
               PROVE  InRing(k) \/ InBatch(k)
    BY <1>2 DEF Located, InRing, InBatch
  <2>1. CASE k \notin K
    BY <1>7, <2>1 DEF PInv, Located
  <2>2. CASE k \in K
    <3>1. PICK m \in 1 .. n : k = span[t][m]
      BY <1>5, <2>2
    <3> DEFINE o == Published + m - 1
               i == Advance(queue_head, o)
    <3>2. o \in Slots /\ o < Engaged /\ o >= Published
      BY <1>1, <1>4, PublishedType, CapacityAssumption DEF Slots
    <3>3. i \in Slots /\ Offset(i, queue_head) = o
      BY <3>2, OffsetOfAdvance, RingTypes
    <3>4. tasks[i] # NoTask
      BY <3>2, <3>3, PublishedType
    <3>5. tasks[i] = span[t][o - Published + 1]
      BY <1>1, <3>2, <3>3, <3>4 DEF PInv, StagedSlots
    <3>6. o - Published + 1 = m
      BY <1>1, PublishedType
    <3> QED
      BY <3>1, <3>3, <3>5, <3>6 DEF InRing
  <2> QED
    BY <2>1, <2>2
<1>13. ASSUME NEW u \in Threads PROVE StagedSlots(u)' /\ SpanStatus(u)'
  <2>1. pc'[u] # "e_publish"
    BY <1>1, <1>3 DEF IInv, Exclusion
  <2>2. ASSUME NEW i \in DOMAIN span'[u]
        PROVE  status'[span'[u][i]] = "offered"
    <3>1. CASE u = t
      <4>1. PICK j \in DOMAIN span[t] : span'[u][i] = span[t][j] /\ j \notin 1 .. n
        BY <1>6, <2>2, <3>1
      <4>2. span[t][j] \notin K
        BY <1>1, <1>5, <4>1 DEF PInv, SpanOnce
      <4> QED
        BY <1>7, <4>1, <4>2, Elements DEF PInv, SpanStatus
    <3>2. CASE u # t
      <4>1. span'[u] = span[u] /\ i \in DOMAIN span[u]
        BY <1>6, <2>2, <3>2
      <4>2. span[u][i] \notin K
        BY <1>1, <1>5, <3>2, <4>1 DEF PInv, SpanOnce
      <4> QED
        BY <1>7, <4>1, <4>2, Elements DEF PInv, SpanStatus
    <3> QED
      BY <3>1, <3>2
  <2> QED
    BY <2>1, <2>2 DEF StagedSlots, SpanStatus
<1>14. ASSUME NEW w \in Workers PROVE BatchStatus(w)' /\ EmptyBatch(w)'
  <2>1. w \in Threads
    BY DEF Threads
  <2>2. pc'[w] = "w_claim" <=> pc[w] = "w_claim"
    BY <1>1, <1>3, <2>1
  <2>3. \A m \in DOMAIN batch[w] : batch[w][m] \notin K
    BY <1>7, Elements DEF PInv, BatchStatus
  <2>4. BatchStatus(w)'
    BY <1>2, <1>7, <2>2, <2>3, Elements DEF PInv, BatchStatus
  <2>5. EmptyBatch(w)'
    BY <1>1, <1>2, <1>3, <2>1 DEF PInv, EmptyBatch, Unladen
  <2> QED
    BY <2>4, <2>5
<1> QED
  BY <1>9, <1>10, <1>11, <1>12, <1>13, <1>14 DEF PInv
-----------------------------------------------------------------------------
(* The critical section of a worker.                                       *)

LEMMA WorkerLockPlaced ==
  ASSUME IInv, IInv', PInv, NEW w \in Workers, WorkerLock(w) PROVE PInv'
<1>1. w \in Threads /\ pc[w] = "w_lock"
  BY DEF Threads, WorkerLock
<1>2. CASE Move(w, "w_load")
  BY <1>1, <1>2, MoveStill, StillStep, UntouchedStep DEF Sections
<1>3. CASE ~Move(w, "w_load")
  <2>1. /\ UNCHANGED <<queue_state, tasks, queue_head, status, batch, span, count>>
        /\ \A x \in Workers \ {w} : claimed'[x] = claimed[x]
    BY <1>3, RingTypes DEF WorkerLock, word, ring, call
  <2>2. pc'[w] = "w_take" /\ \A u \in Threads \ {w} : pc'[u] = pc[u]
    BY <1>1, <1>3, RingTypes DEF WorkerLock, Goto
  <2>3. Published' = Published
    BY <1>1, <2>1, <2>2, HeldStill DEF Published, Moved
  <2>4. claimed[w] = 0
    BY <1>1 DEF IInv, Busy, Free
  <2>5. \A x \in Workers : Unladen(x)' => Unladen(x)
    BY <2>1, <2>2, <2>4 DEF Unladen, Threads
  <2>6. Untouched
    BY <1>1, <2>1, <2>2, <2>3, <2>5 DEF Untouched
  <2> QED
    BY <2>6, UntouchedStep
<1> QED
  BY <1>2, <1>3

\* The slots behind the first n, seen from the advanced head.
LEMMA OffsetBehind ==
  ASSUME NEW head \in Slots, NEW n \in 0 .. Capacity, NEW i \in Slots,
         Offset(i, head) >= n
  PROVE  Offset(i, Advance(head, n)) = Offset(i, head) - n
<1>1. CASE head + n < Capacity
  BY <1>1, CapacityAssumption DEF Advance, Offset, Slots
<1>2. CASE ~(head + n < Capacity)
  BY <1>2, CapacityAssumption DEF Advance, Offset, Slots
<1> QED
  BY <1>1, <1>2

\* The first n tasks, each from a slot of its own.
LEMMA FrontSlots ==
  ASSUME IInv, NEW n \in 0 .. Capacity
  PROVE  /\ DOMAIN Front(n) = 1 .. n
         /\ \A m \in 1 .. n :
              /\ Advance(queue_head, m - 1) \in Slots
              /\ Offset(Advance(queue_head, m - 1), queue_head) = m - 1
              /\ Front(n)[m] = tasks[Advance(queue_head, m - 1)]
         /\ \A i \in Slots : Offset(i, queue_head) < n =>
              /\ Offset(i, queue_head) + 1 \in 1 .. n
              /\ Front(n)[Offset(i, queue_head) + 1] = tasks[i]
<1>1. n \in Nat
  BY CapacityAssumption
<1>2. DOMAIN Front(n) = 1 .. n
  BY DEF Front
<1>3. ASSUME NEW m \in 1 .. n
      PROVE  /\ Advance(queue_head, m - 1) \in Slots
             /\ Offset(Advance(queue_head, m - 1), queue_head) = m - 1
             /\ Front(n)[m] = tasks[Advance(queue_head, m - 1)]
  <2>1. m - 1 \in Slots
    BY CapacityAssumption DEF Slots
  <2> QED
    BY <2>1, OffsetOfAdvance, RingTypes DEF Front
<1>4. ASSUME NEW i \in Slots, Offset(i, queue_head) < n
      PROVE  /\ Offset(i, queue_head) + 1 \in 1 .. n
             /\ Front(n)[Offset(i, queue_head) + 1] = tasks[i]
  <2>1. Offset(i, queue_head) \in Nat /\ Advance(queue_head, Offset(i, queue_head)) = i
    BY OffsetType, RingTypes DEF Slots
  <2>2. Offset(i, queue_head) + 1 \in 1 .. n
    BY <1>1, <1>4, <2>1
  <2>3. PICK m \in 1 .. n : m = Offset(i, queue_head) + 1
    BY <2>2
  <2>4. m - 1 = Offset(i, queue_head)
    BY <2>1, <2>3
  <2>5. Front(n)[m] = tasks[Advance(queue_head, Offset(i, queue_head))]
    BY <1>3, <2>4
  <2> QED
    BY <2>1, <2>3, <2>5
<1> QED
  BY <1>2, <1>3, <1>4

LEMMA WorkerTakePlaced ==
  ASSUME IInv, IInv', PInv, NEW w \in Workers, WorkerTake(w) PROVE PInv'
<1> DEFINE n == ClaimSize(claimed[w])
           Ahead(i) == Offset(i, queue_head) < n
<1>1. /\ pc[w] = "w_take" /\ w \in Threads /\ consumer_mutex = {w}
      /\ claimed[w] \in 1 .. queue_state.pending
  BY DEF WorkerTake, IInv, Exclusion, Reserved, Threads
<1>2. n \in 1 .. queue_state.pending /\ n \in 0 .. Capacity /\ n \in Nat
  <2>1. n \in 1 .. claimed[w]
    BY <1>1, ClaimSizeType
  <2> QED
    BY <1>1, <2>1, RingTypes, CapacityAssumption
<1>3. /\ UNCHANGED <<queue_state, status, span, count>>
      /\ batch'[w] = Front(n) /\ claimed'[w] = n
      /\ \A x \in Workers \ {w} : batch'[x] = batch[x] /\ claimed'[x] = claimed[x]
      /\ queue_head' = Advance(queue_head, n)
      /\ \A i \in Slots : tasks'[i] = IF Ahead(i) THEN NoTask ELSE tasks[i]
  BY RingTypes DEF WorkerTake, word, call, Emptied
<1>4. pc'[w] = "w_claim" /\ \A u \in Threads \ {w} : pc'[u] = pc[u]
  BY <1>1, RingTypes DEF WorkerTake, Goto
<1>5. /\ Held = 0 /\ Held' = n /\ Published = queue_state.pending
      /\ Published' = Published - n
  <2>1. Held = 0
    BY <1>1, HeldAndStaged
  <2>2. Held' = n
    BY <1>1, <1>3, <1>4, HeldNext DEF HeldIs
  <2> QED
    BY <1>2, <1>3, <2>1, <2>2, RingTypes DEF Published
<1>6. batch[w] = <<>>
  BY <1>1 DEF PInv, EmptyBatch, Unladen
<1>7. ASSUME NEW m \in 1 .. n
      PROVE  /\ Advance(queue_head, m - 1) \in Slots
             /\ Offset(Advance(queue_head, m - 1), queue_head) = m - 1
             /\ Ahead(Advance(queue_head, m - 1))
             /\ batch'[w][m] = tasks[Advance(queue_head, m - 1)]
             /\ batch'[w][m] \in Tasks /\ status[batch'[w][m]] = "queued"
  <2> DEFINE i == Advance(queue_head, m - 1)
  <2>1. /\ i \in Slots /\ Offset(i, queue_head) = m - 1
        /\ batch'[w][m] = tasks[i]
    BY <1>2, <1>3, FrontSlots
  <2>2. m - 1 < n /\ m - 1 < Published /\ m - 1 < Engaged
    BY <1>2, <1>5, PublishedType
  <2>3. tasks[i] # NoTask /\ tasks[i] \in Tasks
    BY <2>1, <2>2, PublishedType, Elements
  <2> QED
    BY <2>1, <2>2, <2>3 DEF PInv, SlotStatus
<1>8. ASSUME NEW i \in Slots, tasks'[i] # NoTask
      PROVE  /\ ~Ahead(i) /\ tasks'[i] = tasks[i]
             /\ Offset(i, queue_head') = Offset(i, queue_head) - n
             /\ Offset(i, queue_head) \in Nat
  <2>1. ~Ahead(i) /\ tasks'[i] = tasks[i]
    BY <1>3, <1>8
  <2>2. Offset(i, queue_head) \in Nat
    BY OffsetType, RingTypes DEF Slots
  <2>3. Offset(i, queue_head) >= n
    BY <1>2, <2>1, <2>2
  <2> QED
    BY <1>2, <1>3, <2>1, <2>2, <2>3, OffsetBehind, RingTypes
<1>9. DOMAIN batch'[w] = 1 .. n
  BY <1>2, <1>3, FrontSlots
<1>10. Published \in Nat
  BY PublishedType
<1> HIDE DEF n, Ahead
<1>11. SlotStatus'
  <2> SUFFICES ASSUME NEW i \in Slots, tasks'[i] # NoTask
               PROVE  status[tasks[i]] = IF Offset(i, queue_head') < Published'
                                         THEN "queued" ELSE "offered"
    BY <1>3, <1>8 DEF SlotStatus, Offset
  <2>1. Offset(i, queue_head') < Published' <=> Offset(i, queue_head) < Published
    BY <1>2, <1>5, <1>8, <1>10
  <2> QED
    BY <1>8, <2>1 DEF PInv, SlotStatus
<1>12. RingOnce'
  BY <1>8 DEF PInv, RingOnce
<1>13. BatchOnce'
  <2> SUFFICES ASSUME NEW v \in Workers, NEW x \in Workers,
                      NEW l \in DOMAIN batch'[v], NEW m \in DOMAIN batch'[x],
                      batch'[v][l] = batch'[x][m]
               PROVE  v = x /\ l = m
    BY DEF BatchOnce
  <2>1. CASE v = w /\ x = w
    <3>1. Advance(queue_head, l - 1) = Advance(queue_head, m - 1)
      BY <1>7, <1>9, <2>1, TasksAssumption DEF PInv, RingOnce
    <3>2. l - 1 = m - 1 /\ l \in Nat /\ m \in Nat
      BY <1>2, <1>7, <1>9, <2>1, <3>1
    <3> QED
      BY <2>1, <3>2
  <2>2. CASE v = w /\ x # w
    <3>1. PICK i \in Slots : batch'[v][l] = tasks[i]
      BY <1>7, <1>9, <2>2
    <3>2. batch'[x] = batch[x]
      BY <1>3, <2>2
    <3> QED
      BY <3>1, <3>2 DEF PInv, Apart
  <2>3. CASE v # w /\ x = w
    <3>1. PICK i \in Slots : batch'[x][m] = tasks[i]
      BY <1>7, <1>9, <2>3
    <3>2. batch'[v] = batch[v]
      BY <1>3, <2>3
    <3> QED
      BY <3>1, <3>2 DEF PInv, Apart
  <2>4. CASE v # w /\ x # w
    BY <1>3, <2>4 DEF PInv, BatchOnce
  <2> QED
    BY <2>1, <2>2, <2>3, <2>4
<1>14. Apart'
  <2> SUFFICES ASSUME NEW x \in Workers, NEW m \in DOMAIN batch'[x],
                      NEW i \in Slots, tasks'[i] = batch'[x][m]
               PROVE  FALSE
    BY DEF Apart
  <2>1. CASE x = w
    <3>1. tasks'[i] # NoTask
      BY <1>7, <1>9, <2>1, TasksAssumption
    <3>2. i = Advance(queue_head, m - 1)
      BY <1>7, <1>8, <1>9, <2>1, <3>1 DEF PInv, RingOnce
    <3> QED
      BY <1>7, <1>8, <1>9, <2>1, <3>1, <3>2
  <2>2. CASE x # w
    <3>1. batch'[x] = batch[x] /\ batch[x][m] \in Tasks
      BY <1>3, <2>2, Elements
    <3>2. tasks'[i] # NoTask
      BY <3>1, TasksAssumption
    <3> QED
      BY <1>8, <3>1, <3>2 DEF PInv, Apart
  <2> QED
    BY <2>1, <2>2
<1>15. Located'
  <2> SUFFICES ASSUME NEW k \in Tasks, InRing(k) \/ InBatch(k)
               PROVE  InRing(k)' \/ InBatch(k)'
    BY <1>3 DEF PInv, Located
  <2>1. ASSUME NEW i \in Slots, tasks[i] = k PROVE InRing(k)' \/ InBatch(k)'
    <3>1. CASE Ahead(i)
      <4>1. /\ Offset(i, queue_head) + 1 \in 1 .. n
            /\ batch'[w][Offset(i, queue_head) + 1] = tasks[i]
        BY <1>2, <1>3, <3>1, FrontSlots DEF Ahead
      <4> QED
        BY <1>9, <2>1, <4>1 DEF InBatch
    <3>2. CASE ~Ahead(i)
      BY <1>3, <2>1, <3>2 DEF InRing
    <3> QED
      BY <3>1, <3>2
  <2>2. ASSUME NEW x \in Workers, NEW m \in DOMAIN batch[x], batch[x][m] = k
        PROVE  InBatch(k)'
    <3>1. x # w
      BY <1>6, <2>2
    <3> QED
      BY <1>3, <2>2, <3>1 DEF InBatch
  <2> QED
    BY <2>1, <2>2 DEF InRing, InBatch
<1>16. SpanOnce'
  BY <1>3 DEF PInv, SpanOnce
<1>17. ASSUME NEW u \in Threads PROVE StagedSlots(u)' /\ SpanStatus(u)'
  <2>1. SpanStatus(u)'
    BY <1>3 DEF PInv, SpanStatus
  <2>2. ASSUME pc'[u] = "e_publish", NEW i \in Slots, tasks'[i] # NoTask,
               Offset(i, queue_head') >= Published'
        PROVE  tasks'[i] = span[u][Offset(i, queue_head') - Published' + 1]
    <3>1. pc[u] = "e_publish"
      BY <1>4, <2>2
    <3>2. /\ Offset(i, queue_head) >= Published
          /\ Offset(i, queue_head') - Published' + 1
               = Offset(i, queue_head) - Published + 1
      BY <1>2, <1>5, <1>8, <1>10, <2>2
    <3>3. tasks[i] = span[u][Offset(i, queue_head) - Published + 1]
      BY <1>8, <2>2, <3>1, <3>2 DEF PInv, StagedSlots
    <3> QED
      BY <1>8, <2>2, <3>2, <3>3
  <2>3. StagedSlots(u)'
    BY <1>3, <2>2 DEF StagedSlots, Offset
  <2> QED
    BY <2>1, <2>3
<1>18. ASSUME NEW x \in Workers PROVE BatchStatus(x)' /\ EmptyBatch(x)'
  <2>1. CASE x = w
    <3>1. BatchStatus(x)'
      BY <1>3, <1>4, <1>7, <1>9, <2>1 DEF BatchStatus
    <3>2. ~Unladen(x)'
      BY <1>2, <1>3, <1>4, <2>1 DEF Unladen
    <3> QED
      BY <3>1, <3>2 DEF EmptyBatch
  <2>2. CASE x # w
    <3>1. pc'[x] = pc[x] /\ batch'[x] = batch[x] /\ claimed'[x] = claimed[x]
      BY <1>3, <1>4, <2>2 DEF Threads
    <3> QED
      BY <1>3, <3>1 DEF PInv, BatchStatus, EmptyBatch, Unladen
  <2> QED
    BY <2>1, <2>2
<1> QED
  BY <1>11, <1>12, <1>13, <1>14, <1>15, <1>16, <1>17, <1>18 DEF PInv

LEMMA WorkerClaimPlaced ==
  ASSUME IInv, IInv', PInv, NEW w \in Workers, WorkerClaim(w) PROVE PInv'
<1> DEFINE n == claimed[w]
           K == TasksIn(batch[w])
<1>1. /\ pc[w] = "w_claim" /\ w \in Threads /\ consumer_mutex = {w}
      /\ n \in 1 .. queue_state.pending
  BY DEF WorkerClaim, IInv, Exclusion, Reserved, Threads
<1>2. /\ UNCHANGED <<tasks, queue_head, batch, claimed, span, count>>
      /\ queue_state'.pending = queue_state.pending - n
      /\ status' = [k \in Tasks |-> IF k \in K THEN "claimed" ELSE status[k]]
      /\ consumer_mutex' = {}
  BY RingTypes DEF WorkerClaim, SetState, QueueState, ring, call
<1>3. pc'[w] = "w_check" /\ \A u \in Threads \ {w} : pc'[u] = pc[u]
  BY <1>1, RingTypes DEF WorkerClaim, Goto
<1>4. Published' = Published
  <2>1. Held = n
    BY <1>1, HeldNow DEF HeldIs
  <2>2. Held' = 0
    BY <1>2, HeldAndStagedNext
  <2> QED
    BY <1>1, <1>2, <2>1, <2>2, RingTypes DEF Published
<1>5. ASSUME NEW k \in Tasks
      PROVE  /\ k \notin K => status'[k] = status[k]
             /\ k \in K => status'[k] = "claimed" /\ status[k] = "queued"
  <2>1. k \in K => status[k] = "queued"
    BY <1>1 DEF PInv, BatchStatus, TasksIn
  <2> HIDE DEF K
  <2> QED
    BY <1>2, <2>1
<1>6. \A k : k \in K <=> \E m \in DOMAIN batch[w] : k = batch[w][m]
  BY DEF TasksIn
<1> HIDE DEF K
<1>7. SlotStatus'
  <2> SUFFICES ASSUME NEW i \in Slots, tasks[i] # NoTask
               PROVE  status'[tasks[i]] = status[tasks[i]]
    BY <1>2, <1>4 DEF PInv, SlotStatus, Offset
  <2>1. tasks[i] \notin K
    BY <1>6 DEF PInv, Apart
  <2> QED
    BY <1>5, <2>1, Elements
<1>8. RingOnce' /\ BatchOnce' /\ SpanOnce' /\ Apart'
  BY <1>2 DEF PInv, RingOnce, BatchOnce, SpanOnce, Apart
<1>9. Located'
  BY <1>2, <1>5 DEF PInv, Located, InRing, InBatch
<1>10. ASSUME NEW u \in Threads PROVE StagedSlots(u)' /\ SpanStatus(u)'
  <2>1. StagedSlots(u)'
    BY <1>2, <1>3, <1>4 DEF PInv, StagedSlots, Offset
  <2>2. ASSUME NEW m \in DOMAIN span[u] PROVE status'[span[u][m]] = "offered"
    BY <1>5, Elements DEF PInv, SpanStatus
  <2> QED
    BY <1>2, <2>1, <2>2 DEF SpanStatus
<1>11. ASSUME NEW x \in Workers PROVE BatchStatus(x)' /\ EmptyBatch(x)'
  <2>1. CASE x = w
    <3>1. ASSUME NEW m \in DOMAIN batch[x] PROVE status'[batch[x][m]] = "claimed"
      BY <1>5, <1>6, <2>1, Elements
    <3>2. BatchStatus(x)'
      BY <1>2, <1>3, <2>1, <3>1 DEF BatchStatus
    <3>3. ~Unladen(x)'
      BY <1>1, <1>2, <1>3, <2>1 DEF Unladen
    <3> QED
      BY <3>2, <3>3 DEF EmptyBatch
  <2>2. CASE x # w
    <3>1. pc'[x] = pc[x]
      BY <1>3, <2>2 DEF Threads
    <3>2. \A m \in DOMAIN batch[x] : batch[x][m] \notin K
      BY <1>6, <2>2 DEF PInv, BatchOnce
    <3>3. ASSUME NEW m \in DOMAIN batch[x]
          PROVE  status'[batch[x][m]] = status[batch[x][m]]
      BY <1>5, <3>2, Elements
    <3> QED
      BY <1>2, <3>1, <3>3 DEF PInv, BatchStatus, EmptyBatch, Unladen
  <2> QED
    BY <2>1, <2>2
<1> QED
  BY <1>7, <1>8, <1>9, <1>10, <1>11 DEF PInv
-----------------------------------------------------------------------------
(* Execution.                                                              *)

LEMMA ExecutePlaced ==
  ASSUME IInv, IInv', PInv, NEW w \in Workers, Execute(w) PROVE PInv'
<1> DEFINE k == Head(batch[w])
           len == Len(batch[w])
<1>1. /\ pc[w] \in {"w_exec", "w_settle"} /\ w \in Threads
      /\ batch[w] # <<>> /\ batch[w] \in Seq(Tasks)
  BY RingTypes DEF Execute, Threads, IInv, Busy, Free, NotifyLabels
<1>2. UNCHANGED <<queue_state, tasks, queue_head, claimed, span, count>>
  BY DEF Execute, word, ring, call
<1>3. /\ pc'[w] = IF len = 1 THEN "w_finish" ELSE "w_exec"
      /\ \A u \in Threads \ {w} : pc'[u] = pc[u]
  BY <1>1, RingTypes DEF Execute, Goto
<1>4. Published' = Published
  BY <1>1, <1>2, <1>3, HeldStill DEF Published, Moved
<1>5. /\ len \in Nat \ {0} /\ DOMAIN batch[w] = 1 .. len
      /\ 1 \in DOMAIN batch[w] /\ k = batch[w][1] /\ k \in Tasks
  <2>1. len \in Nat /\ DOMAIN batch[w] = 1 .. len /\ len # 0
    BY <1>1, LenProperties, EmptySeq
  <2>2. k = batch[w][1]
    BY <1>1
  <2> QED
    BY <2>1, <2>2, Elements
<1>6. PICK outcome \in Outcomes : status' = [status EXCEPT ![k] = outcome]
  BY DEF Execute
<1>7. /\ status[k] = "claimed" /\ status'[k] \notin {"queued", "claimed"}
      /\ \A j \in Tasks \ {k} : status'[j] = status[j]
  <2>1. status[k] = "claimed"
    BY <1>1, <1>5 DEF PInv, BatchStatus
  <2> QED
    BY <1>5, <1>6, <2>1, RingTypes, CallsAssumption
<1>8. /\ DOMAIN batch'[w] = 1 .. len - 1
      /\ \A m \in DOMAIN batch'[w] : /\ m + 1 \in DOMAIN batch[w] \ {1}
                                     /\ batch'[w][m] = batch[w][m + 1]
      /\ \A x \in Workers \ {w} : batch'[x] = batch[x]
  <2>1. /\ batch'[w] = Tail(batch[w])
        /\ \A x \in Workers \ {w} : batch'[x] = batch[x]
    BY RingTypes DEF Execute
  <2>2. /\ Tail(batch[w]) \in Seq(Tasks) /\ Len(Tail(batch[w])) = len - 1
        /\ \A m \in 1 .. Len(Tail(batch[w])) : Tail(batch[w])[m] = batch[w][m + 1]
    BY <1>1, HeadTailProperties
  <2>3. DOMAIN batch'[w] = 1 .. len - 1
    BY <2>1, <2>2, LenProperties
  <2>4. ASSUME NEW m \in DOMAIN batch'[w]
        PROVE  m + 1 \in DOMAIN batch[w] \ {1} /\ batch'[w][m] = batch[w][m + 1]
    BY <1>5, <2>1, <2>2, <2>3
  <2> QED
    BY <2>1, <2>3, <2>4
<1> HIDE DEF k, len
<1>9. ASSUME NEW x \in Workers, NEW m \in DOMAIN batch'[x]
      PROVE  \E n \in DOMAIN batch[x] :
               /\ batch'[x][m] = batch[x][n] /\ batch[x][n] \in Tasks \ {k}
               /\ n = IF x = w THEN m + 1 ELSE m
  <2>1. CASE x = w
    <3>1. m + 1 \in DOMAIN batch[w] /\ m + 1 # 1 /\ batch'[w][m] = batch[w][m + 1]
      BY <1>8, <2>1
    <3>2. batch[w][m + 1] # k
      BY <1>5, <3>1 DEF PInv, BatchOnce
    <3> QED
      BY <2>1, <3>1, <3>2, Elements
  <2>2. CASE x # w
    <3>1. batch'[x] = batch[x] /\ m \in DOMAIN batch[x]
      BY <1>8, <2>2
    <3>2. batch[x][m] # k
      BY <1>5, <2>2, <3>1 DEF PInv, BatchOnce
    <3> QED
      BY <2>2, <3>1, <3>2, Elements
  <2> QED
    BY <2>1, <2>2
<1>10. SlotStatus' /\ RingOnce'
  <2>1. ASSUME NEW i \in Slots, tasks[i] # NoTask
        PROVE  status'[tasks[i]] = status[tasks[i]]
    <3>1. tasks[i] # k
      BY <1>5 DEF PInv, Apart
    <3> QED
      BY <1>7, <2>1, <3>1, Elements
  <2> QED
    BY <1>2, <1>4, <2>1 DEF PInv, SlotStatus, RingOnce, Offset
<1>11. BatchOnce'
  <2> SUFFICES ASSUME NEW v \in Workers, NEW x \in Workers,
                      NEW l \in DOMAIN batch'[v], NEW m \in DOMAIN batch'[x],
                      batch'[v][l] = batch'[x][m]
               PROVE  v = x /\ l = m
    BY DEF BatchOnce
  <2>1. PICK i \in DOMAIN batch[v] :
          batch'[v][l] = batch[v][i] /\ i = IF v = w THEN l + 1 ELSE l
    BY <1>9
  <2>2. PICK j \in DOMAIN batch[x] :
          batch'[x][m] = batch[x][j] /\ j = IF x = w THEN m + 1 ELSE m
    BY <1>9
  <2>3. v = x /\ i = j
    <3>1. batch[v][i] = batch[x][j]
      BY <2>1, <2>2
    <3> QED
      BY <3>1 DEF PInv, BatchOnce
  <2>4. v = w => l \in Int /\ m \in Int
    BY <1>5, <1>8, <2>3
  <2> QED
    BY <2>1, <2>2, <2>3, <2>4
<1>12. Apart' /\ SpanOnce'
  <2>1. ASSUME NEW x \in Workers, NEW m \in DOMAIN batch'[x], NEW i \in Slots
        PROVE  tasks'[i] # batch'[x][m]
    BY <1>2, <1>9 DEF PInv, Apart
  <2> QED
    BY <1>2, <2>1 DEF PInv, Apart, SpanOnce
<1>13. Located'
  <2> SUFFICES ASSUME NEW j \in Tasks, status'[j] \in {"queued", "claimed"}
               PROVE  InRing(j)' \/ InBatch(j)'
    BY DEF Located
  <2>1. j # k /\ (InRing(j) \/ InBatch(j))
    BY <1>7 DEF PInv, Located
  <2>2. CASE InRing(j)
    BY <1>2, <2>2 DEF InRing
  <2>3. ASSUME NEW x \in Workers, NEW n \in DOMAIN batch[x], batch[x][n] = j
        PROVE  InBatch(j)'
    <3>1. CASE x = w
      <4>1. n \in 1 .. len /\ n # 1
        BY <1>5, <2>1, <2>3, <3>1
      <4>2. n - 1 \in DOMAIN batch'[w] /\ n - 1 + 1 = n
        BY <1>5, <1>8, <4>1
      <4>3. batch'[w][n - 1] = j
        BY <1>8, <2>3, <3>1, <4>2
      <4> QED
        BY <4>2, <4>3 DEF InBatch
    <3>2. CASE x # w
      BY <1>8, <2>3, <3>2 DEF InBatch
    <3> QED
      BY <3>1, <3>2
  <2> QED
    BY <2>1, <2>2, <2>3 DEF InBatch
<1>14. ASSUME NEW u \in Threads PROVE StagedSlots(u)' /\ SpanStatus(u)'
  <2>1. StagedSlots(u)'
    BY <1>1, <1>2, <1>3, <1>4 DEF PInv, StagedSlots, Offset
  <2>2. ASSUME NEW m \in DOMAIN span[u] PROVE status'[span[u][m]] = "offered"
    BY <1>7, Elements DEF PInv, SpanStatus
  <2> QED
    BY <1>2, <2>1, <2>2 DEF SpanStatus
<1>15. ASSUME NEW x \in Workers PROVE BatchStatus(x)' /\ EmptyBatch(x)'
  <2>1. pc'[x] = "w_claim" <=> pc[x] = "w_claim"
    BY <1>1, <1>3 DEF Threads
  <2>2. BatchStatus(x)'
    <3>1. ASSUME NEW m \in DOMAIN batch'[x]
          PROVE  status'[batch'[x][m]] =
                   IF pc[x] = "w_claim" THEN "queued" ELSE "claimed"
      <4>1. PICK n \in DOMAIN batch[x] :
              batch'[x][m] = batch[x][n] /\ batch[x][n] \in Tasks \ {k}
        BY <1>9
      <4> QED
        BY <1>7, <4>1 DEF PInv, BatchStatus
    <3> QED
      BY <2>1, <3>1 DEF BatchStatus
  <2>3. EmptyBatch(x)'
    <3>1. CASE x = w
      <4>1. ~Unladen(w)
        BY <1>1 DEF PInv, EmptyBatch
      <4>2. Unladen(w)' => len = 1
        BY <1>2, <1>3, <4>1 DEF Unladen
      <4>3. batch'[w] = Tail(batch[w])
        BY RingTypes DEF Execute
      <4>4. len = 1 => batch'[w] = <<>>
        <5>1. /\ Tail(batch[w]) \in Seq(Tasks)
              /\ Len(Tail(batch[w])) = Len(batch[w]) - 1
          BY <1>1, HeadTailProperties
        <5>2. len = 1 => Len(Tail(batch[w])) = 0
          BY <5>1 DEF len
        <5> QED
          BY <4>3, <5>1, <5>2, EmptySeq
      <4> QED
        BY <3>1, <4>2, <4>4 DEF EmptyBatch
    <3>2. CASE x # w
      <4>1. pc'[x] = pc[x] /\ batch'[x] = batch[x]
        BY <1>3, <1>8, <3>2 DEF Threads
      <4> QED
        BY <1>2, <4>1 DEF PInv, EmptyBatch, Unladen
    <3> QED
      BY <3>1, <3>2
  <2> QED
    BY <2>2, <2>3
<1> QED
  BY <1>10, <1>11, <1>12, <1>13, <1>14, <1>15 DEF PInv

LEMMA WorkerFinishPlaced ==
  ASSUME IInv, IInv', PInv, NEW w \in Workers, WorkerFinish(w) PROVE PInv'
<1>1. /\ pc[w] = "w_finish" /\ w \in Threads
      /\ UNCHANGED <<tasks, queue_head, status, batch, span, count>>
      /\ queue_state'.pending = queue_state.pending
      /\ \A x \in Workers \ {w} : claimed'[x] = claimed[x]
  BY RingTypes DEF WorkerFinish, Threads, ring, call, SetState, QueueState
<1>2. pc'[w] \in {"n_load", "w_load"} /\ \A u \in Threads \ {w} : pc'[u] = pc[u]
  BY <1>1, RingTypes DEF WorkerFinish, Goto
<1>3. Published' = Published
  BY <1>1, <1>2, HeldStill DEF Published, Moved
<1>4. \A x \in Workers : Unladen(x)' => Unladen(x)
  BY <1>1, <1>2 DEF Unladen, Threads
<1>5. Untouched
  BY <1>1, <1>2, <1>3, <1>4 DEF Untouched
<1> QED
  BY <1>5, UntouchedStep
-----------------------------------------------------------------------------
(* Cancellation.                                                           *)

LEMMA CancelDropPlaced ==
  ASSUME IInv, IInv', PInv, NEW t \in Threads, CancelDrop(t) PROVE PInv'
<1> DEFINE n == count[t]
           K == TasksIn(Front(n))
<1>1. /\ pc[t] = "c_drop" /\ producer_mutex = {t} /\ consumer_mutex = {t}
      /\ n = queue_state.pending /\ n \in 0 .. Capacity
  BY RingTypes DEF CancelDrop, IInv, Exclusion, Reserved, CancelLabels
<1>2. /\ UNCHANGED <<queue_state, claimed, batch, count, span>>
      /\ status' = [k \in Tasks |-> IF k \in K THEN "cancelled" ELSE status[k]]
      /\ \A i \in Slots : tasks'[i] =
           IF Offset(i, queue_head) < n THEN NoTask ELSE tasks[i]
  BY DEF CancelDrop, word, Emptied
<1>3. /\ pc'[t] = IF n # 0 THEN "c_sub" ELSE AfterCancel(t)
      /\ \A u \in Threads \ {t} : pc'[u] = pc[u]
  BY RingTypes DEF CancelDrop, Goto
<1>4. Engaged = n /\ Published = n /\ Published' = 0
  <2>1. Held = 0 /\ Staged = 0
    BY <1>1, HeldAndStaged
  <2>2. Held' = n
    <3>1. CASE n # 0
      BY <1>2, <1>3, <3>1, HeldNext DEF HeldIs
    <3>2. CASE n = 0
      BY <1>1, <3>2, HeldAndStagedNext DEF CancelDrop
    <3> QED
      BY <3>1, <3>2
  <2> QED
    BY <1>1, <1>2, <2>1, <2>2, RingTypes DEF Engaged, Published
<1>5. \A i \in Slots : tasks'[i] = NoTask
  BY <1>2, <1>4, PublishedType
<1>6. \A k \in K : \E i \in Slots : tasks[i] = k /\ k # NoTask /\ status[k] = "queued"
  <2> SUFFICES ASSUME NEW m \in DOMAIN Front(n)
               PROVE  \E i \in Slots : /\ tasks[i] = Front(n)[m]
                                       /\ tasks[i] # NoTask
                                       /\ status[tasks[i]] = "queued"
    BY DEF TasksIn
  <2> DEFINE i == Advance(queue_head, m - 1)
  <2>1. /\ m \in 1 .. n /\ i \in Slots /\ Offset(i, queue_head) = m - 1
        /\ Front(n)[m] = tasks[i]
    BY <1>1, FrontSlots
  <2>2. Offset(i, queue_head) < n
    BY <1>1, <2>1
  <2>3. tasks[i] # NoTask
    BY <1>4, <2>1, <2>2, PublishedType
  <2> QED
    BY <1>4, <2>1, <2>2, <2>3 DEF PInv, SlotStatus
<1>7. \A i \in Slots : tasks[i] # NoTask => tasks[i] \in K
  BY <1>1, <1>4, PublishedType, FrontSlots DEF TasksIn
<1> HIDE DEF K
<1>8. ASSUME NEW k \in Tasks
      PROVE  /\ k \notin K => status'[k] = status[k]
             /\ k \in K => status'[k] = "cancelled" /\ status[k] = "queued"
  BY <1>2, <1>6
<1>9. SlotStatus' /\ RingOnce' /\ BatchOnce' /\ SpanOnce'
  BY <1>2, <1>5 DEF PInv, SlotStatus, RingOnce, BatchOnce, SpanOnce
<1>10. \A w \in Workers : \A m \in DOMAIN batch[w] : batch[w][m] \notin K
  BY <1>6 DEF PInv, Apart
<1>11. Apart'
  BY <1>2, <1>5, Elements, TasksAssumption DEF Apart
<1>12. Located'
  <2> SUFFICES ASSUME NEW k \in Tasks, status'[k] \in {"queued", "claimed"}
               PROVE  InBatch(k)'
    BY DEF Located
  <2>1. k \notin K /\ status'[k] = status[k]
    BY <1>8
  <2>2. ~InRing(k)
    BY <1>7, <2>1, TasksAssumption DEF InRing
  <2> QED
    BY <1>2, <2>1, <2>2 DEF PInv, Located, InBatch
<1>13. ASSUME NEW u \in Threads PROVE StagedSlots(u)' /\ SpanStatus(u)'
  <2>1. StagedSlots(u)'
    BY <1>5 DEF StagedSlots
  <2>2. ASSUME NEW m \in DOMAIN span[u] PROVE status'[span[u][m]] = "offered"
    BY <1>8, Elements DEF PInv, SpanStatus
  <2> QED
    BY <1>2, <2>1, <2>2 DEF SpanStatus
<1>14. ASSUME NEW w \in Workers PROVE BatchStatus(w)' /\ EmptyBatch(w)'
  <2>1. w \in Threads /\ AfterCancel(t) \in {"w_settle", "idle", "s_request"}
    BY AfterCancelIs DEF Threads
  <2>2. /\ pc'[w] = "w_claim" <=> pc[w] = "w_claim"
        /\ pc'[w] \in {"w_take", "w_finish"} <=> pc[w] \in {"w_take", "w_finish"}
    BY <1>1, <1>3, <2>1
  <2>3. \A m \in DOMAIN batch[w] : status'[batch[w][m]] = status[batch[w][m]]
    BY <1>8, <1>10, Elements
  <2>4. BatchStatus(w)'
    BY <1>2, <2>2, <2>3 DEF PInv, BatchStatus
  <2>5. EmptyBatch(w)'
    BY <1>2, <2>2 DEF PInv, EmptyBatch, Unladen
  <2> QED
    BY <2>4, <2>5
<1> QED
  BY <1>9, <1>11, <1>12, <1>13, <1>14 DEF PInv

LEMMA CancelSubPlaced ==
  ASSUME IInv, IInv', PInv, NEW t \in Threads, CancelSub(t) PROVE PInv'
<1>1. /\ pc[t] = "c_sub" /\ count[t] = queue_state.pending
      /\ UNCHANGED <<tasks, queue_head, status, batch, span, claimed>>
      /\ queue_state'.pending = queue_state.pending - count[t]
  BY RingTypes DEF CancelSub, IInv, Reserved, work, ring, SetState, QueueState
<1>2. pc'[t] = "c_idle" /\ \A u \in Threads \ {t} : pc'[u] = pc[u]
  BY RingTypes DEF CancelSub, Goto
<1>3. Published' = Published
  <2>1. Held = count[t]
    BY <1>1, HeldNow DEF HeldIs
  <2>2. Held' = 0
    <3>1. consumer_mutex' = {t}
      BY <1>1 DEF CancelSub, locks, IInv, Exclusion, CancelLabels
    <3> QED
      BY <1>2, <3>1, HeldAndStagedNext
  <2> QED
    BY <1>1, <2>1, <2>2, RingTypes DEF Published
<1>4. Untouched
  BY <1>1, <1>2, <1>3 DEF Untouched, Unladen, Threads
<1> QED
  BY <1>4, UntouchedStep
-----------------------------------------------------------------------------
(* PInv is inductive relative to IInv.                                     *)

LEMMA PInvInit == Init => PInv
<1> SUFFICES ASSUME Init PROVE PInv
  OBVIOUS
<1>1. \A i \in Slots : tasks[i] = NoTask
  BY DEF Init
<1>2. \A w \in Workers : batch[w] = <<>>
  BY DEF Init
<1>3. \A t \in Threads : span[t] = <<>>
  BY DEF Init
<1>4. \A k \in Tasks : status[k] = "caller"
  BY DEF Init
<1>5. SlotStatus /\ RingOnce /\ BatchOnce /\ SpanOnce /\ Apart /\ Located
  BY <1>1, <1>2, <1>3, <1>4
     DEF SlotStatus, RingOnce, BatchOnce, SpanOnce, Apart, Located
<1>6. \A t \in Threads : StagedSlots(t) /\ SpanStatus(t)
  BY <1>1, <1>3 DEF StagedSlots, SpanStatus
<1>7. \A w \in Workers : BatchStatus(w) /\ EmptyBatch(w)
  BY <1>2 DEF BatchStatus, EmptyBatch
<1> QED
  BY <1>5, <1>6, <1>7 DEF PInv

LEMMA PInvStep == IInv /\ IInv' /\ PInv /\ [Next]_vars => PInv'
<1> SUFFICES ASSUME IInv, IInv', PInv, [Next]_vars PROVE PInv'
  OBVIOUS
<1>1. ASSUME NEW t \in Threads, Still(t) PROVE PInv'
  BY <1>1, StillStep, UntouchedStep
<1>2. ASSUME NEW t \in Threads, Call(t) PROVE PInv'
  BY <1>1, <1>2, CallEnqueuePlaced, WaitStill, CancelStill DEF Call
<1>3. ASSUME NEW t \in Threads, Enqueue(t) PROVE PInv'
  <2>1. CASE EnqueueSlot(t) \/ EnqueuePublish(t)
    BY <2>1, EnqueueSlotPlaced, EnqueuePublishPlaced
  <2>2. CASE ~EnqueueSlot(t) /\ ~EnqueuePublish(t)
    <3>1. Still(t) \/ (pc[t] \in {"e_load", "e_lock"} /\ Refuse(t))
      BY <1>3, <2>2, EnqueueStill DEF Enqueue
    <3> QED
      BY <1>1, <3>1, RefusePlaced
  <2> QED
    BY <2>1, <2>2
<1>4. ASSUME NEW w \in Workers, Run(w) PROVE PInv'
  <2>1. w \in Threads
    BY DEF Threads
  <2>2. CASE WorkerLock(w) \/ WorkerTake(w) \/ WorkerClaim(w)
    BY <2>2, WorkerLockPlaced, WorkerTakePlaced, WorkerClaimPlaced
  <2>3. CASE Execute(w) \/ WorkerFinish(w)
    BY <2>3, ExecutePlaced, WorkerFinishPlaced
  <2>4. CASE \/ WorkerLoad(w) \/ WorkerInc(w) \/ WorkerObserve(w)
             \/ WorkerWait(w) \/ WorkerDec(w) \/ WorkerCheck(w)
             \/ WorkerNotify(w)
    BY <1>1, <2>1, <2>4, RunStill
  <2> QED
    BY <1>4, <2>2, <2>3, <2>4 DEF Run
<1>5. ASSUME NEW t \in Threads, CancelPending(t) PROVE PInv'
  BY <1>1, <1>5, CancelStill, CancelDropPlaced, CancelSubPlaced
     DEF CancelPending
<1>6. ASSUME NEW t \in Threads,
             Wait(t) \/ NotifyIdle(t) \/ Shutdown(t) \/ Construct(t)
      PROVE  PInv'
  BY <1>1, <1>6, WaitStill, NotifyStill, ShutdownStill, ConstructStill
<1>7. CASE UNCHANGED vars
  <2>1. Held' = Held
    BY <1>7 DEF vars, Held, Holder
  <2>2. Untouched
    BY <1>7, <2>1 DEF vars, Untouched, Published, Unladen
  <2> QED
    BY <2>2, UntouchedStep
<1> QED
  BY <1>2, <1>3, <1>4, <1>5, <1>6, <1>7 DEF Next, Step, Rest

\* PInv holds in every state of every behaviour.
THEOREM Placement == Spec => []PInv
<1>1. Init => IInv /\ PInv
  BY IInvInit, PInvInit
<1>2. IInv /\ PInv /\ [Next]_vars => IInv' /\ PInv'
  BY IInvStep, PInvStep
<1> QED
  BY <1>1, <1>2, PTL DEF Spec
-----------------------------------------------------------------------------
(* Every accepted task is in one place.                                    *)

\* At most one place has a task, and none if the task is nowhere.
LEMMA PlacesOf ==
  ASSUME IInv, PInv, NEW k \in Tasks
  PROVE  /\ \A p, q \in Places(k) : p = q
         /\ InRing(k) \/ InBatch(k) <=> Places(k) # {}
         /\ InRing(k) => status[k] \in {"queued", "offered"}
         /\ InBatch(k) => status[k] \in {"queued", "claimed"}
<1> DEFINE slots == {<<i>> : i \in {j \in Slots : tasks[j] = k}}
           items == UNION {{<<w, i>> :
                             i \in {j \in DOMAIN batch[w] : batch[w][j] = k}} :
                           w \in Workers}
<1>1. Places(k) = slots \cup items
  BY DEF Places
<1>2. k # NoTask
  BY TasksAssumption
<1>3. \A p \in slots : \E i \in Slots : p = <<i>> /\ tasks[i] = k
  OBVIOUS
<1>4. \A p \in items : \E w \in Workers : \E i \in DOMAIN batch[w] :
        p = <<w, i>> /\ batch[w][i] = k
  OBVIOUS
<1>5. InRing(k) <=> slots # {}
  BY DEF InRing
<1>6. InBatch(k) <=> items # {}
  <2>1. ASSUME NEW w \in Workers, NEW i \in DOMAIN batch[w], batch[w][i] = k
        PROVE  <<w, i>> \in items
    BY <2>1
  <2> HIDE DEF items
  <2> QED
    BY <1>4, <2>1 DEF InBatch
<1> HIDE DEF slots, items
<1>7. ~(InRing(k) /\ InBatch(k))
  BY DEF PInv, Apart, InRing, InBatch
<1>8. \A p, q \in slots : p = q
  BY <1>2, <1>3 DEF PInv, RingOnce
<1>9. \A p, q \in items : p = q
  <2> SUFFICES ASSUME NEW p \in items, NEW q \in items PROVE p = q
    OBVIOUS
  <2>1. PICK v \in Workers :
          \E i \in DOMAIN batch[v] : p = <<v, i>> /\ batch[v][i] = k
    BY <1>4
  <2>2. PICK w \in Workers :
          \E j \in DOMAIN batch[w] : q = <<w, j>> /\ batch[w][j] = k
    BY <1>4
  <2> QED
    BY <2>1, <2>2 DEF PInv, BatchOnce
<1>10. InRing(k) => status[k] \in {"queued", "offered"}
  BY <1>2 DEF PInv, SlotStatus, InRing
<1>11. InBatch(k) => status[k] \in {"queued", "claimed"}
  BY DEF PInv, BatchStatus, InBatch
<1> QED
  BY <1>1, <1>5, <1>6, <1>7, <1>8, <1>9, <1>10, <1>11

LEMMA PlacedFollows ==
  ASSUME IInv, PInv PROVE TasksPlaced
<1> SUFFICES ASSUME NEW k \in Tasks
             PROVE  CASE status[k] \in {"queued", "claimed"} ->
                           Cardinality(Places(k)) = 1
                      [] status[k] = "offered" -> Cardinality(Places(k)) <= 1
                      [] OTHER -> Places(k) = {}
  BY DEF TasksPlaced
<1>1. Places(k) = {} \/ \E p : Places(k) = {p}
  BY PlacesOf
<1>2. Cardinality(Places(k)) <= 1 /\ (Places(k) # {} => Cardinality(Places(k)) = 1)
  <2>1. CASE Places(k) = {}
    <3>1. Cardinality(Places(k)) = 0
      BY <2>1, FS_EmptySet, Zenon
    <3> QED
      BY <2>1, <3>1
  <2>2. ASSUME NEW p, Places(k) = {p} PROVE Cardinality(Places(k)) = 1
    <3>1. Cardinality({p}) = 1
      BY FS_Singleton
    <3> QED
      BY <2>2, <3>1
  <2> QED
    BY <1>1, <2>1, <2>2
<1>3. status[k] \in {"queued", "claimed"} => Places(k) # {}
  BY PlacesOf DEF PInv, Located
<1>4. Places(k) # {} => status[k] \in {"queued", "claimed", "offered"}
  BY PlacesOf
<1>5. CASE status[k] \in {"queued", "claimed"}
  BY <1>2, <1>3, <1>5
<1>6. CASE status[k] = "offered"
  BY <1>2, <1>6
<1>7. CASE status[k] \notin {"queued", "claimed", "offered"}
  BY <1>4, <1>7
<1> QED
  BY <1>5, <1>6, <1>7

\* Whatever submissions, workers, cancellations and shutdowns interleave, and
\* whichever slots wrap around: an accepted task is in one slot of the ring or
\* in one worker's batch until it has an outcome, and in none after it, so
\* that it is not lost, not run twice, and not both run and cancelled.
THEOREM TasksArePlaced == Spec => []TasksPlaced
<1>1. IInv /\ PInv => TasksPlaced
  BY PlacedFollows
<1> QED
  BY <1>1, Invariance, Placement, PTL
-----------------------------------------------------------------------------
(* Every failure is counted once.                                          *)

\* The tasks that each counter counts.
Failed == {k \in Tasks \ Tracked : status[k] \in {"error", "exception"}}
Cancelled == {k \in Tasks \ Tracked : status[k] = "cancelled"}

LEMMA CountsAre ==
  FailuresAccounted <=> /\ failed_dispatches = Cardinality(Failed)
                        /\ cancelled_dispatches = Cardinality(Cancelled)
BY DEF FailuresAccounted, Failed, Cancelled

LEMMA CountsAreNext ==
  FailuresAccounted' <=> /\ failed_dispatches' = Cardinality(Failed')
                         /\ cancelled_dispatches' = Cardinality(Cancelled')
BY DEF FailuresAccounted, Failed, Cancelled

LEMMA CountedFinite == IsFiniteSet(Failed) /\ IsFiniteSet(Cancelled)
<1>1. Failed \subseteq Tasks /\ Cancelled \subseteq Tasks
  BY DEF Failed, Cancelled
<1> QED
  BY <1>1, TasksAssumption, FS_Subset

\* A step that ends no task and counts none.
Ends == {"error", "exception", "cancelled"}
EndsKept ==
  /\ UNCHANGED failures
  /\ \A k \in Tasks :
       status'[k] = status[k] \/ (status[k] \notin Ends /\ status'[k] \notin Ends)

LEMMA EndsKeptStep ==
  ASSUME FailuresAccounted, EndsKept PROVE FailuresAccounted'
<1>1. Failed' = Failed /\ Cancelled' = Cancelled
  BY DEF EndsKept, Ends, Failed, Cancelled
<1> QED
  BY <1>1, CountsAre, CountsAreNext DEF EndsKept, failures

LEMMA MoveEnds ==
  ASSUME NEW t, NEW label, Move(t, label) PROVE EndsKept
BY DEF Move, EndsKept, work

LEMMA RefuseEnds ==
  ASSUME IInv, PInv, NEW t \in Threads, Refuse(t) PROVE EndsKept
<1> DEFINE K == TasksIn(span[t])
<1>1. \A k \in K : status[k] = "offered"
  BY DEF PInv, SpanStatus, TasksIn
<1>2. status' = [k \in Tasks |-> IF k \in K THEN "rejected" ELSE status[k]]
  BY DEF Refuse
<1> HIDE DEF K
<1> QED
  BY <1>1, <1>2 DEF Refuse, EndsKept, Ends

LEMMA CallEnds ==
  ASSUME IInv, PInv, NEW t \in Threads, Call(t) PROVE EndsKept
<1>1. CASE CallEnqueue(t)
  <2>1. PICK s \in Seq(Tasks) :
          /\ \A k \in TasksIn(s) : status[k] = "caller"
          /\ status' = [k \in Tasks |->
                         IF k \in TasksIn(s) THEN "offered" ELSE status[k]]
    BY <1>1, SpansAssumption DEF CallEnqueue
  <2> QED
    BY <1>1, <2>1 DEF CallEnqueue, EndsKept, Ends
<1>2. CASE CallWait(t) \/ CallControl(t)
  BY <1>2 DEF CallWait, CallControl, EndsKept, work
<1> QED
  BY <1>1, <1>2 DEF Call

LEMMA EnqueueEnds ==
  ASSUME IInv, PInv, NEW t \in Threads, Enqueue(t) PROVE EndsKept
<1>1. CASE \/ EnqueueLoad(t) \/ EnqueueInc(t) \/ EnqueueObserve(t)
           \/ EnqueueWait(t) \/ EnqueueDec(t) \/ EnqueueLock(t)
  BY <1>1, RefuseEnds, MoveEnds
     DEF EnqueueLoad, EnqueueInc, EnqueueObserve, EnqueueWait, EnqueueDec,
         EnqueueLock, EndsKept, work
<1>2. CASE EnqueueSlot(t) \/ EnqueueCheck(t) \/ EnqueueNotify(t)
  BY <1>2 DEF EnqueueSlot, EnqueueCheck, EnqueueNotify, EndsKept, work
<1>3. CASE EnqueuePublish(t)
  <2> DEFINE K == TasksIn(SubSeq(span[t], 1, count[t]))
  <2>1. count[t] \in 0 .. Len(span[t]) /\ span[t] \in Seq(Tasks)
    BY <1>3, RingTypes, LenProperties, CapacityAssumption
       DEF EnqueuePublish, IInv, Reserved
  <2>2. \A k : k \in K <=> \E m \in 1 .. count[t] : k = span[t][m]
    BY <2>1, Split
  <2>3. \A m \in 1 .. count[t] : m \in DOMAIN span[t]
    BY <2>1, LenProperties
  <2>4. \A k \in K : status[k] = "offered"
    BY <2>2, <2>3 DEF PInv, SpanStatus
  <2>5. status' = [k \in Tasks |-> IF k \in K THEN "queued" ELSE status[k]]
    BY <1>3 DEF EnqueuePublish
  <2> HIDE DEF K
  <2> QED
    BY <1>3, <2>4, <2>5 DEF EnqueuePublish, EndsKept, Ends
<1> QED
  BY <1>1, <1>2, <1>3 DEF Enqueue

LEMMA RunEnds ==
  ASSUME IInv, PInv, NEW w \in Workers, Run(w), ~Execute(w) PROVE EndsKept
<1>1. CASE \/ WorkerLoad(w) \/ WorkerInc(w) \/ WorkerObserve(w)
           \/ WorkerWait(w) \/ WorkerDec(w) \/ WorkerCheck(w)
           \/ WorkerNotify(w)
  BY <1>1, MoveEnds
     DEF WorkerLoad, WorkerInc, WorkerObserve, WorkerWait, WorkerDec,
         WorkerCheck, WorkerNotify, EndsKept, work
<1>2. CASE WorkerLock(w) \/ WorkerTake(w) \/ WorkerFinish(w)
  BY <1>2, MoveEnds DEF WorkerLock, WorkerTake, WorkerFinish, EndsKept
<1>3. CASE WorkerClaim(w)
  <2> DEFINE K == TasksIn(batch[w])
  <2>1. \A k \in K : status[k] = "queued"
    BY <1>3 DEF WorkerClaim, PInv, BatchStatus, TasksIn
  <2>2. status' = [k \in Tasks |-> IF k \in K THEN "claimed" ELSE status[k]]
    BY <1>3 DEF WorkerClaim
  <2> HIDE DEF K
  <2> QED
    BY <1>3, <2>1, <2>2 DEF WorkerClaim, EndsKept, Ends
<1> QED
  BY <1>1, <1>2, <1>3 DEF Run

LEMMA OtherEnds ==
  ASSUME NEW t \in Threads,
         \/ Wait(t) \/ NotifyIdle(t) \/ Shutdown(t) \/ Construct(t)
         \/ CancelPending(t) /\ ~CancelDrop(t)
  PROVE  EndsKept
<1>1. CASE Wait(t)
  BY <1>1, MoveEnds
     DEF Wait, IdleCheck, IdleInc, IdleEpoch, IdleRecheck, IdleWait, IdleDec,
         EndsKept, work
<1>2. CASE NotifyIdle(t)
  BY <1>2, MoveEnds
     DEF NotifyIdle, NotifyLoad, NotifyEpoch, NotifyWake, EndsKept, work
<1>3. CASE Shutdown(t)
  BY <1>3
     DEF Shutdown, ShutdownLock, SignalStop, SignalRequest, SignalNotify,
         ShutdownSwap, ShutdownJoin, EndsKept, work
<1>4. CASE Construct(t)
  BY <1>4
     DEF Construct, ConstructStop, ConstructNotify, ConstructJoin, EndsKept, work
<1>5. CASE CancelPending(t) /\ ~CancelDrop(t)
  BY <1>5, MoveEnds
     DEF CancelPending, CancelLock, CancelSub, CancelIdle, CancelNotify,
         EndsKept, work
<1> QED
  BY <1>1, <1>2, <1>3, <1>4, <1>5

LEMMA ExecuteCounts ==
  ASSUME IInv, PInv, FailuresAccounted, NEW w \in Workers, Execute(w)
  PROVE  FailuresAccounted'
<1> DEFINE k == Head(batch[w])
<1>1. /\ pc[w] \in {"w_exec", "w_settle"}
      /\ batch[w] # <<>> /\ batch[w] \in Seq(Tasks)
  BY RingTypes DEF Execute, Threads, IInv, Busy, Free, NotifyLabels
<1>2. k \in Tasks /\ status[k] = "claimed"
  <2>1. 1 \in DOMAIN batch[w] /\ k = batch[w][1]
    BY <1>1, LenProperties, EmptySeq
  <2> QED
    BY <1>1, <2>1, Elements DEF PInv, BatchStatus
<1>3. PICK outcome \in Outcomes :
        /\ status' = [status EXCEPT ![k] = outcome]
        /\ failed_dispatches' = failed_dispatches + IF Fails(k, outcome) THEN 1 ELSE 0
  BY DEF Execute
<1>4. cancelled_dispatches' = cancelled_dispatches
  BY DEF Execute
<1> HIDE DEF k
<1>5. /\ status'[k] = outcome /\ outcome \in {"value", "error", "exception"}
      /\ \A j \in Tasks \ {k} : status'[j] = status[j]
  BY <1>2, <1>3, RingTypes, CallsAssumption
<1>6. Cancelled' = Cancelled
  BY <1>2, <1>5 DEF Cancelled
<1>7. CASE Fails(k, outcome)
  <2>1. Failed' = Failed \cup {k} /\ k \notin Failed
    BY <1>2, <1>5, <1>7 DEF Failed, Fails
  <2>2. Cardinality(Failed') = Cardinality(Failed) + 1
    BY <2>1, CountedFinite, FS_AddElement
  <2>3. failed_dispatches' = failed_dispatches + 1
    BY <1>3, <1>7
  <2> QED
    BY <1>4, <1>6, <2>2, <2>3, CountsAre, CountsAreNext
<1>8. CASE ~Fails(k, outcome)
  <2>1. Failed' = Failed
    BY <1>2, <1>5, <1>8 DEF Failed, Fails
  <2>2. failed_dispatches' = failed_dispatches
    BY <1>3, <1>8 DEF IInv, TypeOK
  <2> QED
    BY <1>4, <1>6, <2>1, <2>2, CountsAre, CountsAreNext
<1> QED
  BY <1>7, <1>8

LEMMA CancelDropCounts ==
  ASSUME IInv, PInv, FailuresAccounted, NEW t \in Threads, CancelDrop(t)
  PROVE  FailuresAccounted'
<1> DEFINE n == count[t]
           K == TasksIn(Front(n))
<1>1. /\ pc[t] = "c_drop" /\ producer_mutex = {t} /\ consumer_mutex = {t}
      /\ n = queue_state.pending /\ n \in 0 .. Capacity
  BY RingTypes DEF CancelDrop, IInv, Exclusion, Reserved, CancelLabels
<1>2. /\ status' = [k \in Tasks |-> IF k \in K THEN "cancelled" ELSE status[k]]
      /\ cancelled_dispatches' = cancelled_dispatches + Cardinality(K \ Tracked)
      /\ failed_dispatches' = failed_dispatches
  BY DEF CancelDrop
<1>3. \A k \in K : k \in Tasks /\ status[k] = "queued"
  <2>1. Held = 0 /\ Staged = 0
    BY <1>1, HeldAndStaged
  <2>2. Engaged = n /\ Published = n
    BY <1>1, <2>1, RingTypes DEF Engaged, Published
  <2> SUFFICES ASSUME NEW m \in DOMAIN Front(n)
               PROVE  Front(n)[m] \in Tasks /\ status[Front(n)[m]] = "queued"
    BY DEF TasksIn
  <2> DEFINE i == Advance(queue_head, m - 1)
  <2>3. /\ m \in 1 .. n /\ i \in Slots /\ Offset(i, queue_head) = m - 1
        /\ Front(n)[m] = tasks[i]
    BY <1>1, FrontSlots
  <2>4. Offset(i, queue_head) < n
    BY <1>1, <2>3
  <2>5. tasks[i] # NoTask
    BY <2>2, <2>3, <2>4, PublishedType
  <2> QED
    BY <2>2, <2>3, <2>4, <2>5, Elements DEF PInv, SlotStatus
<1> HIDE DEF n, K
<1>4. Failed' = Failed
  BY <1>2, <1>3 DEF Failed
<1>5. Cancelled' = Cancelled \cup (K \ Tracked)
  BY <1>2, <1>3 DEF Cancelled
<1>6. Cancelled \cap (K \ Tracked) = {}
  BY <1>3 DEF Cancelled
<1>7. IsFiniteSet(K \ Tracked)
  <2>1. K \ Tracked \subseteq Tasks
    BY <1>3
  <2> QED
    BY <2>1, TasksAssumption, FS_Subset
<1>8. Cardinality(Cancelled') = Cardinality(Cancelled) + Cardinality(K \ Tracked)
  <2>1. /\ Cardinality(Cancelled) \in Nat /\ Cardinality(K \ Tracked) \in Nat
        /\ Cardinality({}) = 0
    BY <1>7, CountedFinite, FS_CardinalityType, FS_EmptySet
  <2>2. Cardinality(Cancelled') =
          Cardinality(Cancelled) + Cardinality(K \ Tracked) - Cardinality({})
    BY <1>5, <1>6, <1>7, CountedFinite, FS_Union
  <2> QED
    BY <2>1, <2>2
<1> QED
  BY <1>2, <1>4, <1>8, CountsAre, CountsAreNext

LEMMA FailuresInit == Init => FailuresAccounted
<1> SUFFICES ASSUME Init PROVE FailuresAccounted
  OBVIOUS
<1>1. Failed = {} /\ Cancelled = {}
  BY DEF Init, Failed, Cancelled
<1> QED
  BY <1>1, CountsAre, FS_EmptySet DEF Init

LEMMA FailuresStep ==
  IInv /\ PInv /\ FailuresAccounted /\ [Next]_vars => FailuresAccounted'
<1> SUFFICES ASSUME IInv, PInv, FailuresAccounted, [Next]_vars
             PROVE  FailuresAccounted'
  OBVIOUS
<1>1. CASE \E t \in Threads : CancelDrop(t)
  BY <1>1, CancelDropCounts
<1>2. CASE \E w \in Workers : Execute(w)
  BY <1>2, ExecuteCounts
<1>3. CASE \E t \in Threads : Call(t)
  BY <1>3, CallEnds, EndsKeptStep
<1>4. CASE \E t \in Threads : Enqueue(t)
  BY <1>4, EnqueueEnds, EndsKeptStep
<1>5. CASE \E w \in Workers : Run(w) /\ ~Execute(w)
  BY <1>5, RunEnds, EndsKeptStep
<1>6. CASE \E t \in Threads :
             \/ Wait(t) \/ NotifyIdle(t) \/ Shutdown(t) \/ Construct(t)
             \/ CancelPending(t) /\ ~CancelDrop(t)
  BY <1>6, OtherEnds, EndsKeptStep
<1>7. CASE UNCHANGED vars
  <2>1. EndsKept
    BY <1>7 DEF vars, EndsKept, failures
  <2> QED
    BY <2>1, EndsKeptStep
<1> QED
  BY <1>1, <1>2, <1>3, <1>4, <1>5, <1>6, <1>7 DEF Next, Step, Rest

\* The counters that failed_dispatches() and cancelled_dispatches() read are
\* exact after every step: each task without a future that ended in an error
\* or an exception, or that cancel_pending dropped, was counted once, and no
\* other.
THEOREM FailuresCounted == Spec => []FailuresAccounted
<1>1. Init => IInv /\ PInv /\ FailuresAccounted
  BY IInvInit, PInvInit, FailuresInit
<1>2. IInv /\ PInv /\ FailuresAccounted /\ [Next]_vars =>
        IInv' /\ PInv' /\ FailuresAccounted'
  BY IInvStep, PInvStep, FailuresStep
<1> QED
  BY <1>1, <1>2, PTL DEF Spec
-----------------------------------------------------------------------------
(* What wait() may conclude from the packed counts.                        *)

\* A step of t moves nobody else but sleepers.
LEMMA OthersMoved ==
  ASSUME IInv, NEW t \in Threads, Call(t) \/ Step(t)
  PROVE  \A u \in Threads \ {t} : Moved(u)
<1>1. ASSUME NEW label, Goto(t, label)
      PROVE  \A u \in Threads \ {t} : Moved(u)
  BY <1>1, RingTypes DEF Goto, Moved
<1>2. CASE Still(t)
  BY <1>2 DEF Still
<1>3. CASE Call(t)
  BY <1>1, <1>2, <1>3, WaitStill, CancelStill DEF Call, CallEnqueue
<1>4. CASE Enqueue(t)
  <2>1. CASE EnqueueSlot(t) \/ EnqueuePublish(t)
    BY <1>1, <2>1 DEF EnqueueSlot, EnqueuePublish
  <2>2. CASE ~EnqueueSlot(t) /\ ~EnqueuePublish(t)
    <3>1. Still(t) \/ Refuse(t)
      BY <1>4, <2>2, EnqueueStill DEF Enqueue
    <3> QED
      BY <1>1, <1>2, <3>1 DEF Refuse
  <2> QED
    BY <2>1, <2>2
<1>5. CASE t \in Workers /\ Run(t)
  <2>1. CASE WorkerTake(t) \/ WorkerClaim(t) \/ Execute(t) \/ WorkerFinish(t)
    BY <1>1, <2>1 DEF WorkerTake, WorkerClaim, Execute, WorkerFinish
  <2>2. CASE WorkerLock(t)
    BY <1>1, <2>2 DEF WorkerLock, Move
  <2>3. CASE \/ WorkerLoad(t) \/ WorkerInc(t) \/ WorkerObserve(t)
             \/ WorkerWait(t) \/ WorkerDec(t) \/ WorkerCheck(t)
             \/ WorkerNotify(t)
    BY <1>2, <2>3, RunStill
  <2> QED
    BY <1>5, <2>1, <2>2, <2>3 DEF Run
<1>6. CASE CancelPending(t)
  <2>1. CASE CancelDrop(t) \/ CancelSub(t)
    BY <1>1, <2>1 DEF CancelDrop, CancelSub
  <2> QED
    BY <1>2, <1>6, <2>1, CancelStill DEF CancelPending
<1>7. CASE Wait(t) \/ NotifyIdle(t) \/ Shutdown(t) \/ Construct(t)
  BY <1>2, <1>7, WaitStill, NotifyStill, ShutdownStill, ConstructStill
<1> QED
  BY <1>3, <1>4, <1>5, <1>6, <1>7 DEF Step

\* wait() returns from its look at the packed word.
LEMMA ReturnsIdle ==
  ASSUME IInv, [Next]_vars, NEW t \in Threads,
         pc[t] = "i_check", pc'[t] = "idle"
  PROVE  is_idle
<1>1. CASE UNCHANGED vars
  BY <1>1 DEF vars
<1>2. ASSUME NEW u \in Threads, Call(u) \/ Step(u) PROVE is_idle
  <2>1. u = t
    BY <1>2, OthersMoved DEF Moved
  <2>2. ~Call(t) /\ ~Enqueue(t) /\ ~Run(t)
    BY DEF Call, CallEnqueue, CallWait, CallControl, MayCall, Running, Enqueue,
           EnqueueLoad, EnqueueInc, EnqueueObserve, EnqueueWait, EnqueueDec,
           EnqueueLock, EnqueueSlot, EnqueuePublish, EnqueueCheck,
           EnqueueNotify, Run, WorkerLoad, WorkerInc, WorkerObserve,
           WorkerWait, WorkerDec, WorkerLock, WorkerTake, WorkerClaim,
           WorkerCheck, WorkerNotify, Execute, WorkerFinish
  <2>3. ~NotifyIdle(t) /\ ~CancelPending(t) /\ ~Shutdown(t) /\ ~Construct(t)
    BY DEF NotifyIdle, NotifyLoad, NotifyEpoch, NotifyWake, CancelPending,
           CancelLock, CancelDrop, CancelSub, CancelIdle, CancelNotify,
           Shutdown, ShutdownLock, SignalStop, SignalRequest, SignalNotify,
           ShutdownSwap, ShutdownJoin, Construct, ConstructStop,
           ConstructNotify, ConstructJoin
  <2>4. IdleCheck(t)
    <3>1. Wait(t)
      BY <1>2, <2>1, <2>2, <2>3 DEF Step
    <3> QED
      BY <3>1 DEF Wait, IdleInc, IdleEpoch, IdleRecheck, IdleWait, IdleDec
  <2> QED
    BY <2>4, RingTypes DEF IdleCheck, Move, Goto
<1> QED
  BY <1>1, <1>2 DEF Next, Rest

\* No batch is larger than bulk_claim_size.
ClaimsSmall == \A w \in Workers : claimed[w] <= BulkClaim

LEMMA ClaimsSmallStep ==
  ASSUME IInv, ClaimsSmall, [Next]_vars PROVE ClaimsSmall'
<1>1. CASE UNCHANGED claimed
  BY <1>1 DEF ClaimsSmall
<1>2. ASSUME NEW w \in Workers, WorkerLock(w) PROVE ClaimsSmall'
  <2>1. CASE Move(w, "w_load")
    BY <1>1, <2>1 DEF Move, work
  <2>2. CASE claimed' = [claimed EXCEPT ![w] =
                          Least(BulkClaim, queue_state.pending)]
    BY <2>2, RingTypes, CountAssumption DEF ClaimsSmall, Least
  <2> QED
    BY <1>2, <2>1, <2>2 DEF WorkerLock
<1>3. ASSUME NEW w \in Workers, WorkerTake(w) PROVE ClaimsSmall'
  <2>1. claimed[w] \in 1 .. queue_state.pending
    BY <1>3 DEF WorkerTake, IInv, Reserved, Threads
  <2>2. ClaimSize(claimed[w]) \in 1 .. claimed[w]
    BY <2>1, ClaimSizeType
  <2>3. claimed' = [claimed EXCEPT ![w] = ClaimSize(claimed[w])]
    BY <1>3 DEF WorkerTake
  <2>4. claimed'[w] <= BulkClaim
    BY <2>2, <2>3, RingTypes, CountAssumption DEF ClaimsSmall
  <2> QED
    BY <2>3, <2>4, RingTypes DEF ClaimsSmall
<1>4. ASSUME NEW w \in Workers, WorkerFinish(w) PROVE ClaimsSmall'
  <2>1. claimed' = [claimed EXCEPT ![w] = 0]
    BY <1>4 DEF WorkerFinish
  <2> QED
    BY <2>1, RingTypes, CountAssumption DEF ClaimsSmall
<1>5. ASSUME NEW t \in Threads, Call(t) PROVE ClaimsSmall'
  BY <1>1, <1>5 DEF Call, CallEnqueue, CallWait, CallControl, work
<1>6. ASSUME NEW t \in Threads, Enqueue(t) PROVE ClaimsSmall'
  <2>1. CASE EnqueueSlot(t) \/ EnqueuePublish(t)
    BY <1>1, <2>1 DEF EnqueueSlot, EnqueuePublish
  <2>2. CASE ~EnqueueSlot(t) /\ ~EnqueuePublish(t)
    <3>1. Still(t) \/ Refuse(t)
      BY <1>6, <2>2, EnqueueStill DEF Enqueue
    <3> QED
      BY <1>1, <3>1 DEF Still, Refuse
  <2> QED
    BY <2>1, <2>2
<1>7. ASSUME NEW w \in Workers, Run(w) PROVE ClaimsSmall'
  <2>1. CASE WorkerClaim(w) \/ Execute(w)
    BY <1>1, <2>1 DEF WorkerClaim, Execute
  <2>2. CASE \/ WorkerLoad(w) \/ WorkerInc(w) \/ WorkerObserve(w)
             \/ WorkerWait(w) \/ WorkerDec(w) \/ WorkerCheck(w)
             \/ WorkerNotify(w)
    BY <1>1, <2>2, RunStill DEF Still, Threads
  <2> QED
    BY <1>2, <1>3, <1>4, <1>7, <2>1, <2>2 DEF Run
<1>8. ASSUME NEW t \in Threads, CancelPending(t) PROVE ClaimsSmall'
  <2>1. CASE CancelDrop(t) \/ CancelSub(t)
    BY <1>1, <2>1 DEF CancelDrop, CancelSub, work
  <2> QED
    BY <1>1, <1>8, <2>1, CancelStill DEF CancelPending, Still
<1>9. ASSUME NEW t \in Threads,
             Wait(t) \/ NotifyIdle(t) \/ Shutdown(t) \/ Construct(t)
      PROVE  ClaimsSmall'
  BY <1>1, <1>9, WaitStill, NotifyStill, ShutdownStill, ConstructStill DEF Still
<1>10. CASE UNCHANGED vars
  BY <1>1, <1>10 DEF vars
<1> QED
  BY <1>5, <1>6, <1>7, <1>8, <1>9, <1>10 DEF Next, Step, Rest

\* All claims together fit the active field of the word: what the
\* static_asserts, which bound the number of threads alone, leave open.
NoWrap == Cardinality(Workers) * BulkClaim < 2 ^ CountBits

LEMMA ActiveFits ==
  ASSUME IInv, ClaimsSmall, NoWrap
  PROVE  active_from_state(queue_state) = queue_state.active
<1> DEFINE all == Workers \X (1 .. BulkClaim)
<1>1. Claims \subseteq all
  <2> SUFFICES ASSUME NEW x \in Claims PROVE x \in all
    OBVIOUS
  <2>1. /\ x \in Workers \X (1 .. Capacity)
        /\ x[1] \in Workers /\ x[2] \in 1 .. Capacity /\ x[2] <= claimed[x[1]]
    BY DEF Claims
  <2>2. x[2] \in 1 .. BulkClaim
    BY <2>1, RingTypes, CountAssumption, CapacityAssumption DEF ClaimsSmall
  <2> QED
    BY <2>1, <2>2
<1>2. IsFiniteSet(Workers) /\ Cardinality(Workers) \in Nat
  <2>1. IsFiniteSet(Workers)
    BY ThreadsAssumption, FS_Subset DEF Threads
  <2> QED
    BY <2>1, FS_CardinalityType
<1>3. IsFiniteSet(1 .. BulkClaim) /\ Cardinality(1 .. BulkClaim) = BulkClaim
  <2>1. 1 \in Int /\ BulkClaim \in Int /\ BulkClaim >= 1
    BY CountAssumption
  <2> QED
    BY <2>1, FS_Interval
<1>4. /\ IsFiniteSet(all)
      /\ Cardinality(all) = Cardinality(Workers) * Cardinality(1 .. BulkClaim)
  BY <1>2, <1>3, FS_Product, Zenon
<1> HIDE DEF all
<1>5. Cardinality(Claims) <= Cardinality(all)
  BY <1>1, <1>4, FS_Subset
<1>6. 2 ^ CountBits \in Int
  BY CountAssumption
<1>7. queue_state.active < 2 ^ CountBits
  <2>1. queue_state.active <= Cardinality(Workers) * BulkClaim
    BY <1>3, <1>4, <1>5 DEF IInv, ActiveCounted
  <2>2. Cardinality(Workers) * BulkClaim \in Nat
    BY <1>2, CountAssumption
  <2> DEFINE most == Cardinality(Workers) * BulkClaim
             field == 2 ^ CountBits
  <2>3. most < field /\ most \in Nat /\ field \in Int
    BY <1>6, <2>2 DEF NoWrap
  <2>4. queue_state.active <= most
    BY <2>1
  <2> HIDE DEF most, field
  <2>5. queue_state.active < field
    BY <2>3, <2>4, RingTypes
  <2> QED
    BY <2>5 DEF field
<1>8. ASSUME NEW m \in Nat, NEW n \in Int, m < n PROVE m % n = m
  BY <1>8
<1> QED
  BY <1>6, <1>7, <1>8, RingTypes DEF active_from_state

\* Where the queue and the batches are empty, nothing is accepted and unfinished.
LEMMA EmptyMeansDone ==
  ASSUME IInv, PInv, queue_state.pending = 0, \A w \in Workers : batch[w] = <<>>
  PROVE  \A k \in Tasks : status[k] \notin {"queued", "claimed"}
<1>1. Published = 0
  BY PublishedType, HeldType DEF Published
<1>2. ASSUME NEW i \in Slots, tasks[i] # NoTask
      PROVE  status[tasks[i]] = "offered"
  <2>1. ~(Offset(i, queue_head) < 0)
    BY OffsetType, RingTypes DEF Slots
  <2> QED
    BY <1>1, <1>2, <2>1 DEF PInv, SlotStatus
<1> SUFFICES ASSUME NEW k \in Tasks, status[k] \in {"queued", "claimed"}
             PROVE  FALSE
  OBVIOUS
<1>3. InRing(k) \/ InBatch(k)
  BY DEF PInv, Located
<1>4. ~InRing(k)
  BY <1>2, TasksAssumption DEF InRing
<1>5. ~InBatch(k)
  BY DEF InBatch
<1> QED
  BY <1>3, <1>4, <1>5

\* A word that counts nothing means that nothing is accepted and unfinished.
LEMMA IdleMeansDone ==
  ASSUME IInv, PInv, ClaimsSmall, NoWrap, is_idle
  PROVE  \A k \in Tasks : status[k] \notin {"queued", "claimed"}
<1>1. queue_state.pending = 0 /\ queue_state.active = 0
  BY ActiveFits DEF is_idle
<1>2. Claims = {}
  BY <1>1, ClaimsFinite, FS_EmptySet DEF IInv, ActiveCounted
<1>3. ASSUME NEW w \in Workers PROVE batch[w] = <<>>
  <2>1. pc[w] \notin {"w_take", "w_claim"}
    BY <1>1 DEF IInv, Reserved, Threads
  <2>2. claimed[w] = 0
    <3> SUFFICES ASSUME claimed[w] # 0 PROVE FALSE
      OBVIOUS
    <3>1. claimed[w] \in 1 .. Capacity
      BY RingTypes, CapacityAssumption
    <3>2. <<w, claimed[w]>> \in Claims
      BY <2>1, <3>1, CapacityAssumption DEF Claims
    <3> QED
      BY <1>2, <3>2
  <2> QED
    BY <2>2 DEF PInv, EmptyBatch, Unladen
<1> QED
  BY <1>1, <1>3, EmptyMeansDone

\* Where the claims of all workers together cannot overflow the active count,
\* wait() returns only in a state in which every accepted task has its
\* outcome, although it reads nothing but the packed word, without a lock.
THEOREM WaitersSeeIdle ==
  ASSUME NoWrap
  PROVE  Spec => WaitReturnsIdle
<1>1. Init => IInv /\ PInv /\ ClaimsSmall
  <2>1. Init => ClaimsSmall
    BY CountAssumption DEF Init, ClaimsSmall
  <2> QED
    BY <2>1, IInvInit, PInvInit
<1>2. IInv /\ PInv /\ ClaimsSmall /\ [Next]_vars =>
        IInv' /\ PInv' /\ ClaimsSmall'
  BY IInvStep, PInvStep, ClaimsSmallStep
<1>3. IInv /\ PInv /\ ClaimsSmall /\ [Next]_vars =>
        [\A t \in Waiters : pc[t] = "i_check" /\ pc'[t] = "idle"
           => \A k \in Tasks : status[k] \notin {"queued", "claimed"}]_vars
  <2> SUFFICES ASSUME IInv, PInv, ClaimsSmall, [Next]_vars, NEW t \in Waiters,
                      pc[t] = "i_check", pc'[t] = "idle"
               PROVE  \A k \in Tasks : status[k] \notin {"queued", "claimed"}
    OBVIOUS
  <2>1. is_idle
    BY ReturnsIdle DEF Threads, Clients
  <2> QED
    BY <2>1, IdleMeansDone
<1> QED
  BY <1>1, <1>2, <1>3, PTL DEF Spec, WaitReturnsIdle
=============================================================================
