-------------------------- MODULE WorkerPoolProofs --------------------------
(***************************************************************************)
(* Proofs about WorkerPool, for any number of threads, tasks, slots and    *)
(* calls: the two mutexes exclude, the ring and the packed counts agree    *)
(* (RingOK), no counter underflows and every variable keeps its type.      *)
(*                                                                         *)
(* The counters make TypeOK far from inductive: that pending, active and   *)
(* the waiting counters never go below zero, and pending never above       *)
(* Capacity, needs to know who holds a mutex, what each thread has read    *)
(* under it, and which threads each counter counts.  IInv says all that.   *)
(***************************************************************************)
EXTENDS WorkerPool, FiniteSetTheorems, SequenceTheorems, TLAPS

(* The inductive invariant.                                                *)

CancelLabels == {"c_drop", "c_sub", "c_idle", "c_notify"}
NotifyLabels == {"n_load", "n_epoch", "n_notify"}

\* Who is at a step of a critical section holds its mutex, and only they.
Exclusion(t) ==
  /\ pc[t] \in {"e_slot", "e_publish"} \cup CancelLabels => producer_mutex = {t}
  /\ pc[t] \in {"w_take", "w_claim"} \cup CancelLabels => consumer_mutex = {t}
  /\ producer_mutex = {t} =>
       pc[t] \in {"e_slot", "e_publish"} \cup CancelLabels \cup NotifyLabels
  /\ consumer_mutex = {t} =>
       pc[t] \in {"w_take", "w_claim"} \cup CancelLabels \cup NotifyLabels
  /\ pc[t] \in NotifyLabels => (producer_mutex = {t} <=> consumer_mutex = {t})

\* What a thread has computed under a mutex still fits the pending count.
Reserved(t) ==
  /\ pc[t] \in {"e_slot", "e_publish"} =>
       /\ queue_state.pending + count[t] <= Capacity
       /\ count[t] <= Len(span[t])
  /\ pc[t] \in {"w_take", "w_claim"} =>
       t \in Workers /\ claimed[t] \in 1 .. queue_state.pending
  /\ pc[t] \in {"c_drop", "c_sub"} => count[t] = queue_state.pending

\* A worker is between batches, and has then claimed nothing.
Free(w) ==
  \/ pc[w] \in {"w_load", "w_inc", "w_obs", "w_wait", "w_sleep", "w_dec",
                "w_lock", "exited"}
  \/ pc[w] \in NotifyLabels /\ consumer_mutex # {w}
Busy(w) ==
  /\ Free(w) => claimed[w] = 0
  /\ ~Free(w) /\ pc[w] \notin {"w_take", "w_finish"} => batch[w] # <<>>

\* Each waiting counter counts the threads between its two updates.
At(labels) == {t \in Threads : pc[t] \in labels}
SpaceLabels == {"e_obs", "e_wait", "e_sleep", "e_dec"}
WorkLabels == {"w_obs", "w_wait", "w_sleep", "w_dec"}
IdleLabels == {"i_epoch", "i_recheck", "i_wait", "i_sleep", "i_dec"}
Counted ==
  /\ waiting_producers = Cardinality(At(SpaceLabels))
  /\ waiting_workers = Cardinality(At(WorkLabels))
  /\ waiting_for_idle = Cardinality(At(IdleLabels))

\* The active count is what the workers past their claim have claimed.
Claims ==
  {x \in Workers \X (1 .. Capacity) :
     pc[x[1]] \notin {"w_take", "w_claim"} /\ x[2] <= claimed[x[1]]}
ActiveCounted == queue_state.active = Cardinality(Claims)

EligibleSleep == eligible \subseteq QueueSleepers

IInv ==
  /\ TypeOK
  /\ \A t \in Threads : Exclusion(t) /\ Reserved(t)
  /\ \A w \in Workers : Busy(w)
  /\ Counted /\ ActiveCounted /\ EligibleSleep
  /\ RingOK
-----------------------------------------------------------------------------
(* How a step moves the threads: t to a label, sleepers to compare again.  *)

Sleeping == {"e_sleep", "w_sleep", "i_sleep"}
Moved(u) ==
  \/ pc'[u] = pc[u]
  \/ pc[u] = "e_sleep" /\ pc'[u] = "e_wait"
  \/ pc[u] = "w_sleep" /\ pc'[u] = "w_wait"
  \/ pc[u] = "i_sleep" /\ pc'[u] = "i_wait"
Moves(t, label) ==
  /\ pc' \in [Threads -> Labels]
  /\ pc'[t] = label
  /\ \A u \in Threads \ {t} : Moved(u)
  /\ EligibleSleep'

LEMMA GotoMoves ==
  ASSUME TypeOK, EligibleSleep, NEW t \in Threads, NEW label \in Labels,
         pc[t] \notin Sleeping, Goto(t, label), eligible' = eligible
  PROVE  Moves(t, label)
<1>1. pc' \in [Threads -> Labels] /\ pc'[t] = label
  BY DEF TypeOK, Goto
<1>2. \A u \in Threads \ {t} : Moved(u)
  BY DEF TypeOK, Goto, Moved
<1>3. EligibleSleep'
  BY DEF TypeOK, Goto, EligibleSleep, QueueSleepers, Sleeping
<1> QED
  BY <1>1, <1>2, <1>3 DEF Moves

\* The step modifies the word, so that all who sleep on it become eligible.
LEMMA StateMoves ==
  ASSUME TypeOK, NEW t \in Threads, NEW label \in Labels, NEW q,
         pc[t] \notin Sleeping, Goto(t, label), SetState(q)
  PROVE  Moves(t, label)
<1>1. pc' \in [Threads -> Labels] /\ pc'[t] = label
  BY DEF TypeOK, Goto
<1>2. \A u \in Threads \ {t} : Moved(u)
  BY DEF TypeOK, Goto, Moved
<1>3. EligibleSleep'
  BY DEF TypeOK, Goto, SetState, EligibleSleep, QueueSleepers, Sleeping
<1> QED
  BY <1>1, <1>2, <1>3 DEF Moves

LEMMA WakeMoves ==
  ASSUME TypeOK, EligibleSleep, NEW t \in Threads, NEW label \in Labels,
         pc[t] \notin Sleeping,
         NEW S \in SUBSET Threads, \A u \in S : pc[u] \in Sleeping,
         Wake(S, t, label), eligible' \subseteq eligible,
         \A u \in S : u \notin eligible'
  PROVE  Moves(t, label)
<1>1. pc' \in [Threads -> Labels] /\ pc'[t] = label
  BY DEF TypeOK, Wake, Labels
<1>2. \A u \in Threads \ {t} : Moved(u)
  BY DEF TypeOK, Wake, Moved, Sleeping
<1>3. \A u \in Threads \ S : u # t => pc'[u] = pc[u]
  BY DEF TypeOK, Wake
<1>4. EligibleSleep'
  BY <1>3 DEF TypeOK, EligibleSleep, QueueSleepers, Sleeping
<1> QED
  BY <1>1, <1>2, <1>4 DEF Moves

LEMMA NotifyAllMoves ==
  ASSUME TypeOK, EligibleSleep, NEW t \in Threads, NEW label \in Labels,
         pc[t] \notin Sleeping, NotifyAll(t, label)
  PROVE  Moves(t, label)
BY WakeMoves DEF NotifyAll, QueueSleepers, Sleeping

LEMMA NotifyOneMoves ==
  ASSUME TypeOK, EligibleSleep, NEW t \in Threads, NEW label \in Labels,
         pc[t] \notin Sleeping, NotifyOne(t, label)
  PROVE  Moves(t, label)
<1>1. CASE NotifyAll(t, label)
  BY <1>1, NotifyAllMoves
<1>2. CASE Goto(t, label) /\ UNCHANGED eligible
  BY <1>2, GotoMoves
<1>3. ASSUME NEW u \in eligible, Wake({u}, t, label),
             eligible' = eligible \ {u}
      PROVE  Moves(t, label)
  <2>1. u \in Threads /\ pc[u] \in Sleeping
    BY DEF EligibleSleep, QueueSleepers, Sleeping
  <2> QED
    BY <1>3, <2>1, WakeMoves
<1> QED
  BY <1>1, <1>2, <1>3 DEF NotifyOne
-----------------------------------------------------------------------------
(* Facts about the counters and the holders.                               *)

LEMMA HolderIs == \A t \in Threads : Holder({t}) = t
BY DEF Holder

LEMMA HeldAndStaged ==
  /\ consumer_mutex = {} => Held = 0
  /\ producer_mutex = {} => Staged = 0
  /\ \A t \in Threads :
       /\ consumer_mutex = {t} =>
            Held = IF pc[t] = "w_claim" THEN claimed[t]
                   ELSE IF pc[t] = "c_sub" THEN count[t] ELSE 0
       /\ producer_mutex = {t} =>
            Staged = IF pc[t] = "e_publish" THEN count[t] ELSE 0
BY HolderIs DEF Held, Staged

LEMMA HeldAndStagedNext ==
  /\ consumer_mutex' = {} => Held' = 0
  /\ producer_mutex' = {} => Staged' = 0
  /\ \A t \in Threads :
       /\ consumer_mutex' = {t} =>
            Held' = IF pc'[t] = "w_claim" THEN claimed'[t]
                    ELSE IF pc'[t] = "c_sub" THEN count'[t] ELSE 0
       /\ producer_mutex' = {t} =>
            Staged' = IF pc'[t] = "e_publish" THEN count'[t] ELSE 0
BY HolderIs DEF Held, Staged

LEMMA AtFinite ==
  ASSUME NEW labels
  PROVE  IsFiniteSet(At(labels)) /\ Cardinality(At(labels)) \in Nat
<1>1. IsFiniteSet(At(labels))
  BY ThreadsAssumption, FS_Subset DEF At
<1> QED
  BY <1>1, FS_CardinalityType

\* A set of labels closed under waking up counts t when t enters, and no more
\* when t leaves.
LEMMA AtMoves ==
  ASSUME TypeOK, NEW t \in Threads, NEW label, Moves(t, label),
         NEW labels, "e_sleep" \in labels <=> "e_wait" \in labels,
         "w_sleep" \in labels <=> "w_wait" \in labels,
         "i_sleep" \in labels <=> "i_wait" \in labels
  PROVE  /\ (pc[t] \in labels <=> label \in labels) =>
              At(labels)' = At(labels)
         /\ pc[t] \notin labels /\ label \in labels =>
              Cardinality(At(labels)') = Cardinality(At(labels)) + 1
         /\ pc[t] \in labels /\ label \notin labels =>
              Cardinality(At(labels)') = Cardinality(At(labels)) - 1
<1>1. \A u \in Threads \ {t} : pc'[u] \in labels <=> pc[u] \in labels
  BY DEF Moves, Moved
<1>2. pc'[t] = label
  BY DEF Moves
<1>3. CASE pc[t] \in labels <=> label \in labels
  BY <1>1, <1>2, <1>3 DEF At
<1>4. CASE pc[t] \notin labels /\ label \in labels
  <2>1. At(labels)' = At(labels) \cup {t} /\ t \notin At(labels)
    BY <1>1, <1>2, <1>4 DEF At
  <2> QED
    BY <1>4, <2>1, AtFinite, FS_AddElement
<1>5. CASE pc[t] \in labels /\ label \notin labels
  <2>1. At(labels)' = At(labels) \ {t} /\ t \in At(labels)
    BY <1>1, <1>2, <1>5 DEF At
  <2> QED
    BY <1>5, <2>1, AtFinite, FS_RemoveElement
<1> QED
  BY <1>3, <1>4, <1>5

\* The counters stay exact under a step that moves t and counts it.
LEMMA CountedStep ==
  ASSUME TypeOK, Counted, NEW t \in Threads, NEW label \in Labels,
         Moves(t, label),
         waiting_producers' = waiting_producers
           + (IF label \in SpaceLabels THEN 1 ELSE 0)
           - (IF pc[t] \in SpaceLabels THEN 1 ELSE 0),
         waiting_workers' = waiting_workers
           + (IF label \in WorkLabels THEN 1 ELSE 0)
           - (IF pc[t] \in WorkLabels THEN 1 ELSE 0),
         waiting_for_idle' = waiting_for_idle
           + (IF label \in IdleLabels THEN 1 ELSE 0)
           - (IF pc[t] \in IdleLabels THEN 1 ELSE 0)
  PROVE  /\ Counted' /\ waiting_producers' \in Nat
         /\ waiting_workers' \in Nat /\ waiting_for_idle' \in Nat
<1>1. waiting_producers' = Cardinality(At(SpaceLabels))'
  <2>1. /\ (pc[t] \in SpaceLabels <=> label \in SpaceLabels) =>
              At(SpaceLabels)' = At(SpaceLabels)
        /\ pc[t] \notin SpaceLabels /\ label \in SpaceLabels =>
             Cardinality(At(SpaceLabels)') = Cardinality(At(SpaceLabels)) + 1
        /\ pc[t] \in SpaceLabels /\ label \notin SpaceLabels =>
             Cardinality(At(SpaceLabels)') = Cardinality(At(SpaceLabels)) - 1
    BY AtMoves DEF SpaceLabels
  <2> QED
    BY <2>1, AtFinite DEF Counted
<1>2. waiting_workers' = Cardinality(At(WorkLabels))'
  <2>1. /\ (pc[t] \in WorkLabels <=> label \in WorkLabels) =>
              At(WorkLabels)' = At(WorkLabels)
        /\ pc[t] \notin WorkLabels /\ label \in WorkLabels =>
             Cardinality(At(WorkLabels)') = Cardinality(At(WorkLabels)) + 1
        /\ pc[t] \in WorkLabels /\ label \notin WorkLabels =>
             Cardinality(At(WorkLabels)') = Cardinality(At(WorkLabels)) - 1
    BY AtMoves DEF WorkLabels
  <2> QED
    BY <2>1, AtFinite DEF Counted
<1>3. waiting_for_idle' = Cardinality(At(IdleLabels))'
  <2>1. /\ (pc[t] \in IdleLabels <=> label \in IdleLabels) =>
              At(IdleLabels)' = At(IdleLabels)
        /\ pc[t] \notin IdleLabels /\ label \in IdleLabels =>
             Cardinality(At(IdleLabels)') = Cardinality(At(IdleLabels)) + 1
        /\ pc[t] \in IdleLabels /\ label \notin IdleLabels =>
             Cardinality(At(IdleLabels)') = Cardinality(At(IdleLabels)) - 1
    BY AtMoves DEF IdleLabels
  <2> QED
    BY <2>1, AtFinite DEF Counted
<1>4. /\ IsFiniteSet(At(SpaceLabels)') /\ IsFiniteSet(At(WorkLabels)')
      /\ IsFiniteSet(At(IdleLabels)')
  BY ThreadsAssumption, FS_Subset DEF At
<1> QED
  BY <1>1, <1>2, <1>3, <1>4, FS_CardinalityType DEF Counted
-----------------------------------------------------------------------------
(* A quiet step: t moves outside of the labels at which it holds a part of *)
(* the ring, and leaves the ring, the mutexes and the counts alone.        *)

GuardedLabels == {"e_slot", "e_publish", "w_take", "w_claim", "c_drop", "c_sub",
                  "w_finish"}
Quiet(t, label) ==
  /\ Moves(t, label)
  /\ pc[t] \notin GuardedLabels /\ label \notin GuardedLabels
  /\ UNCHANGED <<ring, producer_mutex, consumer_mutex, claimed, batch>>
  /\ queue_state'.pending = queue_state.pending
  /\ queue_state'.active = queue_state.active
  /\ \A u \in Threads \ {t} : count'[u] = count[u] /\ span'[u] = span[u]
  /\ Exclusion(t)'
  /\ Free(t)' <=> Free(t)

\* The parts of the invariant other than the types and the counters.
Shared ==
  /\ \A t \in Threads : Exclusion(t) /\ Reserved(t)
  /\ \A w \in Workers : Busy(w)
  /\ ActiveCounted /\ EligibleSleep
  /\ RingOK

LEMMA QuietStep ==
  ASSUME IInv, NEW t \in Threads, NEW label \in Labels, Quiet(t, label)
  PROVE  Shared'
<1>1. \A u \in Threads \ {t} : Moved(u)
  BY DEF Quiet, Moves
<1>2. pc'[t] = label
  BY DEF Quiet, Moves
<1>3. ASSUME NEW u \in Threads PROVE Exclusion(u)'
  <2>1. CASE u = t
    BY <2>1 DEF Quiet
  <2>2. CASE u # t
    <3>1. Moved(u) /\ Exclusion(u)
      BY <1>1, <2>2 DEF IInv
    <3> QED
      BY <3>1 DEF Moved, Exclusion, Quiet, CancelLabels, NotifyLabels
  <2> QED
    BY <2>1, <2>2
<1>4. ASSUME NEW u \in Threads PROVE Reserved(u)'
  <2>1. CASE u = t
    BY <1>2, <2>1 DEF Quiet, Reserved, GuardedLabels
  <2>2. CASE u # t
    <3>1. Moved(u) /\ Reserved(u)
      BY <1>1, <2>2 DEF IInv
    <3> QED
      BY <2>2, <3>1 DEF Moved, Reserved, Quiet
  <2> QED
    BY <2>1, <2>2
<1>5. ASSUME NEW w \in Workers PROVE Busy(w)'
  <2>1. CASE w = t
    BY <1>2, <2>1 DEF IInv, Busy, Quiet, GuardedLabels
  <2>2. CASE w # t
    <3>1. Moved(w) /\ Busy(w)
      BY <1>1, <2>2 DEF IInv, Threads
    <3> QED
      BY <3>1 DEF Moved, Busy, Free, Quiet, NotifyLabels
  <2> QED
    BY <2>1, <2>2
<1>6. ActiveCounted'
  <2>1. \A w \in Workers :
          pc'[w] \in {"w_take", "w_claim"} <=> pc[w] \in {"w_take", "w_claim"}
    BY <1>1, <1>2 DEF Moved, Quiet, GuardedLabels, Threads
  <2>2. Claims' = Claims
    BY <2>1 DEF Claims, Quiet
  <2> QED
    BY <2>2 DEF ActiveCounted, IInv, Quiet
<1>7. RingOK'
  <2>1. Held' = Held
    <3>1. CASE consumer_mutex = {}
      BY <3>1, HeldAndStaged, HeldAndStagedNext DEF Quiet
    <3>2. ASSUME NEW u \in Threads, consumer_mutex = {u} PROVE Held' = Held
      <4>1. consumer_mutex' = {u}
        BY <3>2 DEF Quiet
      <4>2. CASE u = t
        BY <1>2, <3>2, <4>1, <4>2, HeldAndStaged, HeldAndStagedNext
           DEF Quiet, GuardedLabels
      <4>3. CASE u # t
        BY <1>1, <3>2, <4>1, <4>3, HeldAndStaged, HeldAndStagedNext
           DEF Quiet, Moved
      <4> QED
        BY <4>2, <4>3
    <3> QED
      BY <3>1, <3>2 DEF IInv, TypeOK, Holders
  <2>2. Staged' = Staged
    <3>1. CASE producer_mutex = {}
      BY <3>1, HeldAndStaged, HeldAndStagedNext DEF Quiet
    <3>2. ASSUME NEW u \in Threads, producer_mutex = {u}
          PROVE  Staged' = Staged
      <4>1. producer_mutex' = {u}
        BY <3>2 DEF Quiet
      <4>2. CASE u = t
        BY <1>2, <3>2, <4>1, <4>2, HeldAndStaged, HeldAndStagedNext
           DEF Quiet, GuardedLabels
      <4>3. CASE u # t
        BY <1>1, <3>2, <4>1, <4>3, HeldAndStaged, HeldAndStagedNext
           DEF Quiet, Moved
      <4> QED
        BY <4>2, <4>3
    <3> QED
      BY <3>1, <3>2 DEF IInv, TypeOK, Holders
  <2> QED
    BY <2>1, <2>2 DEF RingOK, Engaged, IInv, Quiet, ring, Advance
<1>8. EligibleSleep'
  BY DEF Quiet, Moves
<1> QED
  BY <1>3, <1>4, <1>5, <1>6, <1>7, <1>8 DEF Shared
-----------------------------------------------------------------------------
(* The steps that hold no part of the ring.                                *)

FreeLabels == {"w_load", "w_inc", "w_obs", "w_wait", "w_sleep", "w_dec",
               "w_lock", "exited"}
OrdinaryLabels ==
  Labels \ (GuardedLabels \cup CancelLabels \cup NotifyLabels)

\* The types of the variables that an ordinary step may change.
TypeOrdinary ==
  /\ queue_state \in QueueState
  /\ shutdown_mutex \in Holders
  /\ workers \subseteq Workers /\ workers_to_join \subseteq Workers
  /\ stop_requested \subseteq Workers
  /\ completion_epoch \in Nat
  /\ failed_dispatches \in Nat /\ cancelled_dispatches \in Nat
  /\ status \in [Tasks -> Statuses]
  /\ observed \in [Threads -> QueueState] /\ epoch \in [Threads -> Nat]
  /\ span \in [Threads -> Seq(Tasks)] /\ count \in [Threads -> 0 .. Capacity]
  /\ mode \in [Threads -> Operations \cup {"none"}]
  /\ calls \in [Threads -> 0 .. CallLimit]

\* What a step adds to a waiting counter on its way from one label to another.
Change(t, label, labels) ==
  (IF label \in labels THEN 1 ELSE 0) - (IF pc[t] \in labels THEN 1 ELSE 0)
Counting(t, label) ==
  /\ waiting_producers' = waiting_producers + Change(t, label, SpaceLabels)
  /\ waiting_workers' = waiting_workers + Change(t, label, WorkLabels)
  /\ waiting_for_idle' = waiting_for_idle + Change(t, label, IdleLabels)

LEMMA QuietIInv ==
  ASSUME IInv, NEW t \in Threads, NEW label \in Labels,
         Quiet(t, label), Counting(t, label), TypeOrdinary'
  PROVE  IInv'
<1>1. Shared'
  BY QuietStep
<1>2. /\ Counted' /\ waiting_producers' \in Nat
      /\ waiting_workers' \in Nat /\ waiting_for_idle' \in Nat
  <2>1. /\ waiting_producers \in Nat /\ waiting_workers \in Nat
        /\ waiting_for_idle \in Nat
    BY DEF IInv, TypeOK
  <2>2. Moves(t, label)
    BY DEF Quiet
  <2> QED
    BY <2>1, <2>2, CountedStep DEF IInv, Counting, Change
<1>3. TypeOK'
  <2>1. pc' \in [Threads -> Labels] /\ eligible' \subseteq Threads
    BY DEF Quiet, Moves, EligibleSleep, QueueSleepers
  <2>2. /\ tasks' = tasks /\ queue_head' = queue_head
        /\ queue_tail' = queue_tail /\ producer_mutex' = producer_mutex
        /\ consumer_mutex' = consumer_mutex /\ claimed' = claimed
        /\ batch' = batch
    BY DEF Quiet, ring
  <2> QED
    BY <1>2, <2>1, <2>2 DEF IInv, TypeOK, TypeOrdinary
<1> QED
  BY <1>1, <1>2, <1>3 DEF IInv, Shared

\* A step between ordinary labels.
Ordinary(t, label) ==
  /\ Moves(t, label)
  /\ pc[t] \in OrdinaryLabels /\ label \in OrdinaryLabels
  /\ pc[t] \in FreeLabels <=> label \in FreeLabels
  /\ UNCHANGED <<ring, producer_mutex, consumer_mutex, claimed, batch>>
  /\ queue_state'.pending = queue_state.pending
  /\ queue_state'.active = queue_state.active
  /\ \A u \in Threads \ {t} : count'[u] = count[u] /\ span'[u] = span[u]

LEMMA OrdinaryStep ==
  ASSUME IInv, NEW t \in Threads, NEW label \in Labels, Ordinary(t, label),
         Counting(t, label), TypeOrdinary'
  PROVE  IInv'
<1>1. pc'[t] = label /\ Moves(t, label)
  BY DEF Ordinary, Moves
<1>2. producer_mutex # {t} /\ consumer_mutex # {t}
  BY DEF IInv, Exclusion, Ordinary, OrdinaryLabels, GuardedLabels
<1>3. Exclusion(t)'
  BY <1>1, <1>2 DEF Ordinary, Exclusion, OrdinaryLabels, GuardedLabels
<1>4. Free(t)' <=> Free(t)
  BY <1>1 DEF Ordinary, Free, FreeLabels, OrdinaryLabels
<1> QED
  BY <1>1, <1>3, <1>4, QuietIInv
     DEF Quiet, Ordinary, OrdinaryLabels

LEMMA TypesKept == IInv => TypeOrdinary
BY DEF IInv, TypeOK, TypeOrdinary

\* A step that moves t and changes nothing else.
LEMMA MoveStep ==
  ASSUME IInv, NEW t \in Threads, NEW label \in OrdinaryLabels,
         pc[t] \in OrdinaryLabels \ Sleeping, Move(t, label),
         pc[t] \in FreeLabels <=> label \in FreeLabels,
         pc[t] \in SpaceLabels <=> label \in SpaceLabels,
         pc[t] \in WorkLabels <=> label \in WorkLabels,
         pc[t] \in IdleLabels <=> label \in IdleLabels
  PROVE  IInv'
<1> USE DEF Move
<1>1. Moves(t, label)
  BY GotoMoves DEF IInv, word, OrdinaryLabels
<1>2. Ordinary(t, label)
  BY <1>1 DEF Ordinary, word, work, locks, call
<1>3. Counting(t, label)
  BY DEF Counting, Change, waiting, IInv, TypeOK
<1>4. TypeOrdinary'
  BY TypesKept DEF TypeOrdinary, word, work, failures, locks, jthreads,
                   waiting, call, seen
<1> QED
  BY <1>2, <1>3, <1>4, OrdinaryStep DEF OrdinaryLabels
-----------------------------------------------------------------------------
(* Submission, outside its critical section.                               *)

\* What OrdinaryLabels are, for the actions.
LEMMA OrdinaryAre ==
  OrdinaryLabels =
    {"idle", "exited", "e_load", "e_inc", "e_obs", "e_wait", "e_sleep",
     "e_dec", "e_lock", "e_check", "e_notify", "w_load", "w_inc", "w_obs",
     "w_wait", "w_sleep", "w_dec", "w_lock", "w_check", "w_notify", "w_exec",
     "w_settle", "i_check", "i_inc", "i_epoch", "i_recheck", "i_wait",
     "i_sleep", "i_dec", "c_lock", "s_lock", "s_stop", "s_request",
     "s_notify", "s_swap", "s_join", "x_stop", "x_notify", "x_join", "gone"}
BY DEF OrdinaryLabels, Labels, GuardedLabels, CancelLabels, NotifyLabels

LEMMA RefuseStep ==
  ASSUME IInv, NEW t \in Threads, pc[t] \in {"e_load", "e_lock"}, Refuse(t)
  PROVE  IInv'
<1> DEFINE label == Resume(t)
<1>1. label \in {"w_settle", "idle"}
  BY DEF Resume
<1>2. label \in Labels /\ label \in OrdinaryLabels
  BY <1>1, OrdinaryAre DEF Labels
<1>3. Moves(t, label)
  BY <1>2, GotoMoves DEF Refuse, IInv, word, Sleeping
<1>4. \A u \in Threads \ {t} : count'[u] = count[u] /\ span'[u] = span[u]
  BY DEF Refuse, IInv, TypeOK
<1>5. Ordinary(t, label)
  BY <1>1, <1>2, <1>3, <1>4, OrdinaryAre
     DEF Ordinary, Refuse, FreeLabels, word, locks
<1>6. Counting(t, label)
  BY <1>1 DEF Counting, Change, SpaceLabels, WorkLabels, IdleLabels, Refuse,
              waiting, IInv, TypeOK
<1>7. TypeOrdinary'
  <2>1. status' \in [Tasks -> Statuses] /\ span' \in [Threads -> Seq(Tasks)]
    BY TypesKept DEF TypeOrdinary, Refuse, Statuses
  <2> QED
    BY <2>1, TypesKept
       DEF TypeOrdinary, Refuse, word, failures, locks, jthreads, seen
<1> QED
  BY <1>2, <1>5, <1>6, <1>7, OrdinaryStep

LEMMA EnqueueLoadStep ==
  ASSUME IInv, NEW t \in Threads, EnqueueLoad(t) PROVE IInv'
<1>1. CASE Refuse(t)
  BY <1>1, RefuseStep DEF EnqueueLoad
<1>2. ASSUME NEW label \in {"e_inc", "e_lock"}, Move(t, label) PROVE IInv'
  BY <1>2, MoveStep, OrdinaryAre
     DEF EnqueueLoad, FreeLabels, SpaceLabels, WorkLabels, IdleLabels, Sleeping
<1> QED
  BY <1>1, <1>2 DEF EnqueueLoad

LEMMA EnqueueIncStep ==
  ASSUME IInv, NEW t \in Threads, EnqueueInc(t) PROVE IInv'
<1> DEFINE label == "e_obs"
<1>1. label \in Labels
  BY DEF Labels
<1>2. Moves(t, label)
  BY <1>1, GotoMoves DEF EnqueueInc, IInv, word, Sleeping
<1>3. Ordinary(t, label)
  BY <1>2, OrdinaryAre
     DEF Ordinary, EnqueueInc, FreeLabels, word, work, locks, call
<1>4. Counting(t, label)
  BY DEF Counting, Change, SpaceLabels, WorkLabels, IdleLabels, EnqueueInc,
         IInv, TypeOK
<1>5. TypeOrdinary'
  BY TypesKept DEF TypeOrdinary, EnqueueInc, word, work, failures, locks,
                   jthreads, call, seen
<1> QED
  BY <1>1, <1>3, <1>4, <1>5, OrdinaryStep

LEMMA EnqueueObserveStep ==
  ASSUME IInv, NEW t \in Threads, EnqueueObserve(t) PROVE IInv'
<1> DEFINE label == "e_wait"
<1>1. CASE Move(t, "e_dec")
  BY <1>1, MoveStep, OrdinaryAre
     DEF EnqueueObserve, FreeLabels, SpaceLabels, WorkLabels, IdleLabels,
         Sleeping
<1>2. CASE /\ observed' = [observed EXCEPT ![t] = queue_state]
           /\ Goto(t, label)
           /\ UNCHANGED <<word, work, locks, jthreads, waiting, call, epoch,
                          completion_epoch>>
  <2>1. label \in Labels
    BY DEF Labels
  <2>2. Moves(t, label)
    BY <1>2, <2>1, GotoMoves DEF EnqueueObserve, IInv, word, Sleeping
  <2>3. Ordinary(t, label)
    BY <1>2, <2>2, OrdinaryAre
       DEF Ordinary, EnqueueObserve, FreeLabels, word, work, locks, call
  <2>4. Counting(t, label)
    BY <1>2 DEF Counting, Change, SpaceLabels, WorkLabels, IdleLabels,
                EnqueueObserve, waiting, IInv, TypeOK
  <2>5. TypeOrdinary'
    BY <1>2, TypesKept DEF TypeOrdinary, word, work, failures, locks, jthreads,
                           call
  <2> QED
    BY <2>1, <2>3, <2>4, <2>5, OrdinaryStep
<1> QED
  BY <1>1, <1>2 DEF EnqueueObserve

LEMMA EnqueueWaitStep ==
  ASSUME IInv, NEW t \in Threads, EnqueueWait(t) PROVE IInv'
BY MoveStep, OrdinaryAre
   DEF EnqueueWait, FreeLabels, SpaceLabels, WorkLabels, IdleLabels, Sleeping

LEMMA EnqueueDecStep ==
  ASSUME IInv, NEW t \in Threads, EnqueueDec(t) PROVE IInv'
<1> DEFINE label == "e_load"
<1>1. label \in Labels
  BY DEF Labels
<1>2. Moves(t, label)
  BY <1>1, GotoMoves DEF EnqueueDec, IInv, word, Sleeping
<1>3. Ordinary(t, label)
  BY <1>2, OrdinaryAre
     DEF Ordinary, EnqueueDec, FreeLabels, word, work, locks, call
<1>4. Counting(t, label)
  BY DEF Counting, Change, SpaceLabels, WorkLabels, IdleLabels, EnqueueDec,
         IInv, TypeOK
<1>5. TypeOrdinary'
  <2>1. EmptyState \in QueueState
    BY CapacityAssumption DEF EmptyState, QueueState
  <2> QED
    BY <2>1, TypesKept DEF TypeOrdinary, EnqueueDec, word, work, failures,
                           locks, jthreads, call
<1> QED
  BY <1>1, <1>3, <1>4, <1>5, OrdinaryStep

LEMMA EnqueueCheckStep ==
  ASSUME IInv, NEW t \in Threads, EnqueueCheck(t) PROVE IInv'
<1> DEFINE label == IF waiting_workers = 0 THEN NextRound(t) ELSE "e_notify"
<1>1. label \in {"w_settle", "idle", "e_load", "e_notify"}
  BY DEF NextRound, Resume
<1>2. label \in Labels
  BY <1>1 DEF Labels
<1>3. Moves(t, label)
  BY <1>2, GotoMoves DEF EnqueueCheck, IInv, word, Sleeping
<1>4. \A u \in Threads \ {t} : count'[u] = count[u]
  BY DEF EnqueueCheck, IInv, TypeOK
<1>5. Ordinary(t, label)
  BY <1>1, <1>3, <1>4, OrdinaryAre
     DEF Ordinary, EnqueueCheck, FreeLabels, word, work, locks
<1>6. Counting(t, label)
  BY <1>1 DEF Counting, Change, SpaceLabels, WorkLabels, IdleLabels,
              EnqueueCheck, waiting, IInv, TypeOK
<1>7. TypeOrdinary'
  BY TypesKept, CapacityAssumption
     DEF TypeOrdinary, EnqueueCheck, word, work, failures, locks, jthreads, seen
<1> QED
  BY <1>2, <1>5, <1>6, <1>7, OrdinaryStep

LEMMA EnqueueNotifyStep ==
  ASSUME IInv, NEW t \in Threads, EnqueueNotify(t) PROVE IInv'
<1> DEFINE label == NextRound(t)
<1>1. label \in {"w_settle", "idle", "e_load"}
  BY DEF NextRound, Resume
<1>2. label \in Labels
  BY <1>1 DEF Labels
<1>3. Moves(t, label)
  BY <1>2, NotifyOneMoves, NotifyAllMoves DEF EnqueueNotify, IInv, Sleeping
<1>4. \A u \in Threads \ {t} : count'[u] = count[u]
  BY DEF EnqueueNotify, IInv, TypeOK
<1>5. Ordinary(t, label)
  BY <1>1, <1>3, <1>4, OrdinaryAre
     DEF Ordinary, EnqueueNotify, FreeLabels, work, locks
<1>6. Counting(t, label)
  BY <1>1 DEF Counting, Change, SpaceLabels, WorkLabels, IdleLabels,
              EnqueueNotify, waiting, IInv, TypeOK
<1>7. TypeOrdinary'
  BY TypesKept, CapacityAssumption
     DEF TypeOrdinary, EnqueueNotify, work, failures, locks, jthreads, seen
<1> QED
  BY <1>2, <1>5, <1>6, <1>7, OrdinaryStep
-----------------------------------------------------------------------------
(* The loop of a worker and wait, outside the critical section.            *)

LEMMA WorkerLoadStep ==
  ASSUME IInv, NEW t \in Threads, WorkerLoad(t) PROVE IInv'
BY MoveStep, OrdinaryAre
   DEF WorkerLoad, FreeLabels, SpaceLabels, WorkLabels, IdleLabels, Sleeping

LEMMA WorkerIncStep ==
  ASSUME IInv, NEW t \in Threads, WorkerInc(t) PROVE IInv'
<1> DEFINE label == "w_obs"
<1>1. label \in Labels
  BY DEF Labels
<1>2. Moves(t, label)
  BY <1>1, GotoMoves DEF WorkerInc, IInv, word, Sleeping
<1>3. Ordinary(t, label)
  BY <1>2, OrdinaryAre
     DEF Ordinary, WorkerInc, FreeLabels, word, work, locks, call
<1>4. Counting(t, label)
  BY DEF Counting, Change, SpaceLabels, WorkLabels, IdleLabels, WorkerInc,
         waiting, IInv, TypeOK
<1>5. TypeOrdinary'
  BY TypesKept DEF TypeOrdinary, WorkerInc, word, work, failures, locks,
                   jthreads, waiting, call, seen
<1> QED
  BY <1>1, <1>3, <1>4, <1>5, OrdinaryStep

LEMMA WorkerObserveStep ==
  ASSUME IInv, NEW t \in Threads, WorkerObserve(t) PROVE IInv'
<1> DEFINE label == "w_wait"
<1>1. CASE Move(t, "w_dec")
  BY <1>1, MoveStep, OrdinaryAre
     DEF WorkerObserve, FreeLabels, SpaceLabels, WorkLabels, IdleLabels,
         Sleeping
<1>2. CASE /\ observed' = [observed EXCEPT ![t] = queue_state]
           /\ Goto(t, label)
           /\ UNCHANGED <<word, work, locks, jthreads, waiting, call, epoch,
                          completion_epoch>>
  <2>1. label \in Labels
    BY DEF Labels
  <2>2. Moves(t, label)
    BY <1>2, <2>1, GotoMoves DEF WorkerObserve, IInv, word, Sleeping
  <2>3. Ordinary(t, label)
    BY <1>2, <2>2, OrdinaryAre
       DEF Ordinary, WorkerObserve, FreeLabels, word, work, locks, call
  <2>4. Counting(t, label)
    BY <1>2 DEF Counting, Change, SpaceLabels, WorkLabels, IdleLabels,
                WorkerObserve, waiting, IInv, TypeOK
  <2>5. TypeOrdinary'
    BY <1>2, TypesKept DEF TypeOrdinary, word, work, failures, locks, jthreads,
                           call
  <2> QED
    BY <2>1, <2>3, <2>4, <2>5, OrdinaryStep
<1> QED
  BY <1>1, <1>2 DEF WorkerObserve

LEMMA WorkerWaitStep ==
  ASSUME IInv, NEW t \in Threads, WorkerWait(t) PROVE IInv'
BY MoveStep, OrdinaryAre
   DEF WorkerWait, FreeLabels, SpaceLabels, WorkLabels, IdleLabels, Sleeping

LEMMA WorkerDecStep ==
  ASSUME IInv, NEW t \in Threads, WorkerDec(t) PROVE IInv'
<1> DEFINE label == "w_load"
<1>1. label \in Labels
  BY DEF Labels
<1>2. Moves(t, label)
  BY <1>1, GotoMoves DEF WorkerDec, IInv, word, Sleeping
<1>3. Ordinary(t, label)
  BY <1>2, OrdinaryAre
     DEF Ordinary, WorkerDec, FreeLabels, word, work, locks, call
<1>4. Counting(t, label)
  BY DEF Counting, Change, SpaceLabels, WorkLabels, IdleLabels, WorkerDec,
         waiting, IInv, TypeOK
<1>5. TypeOrdinary'
  <2>1. EmptyState \in QueueState
    BY CapacityAssumption DEF EmptyState, QueueState
  <2> QED
    BY <2>1, TypesKept DEF TypeOrdinary, WorkerDec, word, work, failures, locks,
                           jthreads, call, seen
<1> QED
  BY <1>1, <1>3, <1>4, <1>5, OrdinaryStep

LEMMA WorkerCheckStep ==
  ASSUME IInv, NEW t \in Threads, WorkerCheck(t) PROVE IInv'
BY MoveStep, OrdinaryAre
   DEF WorkerCheck, FreeLabels, SpaceLabels, WorkLabels, IdleLabels, Sleeping

LEMMA WorkerNotifyStep ==
  ASSUME IInv, NEW t \in Threads, WorkerNotify(t) PROVE IInv'
<1> DEFINE label == "w_exec"
<1>1. label \in Labels
  BY DEF Labels
<1>2. Moves(t, label)
  BY <1>1, NotifyOneMoves DEF WorkerNotify, IInv, Sleeping
<1>3. Ordinary(t, label)
  BY <1>2, OrdinaryAre
     DEF Ordinary, WorkerNotify, FreeLabels, work, locks, call
<1>4. Counting(t, label)
  BY DEF Counting, Change, SpaceLabels, WorkLabels, IdleLabels, WorkerNotify,
         waiting, IInv, TypeOK
<1>5. TypeOrdinary'
  BY TypesKept DEF TypeOrdinary, WorkerNotify, work, failures, locks, jthreads,
                   call, seen
<1> QED
  BY <1>1, <1>3, <1>4, <1>5, OrdinaryStep

LEMMA IdleCheckStep ==
  ASSUME IInv, NEW t \in Threads, IdleCheck(t) PROVE IInv'
BY MoveStep, OrdinaryAre
   DEF IdleCheck, FreeLabels, SpaceLabels, WorkLabels, IdleLabels, Sleeping

LEMMA IdleIncStep ==
  ASSUME IInv, NEW t \in Threads, IdleInc(t) PROVE IInv'
<1> DEFINE label == "i_epoch"
<1>1. label \in Labels
  BY DEF Labels
<1>2. Moves(t, label)
  BY <1>1, GotoMoves DEF IdleInc, IInv, word, Sleeping
<1>3. Ordinary(t, label)
  BY <1>2, OrdinaryAre
     DEF Ordinary, IdleInc, FreeLabels, word, work, locks, call
<1>4. Counting(t, label)
  BY DEF Counting, Change, SpaceLabels, WorkLabels, IdleLabels, IdleInc,
         waiting, IInv, TypeOK
<1>5. TypeOrdinary'
  BY TypesKept DEF TypeOrdinary, IdleInc, word, work, failures, locks,
                   jthreads, waiting, call, seen
<1> QED
  BY <1>1, <1>3, <1>4, <1>5, OrdinaryStep

LEMMA IdleEpochStep ==
  ASSUME IInv, NEW t \in Threads, IdleEpoch(t) PROVE IInv'
<1> DEFINE label == "i_recheck"
<1>1. label \in Labels
  BY DEF Labels
<1>2. Moves(t, label)
  BY <1>1, GotoMoves DEF IdleEpoch, IInv, word, Sleeping
<1>3. Ordinary(t, label)
  BY <1>2, OrdinaryAre
     DEF Ordinary, IdleEpoch, FreeLabels, word, work, locks, call
<1>4. Counting(t, label)
  BY DEF Counting, Change, SpaceLabels, WorkLabels, IdleLabels, IdleEpoch,
         waiting, IInv, TypeOK
<1>5. TypeOrdinary'
  BY TypesKept DEF TypeOrdinary, IdleEpoch, word, work, failures, locks,
                   jthreads, waiting, call, seen
<1> QED
  BY <1>1, <1>3, <1>4, <1>5, OrdinaryStep

LEMMA IdleRecheckStep ==
  ASSUME IInv, NEW t \in Threads, IdleRecheck(t) PROVE IInv'
BY MoveStep, OrdinaryAre
   DEF IdleRecheck, FreeLabels, SpaceLabels, WorkLabels, IdleLabels, Sleeping

LEMMA IdleWaitStep ==
  ASSUME IInv, NEW t \in Threads, IdleWait(t) PROVE IInv'
BY MoveStep, OrdinaryAre
   DEF IdleWait, FreeLabels, SpaceLabels, WorkLabels, IdleLabels, Sleeping

LEMMA IdleDecStep ==
  ASSUME IInv, NEW t \in Threads, IdleDec(t) PROVE IInv'
<1> DEFINE label == "i_check"
<1>1. label \in Labels
  BY DEF Labels
<1>2. Moves(t, label)
  BY <1>1, GotoMoves DEF IdleDec, IInv, word, Sleeping
<1>3. Ordinary(t, label)
  BY <1>2, OrdinaryAre
     DEF Ordinary, IdleDec, FreeLabels, word, work, locks, call
<1>4. Counting(t, label)
  BY DEF Counting, Change, SpaceLabels, WorkLabels, IdleLabels, IdleDec,
         waiting, IInv, TypeOK
<1>5. TypeOrdinary'
  BY TypesKept DEF TypeOrdinary, IdleDec, word, work, failures, locks,
                   jthreads, waiting, call, seen
<1> QED
  BY <1>1, <1>3, <1>4, <1>5, OrdinaryStep
-----------------------------------------------------------------------------
(* notify_idle_waiters, with the mutexes of its caller or without.         *)

LEMMA NotifyReturnIs ==
  ASSUME IInv, NEW t \in Threads, pc[t] \in NotifyLabels
  PROVE  /\ NotifyReturn(t) \in {"c_notify", "w_load"}
         /\ NotifyReturn(t) = "c_notify" =>
              consumer_mutex = {t} /\ producer_mutex = {t}
         /\ NotifyReturn(t) = "w_load" =>
              consumer_mutex # {t} /\ producer_mutex # {t}
BY DEF NotifyReturn, IInv, Exclusion

LEMMA NotifyStep ==
  ASSUME IInv, NEW t \in Threads, NEW label \in NotifyLabels \cup {NotifyReturn(t)},
         pc[t] \in NotifyLabels, Moves(t, label),
         UNCHANGED <<queue_state, work, locks, jthreads, waiting, call,
                     observed, epoch>>,
         completion_epoch' \in Nat
  PROVE  IInv'
<1>1. label \in NotifyLabels \cup {"c_notify", "w_load"}
  BY NotifyReturnIs
<1>2. label \in Labels /\ pc'[t] = label
  BY <1>1 DEF Labels, NotifyLabels, Moves
<1>3. Exclusion(t)'
  BY <1>2, NotifyReturnIs
     DEF IInv, Exclusion, NotifyLabels, CancelLabels, locks
<1>4. Free(t)' <=> Free(t)
  BY <1>2, NotifyReturnIs DEF Free, NotifyLabels, locks
<1>5. Quiet(t, label)
  BY <1>1, <1>3, <1>4 DEF Quiet, GuardedLabels, NotifyLabels, work, locks, call
<1>6. Counting(t, label)
  BY <1>1 DEF Counting, Change, NotifyLabels, SpaceLabels, WorkLabels,
              IdleLabels, waiting, IInv, TypeOK
<1>7. TypeOrdinary'
  BY TypesKept DEF TypeOrdinary, work, failures, locks, jthreads, call
<1> QED
  BY <1>2, <1>5, <1>6, <1>7, QuietIInv

LEMMA NotifyIdleStep ==
  ASSUME IInv, NEW t \in Threads, NotifyIdle(t) PROVE IInv'
<1> NotifyReturn(t) \in Labels
  <2>1. CASE pc[t] \in NotifyLabels
    BY <2>1, NotifyReturnIs DEF Labels
  <2> QED
    BY DEF NotifyReturn, Labels
<1>1. CASE NotifyLoad(t)
  <2> DEFINE label == IF waiting_for_idle = 0 THEN NotifyReturn(t) ELSE "n_epoch"
  <2>1. label \in Labels
    BY DEF Labels
  <2>2. Moves(t, label)
    BY <1>1, <2>1, GotoMoves DEF NotifyLoad, Move, IInv, word, Sleeping
  <2>3. /\ UNCHANGED <<queue_state, work, locks, jthreads, waiting, call,
                       observed, epoch>>
        /\ completion_epoch' \in Nat
    BY <1>1 DEF NotifyLoad, Move, word, seen, IInv, TypeOK
  <2> QED
    BY <1>1, <2>2, <2>3, NotifyStep DEF NotifyLoad, NotifyLabels
<1>2. CASE NotifyEpoch(t)
  <2>1. Moves(t, "n_notify")
    BY <1>2, GotoMoves DEF NotifyEpoch, IInv, word, Sleeping, Labels
  <2>2. /\ UNCHANGED <<queue_state, work, locks, jthreads, waiting, call,
                       observed, epoch>>
        /\ completion_epoch' \in Nat
    BY <1>2 DEF NotifyEpoch, word, IInv, TypeOK
  <2> QED
    BY <1>2, <2>1, <2>2, NotifyStep DEF NotifyEpoch, NotifyLabels
<1>3. CASE NotifyWake(t)
  <2>1. \A u \in IdleSleepers : u \notin eligible /\ pc[u] \in Sleeping
    BY DEF IdleSleepers, Sleeping, IInv, EligibleSleep, QueueSleepers
  <2>2. Moves(t, NotifyReturn(t))
    BY <1>3, <2>1, WakeMoves
       DEF NotifyWake, IInv, word, IdleSleepers, Sleeping
  <2>3. /\ UNCHANGED <<queue_state, work, locks, jthreads, waiting, call,
                       observed, epoch>>
        /\ completion_epoch' \in Nat
    BY <1>3 DEF NotifyWake, word, seen, IInv, TypeOK
  <2> QED
    BY <1>3, <2>2, <2>3, NotifyStep DEF NotifyWake, NotifyLabels
<1> QED
  BY <1>1, <1>2, <1>3 DEF NotifyIdle

LEMMA CancelIdleStep ==
  ASSUME IInv, NEW t \in Threads, CancelIdle(t) PROVE IInv'
<1> DEFINE label == IF active_from_state(queue_state) = 0 THEN "n_load"
                    ELSE "c_notify"
<1>1. label \in {"n_load", "c_notify"} /\ label \in Labels
  BY DEF Labels
<1>2. Moves(t, label)
  BY <1>1, GotoMoves DEF CancelIdle, Move, IInv, word, Sleeping
<1>3. pc'[t] = label
  BY <1>2 DEF Moves
<1>4. Exclusion(t)'
  BY <1>1, <1>3
     DEF CancelIdle, Move, IInv, Exclusion, NotifyLabels, CancelLabels, locks
<1>5. ~Free(t) /\ ~Free(t)'
  BY <1>1, <1>3 DEF CancelIdle, Move, IInv, Exclusion, NotifyLabels,
                    CancelLabels, Free, locks
<1>6. Quiet(t, label)
  BY <1>1, <1>2, <1>4, <1>5
     DEF Quiet, CancelIdle, Move, GuardedLabels, word, work, locks, call
<1>7. Counting(t, label)
  BY <1>1 DEF Counting, Change, CancelIdle, Move, SpaceLabels, WorkLabels,
              IdleLabels, waiting, IInv, TypeOK
<1>8. TypeOrdinary'
  BY TypesKept DEF TypeOrdinary, CancelIdle, Move, word, work, failures, locks,
                   jthreads, call, seen
<1> QED
  BY <1>1, <1>6, <1>7, <1>8, QuietIInv
-----------------------------------------------------------------------------
(* The calls, and shutdown.                                                *)

LEMMA CallEnqueueStep ==
  ASSUME IInv, NEW t \in Threads, CallEnqueue(t) PROVE IInv'
<1> DEFINE label == "e_load"
<1>1. label \in Labels
  BY DEF Labels
<1>2. pc[t] \in {"w_exec", "idle"}
  BY DEF CallEnqueue, MayCall, Running
<1>3. Moves(t, label)
  BY <1>1, <1>2, GotoMoves DEF CallEnqueue, IInv, word, Sleeping
<1>4. PICK s \in Spans :
        /\ span' = [span EXCEPT ![t] = s]
        /\ status' = [k \in Tasks |->
                       IF k \in TasksIn(s) THEN "offered" ELSE status[k]]
  BY SpansAssumption DEF CallEnqueue
<1>5. \A u \in Threads \ {t} : span'[u] = span[u]
  BY <1>4 DEF IInv, TypeOK
<1>6. Ordinary(t, label)
  BY <1>2, <1>3, <1>5, OrdinaryAre
     DEF Ordinary, CallEnqueue, FreeLabels, word, locks
<1>7. Counting(t, label)
  BY <1>2 DEF Counting, Change, CallEnqueue, SpaceLabels, WorkLabels,
              IdleLabels, waiting, IInv, TypeOK
<1>8. TypeOrdinary'
  <2>1. status' \in [Tasks -> Statuses] /\ span' \in [Threads -> Seq(Tasks)]
    BY <1>4, TypesKept, SpansAssumption DEF TypeOrdinary, Statuses
  <2> QED
    BY <2>1, TypesKept DEF TypeOrdinary, CallEnqueue, word, failures, locks,
                           jthreads, seen
<1> QED
  BY <1>1, <1>6, <1>7, <1>8, OrdinaryStep

LEMMA ThreadsDisjoint == \A t \in Clients : t \in Threads /\ t \notin Workers
BY ThreadsAssumption DEF Threads

LEMMA CallWaitStep ==
  ASSUME IInv, NEW t \in Threads, CallWait(t) PROVE IInv'
<1> DEFINE label == "i_check"
<1>1. label \in Labels
  BY DEF Labels
<1>2. Moves(t, label)
  BY <1>1, GotoMoves DEF CallWait, IInv, word, Sleeping
<1>3. Ordinary(t, label)
  BY <1>2, OrdinaryAre
     DEF Ordinary, CallWait, FreeLabels, word, work, locks
<1>4. Counting(t, label)
  BY DEF Counting, Change, CallWait, SpaceLabels, WorkLabels, IdleLabels,
         waiting, IInv, TypeOK
<1>5. TypeOrdinary'
  <2>1. calls' \in [Threads -> 0 .. CallLimit]
    BY TypesKept, LimitAssumption DEF TypeOrdinary, CallWait
  <2> QED
    BY <2>1, TypesKept DEF TypeOrdinary, CallWait, word, work, failures, locks,
                           jthreads, seen
<1> QED
  BY <1>1, <1>3, <1>4, <1>5, OrdinaryStep

LEMMA CallControlStep ==
  ASSUME IInv, NEW t \in Threads, CallControl(t) PROVE IInv'
<1>1. pc[t] \in {"w_exec", "idle"}
  BY DEF CallControl, MayCall, Running
<1>2. PICK op \in Operations :
        /\ mode' = [mode EXCEPT ![t] = op]
        /\ Goto(t, IF op = "clear_queue" THEN "c_lock"
                   ELSE IF t \in Workers THEN "s_stop" ELSE "s_lock")
  BY CallsAssumption DEF CallControl
<1> DEFINE label == IF op = "clear_queue" THEN "c_lock"
                    ELSE IF t \in Workers THEN "s_stop" ELSE "s_lock"
<1>3. label \in {"c_lock", "s_stop", "s_lock"} /\ label \in Labels
  BY DEF Labels
<1>4. Moves(t, label)
  BY <1>1, <1>2, <1>3, GotoMoves DEF CallControl, IInv, word, Sleeping
<1>5. Ordinary(t, label)
  BY <1>1, <1>3, <1>4, OrdinaryAre
     DEF Ordinary, CallControl, FreeLabels, word, work, locks
<1>6. Counting(t, label)
  BY <1>1, <1>3 DEF Counting, Change, CallControl, SpaceLabels, WorkLabels,
                    IdleLabels, waiting, IInv, TypeOK
<1>7. TypeOrdinary'
  <2>1. calls' \in [Threads -> 0 .. CallLimit]
    <3>1. CASE UNCHANGED calls
      BY <3>1, TypesKept DEF TypeOrdinary
    <3>2. CASE calls[t] < CallLimit /\ calls' = [calls EXCEPT ![t] = @ + 1]
      BY <3>2, TypesKept, LimitAssumption DEF TypeOrdinary
    <3> QED
      BY <3>1, <3>2 DEF CallControl
  <2>2. mode' \in [Threads -> Operations \cup {"none"}]
    BY <1>2, TypesKept DEF TypeOrdinary
  <2> QED
    BY <2>1, <2>2, TypesKept
       DEF TypeOrdinary, CallControl, word, work, failures, locks, jthreads, seen
<1> QED
  BY <1>3, <1>5, <1>6, <1>7, OrdinaryStep

LEMMA ShutdownLockStep ==
  ASSUME IInv, NEW t \in Threads, ShutdownLock(t) PROVE IInv'
<1> DEFINE label == "s_stop"
<1>1. label \in {"s_stop"} /\ label \in Labels
  BY DEF Labels
<1>2. Moves(t, label)
  BY <1>1, GotoMoves DEF ShutdownLock, IInv, word, Sleeping
<1>3. Ordinary(t, label)
  BY <1>1, <1>2, OrdinaryAre
     DEF Ordinary, ShutdownLock, FreeLabels, word, work, call
<1>4. Counting(t, label)
  BY <1>1 DEF Counting, Change, ShutdownLock, SpaceLabels, WorkLabels,
              IdleLabels, waiting, IInv, TypeOK
<1>5. TypeOrdinary'
  <2>1. shutdown_mutex' \in Holders
    BY TypesKept DEF TypeOrdinary, ShutdownLock, Holders
  <2> QED
    BY <2>1, TypesKept DEF TypeOrdinary, ShutdownLock, word, work, failures,
                           jthreads, call, seen
<1> QED
  BY <1>1, <1>3, <1>4, <1>5, OrdinaryStep

LEMMA SignalStopStep ==
  ASSUME IInv, NEW t \in Threads, SignalStop(t) PROVE IInv'
<1> DEFINE label == IF mode[t] = "CANCEL_PENDING" THEN "c_lock" ELSE "s_notify"
<1>1. label \in {"c_lock", "s_notify"} /\ label \in Labels
  BY DEF Labels
<1>2. Moves(t, label)
  BY <1>1, StateMoves DEF SignalStop, IInv, word, Sleeping
<1>3. Ordinary(t, label)
  BY <1>1, <1>2, OrdinaryAre
     DEF Ordinary, SignalStop, FreeLabels, SetState, QueueState, IInv,
         TypeOK, work, locks, call
<1>4. Counting(t, label)
  BY <1>1 DEF Counting, Change, SignalStop, SpaceLabels, WorkLabels,
              IdleLabels, waiting, IInv, TypeOK
<1>5. TypeOrdinary'
  <2>1. queue_state' \in QueueState
    BY TypesKept DEF TypeOrdinary, SignalStop, SetState, QueueState
  <2> QED
    BY <2>1, TypesKept DEF TypeOrdinary, SignalStop, word, work, failures,
                           locks, jthreads, call, seen
<1> QED
  BY <1>1, <1>3, <1>4, <1>5, OrdinaryStep

LEMMA SignalRequestStep ==
  ASSUME IInv, NEW t \in Threads, SignalRequest(t) PROVE IInv'
<1> DEFINE label == "s_notify"
<1>1. label \in {"s_notify"} /\ label \in Labels
  BY DEF Labels
<1>2. Moves(t, label)
  BY <1>1, GotoMoves DEF SignalRequest, IInv, word, Sleeping
<1>3. Ordinary(t, label)
  BY <1>1, <1>2, OrdinaryAre
     DEF Ordinary, SignalRequest, FreeLabels, word, work, locks, call
<1>4. Counting(t, label)
  BY <1>1 DEF Counting, Change, SignalRequest, SpaceLabels, WorkLabels,
              IdleLabels, waiting, IInv, TypeOK
<1>5. TypeOrdinary'
  BY TypesKept DEF TypeOrdinary, SignalRequest, word, work, failures,
                   locks, call, seen
<1> QED
  BY <1>1, <1>3, <1>4, <1>5, OrdinaryStep

LEMMA SignalNotifyStep ==
  ASSUME IInv, NEW t \in Threads, SignalNotify(t) PROVE IInv'
<1> DEFINE label == IF t \in Workers THEN "w_settle" ELSE "s_swap"
<1>1. label \in {"w_settle", "s_swap"} /\ label \in Labels
  BY DEF Labels
<1>2. Moves(t, label)
  BY <1>1, NotifyAllMoves DEF SignalNotify, IInv, word, Sleeping
<1>3. Ordinary(t, label)
  BY <1>1, <1>2, OrdinaryAre
     DEF Ordinary, SignalNotify, FreeLabels, work, locks
<1>4. Counting(t, label)
  BY <1>1 DEF Counting, Change, SignalNotify, SpaceLabels, WorkLabels,
              IdleLabels, waiting, IInv, TypeOK
<1>5. TypeOrdinary'
  <2>1. mode' \in [Threads -> Operations \cup {"none"}]
    BY TypesKept DEF TypeOrdinary, SignalNotify
  <2> QED
    BY <2>1, TypesKept DEF TypeOrdinary, SignalNotify, word, work, failures,
                           locks, jthreads, seen
<1> QED
  BY <1>1, <1>3, <1>4, <1>5, OrdinaryStep

LEMMA ShutdownSwapStep ==
  ASSUME IInv, NEW t \in Threads, ShutdownSwap(t) PROVE IInv'
<1> DEFINE label == "s_join"
<1>1. label \in {"s_join"} /\ label \in Labels
  BY DEF Labels
<1>2. Moves(t, label)
  BY <1>1, GotoMoves DEF ShutdownSwap, IInv, word, Sleeping
<1>3. Ordinary(t, label)
  BY <1>1, <1>2, OrdinaryAre
     DEF Ordinary, ShutdownSwap, FreeLabels, word, work, locks, call
<1>4. Counting(t, label)
  BY <1>1 DEF Counting, Change, ShutdownSwap, SpaceLabels, WorkLabels,
              IdleLabels, waiting, IInv, TypeOK
<1>5. TypeOrdinary'
  BY TypesKept DEF TypeOrdinary, ShutdownSwap, word, work, failures,
                   locks, call, seen
<1> QED
  BY <1>1, <1>3, <1>4, <1>5, OrdinaryStep

LEMMA ShutdownJoinStep ==
  ASSUME IInv, NEW t \in Threads, ShutdownJoin(t) PROVE IInv'
<1> DEFINE label == "idle"
<1>1. label \in {"idle"} /\ label \in Labels
  BY DEF Labels
<1>2. Moves(t, label)
  BY <1>1, GotoMoves DEF ShutdownJoin, IInv, word, Sleeping
<1>3. Ordinary(t, label)
  BY <1>1, <1>2, OrdinaryAre
     DEF Ordinary, ShutdownJoin, FreeLabels, word, work
<1>4. Counting(t, label)
  BY <1>1 DEF Counting, Change, ShutdownJoin, SpaceLabels, WorkLabels,
              IdleLabels, waiting, IInv, TypeOK
<1>5. TypeOrdinary'
  <2>1. mode' \in [Threads -> Operations \cup {"none"}] /\ shutdown_mutex' \in Holders
    BY TypesKept DEF TypeOrdinary, ShutdownJoin, Holders
  <2> QED
    BY <2>1, TypesKept DEF TypeOrdinary, ShutdownJoin, word, work, failures,
                           seen
<1> QED
  BY <1>1, <1>3, <1>4, <1>5, OrdinaryStep

LEMMA ConstructStopStep ==
  ASSUME IInv, NEW t \in Threads, ConstructStop(t) PROVE IInv'
<1> DEFINE label == "x_notify"
<1>1. label \in {"x_notify"} /\ label \in Labels
  BY DEF Labels
<1>2. Moves(t, label)
  BY <1>1, StateMoves DEF ConstructStop, IInv, word, Sleeping
<1>3. Ordinary(t, label)
  BY <1>1, <1>2, OrdinaryAre
     DEF Ordinary, ConstructStop, FreeLabels, SetState, QueueState, IInv,
         TypeOK, work, locks, call
<1>4. Counting(t, label)
  BY <1>1 DEF Counting, Change, ConstructStop, SpaceLabels, WorkLabels,
              IdleLabels, waiting, IInv, TypeOK
<1>5. TypeOrdinary'
  <2>1. queue_state' \in QueueState
    BY TypesKept DEF TypeOrdinary, ConstructStop, SetState, QueueState
  <2> QED
    BY <2>1, TypesKept DEF TypeOrdinary, ConstructStop, word, work, failures,
                           locks, jthreads, call, seen
<1> QED
  BY <1>1, <1>3, <1>4, <1>5, OrdinaryStep

LEMMA ConstructNotifyStep ==
  ASSUME IInv, NEW t \in Threads, ConstructNotify(t) PROVE IInv'
<1> DEFINE label == "x_join"
<1>1. label \in {"x_join"} /\ label \in Labels
  BY DEF Labels
<1>2. Moves(t, label)
  BY <1>1, NotifyAllMoves DEF ConstructNotify, IInv, word, Sleeping
<1>3. Ordinary(t, label)
  BY <1>1, <1>2, OrdinaryAre
     DEF Ordinary, ConstructNotify, FreeLabels, work, locks, call
<1>4. Counting(t, label)
  BY <1>1 DEF Counting, Change, ConstructNotify, SpaceLabels, WorkLabels,
              IdleLabels, waiting, IInv, TypeOK
<1>5. TypeOrdinary'
  BY TypesKept DEF TypeOrdinary, ConstructNotify, work, failures, locks,
                   jthreads, call, seen
<1> QED
  BY <1>1, <1>3, <1>4, <1>5, OrdinaryStep

LEMMA ConstructJoinStep ==
  ASSUME IInv, NEW t \in Threads, ConstructJoin(t) PROVE IInv'
<1> DEFINE label == "gone"
<1>1. label \in {"gone"} /\ label \in Labels
  BY DEF Labels
<1>2. Moves(t, label)
  BY <1>1, GotoMoves DEF ConstructJoin, IInv, word, Sleeping
<1>3. Ordinary(t, label)
  BY <1>1, <1>2, OrdinaryAre
     DEF Ordinary, ConstructJoin, FreeLabels, word, work, locks, call
<1>4. Counting(t, label)
  BY <1>1 DEF Counting, Change, ConstructJoin, SpaceLabels, WorkLabels,
              IdleLabels, waiting, IInv, TypeOK
<1>5. TypeOrdinary'
  BY TypesKept DEF TypeOrdinary, ConstructJoin, word, work, failures, locks,
                   call, seen
<1> QED
  BY <1>1, <1>3, <1>4, <1>5, OrdinaryStep
-----------------------------------------------------------------------------
(* The steps at the ring: what they have in common.                        *)

LEMMA CountedKept ==
  ASSUME IInv, NEW t \in Threads, NEW label \in Labels, Moves(t, label),
         pc[t] \notin SpaceLabels \cup WorkLabels \cup IdleLabels,
         label \notin SpaceLabels \cup WorkLabels \cup IdleLabels,
         UNCHANGED waiting
  PROVE  /\ Counted' /\ waiting_producers' \in Nat
         /\ waiting_workers' \in Nat /\ waiting_for_idle' \in Nat
<1>1. /\ waiting_producers \in Nat /\ waiting_workers \in Nat
      /\ waiting_for_idle \in Nat
  BY DEF IInv, TypeOK
<1> QED
  BY <1>1, CountedStep DEF IInv, waiting

\* The claims are the same if nobody past their claim changes it.
LEMMA ClaimsKept ==
  ASSUME IInv,
         \A w \in Workers :
           /\ pc'[w] \in {"w_take", "w_claim"} <=> pc[w] \in {"w_take", "w_claim"}
           /\ pc[w] \notin {"w_take", "w_claim"} => claimed'[w] = claimed[w],
         queue_state'.active = queue_state.active
  PROVE  ActiveCounted'
<1>1. Claims' = Claims
  BY DEF Claims
<1> QED
  BY <1>1 DEF IInv, ActiveCounted

\* Other threads keep their claims and their batches.
LEMMA OthersBusy ==
  ASSUME IInv, NEW t \in Threads, NEW label, Moves(t, label),
         NEW w \in Workers \ {t},
         claimed'[w] = claimed[w], batch'[w] = batch[w],
         consumer_mutex' = {w} <=> consumer_mutex = {w}
  PROVE  Busy(w)'
<1>1. Moved(w) /\ Busy(w)
  BY DEF IInv, Moves, Threads
<1> QED
  BY <1>1 DEF Busy, Free, Moved, NotifyLabels

LEMMA OthersExclusion ==
  ASSUME IInv, NEW t \in Threads, NEW label, Moves(t, label),
         NEW u \in Threads \ {t},
         consumer_mutex' = {u} <=> consumer_mutex = {u},
         producer_mutex' = {u} <=> producer_mutex = {u}
  PROVE  Exclusion(u)'
<1>1. Moved(u) /\ Exclusion(u)
  BY DEF IInv, Moves
<1> QED
  BY <1>1 DEF Exclusion, Moved, CancelLabels, NotifyLabels

LEMMA AllParts ==
  ASSUME TypeOK', \A t \in Threads : Exclusion(t)' /\ Reserved(t)',
         \A w \in Workers : Busy(w)', Counted', ActiveCounted',
         EligibleSleep', RingOK'
  PROVE  IInv'
BY DEF IInv

\* The type of what only the ring's steps change.
LEMMA RingTypes ==
  ASSUME IInv
  PROVE  /\ queue_state \in QueueState /\ queue_state.pending \in 0 .. Capacity
         /\ queue_state.active \in Nat /\ queue_state.stopping \in BOOLEAN
         /\ tasks \in [Slots -> Tasks \cup {NoTask}]
         /\ queue_head \in Slots /\ queue_tail \in Slots
         /\ count \in [Threads -> 0 .. Capacity]
         /\ claimed \in [Workers -> 0 .. Capacity]
         /\ span \in [Threads -> Seq(Tasks)] /\ batch \in [Workers -> Seq(Tasks)]
         /\ pc \in [Threads -> Labels] /\ status \in [Tasks -> Statuses]
         /\ producer_mutex \in Holders /\ consumer_mutex \in Holders
BY DEF IInv, TypeOK, QueueState

\* Who holds neither mutex holds no part of the ring.
LEMMA HeldKept ==
  ASSUME IInv, NEW t \in Threads, NEW label, Moves(t, label),
         consumer_mutex # {t}, consumer_mutex' = consumer_mutex,
         \A w \in Workers \ {t} : claimed'[w] = claimed[w],
         \A u \in Threads \ {t} : count'[u] = count[u]
  PROVE  Held' = Held
<1>1. CASE consumer_mutex = {}
  BY <1>1, HeldAndStaged, HeldAndStagedNext
<1>2. ASSUME NEW u \in Threads, consumer_mutex = {u} PROVE Held' = Held
  <2>1. u # t /\ Moved(u) /\ Reserved(u)
    BY <1>2 DEF Moves, IInv
  <2>2. pc[u] = "w_claim" => u \in Workers
    BY <2>1 DEF Reserved
  <2> QED
    BY <1>2, <2>1, <2>2, HeldAndStaged, HeldAndStagedNext DEF Moved
<1> QED
  BY <1>1, <1>2, RingTypes DEF Holders

LEMMA StagedKept ==
  ASSUME IInv, NEW t \in Threads, NEW label, Moves(t, label),
         producer_mutex # {t}, producer_mutex' = producer_mutex,
         \A u \in Threads \ {t} : count'[u] = count[u]
  PROVE  Staged' = Staged
<1>1. CASE producer_mutex = {}
  BY <1>1, HeldAndStaged, HeldAndStagedNext
<1>2. ASSUME NEW u \in Threads, producer_mutex = {u} PROVE Staged' = Staged
  <2>1. u # t /\ Moved(u)
    BY <1>2 DEF Moves
  <2> QED
    BY <1>2, <2>1, HeldAndStaged, HeldAndStagedNext DEF Moved
<1> QED
  BY <1>1, <1>2, RingTypes DEF Holders

LEMMA HeldType == IInv => Held \in 0 .. queue_state.pending
<1> SUFFICES ASSUME IInv PROVE Held \in 0 .. queue_state.pending
  OBVIOUS
<1>1. CASE consumer_mutex = {}
  BY <1>1, HeldAndStaged, RingTypes
<1>2. ASSUME NEW u \in Threads, consumer_mutex = {u}
      PROVE  Held \in 0 .. queue_state.pending
  <2>1. Reserved(u)
    BY DEF IInv
  <2> QED
    BY <1>2, <2>1, HeldAndStaged, RingTypes DEF Reserved
<1> QED
  BY <1>1, <1>2, RingTypes DEF Holders

LEMMA StagedType == IInv => Staged \in 0 .. Capacity - queue_state.pending
<1> SUFFICES ASSUME IInv PROVE Staged \in 0 .. Capacity - queue_state.pending
  OBVIOUS
<1>1. CASE producer_mutex = {}
  BY <1>1, HeldAndStaged, RingTypes, CapacityAssumption
<1>2. ASSUME NEW u \in Threads, producer_mutex = {u}
      PROVE  Staged \in 0 .. Capacity - queue_state.pending
  <2>1. Reserved(u)
    BY DEF IInv
  <2> QED
    BY <1>2, <2>1, HeldAndStaged, RingTypes, CapacityAssumption DEF Reserved
<1> QED
  BY <1>1, <1>2, RingTypes DEF Holders

\* The ring is as good as before if neither end nor the counts have moved.
LEMMA RingKept ==
  ASSUME IInv, Held' = Held, Staged' = Staged, UNCHANGED ring,
         queue_state'.pending = queue_state.pending
  PROVE  RingOK'
BY DEF IInv, RingOK, Engaged, ring, Advance
-----------------------------------------------------------------------------
(* The critical section of a producer.                                     *)

LEMMA EnqueueLockStep ==
  ASSUME IInv, NEW t \in Threads, EnqueueLock(t) PROVE IInv'
<1>1. CASE Refuse(t)
  BY <1>1, RefuseStep DEF EnqueueLock
<1>2. CASE Move(t, "e_load")
  BY <1>2, MoveStep, OrdinaryAre
     DEF EnqueueLock, FreeLabels, SpaceLabels, WorkLabels, IdleLabels, Sleeping
<1>3. CASE /\ ~queue_state.stopping /\ ~Full(queue_state)
           /\ producer_mutex' = {t}
           /\ count' = [count EXCEPT ![t] =
                         Least(Len(span[t]), Capacity - queue_state.pending)]
           /\ Goto(t, "e_slot")
           /\ UNCHANGED <<word, work, consumer_mutex, shutdown_mutex, jthreads,
                          waiting, span, mode, calls, seen>>
  <2> DEFINE n == Least(Len(span[t]), Capacity - queue_state.pending)
  <2>1. /\ n \in 0 .. Capacity /\ queue_state.pending + n <= Capacity
        /\ n <= Len(span[t])
    BY RingTypes, LenProperties, CapacityAssumption DEF Least
  <2>2. /\ pc[t] = "e_lock" /\ producer_mutex = {} /\ consumer_mutex # {t}
    BY DEF EnqueueLock, IInv, Exclusion, CancelLabels, NotifyLabels
  <2>3. Moves(t, "e_slot") /\ pc'[t] = "e_slot"
    BY <1>3, <2>2, GotoMoves DEF IInv, word, Sleeping, Labels, Moves
  <2>4. /\ count'[t] = n
        /\ \A u \in Threads \ {t} : count'[u] = count[u]
        /\ count' \in [Threads -> 0 .. Capacity]
    BY <1>3, <2>1, RingTypes
  <2>5. UNCHANGED <<queue_state, ring, status, claimed, batch, consumer_mutex,
                    span>>
    BY <1>3 DEF word, work
  <2>6. ASSUME NEW u \in Threads PROVE Exclusion(u)' /\ Reserved(u)'
    <3>1. CASE u = t
      BY <1>3, <2>1, <2>2, <2>3, <2>4, <2>5, <3>1
         DEF Exclusion, Reserved, CancelLabels, NotifyLabels
    <3>2. CASE u # t
      <4>1. Exclusion(u)'
        BY <1>3, <2>2, <2>3, <2>5, <3>2, OthersExclusion
      <4>2. Moved(u) /\ Reserved(u)
        BY <2>3, <3>2 DEF Moves, IInv
      <4> QED
        BY <2>4, <2>5, <3>2, <4>1, <4>2 DEF Reserved, Moved
    <3> QED
      BY <3>1, <3>2
  <2>7. ASSUME NEW w \in Workers PROVE Busy(w)'
    <3>1. CASE w = t
      BY <2>2, <2>3, <2>5, <3>1 DEF IInv, Busy, Free, NotifyLabels
    <3>2. CASE w # t
      BY <2>3, <2>5, <3>2, OthersBusy
    <3> QED
      BY <3>1, <3>2
  <2>8. ActiveCounted'
    BY <2>2, <2>3, <2>5, ClaimsKept DEF Moves, Moved, Threads
  <2>9. /\ Counted' /\ waiting_producers' \in Nat
        /\ waiting_workers' \in Nat /\ waiting_for_idle' \in Nat
    BY <1>3, <2>2, <2>3, CountedKept
       DEF SpaceLabels, WorkLabels, IdleLabels, Labels
  <2>10. RingOK'
    <3>1. Held' = Held
      BY <2>2, <2>3, <2>4, <2>5, HeldKept
    <3>2. Staged' = Staged
      BY <1>3, <2>2, <2>3, HeldAndStaged, HeldAndStagedNext
    <3> QED
      BY <2>5, <3>1, <3>2, RingKept
  <2>11. TypeOK'
    <3>1. pc' \in [Threads -> Labels] /\ eligible' \subseteq Threads
      BY <2>3 DEF Moves, EligibleSleep, QueueSleepers
    <3>2. producer_mutex' \in Holders
      BY <1>3 DEF Holders
    <3> QED
      BY <1>3, <2>4, <2>9, <3>1, <3>2
         DEF IInv, TypeOK, word, work, ring, failures, jthreads, seen
  <2>12. EligibleSleep'
    BY <2>3 DEF Moves
  <2> QED
    BY <2>6, <2>7, <2>8, <2>9, <2>10, <2>11, <2>12, AllParts
<1> QED
  BY <1>1, <1>2, <1>3 DEF EnqueueLock

\* The arithmetic of the ring.
LEMMA AdvanceType ==
  ASSUME NEW i \in Slots, NEW n \in 0 .. Capacity
  PROVE  Advance(i, n) \in Slots
BY CapacityAssumption DEF Advance, Slots

LEMMA OffsetType ==
  ASSUME NEW i \in Slots, NEW j \in Slots
  PROVE  Offset(i, j) \in Slots /\ Advance(j, Offset(i, j)) = i
BY CapacityAssumption DEF Advance, Offset, Slots

\* Behind e engaged slots, n more: the tail and the slots they reach.
LEMMA Extend ==
  ASSUME NEW head \in Slots, NEW tail \in Slots,
         NEW e \in 0 .. Capacity, NEW n \in 0 .. Capacity, e + n <= Capacity,
         tail = Advance(head, e) \/ (e = Capacity /\ tail = head)
  PROVE  /\ \/ Advance(tail, n) = Advance(head, e + n)
            \/ e + n = Capacity /\ Advance(tail, n) = head
         /\ \A i \in Slots :
              (Offset(i, head) < e + n) <=>
                (Offset(i, head) < e \/ Offset(i, tail) < n)
BY CapacityAssumption DEF Advance, Offset, Slots

\* Without the first n of e engaged slots.
LEMMA Shorten ==
  ASSUME NEW head \in Slots, NEW tail \in Slots,
         NEW e \in 0 .. Capacity, NEW n \in 0 .. e,
         tail = Advance(head, e) \/ (e = Capacity /\ tail = head)
  PROVE  /\ \/ tail = Advance(Advance(head, n), e - n)
            \/ e - n = Capacity /\ tail = Advance(head, n)
         /\ \A i \in Slots :
              (Offset(i, Advance(head, n)) < e - n) <=>
                (Offset(i, head) < e /\ ~(Offset(i, head) < n))
BY CapacityAssumption DEF Advance, Offset, Slots

LEMMA EnqueueSlotStep ==
  ASSUME IInv, NEW t \in Threads, EnqueueSlot(t) PROVE IInv'
<1> DEFINE n == count[t]
<1>1. /\ pc[t] = "e_slot" /\ producer_mutex = {t} /\ consumer_mutex # {t}
      /\ queue_state.pending + n <= Capacity /\ n <= Len(span[t])
      /\ n \in 0 .. Capacity
  BY RingTypes DEF EnqueueSlot, IInv, Exclusion, Reserved, CancelLabels,
                   NotifyLabels
<1>2. UNCHANGED <<queue_state, queue_head, status, claimed, batch, count, span,
                  producer_mutex, consumer_mutex>>
  BY DEF EnqueueSlot, word, locks, call
<1>3. Moves(t, "e_publish") /\ pc'[t] = "e_publish"
  BY <1>1, GotoMoves DEF EnqueueSlot, IInv, word, Sleeping, Labels, Moves
<1>4. ASSUME NEW u \in Threads PROVE Exclusion(u)' /\ Reserved(u)'
  <2>1. CASE u = t
    BY <1>1, <1>2, <1>3, <2>1
       DEF Exclusion, Reserved, CancelLabels, NotifyLabels
  <2>2. CASE u # t
    <3>1. Exclusion(u)'
      BY <1>2, <1>3, <2>2, OthersExclusion
    <3>2. Moved(u) /\ Reserved(u)
      BY <1>3, <2>2 DEF Moves, IInv
    <3> QED
      BY <1>2, <3>1, <3>2 DEF Reserved, Moved
  <2> QED
    BY <2>1, <2>2
<1>5. ASSUME NEW w \in Workers PROVE Busy(w)'
  <2>1. CASE w = t
    BY <1>1, <1>2, <1>3, <2>1 DEF IInv, Busy, Free, NotifyLabels
  <2>2. CASE w # t
    BY <1>2, <1>3, <2>2, OthersBusy
  <2> QED
    BY <2>1, <2>2
<1>6. ActiveCounted'
  BY <1>1, <1>2, <1>3, ClaimsKept DEF Moves, Moved, Threads
<1>7. /\ Counted' /\ waiting_producers' \in Nat
      /\ waiting_workers' \in Nat /\ waiting_for_idle' \in Nat
  BY <1>1, <1>3, CountedKept
     DEF EnqueueSlot, SpaceLabels, WorkLabels, IdleLabels, Labels
<1> DEFINE e == queue_state.pending - Held
<1>8. /\ Staged = 0 /\ Staged' = n /\ Held' = Held
      /\ e \in 0 .. Capacity /\ e + n <= Capacity
  <2>1. Staged = 0 /\ Staged' = n
    BY <1>1, <1>2, <1>3, HeldAndStaged, HeldAndStagedNext
  <2>2. Held' = Held
    BY <1>1, <1>2, <1>3, HeldKept
  <2> QED
    BY <1>1, <2>1, <2>2, HeldType, RingTypes, CapacityAssumption
<1>9. /\ tasks' \in [Slots -> Tasks \cup {NoTask}]
      /\ \A i \in Slots :
           IF Offset(i, queue_tail) < n THEN tasks'[i] # NoTask
                                        ELSE tasks'[i] = tasks[i]
  <2>1. \A i \in Slots : Offset(i, queue_tail) < n =>
          span[t][Offset(i, queue_tail) + 1] \in Tasks
    <3> SUFFICES ASSUME NEW i \in Slots, Offset(i, queue_tail) < n
                 PROVE  span[t][Offset(i, queue_tail) + 1] \in Tasks
      OBVIOUS
    <3>1. Offset(i, queue_tail) \in Nat
      BY OffsetType, RingTypes DEF Slots
    <3>2. Offset(i, queue_tail) + 1 \in 1 .. Len(span[t])
      BY <1>1, <3>1, LenProperties, RingTypes
    <3> QED
      BY <3>2, ElementOfSeq, RingTypes
  <2> QED
    BY <2>1, RingTypes, TasksAssumption DEF EnqueueSlot
<1>10. queue_tail' = Advance(queue_tail, n) /\ queue_tail' \in Slots
  BY <1>1, AdvanceType, RingTypes DEF EnqueueSlot
<1>11. RingOK'
  <2>1. /\ queue_tail = Advance(queue_head, e)
             \/ (e = Capacity /\ queue_tail = queue_head)
        /\ \A i \in Slots : (tasks[i] # NoTask) <=> (Offset(i, queue_head) < e)
    BY <1>8, RingTypes DEF IInv, RingOK, Engaged
  <2>2. /\ \/ queue_tail' = Advance(queue_head, e + n)
           \/ e + n = Capacity /\ queue_tail' = queue_head
        /\ \A i \in Slots :
             (Offset(i, queue_head) < e + n) <=>
               (Offset(i, queue_head) < e \/ Offset(i, queue_tail) < n)
    BY <1>1, <1>8, <1>10, <2>1, Extend, RingTypes
  <2>3. \A i \in Slots :
          (tasks'[i] # NoTask) <=> (Offset(i, queue_head) < e + n)
    BY <1>9, <2>1, <2>2
  <2>4. Engaged' = e + n
    BY <1>2, <1>8, RingTypes DEF Engaged
  <2>5. queue_state'.pending + Staged' <= Capacity /\ Held' <= queue_state'.pending
    BY <1>1, <1>2, <1>8, HeldType, RingTypes
  <2> QED
    BY <1>2, <2>2, <2>3, <2>4, <2>5 DEF RingOK, Advance, Offset
<1>12. TypeOK'
  <2>1. pc' \in [Threads -> Labels] /\ eligible' \subseteq Threads
    BY <1>3 DEF Moves, EligibleSleep, QueueSleepers
  <2> QED
    BY <1>2, <1>7, <1>9, <1>10, <2>1
       DEF EnqueueSlot, IInv, TypeOK, failures, locks, jthreads, call, seen
<1>13. EligibleSleep'
  BY <1>3 DEF Moves
<1> QED
  BY <1>4, <1>5, <1>6, <1>7, <1>11, <1>12, <1>13, AllParts

LEMMA EnqueuePublishStep ==
  ASSUME IInv, NEW t \in Threads, EnqueuePublish(t) PROVE IInv'
<1> DEFINE n == count[t]
<1>1. /\ pc[t] = "e_publish" /\ producer_mutex = {t} /\ consumer_mutex # {t}
      /\ queue_state.pending + n <= Capacity /\ n <= Len(span[t])
      /\ n \in 0 .. Capacity
  BY RingTypes DEF EnqueuePublish, IInv, Exclusion, Reserved, CancelLabels,
                   NotifyLabels
<1>2. /\ UNCHANGED <<ring, claimed, batch, count, consumer_mutex>>
      /\ producer_mutex' = {}
  BY DEF EnqueuePublish
<1>3. Moves(t, "e_check") /\ pc'[t] = "e_check"
  BY <1>1, StateMoves DEF EnqueuePublish, IInv, Sleeping, Labels, Moves
<1>4. /\ queue_state' \in QueueState
      /\ queue_state'.pending = queue_state.pending + n
      /\ queue_state'.active = queue_state.active
  <2>1. queue_state' = [queue_state EXCEPT !.pending = @ + n]
    BY DEF EnqueuePublish, SetState
  <2>2. queue_state.pending + n \in 0 .. Capacity
    BY <1>1, RingTypes, CapacityAssumption
  <2> QED
    BY <2>1, <2>2, RingTypes DEF QueueState
<1>5. /\ span' \in [Threads -> Seq(Tasks)]
      /\ \A u \in Threads \ {t} : span'[u] = span[u]
  <2>1. SubSeq(span[t], n + 1, Len(span[t])) \in Seq(Tasks)
    BY <1>1, RingTypes, SubSeqProperties, LenProperties
  <2> QED
    BY <2>1, RingTypes DEF EnqueuePublish
<1>6. ASSUME NEW u \in Threads PROVE Exclusion(u)' /\ Reserved(u)'
  <2>1. CASE u = t
    BY <1>1, <1>2, <1>3, <2>1
       DEF Exclusion, Reserved, CancelLabels, NotifyLabels
  <2>2. CASE u # t
    <3>1. Exclusion(u)'
      BY <1>1, <1>2, <1>3, <2>2, OthersExclusion
    <3>2. Moved(u) /\ Reserved(u) /\ Exclusion(u)
      BY <1>3, <2>2 DEF Moves, IInv
    <3>3. pc[u] \notin {"e_slot", "e_publish", "c_drop", "c_sub"}
      BY <1>1, <2>2, <3>2 DEF Exclusion, CancelLabels
    <3>4. pc'[u] \notin {"e_slot", "e_publish", "c_drop", "c_sub"}
      BY <3>2, <3>3 DEF Moved
    <3>5. pc'[u] \in {"w_take", "w_claim"} =>
            u \in Workers /\ claimed'[u] \in 1 .. queue_state'.pending
      BY <1>1, <1>2, <1>4, <3>2, RingTypes DEF Reserved, Moved
    <3> QED
      BY <3>1, <3>4, <3>5 DEF Reserved
  <2> QED
    BY <2>1, <2>2
<1>7. ASSUME NEW w \in Workers PROVE Busy(w)'
  <2>1. CASE w = t
    BY <1>1, <1>2, <1>3, <2>1 DEF IInv, Busy, Free, NotifyLabels
  <2>2. CASE w # t
    BY <1>2, <1>3, <2>2, OthersBusy
  <2> QED
    BY <2>1, <2>2
<1>8. ActiveCounted'
  BY <1>1, <1>2, <1>3, <1>4, ClaimsKept DEF Moves, Moved, Threads
<1>9. /\ Counted' /\ waiting_producers' \in Nat
      /\ waiting_workers' \in Nat /\ waiting_for_idle' \in Nat
  BY <1>1, <1>3, CountedKept
     DEF EnqueuePublish, SpaceLabels, WorkLabels, IdleLabels, Labels
<1>10. RingOK'
  <2>1. Staged = n /\ Staged' = 0
    BY <1>1, <1>2, HeldAndStaged, HeldAndStagedNext
  <2>2. Held' = Held /\ Held \in 0 .. queue_state.pending
    BY <1>1, <1>2, <1>3, HeldKept, HeldType
  <2>3. Engaged' = Engaged
    BY <1>1, <1>4, <2>1, <2>2, RingTypes DEF Engaged
  <2>4. /\ queue_state'.pending + Staged' <= Capacity
        /\ Held' <= queue_state'.pending
    BY <1>1, <1>4, <2>1, <2>2, RingTypes
  <2> QED
    BY <1>2, <2>3, <2>4 DEF IInv, RingOK, ring, Advance
<1>11. TypeOK'
  <2>1. pc' \in [Threads -> Labels] /\ eligible' \subseteq Threads
    BY <1>3 DEF Moves, EligibleSleep, QueueSleepers
  <2>2. producer_mutex' \in Holders /\ status' \in [Tasks -> Statuses]
    BY RingTypes DEF EnqueuePublish, Holders, Statuses
  <2> QED
    BY <1>4, <1>5, <1>9, <2>1, <2>2
       DEF EnqueuePublish, IInv, TypeOK, ring, failures, jthreads, seen
<1>12. EligibleSleep'
  BY <1>3 DEF Moves
<1> QED
  BY <1>6, <1>7, <1>8, <1>9, <1>10, <1>11, <1>12, AllParts
-----------------------------------------------------------------------------
(* The critical section of a worker.                                       *)

LEMMA WorkerLockStep ==
  ASSUME IInv, NEW w \in Workers, WorkerLock(w) PROVE IInv'
<1>1. w \in Threads
  BY DEF Threads
<1>2. CASE Move(w, "w_load")
  BY <1>1, <1>2, MoveStep, OrdinaryAre
     DEF WorkerLock, FreeLabels, SpaceLabels, WorkLabels, IdleLabels, Sleeping
<1>3. CASE /\ queue_state.pending # 0
           /\ consumer_mutex' = {w}
           /\ claimed' = [claimed EXCEPT ![w] =
                           Least(BulkClaim, queue_state.pending)]
           /\ Goto(w, "w_take")
           /\ UNCHANGED <<word, ring, failures, status, batch, producer_mutex,
                          shutdown_mutex, jthreads, waiting, call, seen>>
  <2> DEFINE n == Least(BulkClaim, queue_state.pending)
  <2>1. n \in 1 .. queue_state.pending /\ n \in 0 .. Capacity
    BY <1>3, RingTypes, CountAssumption, CapacityAssumption DEF Least
  <2>2. /\ pc[w] = "w_lock" /\ consumer_mutex = {} /\ producer_mutex # {w}
        /\ claimed[w] = 0
    BY <1>1 DEF WorkerLock, IInv, Exclusion, Busy, Free, CancelLabels,
                NotifyLabels
  <2>3. Moves(w, "w_take") /\ pc'[w] = "w_take"
    BY <1>1, <1>3, <2>2, GotoMoves DEF IInv, word, Sleeping, Labels, Moves
  <2>4. /\ claimed'[w] = n
        /\ \A x \in Workers \ {w} : claimed'[x] = claimed[x]
        /\ claimed' \in [Workers -> 0 .. Capacity]
    BY <1>3, <2>1, RingTypes
  <2>5. UNCHANGED <<queue_state, ring, status, count, batch, producer_mutex,
                    span>>
    BY <1>3 DEF word, call
  <2>6. ASSUME NEW u \in Threads PROVE Exclusion(u)' /\ Reserved(u)'
    <3>1. CASE u = w
      BY <1>3, <2>1, <2>2, <2>3, <2>4, <2>5, <3>1
         DEF Exclusion, Reserved, CancelLabels, NotifyLabels
    <3>2. CASE u # w
      <4>1. Exclusion(u)'
        BY <1>1, <1>3, <2>2, <2>3, <2>5, <3>2, OthersExclusion
      <4>2. Moved(u) /\ Reserved(u)
        BY <2>3, <3>2 DEF Moves, IInv
      <4> QED
        BY <2>4, <2>5, <3>2, <4>1, <4>2 DEF Reserved, Moved
    <3> QED
      BY <3>1, <3>2
  <2>7. ASSUME NEW x \in Workers PROVE Busy(x)'
    <3>1. CASE x = w
      BY <2>3, <3>1 DEF Busy, Free, NotifyLabels
    <3>2. CASE x # w
      BY <1>1, <1>3, <2>2, <2>3, <2>4, <2>5, <3>2, OthersBusy
    <3> QED
      BY <3>1, <3>2
  <2>8. ActiveCounted'
    <3>1. \A x \in Workers \ {w} :
            pc'[x] \in {"w_take", "w_claim"} <=> pc[x] \in {"w_take", "w_claim"}
      BY <2>3 DEF Moves, Moved, Threads
    <3>2. Claims' = Claims
      BY <2>2, <2>3, <2>4, <3>1 DEF Claims
    <3> QED
      BY <2>5, <3>2 DEF IInv, ActiveCounted
  <2>9. /\ Counted' /\ waiting_producers' \in Nat
        /\ waiting_workers' \in Nat /\ waiting_for_idle' \in Nat
    BY <1>1, <1>3, <2>2, <2>3, CountedKept
       DEF SpaceLabels, WorkLabels, IdleLabels, Labels
  <2>10. RingOK'
    <3>1. Held' = Held
      BY <1>1, <1>3, <2>2, <2>3, HeldAndStaged, HeldAndStagedNext
    <3>2. Staged' = Staged
      BY <1>1, <2>2, <2>3, <2>5, StagedKept
    <3> QED
      BY <2>5, <3>1, <3>2, RingKept
  <2>11. TypeOK'
    <3>1. pc' \in [Threads -> Labels] /\ eligible' \subseteq Threads
      BY <2>3 DEF Moves, EligibleSleep, QueueSleepers
    <3>2. consumer_mutex' \in Holders
      BY <1>1, <1>3 DEF Holders
    <3> QED
      BY <1>3, <2>4, <2>9, <3>1, <3>2
         DEF IInv, TypeOK, word, call, ring, failures, jthreads, seen
  <2>12. EligibleSleep'
    BY <2>3 DEF Moves
  <2> QED
    BY <2>6, <2>7, <2>8, <2>9, <2>10, <2>11, <2>12, AllParts
<1> QED
  BY <1>2, <1>3 DEF WorkerLock

\* The slots at the head hold tasks.
LEMMA FrontType ==
  ASSUME IInv, NEW n \in 0 .. Engaged, Engaged <= Capacity, Engaged \in Nat
  PROVE  /\ Front(n) \in Seq(Tasks) /\ Len(Front(n)) = n
         /\ TasksIn(Front(n)) \subseteq Tasks
<1>1. ASSUME NEW i \in 1 .. n
      PROVE  tasks[Advance(queue_head, i - 1)] \in Tasks
  <2>1. /\ Advance(queue_head, i - 1) \in Slots
        /\ Offset(Advance(queue_head, i - 1), queue_head) = i - 1
    BY RingTypes, CapacityAssumption DEF Advance, Offset, Slots
  <2>2. i - 1 < Engaged
    BY RingTypes
  <2>3. tasks[Advance(queue_head, i - 1)] # NoTask
    BY <2>1, <2>2 DEF IInv, RingOK
  <2> QED
    BY <2>1, <2>3, RingTypes
<1>2. Front(n) \in [1 .. n -> Tasks]
  BY <1>1 DEF Front
<1>3. n \in Nat
  OBVIOUS
<1> QED
  BY <1>2, <1>3 DEF TasksIn

LEMMA ClaimSizeType ==
  ASSUME IInv, NEW limit \in 1 .. queue_state.pending
  PROVE  ClaimSize(limit) \in 1 .. limit
<1> DEFINE sizes == {n \in 1 .. limit : TasksIn(Front(n)) \subseteq Bulk}
<1>1. limit \in Nat \ {0}
  BY RingTypes
<1>2. CASE tasks[queue_head] \notin Bulk
  BY <1>1, <1>2 DEF ClaimSize
<1>3. CASE tasks[queue_head] \in Bulk
  <2>1. 1 \in sizes
    <3>1. Advance(queue_head, 0) = queue_head
      BY RingTypes, CapacityAssumption DEF Advance, Slots
    <3>2. TasksIn(Front(1)) \subseteq {tasks[queue_head]}
      BY <3>1 DEF TasksIn, Front
    <3> QED
      BY <1>1, <1>3, <3>2
  <2>2. IsFiniteSet(1 .. limit) /\ Cardinality(1 .. limit) = limit
    BY <1>1, FS_Interval
  <2>3. IsFiniteSet(sizes) /\ Cardinality(sizes) <= limit
    <3>1. sizes \in SUBSET (1 .. limit)
      OBVIOUS
    <3> HIDE DEF sizes
    <3> QED
      BY <2>2, <3>1, FS_Subset
  <2>4. Cardinality(sizes) \in Nat /\ Cardinality(sizes) # 0
    BY <2>1, <2>3, FS_CardinalityType, FS_EmptySet
  <2> QED
    BY <1>1, <1>3, <2>3, <2>4 DEF ClaimSize
<1> QED
  BY <1>2, <1>3

LEMMA WorkerTakeStep ==
  ASSUME IInv, NEW w \in Workers, WorkerTake(w) PROVE IInv'
<1> DEFINE n == ClaimSize(claimed[w])
<1>1. /\ pc[w] = "w_take" /\ consumer_mutex = {w} /\ producer_mutex # {w}
      /\ claimed[w] \in 1 .. queue_state.pending /\ w \in Threads
  BY DEF WorkerTake, IInv, Exclusion, Reserved, CancelLabels, NotifyLabels,
         Threads
<1>2. n \in 1 .. claimed[w] /\ n \in 1 .. queue_state.pending
      /\ n \in 0 .. Capacity
  <2>1. n \in 1 .. claimed[w]
    BY <1>1, ClaimSizeType
  <2> QED
    BY <1>1, <2>1, RingTypes, CapacityAssumption
<1>3. UNCHANGED <<queue_state, queue_tail, status, count, span, producer_mutex,
                  consumer_mutex>>
  BY DEF WorkerTake, word, locks, call
<1>4. Moves(w, "w_claim") /\ pc'[w] = "w_claim"
  BY <1>1, GotoMoves DEF WorkerTake, IInv, word, Sleeping, Labels, Moves
<1>5. /\ claimed'[w] = n /\ claimed' \in [Workers -> 0 .. Capacity]
      /\ batch'[w] = Front(n)
      /\ \A x \in Workers \ {w} :
           claimed'[x] = claimed[x] /\ batch'[x] = batch[x]
  BY <1>2, RingTypes, CapacityAssumption DEF WorkerTake
<1>6. /\ Held = 0 /\ Held' = n /\ Staged' = Staged
      /\ Engaged \in 0 .. Capacity /\ n \in 0 .. Engaged
      /\ Engaged' = Engaged - n
  <2>1. Held = 0 /\ Held' = n
    BY <1>1, <1>3, <1>4, <1>5, HeldAndStaged, HeldAndStagedNext
  <2>2. Staged' = Staged
    BY <1>1, <1>3, <1>4, StagedKept
  <2>3. Engaged = queue_state.pending + Staged /\ Engaged \in 0 .. Capacity
    BY <2>1, StagedType, RingTypes, CapacityAssumption DEF Engaged
  <2> QED
    BY <1>2, <1>3, <2>1, <2>2, <2>3, StagedType, RingTypes DEF Engaged
<1>7. /\ Front(n) \in Seq(Tasks) /\ Len(Front(n)) = n
      /\ batch' \in [Workers -> Seq(Tasks)]
  <2>1. Front(n) \in Seq(Tasks) /\ Len(Front(n)) = n
    BY <1>6, FrontType, CapacityAssumption
  <2> QED
    BY <2>1, RingTypes DEF WorkerTake
<1>8. ASSUME NEW u \in Threads PROVE Exclusion(u)' /\ Reserved(u)'
  <2>1. CASE u = w
    BY <1>1, <1>2, <1>3, <1>4, <1>5, <2>1
       DEF Exclusion, Reserved, CancelLabels, NotifyLabels
  <2>2. CASE u # w
    <3>1. Exclusion(u)'
      BY <1>1, <1>3, <1>4, <2>2, OthersExclusion
    <3>2. Moved(u) /\ Reserved(u)
      BY <1>4, <2>2 DEF Moves, IInv
    <3> QED
      BY <1>3, <1>5, <2>2, <3>1, <3>2 DEF Reserved, Moved
  <2> QED
    BY <2>1, <2>2
<1>9. ASSUME NEW x \in Workers PROVE Busy(x)'
  <2>1. CASE x = w
    <3>1. Front(n) # <<>>
      BY <1>2, <1>7
    <3> QED
      BY <1>4, <1>5, <2>1, <3>1 DEF Busy, Free, NotifyLabels
  <2>2. CASE x # w
    BY <1>1, <1>3, <1>4, <1>5, <2>2, OthersBusy
  <2> QED
    BY <2>1, <2>2
<1>10. ActiveCounted'
  BY <1>1, <1>3, <1>4, <1>5, ClaimsKept DEF Moves, Moved, Threads
<1>11. /\ Counted' /\ waiting_producers' \in Nat
       /\ waiting_workers' \in Nat /\ waiting_for_idle' \in Nat
  BY <1>1, <1>4, CountedKept
     DEF WorkerTake, SpaceLabels, WorkLabels, IdleLabels, Labels
<1>12. /\ queue_head' = Advance(queue_head, n) /\ queue_head' \in Slots
       /\ tasks' \in [Slots -> Tasks \cup {NoTask}]
       /\ \A i \in Slots : tasks'[i] =
            IF Offset(i, queue_head) < n THEN NoTask ELSE tasks[i]
  <2>1. queue_head' = Advance(queue_head, n) /\ tasks' = Emptied(n)
    BY DEF WorkerTake
  <2>2. Advance(queue_head, n) \in Slots
    BY <1>2, AdvanceType, RingTypes
  <2> QED
    BY <2>1, <2>2, RingTypes DEF Emptied
<1>13. RingOK'
  <2>1. /\ queue_tail = Advance(queue_head, Engaged)
             \/ (Engaged = Capacity /\ queue_tail = queue_head)
        /\ \A i \in Slots :
             (tasks[i] # NoTask) <=> (Offset(i, queue_head) < Engaged)
    BY DEF IInv, RingOK
  <2>2. /\ \/ queue_tail = Advance(queue_head', Engaged - n)
           \/ Engaged - n = Capacity /\ queue_tail = queue_head'
        /\ \A i \in Slots :
             (Offset(i, queue_head') < Engaged - n) <=>
               (Offset(i, queue_head) < Engaged /\ ~(Offset(i, queue_head) < n))
    BY <1>6, <1>12, <2>1, Shorten, RingTypes
  <2>3. \A i \in Slots :
          (tasks'[i] # NoTask) <=> (Offset(i, queue_head') < Engaged - n)
    BY <1>12, <2>1, <2>2
  <2>4. queue_state'.pending + Staged' <= Capacity /\ Held' <= queue_state'.pending
    BY <1>2, <1>3, <1>6, StagedType, RingTypes, CapacityAssumption
  <2> QED
    BY <1>3, <1>6, <2>2, <2>3, <2>4 DEF RingOK, Advance, Offset
<1>14. TypeOK'
  <2>1. pc' \in [Threads -> Labels] /\ eligible' \subseteq Threads
    BY <1>4 DEF Moves, EligibleSleep, QueueSleepers
  <2>2. UNCHANGED <<queue_state, queue_tail, locks, jthreads, completion_epoch,
                    failures, status, observed, epoch, span, count, mode, calls>>
    BY DEF WorkerTake, word, seen, call
  <2>3. TypeOK
    BY DEF IInv
  <2> QED
    BY ONLY <2>1, <2>2, <2>3, <1>5, <1>7, <1>11, <1>12
       DEF TypeOK, failures, locks, jthreads
<1>15. EligibleSleep'
  BY <1>4 DEF Moves
<1> QED
  BY <1>8, <1>9, <1>10, <1>11, <1>13, <1>14, <1>15, AllParts

\* The claims of one worker, as pairs, and how many there are.
LEMMA ClaimsOf ==
  ASSUME NEW w \in Workers, NEW n \in 0 .. Capacity
  PROVE  IsFiniteSet({w} \X (1 .. n)) /\ Cardinality({w} \X (1 .. n)) = n
<1>1. IsFiniteSet({w}) /\ Cardinality({w}) = 1
  BY FS_Singleton
<1>2. n \in Nat
  BY CapacityAssumption
<1>3. IsFiniteSet(1 .. n) /\ Cardinality(1 .. n) = n
  BY <1>2, FS_Interval
<1>4. /\ IsFiniteSet({w} \X (1 .. n))
      /\ Cardinality({w} \X (1 .. n)) = Cardinality({w}) * Cardinality(1 .. n)
  BY <1>1, <1>3, FS_Product, Zenon
<1> QED
  BY <1>1, <1>2, <1>3, <1>4

LEMMA ClaimsFinite ==
  IsFiniteSet(Claims) /\ Cardinality(Claims) \in Nat
<1>1. IsFiniteSet(Workers)
  BY ThreadsAssumption, FS_Subset DEF Threads
<1>2. IsFiniteSet(1 .. Capacity)
  BY CapacityAssumption, FS_Interval
<1>3. IsFiniteSet(Workers \X (1 .. Capacity))
  BY <1>1, <1>2, FS_Product
<1>4. Claims \subseteq Workers \X (1 .. Capacity)
  BY DEF Claims
<1>5. IsFiniteSet(Claims)
  BY <1>3, <1>4, FS_Subset
<1> QED
  BY <1>5, FS_CardinalityType

LEMMA WorkerClaimStep ==
  ASSUME IInv, NEW w \in Workers, WorkerClaim(w) PROVE IInv'
<1> DEFINE n == claimed[w]
<1>1. /\ pc[w] = "w_claim" /\ consumer_mutex = {w} /\ producer_mutex # {w}
      /\ n \in 1 .. queue_state.pending /\ n \in 0 .. Capacity /\ w \in Threads
  <2>1. pc[w] = "w_claim" /\ w \in Threads
    BY DEF WorkerClaim, Threads
  <2>2. Exclusion(w) /\ Reserved(w)
    BY <2>1 DEF IInv
  <2> QED
    BY <2>1, <2>2, RingTypes DEF Exclusion, Reserved, CancelLabels, NotifyLabels
<1>2. /\ UNCHANGED <<ring, claimed, batch, count, span, producer_mutex>>
      /\ consumer_mutex' = {}
  BY DEF WorkerClaim, call
<1>3. Moves(w, "w_check") /\ pc'[w] = "w_check"
  BY <1>1, StateMoves DEF WorkerClaim, IInv, Sleeping, Labels, Moves
<1>4. /\ queue_state' \in QueueState
      /\ queue_state'.pending = queue_state.pending - n
      /\ queue_state'.active = queue_state.active + n
  <2>1. queue_state' = [queue_state EXCEPT !.pending = @ - n, !.active = @ + n]
    BY DEF WorkerClaim, SetState
  <2>2. /\ queue_state.pending - n \in 0 .. Capacity
        /\ queue_state.active + n \in Nat
    BY <1>1, RingTypes, CapacityAssumption
  <2> QED
    BY <2>1, <2>2, RingTypes DEF QueueState
<1>5. ASSUME NEW u \in Threads PROVE Exclusion(u)' /\ Reserved(u)'
  <2>1. CASE u = w
    BY <1>1, <1>2, <1>3, <2>1
       DEF Exclusion, Reserved, CancelLabels, NotifyLabels
  <2>2. CASE u # w
    <3>1. Exclusion(u)'
      BY <1>1, <1>2, <1>3, <2>2, OthersExclusion
    <3>2. Moved(u) /\ Reserved(u) /\ Exclusion(u)
      BY <1>3, <2>2 DEF Moves, IInv
    <3>3. pc'[u] \notin {"w_take", "w_claim", "c_drop", "c_sub"}
      BY <1>1, <2>2, <3>2 DEF Exclusion, CancelLabels, Moved
    <3>4. pc'[u] \in {"e_slot", "e_publish"} =>
            /\ queue_state'.pending + count'[u] <= Capacity
            /\ count'[u] <= Len(span'[u])
      <4>1. pc'[u] \in {"e_slot", "e_publish"} =>
              queue_state.pending + count[u] <= Capacity /\ count[u] <= Len(span[u])
        BY <3>2 DEF Reserved, Moved
      <4> QED
        BY <1>1, <1>2, <1>4, <4>1, RingTypes, CapacityAssumption
    <3> QED
      BY <3>1, <3>3, <3>4 DEF Reserved
  <2> QED
    BY <2>1, <2>2
<1>6. ASSUME NEW x \in Workers PROVE Busy(x)'
  <2>1. CASE x = w
    BY <1>1, <1>2, <1>3, <2>1 DEF IInv, Busy, Free, NotifyLabels
  <2>2. CASE x # w
    BY <1>1, <1>2, <1>3, <2>2, OthersBusy
  <2> QED
    BY <2>1, <2>2
<1>7. ActiveCounted'
  <2> DEFINE new == {w} \X (1 .. n)
  <2>1. \A x \in Workers \ {w} :
          pc'[x] \in {"w_take", "w_claim"} <=> pc[x] \in {"w_take", "w_claim"}
    BY <1>3 DEF Moves, Moved, Threads
  <2>2. Claims' = Claims \cup new /\ Claims \cap new = {}
    <3>1. Claims \cap new = {}
      BY <1>1 DEF Claims
    <3>2. Claims' = Claims \cup new
      BY <1>1, <1>2, <1>3, <2>1, CapacityAssumption DEF Claims
    <3> QED
      BY <3>1, <3>2
  <2>3. IsFiniteSet(new) /\ Cardinality(new) = n
    BY <1>1, ClaimsOf
  <2> HIDE DEF new
  <2>4. Cardinality(Claims \cup new) = Cardinality(Claims) + n
    <3>1. Cardinality(Claims \cup new) =
            Cardinality(Claims) + n - Cardinality(Claims \cap new)
      BY <2>3, ClaimsFinite, FS_Union
    <3>2. Cardinality(Claims \cap new) = 0
      BY <2>2, FS_EmptySet
    <3> QED
      BY <1>1, <3>1, <3>2, ClaimsFinite
  <2> QED
    BY <1>4, <2>2, <2>4 DEF IInv, ActiveCounted
<1>8. /\ Counted' /\ waiting_producers' \in Nat
      /\ waiting_workers' \in Nat /\ waiting_for_idle' \in Nat
  BY <1>1, <1>3, CountedKept
     DEF WorkerClaim, SpaceLabels, WorkLabels, IdleLabels, Labels
<1>9. RingOK'
  <2>1. Held = n /\ Held' = 0
    BY <1>1, <1>2, HeldAndStaged, HeldAndStagedNext
  <2>2. Staged' = Staged
    BY <1>1, <1>2, <1>3, StagedKept
  <2>3. Engaged' = Engaged
    BY <1>1, <1>4, <2>1, <2>2, RingTypes DEF Engaged
  <2>4. /\ queue_state'.pending + Staged' <= Capacity
        /\ Held' <= queue_state'.pending
    BY <1>1, <1>4, <2>1, <2>2, StagedType, RingTypes, CapacityAssumption
  <2> QED
    BY <1>2, <2>3, <2>4 DEF IInv, RingOK, ring, Advance
<1>10. TypeOK'
  <2>1. pc' \in [Threads -> Labels] /\ eligible' \subseteq Threads
    BY <1>3 DEF Moves, EligibleSleep, QueueSleepers
  <2>2. consumer_mutex' \in Holders /\ status' \in [Tasks -> Statuses]
    BY RingTypes DEF WorkerClaim, Holders, Statuses
  <2> QED
    BY <1>4, <1>8, <2>1, <2>2
       DEF WorkerClaim, IInv, TypeOK, ring, failures, jthreads, call, seen
<1>11. EligibleSleep'
  BY <1>3 DEF Moves
<1> QED
  BY <1>5, <1>6, <1>7, <1>8, <1>9, <1>10, <1>11, AllParts
-----------------------------------------------------------------------------
(* Execution and the end of a batch.                                       *)

LEMMA ExecuteStep ==
  ASSUME IInv, NEW w \in Workers, Execute(w) PROVE IInv'
<1> DEFINE label == IF Len(batch[w]) = 1 THEN "w_finish" ELSE "w_exec"
<1>1. /\ pc[w] \in {"w_exec", "w_settle"} /\ w \in Threads
      /\ consumer_mutex # {w} /\ producer_mutex # {w}
  BY DEF Execute, IInv, Exclusion, CancelLabels, NotifyLabels, Threads
<1>2. UNCHANGED <<queue_state, ring, claimed, count, span, producer_mutex,
                  consumer_mutex>>
  BY DEF Execute, word, locks, call
<1>3. label \in {"w_finish", "w_exec"} /\ label \in Labels
  BY DEF Labels
<1>4. Moves(w, label) /\ pc'[w] = label
  BY <1>1, <1>3, GotoMoves DEF Execute, IInv, word, Sleeping, Moves
<1>5. /\ batch[w] # <<>> /\ batch[w] \in Seq(Tasks)
      /\ Tail(batch[w]) \in Seq(Tasks)
      /\ Len(batch[w]) # 1 => Tail(batch[w]) # <<>>
  <2>1. batch[w] # <<>> /\ batch[w] \in Seq(Tasks)
    BY <1>1, RingTypes DEF IInv, Busy, Free, NotifyLabels
  <2>2. /\ Tail(batch[w]) \in Seq(Tasks)
        /\ Len(Tail(batch[w])) = Len(batch[w]) - 1
    BY <2>1, HeadTailProperties
  <2>3. Len(batch[w]) \in Nat /\ Len(batch[w]) # 0
    BY <2>1, LenProperties, EmptySeq
  <2>4. Len(batch[w]) # 1 => Tail(batch[w]) # <<>>
    <3>1. Len(batch[w]) # 1 => Len(Tail(batch[w])) # 0
      BY <2>2, <2>3
    <3>2. Tail(batch[w]) = <<>> => Len(Tail(batch[w])) = 0
      BY <2>2, EmptySeq
    <3> QED
      BY <3>1, <3>2
  <2> QED
    BY <2>1, <2>2, <2>4
<1>6. /\ batch' \in [Workers -> Seq(Tasks)] /\ batch'[w] = Tail(batch[w])
      /\ \A x \in Workers \ {w} : batch'[x] = batch[x]
  BY <1>5, RingTypes DEF Execute
<1>7. ASSUME NEW u \in Threads PROVE Exclusion(u)' /\ Reserved(u)'
  <2>1. CASE u = w
    BY <1>1, <1>2, <1>3, <1>4, <2>1
       DEF Exclusion, Reserved, CancelLabels, NotifyLabels
  <2>2. CASE u # w
    <3>1. Exclusion(u)'
      BY <1>1, <1>2, <1>4, <2>2, OthersExclusion
    <3>2. Moved(u) /\ Reserved(u)
      BY <1>4, <2>2 DEF Moves, IInv
    <3> QED
      BY <1>2, <3>1, <3>2 DEF Reserved, Moved
  <2> QED
    BY <2>1, <2>2
<1>8. ASSUME NEW x \in Workers PROVE Busy(x)'
  <2>1. CASE x = w
    BY <1>3, <1>4, <1>5, <1>6, <2>1 DEF Busy, Free, NotifyLabels
  <2>2. CASE x # w
    BY <1>1, <1>2, <1>4, <1>6, <2>2, OthersBusy
  <2> QED
    BY <2>1, <2>2
<1>9. ActiveCounted'
  BY <1>1, <1>2, <1>3, <1>4, ClaimsKept DEF Moves, Moved, Threads
<1>10. /\ Counted' /\ waiting_producers' \in Nat
       /\ waiting_workers' \in Nat /\ waiting_for_idle' \in Nat
  BY <1>1, <1>3, <1>4, CountedKept
     DEF Execute, SpaceLabels, WorkLabels, IdleLabels
<1>11. RingOK'
  <2>1. Held' = Held
    BY <1>1, <1>2, <1>4, HeldKept
  <2>2. Staged' = Staged
    BY <1>1, <1>2, <1>4, StagedKept
  <2> QED
    BY <1>2, <2>1, <2>2, RingKept
<1>12. TypeOK'
  <2>1. pc' \in [Threads -> Labels] /\ eligible' \subseteq Threads
    BY <1>4 DEF Moves, EligibleSleep, QueueSleepers
  <2>2. status' \in [Tasks -> Statuses] /\ failed_dispatches' \in Nat
    <3>1. PICK outcome \in Outcomes :
            /\ status' = [status EXCEPT ![Head(batch[w])] = outcome]
            /\ failed_dispatches' = failed_dispatches +
                 IF Fails(Head(batch[w]), outcome) THEN 1 ELSE 0
      BY DEF Execute
    <3>2. outcome \in Statuses
      BY CallsAssumption DEF Statuses, Settled
    <3>3. status' \in [Tasks -> Statuses]
      BY <3>1, <3>2, RingTypes
    <3>4. failed_dispatches' \in Nat
      BY <3>1 DEF IInv, TypeOK
    <3> QED
      BY <3>3, <3>4
  <2> QED
    BY <1>2, <1>6, <1>10, <2>1, <2>2
       DEF Execute, IInv, TypeOK, word, ring, locks, jthreads, call, seen
<1>13. EligibleSleep'
  BY <1>4 DEF Moves
<1> QED
  BY <1>7, <1>8, <1>9, <1>10, <1>11, <1>12, <1>13, AllParts

LEMMA WorkerFinishStep ==
  ASSUME IInv, NEW w \in Workers, WorkerFinish(w) PROVE IInv'
<1> DEFINE n == claimed[w]
           label == IF /\ active_from_state(queue_state) = claimed[w]
                       /\ queue_state.pending = 0
                    THEN "n_load" ELSE "w_load"
           mine == {w} \X (1 .. n)
<1>1. /\ pc[w] = "w_finish" /\ consumer_mutex # {w} /\ producer_mutex # {w}
      /\ n \in 0 .. Capacity /\ w \in Threads
  BY RingTypes DEF WorkerFinish, IInv, Exclusion, CancelLabels, NotifyLabels,
                   Threads
<1>2. UNCHANGED <<ring, batch, count, span, producer_mutex, consumer_mutex>>
  BY DEF WorkerFinish, locks, call
<1>3. label \in {"n_load", "w_load"} /\ label \in Labels
  BY DEF Labels
<1>4. Moves(w, label) /\ pc'[w] = label
  BY <1>1, <1>3, StateMoves DEF WorkerFinish, IInv, Sleeping, Moves
<1>5. /\ claimed' \in [Workers -> 0 .. Capacity] /\ claimed'[w] = 0
      /\ \A x \in Workers \ {w} : claimed'[x] = claimed[x]
  BY RingTypes, CapacityAssumption DEF WorkerFinish
<1>6. Claims' = Claims \ mine /\ mine \subseteq Claims
  <2>1. \A x \in Workers \ {w} :
          pc'[x] \in {"w_take", "w_claim"} <=> pc[x] \in {"w_take", "w_claim"}
    BY <1>4 DEF Moves, Moved, Threads
  <2>2. mine \subseteq Claims
    BY <1>1, CapacityAssumption DEF Claims
  <2>3. Claims' = Claims \ mine
    BY <1>1, <1>5, <2>1, CapacityAssumption DEF Claims
  <2> QED
    BY <2>2, <2>3
<1>7. /\ Cardinality(Claims') = Cardinality(Claims) - n
      /\ Cardinality(Claims') \in Nat
  <2>1. IsFiniteSet(mine) /\ Cardinality(mine) = n
    BY <1>1, ClaimsOf
  <2> HIDE DEF mine
  <2>2. Claims \cap mine = mine
    BY <1>6
  <2>3. IsFiniteSet(Claims \ mine)
        /\ Cardinality(Claims \ mine) = Cardinality(Claims) - n
    <3>1. /\ IsFiniteSet(Claims \ mine)
          /\ Cardinality(Claims \ mine) =
               Cardinality(Claims) - Cardinality(Claims \cap mine)
      BY ClaimsFinite, FS_Difference
    <3> QED
      BY <2>1, <2>2, <3>1
  <2> QED
    BY <1>6, <2>3, FS_CardinalityType
<1>8. /\ queue_state' = [queue_state EXCEPT !.active = @ - n]
      /\ queue_state'.pending = queue_state.pending
      /\ queue_state'.active = queue_state.active - n
      /\ queue_state' \in QueueState
  <2>1. queue_state.active - n \in Nat
    BY <1>7 DEF IInv, ActiveCounted
  <2>2. queue_state' = [queue_state EXCEPT !.active = @ - n]
    BY DEF WorkerFinish, SetState
  <2> QED
    BY <2>1, <2>2, RingTypes DEF QueueState
<1>9. ActiveCounted'
  BY <1>7, <1>8 DEF IInv, ActiveCounted
<1>10. ASSUME NEW u \in Threads PROVE Exclusion(u)' /\ Reserved(u)'
  <2>1. CASE u = w
    BY <1>1, <1>2, <1>3, <1>4, <2>1
       DEF Exclusion, Reserved, CancelLabels, NotifyLabels
  <2>2. CASE u # w
    <3>1. Exclusion(u)'
      BY <1>1, <1>2, <1>4, <2>2, OthersExclusion
    <3>2. Moved(u) /\ Reserved(u)
      BY <1>4, <2>2 DEF Moves, IInv
    <3> QED
      BY <1>2, <1>5, <1>8, <2>2, <3>1, <3>2 DEF Reserved, Moved
  <2> QED
    BY <2>1, <2>2
<1>11. ASSUME NEW x \in Workers PROVE Busy(x)'
  <2>1. CASE x = w
    BY <1>1, <1>2, <1>3, <1>4, <1>5, <2>1 DEF Busy, Free, NotifyLabels
  <2>2. CASE x # w
    BY <1>1, <1>2, <1>4, <1>5, <2>2, OthersBusy
  <2> QED
    BY <2>1, <2>2
<1>12. /\ Counted' /\ waiting_producers' \in Nat
       /\ waiting_workers' \in Nat /\ waiting_for_idle' \in Nat
  BY <1>1, <1>3, <1>4, CountedKept
     DEF WorkerFinish, SpaceLabels, WorkLabels, IdleLabels
<1>13. RingOK'
  <2>1. Held' = Held
    BY <1>1, <1>2, <1>4, <1>5, HeldKept
  <2>2. Staged' = Staged
    BY <1>1, <1>2, <1>4, StagedKept
  <2> QED
    BY <1>2, <1>8, <2>1, <2>2, RingKept
<1>14. TypeOK'
  <2>1. pc' \in [Threads -> Labels] /\ eligible' \subseteq Threads
    BY <1>4 DEF Moves, EligibleSleep, QueueSleepers
  <2> QED
    BY <1>2, <1>5, <1>8, <1>12, <2>1
       DEF WorkerFinish, IInv, TypeOK, ring, failures, locks, jthreads, call,
           seen
<1>15. EligibleSleep'
  BY <1>4 DEF Moves
<1> QED
  BY <1>9, <1>10, <1>11, <1>12, <1>13, <1>14, <1>15, AllParts
-----------------------------------------------------------------------------
(* cancel_pending, with both mutexes.                                      *)

LEMMA CancelLockStep ==
  ASSUME IInv, NEW t \in Threads, CancelLock(t) PROVE IInv'
<1>1. /\ pc[t] = "c_lock" /\ producer_mutex = {} /\ consumer_mutex = {}
      /\ producer_mutex' = {t} /\ consumer_mutex' = {t}
  BY DEF CancelLock
<1>2. /\ UNCHANGED <<queue_state, ring, status, claimed, batch, span>>
      /\ count'[t] = queue_state.pending
      /\ \A u \in Threads \ {t} : count'[u] = count[u]
      /\ count' \in [Threads -> 0 .. Capacity]
  BY RingTypes DEF CancelLock, word, work
<1>3. Moves(t, "c_drop") /\ pc'[t] = "c_drop"
  BY <1>1, GotoMoves DEF CancelLock, IInv, word, Sleeping, Labels, Moves
<1>4. ASSUME NEW u \in Threads PROVE Exclusion(u)' /\ Reserved(u)'
  <2>1. CASE u = t
    BY <1>1, <1>2, <1>3, <2>1
       DEF Exclusion, Reserved, CancelLabels, NotifyLabels
  <2>2. CASE u # t
    <3>1. Exclusion(u)'
      BY <1>1, <1>3, <2>2, OthersExclusion
    <3>2. Moved(u) /\ Reserved(u)
      BY <1>3, <2>2 DEF Moves, IInv
    <3> QED
      BY <1>2, <2>2, <3>1, <3>2 DEF Reserved, Moved
  <2> QED
    BY <2>1, <2>2
<1>5. ASSUME NEW w \in Workers PROVE Busy(w)'
  <2>1. CASE w = t
    BY <1>1, <1>2, <1>3, <2>1 DEF IInv, Busy, Free, NotifyLabels
  <2>2. CASE w # t
    BY <1>1, <1>2, <1>3, <2>2, OthersBusy
  <2> QED
    BY <2>1, <2>2
<1>6. ActiveCounted'
  BY <1>1, <1>2, <1>3, ClaimsKept DEF Moves, Moved, Threads
<1>7. /\ Counted' /\ waiting_producers' \in Nat
      /\ waiting_workers' \in Nat /\ waiting_for_idle' \in Nat
  BY <1>1, <1>3, CountedKept
     DEF CancelLock, SpaceLabels, WorkLabels, IdleLabels, Labels
<1>8. RingOK'
  <2>1. Held' = Held /\ Staged' = Staged
    BY <1>1, <1>3, HeldAndStaged, HeldAndStagedNext
  <2> QED
    BY <1>2, <2>1, RingKept
<1>9. TypeOK'
  <2>1. pc' \in [Threads -> Labels] /\ eligible' \subseteq Threads
    BY <1>3 DEF Moves, EligibleSleep, QueueSleepers
  <2>2. producer_mutex' \in Holders /\ consumer_mutex' \in Holders
    BY <1>1 DEF Holders
  <2> QED
    BY <1>2, <1>7, <2>1, <2>2
       DEF CancelLock, IInv, TypeOK, word, work, ring, failures, jthreads, seen
<1>10. EligibleSleep'
  BY <1>3 DEF Moves
<1> QED
  BY <1>4, <1>5, <1>6, <1>7, <1>8, <1>9, <1>10, AllParts

LEMMA AfterCancelIs ==
  ASSUME NEW t \in Threads
  PROVE  /\ AfterCancel(t) \in {"w_settle", "idle", "s_request"}
         /\ AfterCancel(t) \in Labels
BY DEF AfterCancel, Resume, Labels

LEMMA ModeAfterCancelType ==
  ASSUME IInv, NEW t \in Threads
  PROVE  ModeAfterCancel(t) \in [Threads -> Operations \cup {"none"}]
BY DEF IInv, TypeOK, ModeAfterCancel

LEMMA CancelDropStep ==
  ASSUME IInv, NEW t \in Threads, CancelDrop(t) PROVE IInv'
<1> DEFINE n == count[t]
           label == IF n # 0 THEN "c_sub" ELSE AfterCancel(t)
           slot == Advance(queue_head, n)
<1>1. /\ pc[t] = "c_drop" /\ producer_mutex = {t} /\ consumer_mutex = {t}
      /\ n = queue_state.pending /\ n \in 0 .. Capacity
  BY RingTypes DEF CancelDrop, IInv, Exclusion, Reserved, CancelLabels
<1>2. /\ UNCHANGED <<queue_state, claimed, batch, count, span>>
      /\ IF n # 0 THEN UNCHANGED locks
                  ELSE producer_mutex' = {} /\ consumer_mutex' = {}
  BY DEF CancelDrop, word
<1>3. label \in {"c_sub", "w_settle", "idle", "s_request"} /\ label \in Labels
  BY AfterCancelIs DEF Labels
<1>4. Moves(t, label) /\ pc'[t] = label
  BY <1>1, <1>3, GotoMoves DEF CancelDrop, IInv, word, Sleeping, Moves
<1>5. ASSUME NEW u \in Threads PROVE Exclusion(u)' /\ Reserved(u)'
  <2>1. CASE u = t
    BY <1>1, <1>2, <1>3, <1>4, <2>1, AfterCancelIs
       DEF Exclusion, Reserved, CancelLabels, NotifyLabels, locks
  <2>2. CASE u # t
    <3>1. Exclusion(u)'
      BY <1>1, <1>2, <1>4, <2>2, OthersExclusion DEF locks
    <3>2. Moved(u) /\ Reserved(u)
      BY <1>4, <2>2 DEF Moves, IInv
    <3> QED
      BY <1>2, <3>1, <3>2 DEF Reserved, Moved
  <2> QED
    BY <2>1, <2>2
<1>6. ASSUME NEW w \in Workers PROVE Busy(w)'
  <2>1. CASE w = t
    BY <1>1, <1>2, <1>3, <1>4, <2>1 DEF IInv, Busy, Free, NotifyLabels
  <2>2. CASE w # t
    BY <1>1, <1>2, <1>4, <2>2, OthersBusy DEF locks
  <2> QED
    BY <2>1, <2>2
<1>7. ActiveCounted'
  BY <1>1, <1>2, <1>3, <1>4, ClaimsKept DEF Moves, Moved, Threads
<1>8. /\ Counted' /\ waiting_producers' \in Nat
      /\ waiting_workers' \in Nat /\ waiting_for_idle' \in Nat
  BY <1>1, <1>3, <1>4, CountedKept
     DEF CancelDrop, SpaceLabels, WorkLabels, IdleLabels
<1>9. Engaged = n /\ Held' = n /\ Staged' = 0 /\ Engaged' = 0
  <2>1. Held = 0 /\ Staged = 0
    BY <1>1, HeldAndStaged
  <2>2. Held' = n
    BY <1>1, <1>2, <1>4, HeldAndStagedNext DEF locks
  <2>3. Staged' = 0
    BY <1>1, <1>2, <1>3, <1>4, HeldAndStagedNext DEF locks
  <2> QED
    BY <1>1, <1>2, <2>1, <2>2, <2>3, RingTypes DEF Engaged
<1>10. /\ queue_head' = slot /\ queue_tail' = slot /\ slot \in Slots
       /\ tasks' \in [Slots -> Tasks \cup {NoTask}]
       /\ \A i \in Slots : tasks'[i] =
            IF Offset(i, queue_head) < n THEN NoTask ELSE tasks[i]
  <2>1. /\ queue_head' = slot /\ queue_tail' = slot
        /\ tasks' = Emptied(n)
    BY DEF CancelDrop
  <2>2. slot \in Slots
    BY <1>1, AdvanceType, RingTypes
  <2> QED
    BY <2>1, <2>2, RingTypes DEF Emptied
<1>11. RingOK'
  <2>1. \A i \in Slots : tasks'[i] = NoTask
    BY <1>9, <1>10 DEF IInv, RingOK
  <2>2. \A i \in Slots : ~(Offset(i, slot) < 0)
    BY <1>10, OffsetType DEF Slots
  <2>3. slot = Advance(slot, 0)
    BY <1>10, CapacityAssumption DEF Advance, Slots
  <2>4. queue_state'.pending + Staged' <= Capacity /\ Held' <= queue_state'.pending
    BY <1>1, <1>2, <1>9, CapacityAssumption
  <2>5. queue_tail' = Advance(queue_head, Engaged)'
    BY <1>9, <1>10, <2>3 DEF Advance
  <2>6. \A i \in Slots :
          (tasks'[i] # NoTask) <=> (Offset(i, queue_head') < Engaged')
    BY <1>9, <1>10, <2>1, <2>2
  <2> QED
    BY <2>4, <2>5, <2>6 DEF RingOK, Offset
<1>12. TypeOK'
  <2>1. pc' \in [Threads -> Labels] /\ eligible' \subseteq Threads
    BY <1>4 DEF Moves, EligibleSleep, QueueSleepers
  <2>2. producer_mutex' \in Holders /\ consumer_mutex' \in Holders
    BY <1>2, RingTypes DEF Holders, locks
  <2>3. shutdown_mutex' = shutdown_mutex
    BY DEF CancelDrop, locks
  <2>4. mode' \in [Threads -> Operations \cup {"none"}]
    BY ModeAfterCancelType DEF CancelDrop, IInv, TypeOK
  <2> DEFINE dropped == TasksIn(Front(n))
  <2>5. /\ status' = [k \in Tasks |->
                       IF k \in dropped THEN "cancelled" ELSE status[k]]
        /\ cancelled_dispatches' =
             cancelled_dispatches + Cardinality(dropped \ Tracked)
    BY DEF CancelDrop
  <2>6. status' \in [Tasks -> Statuses]
    BY <2>5, RingTypes DEF Statuses, Settled
  <2>7. dropped \subseteq Tasks
    BY <1>1, <1>9, FrontType, CapacityAssumption
  <2>8. cancelled_dispatches' \in Nat
    <3>1. IsFiniteSet(dropped \ Tracked)
      BY <2>7, TasksAssumption, FS_Subset
    <3>2. Cardinality(dropped \ Tracked) \in Nat
      BY <3>1, FS_CardinalityType
    <3> QED
      BY <2>5, <3>2 DEF IInv, TypeOK
  <2> HIDE DEF dropped
  <2> QED
    BY <1>2, <1>8, <1>10, <2>1, <2>2, <2>3, <2>4, <2>6, <2>8
       DEF CancelDrop, IInv, TypeOK, jthreads, seen
<1>13. EligibleSleep'
  BY <1>4 DEF Moves
<1> QED
  BY <1>5, <1>6, <1>7, <1>8, <1>11, <1>12, <1>13, AllParts

LEMMA CancelSubStep ==
  ASSUME IInv, NEW t \in Threads, CancelSub(t) PROVE IInv'
<1> DEFINE n == count[t]
<1>1. /\ pc[t] = "c_sub" /\ producer_mutex = {t} /\ consumer_mutex = {t}
      /\ n = queue_state.pending /\ n \in 0 .. Capacity
  BY RingTypes DEF CancelSub, IInv, Exclusion, Reserved, CancelLabels
<1>2. UNCHANGED <<ring, status, claimed, batch, span, producer_mutex,
                  consumer_mutex>>
  BY DEF CancelSub, work, locks
<1>3. Moves(t, "c_idle") /\ pc'[t] = "c_idle"
  BY <1>1, StateMoves DEF CancelSub, IInv, Sleeping, Labels, Moves
<1>4. /\ queue_state' \in QueueState
      /\ queue_state'.pending = 0
      /\ queue_state'.active = queue_state.active
  <2>1. queue_state' = [queue_state EXCEPT !.pending = @ - n]
    BY DEF CancelSub, SetState
  <2>2. queue_state.pending - n = 0 /\ 0 \in 0 .. Capacity
    BY <1>1, RingTypes, CapacityAssumption
  <2> QED
    BY <2>1, <2>2, RingTypes DEF QueueState
<1>5. /\ count' \in [Threads -> 0 .. Capacity]
      /\ \A u \in Threads \ {t} : count'[u] = count[u]
  BY RingTypes, CapacityAssumption DEF CancelSub
<1>6. ASSUME NEW u \in Threads PROVE Exclusion(u)' /\ Reserved(u)'
  <2>1. CASE u = t
    BY <1>1, <1>2, <1>3, <2>1
       DEF Exclusion, Reserved, CancelLabels, NotifyLabels
  <2>2. CASE u # t
    <3>1. Exclusion(u)'
      BY <1>1, <1>2, <1>3, <2>2, OthersExclusion
    <3>2. Moved(u) /\ Exclusion(u)
      BY <1>3, <2>2 DEF Moves, IInv
    <3>3. pc'[u] \notin {"e_slot", "e_publish", "w_take", "w_claim", "c_drop",
                         "c_sub"}
      BY <1>1, <2>2, <3>2 DEF Exclusion, CancelLabels, Moved
    <3> QED
      BY <3>1, <3>3 DEF Reserved
  <2> QED
    BY <2>1, <2>2
<1>7. ASSUME NEW w \in Workers PROVE Busy(w)'
  <2>1. CASE w = t
    BY <1>1, <1>2, <1>3, <2>1 DEF IInv, Busy, Free, NotifyLabels
  <2>2. CASE w # t
    BY <1>2, <1>3, <2>2, OthersBusy
  <2> QED
    BY <2>1, <2>2
<1>8. ActiveCounted'
  BY <1>1, <1>2, <1>3, <1>4, ClaimsKept DEF Moves, Moved, Threads
<1>9. /\ Counted' /\ waiting_producers' \in Nat
      /\ waiting_workers' \in Nat /\ waiting_for_idle' \in Nat
  BY <1>1, <1>3, CountedKept
     DEF CancelSub, SpaceLabels, WorkLabels, IdleLabels, Labels
<1>10. RingOK'
  <2>1. Held = n /\ Held' = 0 /\ Staged = 0 /\ Staged' = 0
    BY <1>1, <1>2, <1>3, HeldAndStaged, HeldAndStagedNext
  <2>2. Engaged' = Engaged
    BY <1>1, <1>4, <2>1, RingTypes DEF Engaged
  <2>3. /\ queue_state'.pending + Staged' <= Capacity
        /\ Held' <= queue_state'.pending
    BY <1>4, <2>1, CapacityAssumption
  <2> QED
    BY <1>2, <2>2, <2>3 DEF IInv, RingOK, ring, Advance
<1>11. TypeOK'
  <2>1. pc' \in [Threads -> Labels] /\ eligible' \subseteq Threads
    BY <1>3 DEF Moves, EligibleSleep, QueueSleepers
  <2> QED
    BY <1>4, <1>5, <1>9, <2>1
       DEF CancelSub, IInv, TypeOK, work, ring, failures, locks, jthreads, seen
<1>12. EligibleSleep'
  BY <1>3 DEF Moves
<1> QED
  BY <1>6, <1>7, <1>8, <1>9, <1>10, <1>11, <1>12, AllParts

LEMMA CancelNotifyStep ==
  ASSUME IInv, NEW t \in Threads, CancelNotify(t) PROVE IInv'
<1> DEFINE label == AfterCancel(t)
<1>1. /\ pc[t] = "c_notify" /\ producer_mutex = {t} /\ consumer_mutex = {t}
      /\ producer_mutex' = {} /\ consumer_mutex' = {}
  BY DEF CancelNotify, IInv, Exclusion, CancelLabels
<1>2. UNCHANGED <<queue_state, ring, status, claimed, batch, span, count>>
  BY DEF CancelNotify, work
<1>3. label \in {"w_settle", "idle", "s_request"} /\ label \in Labels
  BY AfterCancelIs
<1>4. Moves(t, label) /\ pc'[t] = label
  BY <1>1, <1>3, NotifyAllMoves DEF CancelNotify, IInv, Sleeping, Moves
<1>5. ASSUME NEW u \in Threads PROVE Exclusion(u)' /\ Reserved(u)'
  <2>1. CASE u = t
    BY <1>1, <1>3, <1>4, <2>1
       DEF Exclusion, Reserved, CancelLabels, NotifyLabels
  <2>2. CASE u # t
    <3>1. Exclusion(u)'
      BY <1>1, <1>4, <2>2, OthersExclusion
    <3>2. Moved(u) /\ Reserved(u)
      BY <1>4, <2>2 DEF Moves, IInv
    <3> QED
      BY <1>2, <3>1, <3>2 DEF Reserved, Moved
  <2> QED
    BY <2>1, <2>2
<1>6. ASSUME NEW w \in Workers PROVE Busy(w)'
  <2>1. CASE w = t
    BY <1>1, <1>2, <1>3, <1>4, <2>1 DEF IInv, Busy, Free, NotifyLabels
  <2>2. CASE w # t
    BY <1>1, <1>2, <1>4, <2>2, OthersBusy
  <2> QED
    BY <2>1, <2>2
<1>7. ActiveCounted'
  BY <1>1, <1>2, <1>3, <1>4, ClaimsKept DEF Moves, Moved, Threads
<1>8. /\ Counted' /\ waiting_producers' \in Nat
      /\ waiting_workers' \in Nat /\ waiting_for_idle' \in Nat
  BY <1>1, <1>3, <1>4, CountedKept
     DEF CancelNotify, SpaceLabels, WorkLabels, IdleLabels
<1>9. RingOK'
  <2>1. Held' = Held /\ Staged' = Staged
    BY <1>1, HeldAndStaged, HeldAndStagedNext
  <2> QED
    BY <1>2, <2>1, RingKept
<1>10. TypeOK'
  <2>1. pc' \in [Threads -> Labels] /\ eligible' \subseteq Threads
    BY <1>4 DEF Moves, EligibleSleep, QueueSleepers
  <2>2. producer_mutex' \in Holders /\ consumer_mutex' \in Holders
    BY <1>1 DEF Holders
  <2>3. mode' \in [Threads -> Operations \cup {"none"}]
    BY ModeAfterCancelType DEF CancelNotify
  <2> QED
    BY <1>2, <1>8, <2>1, <2>2, <2>3
       DEF CancelNotify, IInv, TypeOK, work, ring, failures, jthreads, seen
<1>11. EligibleSleep'
  BY <1>4 DEF Moves
<1> QED
  BY <1>5, <1>6, <1>7, <1>8, <1>9, <1>10, <1>11, AllParts
-----------------------------------------------------------------------------
(* The theorems.                                                           *)

LEMMA IInvInit == Init => IInv
<1> SUFFICES ASSUME Init PROVE IInv
  OBVIOUS
<1>1. EmptyState \in QueueState
  BY CapacityAssumption DEF EmptyState, QueueState
<1>2. 0 \in Slots /\ 0 \in 0 .. Capacity /\ 0 \in 0 .. CallLimit
  BY CapacityAssumption, LimitAssumption DEF Slots
<1>3. TypeOK
  <2>1. /\ pc \in [Threads -> Labels] /\ status \in [Tasks -> Statuses]
        /\ mode \in [Threads -> Operations \cup {"none"}]
    BY DEF Init, Constructed, ConstructionFailed, Labels, Statuses
  <2>2. /\ producer_mutex \in Holders /\ consumer_mutex \in Holders
        /\ shutdown_mutex \in Holders
    BY DEF Init, Holders
  <2>3. /\ span \in [Threads -> Seq(Tasks)] /\ batch \in [Workers -> Seq(Tasks)]
        /\ observed \in [Threads -> QueueState] /\ epoch \in [Threads -> Nat]
        /\ count \in [Threads -> 0 .. Capacity]
        /\ claimed \in [Workers -> 0 .. Capacity]
        /\ calls \in [Threads -> 0 .. CallLimit]
    BY <1>1, <1>2 DEF Init
  <2> QED
    BY <1>1, <1>2, <2>1, <2>2, <2>3
       DEF Init, Constructed, ConstructionFailed, TypeOK
<1>4. \A t \in Threads :
        pc[t] \in IF t \in Workers THEN {"w_load", "exited"}
                 ELSE {"idle", "x_stop", "gone"}
  BY DEF Init, Constructed, ConstructionFailed
<1>5. \A t \in Threads : Exclusion(t) /\ Reserved(t)
  BY <1>4 DEF Init, Exclusion, Reserved, CancelLabels, NotifyLabels
<1>6. \A w \in Workers : Busy(w)
  BY <1>4 DEF Init, Busy, Free, Threads
<1>7. Counted
  <2>1. At(SpaceLabels) = {} /\ At(WorkLabels) = {} /\ At(IdleLabels) = {}
    BY <1>4 DEF At, SpaceLabels, WorkLabels, IdleLabels
  <2> QED
    BY <2>1, FS_EmptySet DEF Init, Counted
<1>8. ActiveCounted
  <2>1. Claims = {}
    BY CapacityAssumption DEF Init, Claims
  <2> QED
    BY <2>1, FS_EmptySet DEF Init, ActiveCounted, EmptyState
<1>9. EligibleSleep
  BY DEF Init, EligibleSleep
<1>10. RingOK
  <2>1. Held = 0 /\ Staged = 0
    BY DEF Init, Held, Staged
  <2>2. queue_state.pending = 0 /\ Engaged = 0
    BY <2>1 DEF Init, EmptyState, Engaged
  <2>3. Advance(0, 0) = 0 /\ \A i \in Slots : ~(Offset(i, 0) < 0)
    BY CapacityAssumption DEF Advance, Offset, Slots
  <2> QED
    BY <2>1, <2>2, <2>3, CapacityAssumption DEF Init, RingOK
<1> QED
  BY <1>3, <1>5, <1>6, <1>7, <1>8, <1>9, <1>10 DEF IInv

LEMMA IInvStep == IInv /\ [Next]_vars => IInv'
<1> SUFFICES ASSUME IInv, [Next]_vars PROVE IInv'
  OBVIOUS
<1>1. ASSUME NEW t \in Threads, Call(t) PROVE IInv'
  BY <1>1, CallEnqueueStep, CallWaitStep, CallControlStep DEF Call
<1>2. ASSUME NEW t \in Threads, Enqueue(t) PROVE IInv'
  BY <1>2, EnqueueLoadStep, EnqueueIncStep, EnqueueObserveStep,
     EnqueueWaitStep, EnqueueDecStep, EnqueueLockStep, EnqueueSlotStep,
     EnqueuePublishStep, EnqueueCheckStep, EnqueueNotifyStep DEF Enqueue
<1>3. ASSUME NEW t \in Workers, Run(t) PROVE IInv'
  <2>1. t \in Threads
    BY DEF Threads
  <2> QED
    BY <1>3, <2>1, WorkerLoadStep, WorkerIncStep, WorkerObserveStep,
       WorkerWaitStep, WorkerDecStep, WorkerLockStep, WorkerTakeStep,
       WorkerClaimStep, WorkerCheckStep, WorkerNotifyStep, ExecuteStep,
       WorkerFinishStep DEF Run
<1>4. ASSUME NEW t \in Threads, Wait(t) \/ NotifyIdle(t) PROVE IInv'
  BY <1>4, IdleCheckStep, IdleIncStep, IdleEpochStep, IdleRecheckStep,
     IdleWaitStep, IdleDecStep, NotifyIdleStep DEF Wait
<1>5. ASSUME NEW t \in Threads, CancelPending(t) PROVE IInv'
  BY <1>5, CancelLockStep, CancelDropStep, CancelSubStep, CancelIdleStep,
     CancelNotifyStep DEF CancelPending
<1>6. ASSUME NEW t \in Threads, Shutdown(t) PROVE IInv'
  BY <1>6, ShutdownLockStep, SignalStopStep, SignalRequestStep,
     SignalNotifyStep, ShutdownSwapStep, ShutdownJoinStep DEF Shutdown
<1>8. ASSUME NEW t \in Threads, Construct(t) PROVE IInv'
  BY <1>8, ConstructStopStep, ConstructNotifyStep, ConstructJoinStep
     DEF Construct
<1>7. CASE UNCHANGED vars
  <2>1. /\ TypeOK' /\ Counted' /\ ActiveCounted' /\ EligibleSleep'
    BY <1>7 DEF vars, IInv, TypeOK, Counted, At, ActiveCounted, Claims,
                EligibleSleep, QueueSleepers
  <2>2. \A t \in Threads : Exclusion(t)' /\ Reserved(t)'
    BY <1>7 DEF vars, IInv, Exclusion, Reserved
  <2>3. \A w \in Workers : Busy(w)'
    BY <1>7 DEF vars, IInv, Busy, Free
  <2>4. RingOK'
    <3>1. Held' = Held /\ Staged' = Staged
      BY <1>7 DEF vars, Held, Staged, Holder
    <3> QED
      BY <1>7, <3>1, RingKept DEF vars, ring
  <2> QED
    BY <2>1, <2>2, <2>3, <2>4, AllParts
<1> QED
  BY <1>1, <1>2, <1>3, <1>4, <1>5, <1>6, <1>7, <1>8 DEF Next, Step, Rest

\* IInv is inductive, hence true in every state of every behaviour.
THEOREM Invariance == Spec => []IInv
BY IInvInit, IInvStep, PTL DEF Spec

\* Every variable keeps its type: the pending count stays within the ring, the
\* active count and the waiting counters never go below zero.
THEOREM TypeCorrect == Spec => []TypeOK
<1>1. IInv => TypeOK
  BY DEF IInv
<1> QED
  BY <1>1, Invariance, PTL

\* The ring that two mutexes share through the pending count alone is intact
\* after every step of enqueue, process_bulk and cancel_pending, however they
\* interleave: its engaged slots are contiguous, queue_tail is behind the last
\* of them and pending counts them, so that no submission writes an engaged
\* slot and no worker takes an empty one.
THEOREM RingCorrect == Spec => []RingOK
<1>1. IInv => RingOK
  BY DEF IInv
<1> QED
  BY <1>1, Invariance, PTL

\* The two mutexes exclude, at each end of the ring and, for cancel_pending,
\* at both.
MutualExclusion ==
  \A t, u \in Threads : t # u =>
    /\ ~(/\ pc[t] \in {"e_slot", "e_publish"} \cup CancelLabels
         /\ pc[u] \in {"e_slot", "e_publish"} \cup CancelLabels)
    /\ ~(/\ pc[t] \in {"w_take", "w_claim"} \cup CancelLabels
         /\ pc[u] \in {"w_take", "w_claim"} \cup CancelLabels)

\* No two threads are ever inside the sections that enqueue, process_bulk and
\* cancel_pending run under the same mutex.
THEOREM MutexesExclude == Spec => []MutualExclusion
<1>1. IInv => MutualExclusion
  BY DEF IInv, Exclusion, MutualExclusion
<1> QED
  BY <1>1, Invariance, PTL
=============================================================================
