------------------------- MODULE ErrorSystemProofs -------------------------
(***************************************************************************)
(* Proofs about ErrorSystem, for any registers, requests and number of     *)
(* calls: no two calls are in the map of a register at once, no operation  *)
(* uses a handler that is gone, and the executor's queue is what was       *)
(* accepted last, so that no operation overtakes one that still waits.     *)
(***************************************************************************)
EXTENDS ErrorSystem, TLAPS, FiniteSetTheorems, SequenceTheorems

Labels == {"idle", "submit", "queued", "unrouted", "handler", "register",
           "access", "done"}

Types ==
  /\ pc \in [Calls -> Labels] /\ request \in [Calls -> SUBSET Requests]
  /\ \A c \in Calls : pc[c] # "idle" => \E r \in Requests : request[c] = {r}

\* A call that must not be overlapped is alone.
Alone ==
  \A c, d \in Calls :
    c # d /\ InProgress(c) /\ InProgress(d) => ~Serialized(Asked(c))

\* The mutexes that a call holds are locked, each for one call.
ByHandler(c) == Asked(c).target = 0 /\ policy # "single"
HoldsHandler(c) == pc[c] \in {"register", "access"} /\ ByHandler(c)
HoldsRegister(c) == pc[c] = "access" /\ safe
Locked(c) ==
  /\ HoldsHandler(c) => <<"handler", At(c)>> \in locks
  /\ HoldsRegister(c) => <<"register", At(c)>> \in locks
Apart(c, d) ==
  /\ HoldsHandler(c) /\ HoldsHandler(d) => At(c) # At(d)
  /\ HoldsRegister(c) /\ HoldsRegister(d) => At(c) # At(d)

IInv ==
  /\ Types /\ Alone
  /\ \A c \in Calls : Locked(c)
  /\ \A c, d \in Calls : c # d => Apart(c, d)

\* The steps between the first one of a call and its end.
Onward(c, label) ==
  /\ InProgress(c)
  /\ pc' = [pc EXCEPT ![c] = label] /\ label \in Labels \ {"idle"}
  /\ UNCHANGED <<policy, safe, request>>

LEMMA OnwardAsked ==
  ASSUME IInv, NEW c \in Calls, NEW label, Onward(c, label)
  PROVE  /\ Types' /\ Alone'
         /\ \A d \in Calls : Asked(d)' = Asked(d) /\ At(d)' = At(d)
         /\ \A d \in Calls \ {c} : pc'[d] = pc[d]
         /\ pc'[c] = label
         /\ \A d \in Calls : ByHandler(d)' = ByHandler(d)
<1>1. \A d \in Calls : Asked(d)' = Asked(d)
  BY DEF Onward, Asked
<1>2. \A d \in Calls : At(d)' = At(d)
  BY <1>1 DEF At
<1>3. /\ \A d \in Calls \ {c} : pc'[d] = pc[d]
      /\ pc'[c] = label /\ pc' \in [Calls -> Labels]
  BY DEF Onward, IInv, Types
<1>4. Types'
  BY <1>3 DEF Onward, IInv, Types, InProgress
<1>5. Alone'
  BY <1>1, <1>3 DEF Onward, IInv, Alone, InProgress, Serialized
<1>6. \A d \in Calls : ByHandler(d)' = ByHandler(d)
  BY <1>1 DEF Onward, ByHandler
<1> QED
  BY <1>1, <1>2, <1>3, <1>4, <1>5, <1>6

\* A step that takes no mutex on the way to a label where none is held.
LEMMA FreeStep ==
  ASSUME IInv, NEW c \in Calls, NEW label, Onward(c, label), UNCHANGED locks,
         label # "access", label = "register" => ~ByHandler(c)
  PROVE  IInv'
<1>1. ~HoldsHandler(c)' /\ ~HoldsRegister(c)'
  BY OnwardAsked DEF HoldsHandler, HoldsRegister
<1>2. \A d \in Calls \ {c} :
        /\ HoldsHandler(d)' = HoldsHandler(d)
        /\ HoldsRegister(d)' = HoldsRegister(d)
  BY OnwardAsked DEF Onward, HoldsHandler, HoldsRegister
<1>3. \A d \in Calls : Locked(d)'
  BY <1>1, <1>2, OnwardAsked DEF IInv, Locked
<1>4. \A d, e \in Calls : d # e => Apart(d, e)'
  BY <1>1, <1>2, OnwardAsked DEF IInv, Apart
<1> QED
  BY <1>3, <1>4, OnwardAsked DEF IInv

LEMMA CallStep ==
  ASSUME IInv, NEW c \in Calls, Call(c) PROVE IInv'
<1>1. PICK r \in Requests :
        /\ MayOverlap(r) /\ request' = [request EXCEPT ![c] = {r}]
        /\ \/ pc' = [pc EXCEPT ![c] = "submit"]
           \/ pc' = [pc EXCEPT ![c] = Dispatch(r)]
  BY DEF Call, Set
<1>2. pc[c] = "idle" /\ UNCHANGED <<policy, safe, locks>>
  BY DEF Call
<1>3. Dispatch(r) \in {"unrouted", "handler", "register"}
  BY DEF Dispatch
<1>4. /\ \A d \in Calls \ {c} : pc'[d] = pc[d] /\ request'[d] = request[d]
      /\ pc'[c] \in {"submit", Dispatch(r)} /\ request'[c] = {r}
      /\ pc' \in [Calls -> Labels]
  BY <1>1, <1>3 DEF IInv, Types, Labels
<1>5. Types'
  BY <1>1, <1>4 DEF IInv, Types
<1>6. /\ Asked(c)' = r
      /\ \A d \in Calls \ {c} : Asked(d)' = Asked(d) /\ At(d)' = At(d)
  BY <1>4 DEF Asked, At
<1>7. Alone'
  BY <1>1, <1>2, <1>4, <1>6 DEF IInv, Alone, MayOverlap, InProgress, Serialized
<1>8. ~HoldsHandler(c)' /\ ~HoldsRegister(c)'
  BY <1>2, <1>3, <1>4, <1>6 DEF HoldsHandler, HoldsRegister, ByHandler, Dispatch
<1>9. \A d \in Calls \ {c} :
        /\ HoldsHandler(d)' = HoldsHandler(d)
        /\ HoldsRegister(d)' = HoldsRegister(d)
  BY <1>2, <1>4, <1>6 DEF HoldsHandler, HoldsRegister, ByHandler
<1>10. \A d \in Calls : Locked(d)'
  BY <1>2, <1>6, <1>8, <1>9 DEF IInv, Locked
<1>11. \A d, e \in Calls : d # e => Apart(d, e)'
  BY <1>6, <1>8, <1>9 DEF IInv, Apart
<1> QED
  BY <1>5, <1>7, <1>10, <1>11 DEF IInv

LEMMA SubmitStep ==
  ASSUME IInv, NEW c \in Calls, Submit(c) PROVE IInv'
<1>1. PICK label \in {"queued", "done"} : Onward(c, label)
  BY DEF Submit, Done, Set, Onward, InProgress, Labels
<1> QED
  BY <1>1, FreeStep DEF Submit

LEMMA StartStep ==
  ASSUME IInv, NEW c \in Calls, Start(c) PROVE IInv'
<1> DEFINE label == Dispatch(Asked(c))
<1>1. /\ label \in {"unrouted", "handler", "register"}
      /\ label = "register" => ~ByHandler(c)
  BY DEF Dispatch, ByHandler
<1>2. Onward(c, label)
  BY <1>1 DEF Start, Set, Onward, InProgress, Labels
<1> QED
  BY <1>1, <1>2, FreeStep DEF Start

LEMMA UnroutedStep ==
  ASSUME IInv, NEW c \in Calls, Unrouted(c) PROVE IInv'
<1>1. Onward(c, "done")
  BY DEF Unrouted, Done, Set, Onward, InProgress, Labels
<1> QED
  BY <1>1, FreeStep DEF Unrouted

LEMMA LockHandlerStep ==
  ASSUME IInv, NEW c \in Calls, LockHandler(c) PROVE IInv'
<1>1. Onward(c, "register")
  BY DEF LockHandler, Set, Onward, InProgress, Labels
<1>2. /\ <<"handler", At(c)>> \notin locks
      /\ locks' = locks \cup {<<"handler", At(c)>>}
  BY DEF LockHandler
<1>3. /\ ~HoldsRegister(c)'
      /\ \A d \in Calls \ {c} : /\ HoldsHandler(d)' = HoldsHandler(d)
                                /\ HoldsRegister(d)' = HoldsRegister(d)
  <2>1. pc'[c] = "register" /\ \A d \in Calls \ {c} : pc'[d] = pc[d]
    BY <1>1, OnwardAsked
  <2>2. safe' = safe /\ \A d \in Calls : ByHandler(d)' = ByHandler(d)
    BY <1>1, OnwardAsked DEF Onward
  <2> QED
    BY <2>1, <2>2 DEF HoldsHandler, HoldsRegister
<1>4. \A d \in Calls : Locked(d)'
  BY <1>1, <1>2, <1>3, OnwardAsked DEF IInv, Locked
<1>5. \A d, e \in Calls : d # e => Apart(d, e)'
  BY <1>1, <1>2, <1>3, OnwardAsked DEF IInv, Apart, Locked
<1> QED
  BY <1>1, <1>4, <1>5, OnwardAsked DEF IInv

LEMMA EnterStep ==
  ASSUME IInv, NEW c \in Calls, Enter(c) PROVE IInv'
<1>1. Onward(c, "access") /\ pc[c] = "register"
  BY DEF Enter, Set, Onward, InProgress, Labels
<1>2. /\ safe => /\ <<"register", At(c)>> \notin locks
                 /\ locks' = locks \cup {<<"register", At(c)>>}
      /\ ~safe => locks' = locks
  BY DEF Enter
<1>3. /\ HoldsHandler(c)' <=> HoldsHandler(c)
      /\ HoldsRegister(c)' => safe
      /\ \A d \in Calls \ {c} : /\ HoldsHandler(d)' <=> HoldsHandler(d)
                                /\ HoldsRegister(d)' <=> HoldsRegister(d)
  <2>1. pc'[c] = "access" /\ \A d \in Calls \ {c} : pc'[d] = pc[d]
    BY <1>1, OnwardAsked
  <2>2. \A d \in Calls : ByHandler(d)' <=> ByHandler(d)
    BY <1>1, OnwardAsked
  <2> QED
    BY <1>1, <2>1, <2>2 DEF Onward, HoldsHandler, HoldsRegister
<1>4. \A d \in Calls : Locked(d)'
  BY <1>1, <1>2, <1>3, OnwardAsked DEF IInv, Locked
<1>5. \A d, e \in Calls : d # e => Apart(d, e)'
  BY <1>1, <1>2, <1>3, OnwardAsked DEF IInv, Apart, Locked
<1> QED
  BY <1>1, <1>4, <1>5, OnwardAsked DEF IInv

\* A call gives back only what it holds, or what nobody ever holds.
LEMMA ApplyStep ==
  ASSUME IInv, NEW c \in Calls, Apply(c) PROVE IInv'
<1>1. Onward(c, "done") /\ pc[c] = "access"
  BY DEF Apply, Done, Set, Onward, InProgress, Labels
<1>2. locks' = locks \ ({<<"register", At(c)>>} \cup
                 IF Asked(c).target = 0 THEN {<<"handler", At(c)>>} ELSE {})
  BY DEF Apply, Released
<1>3. /\ ~HoldsHandler(c)' /\ ~HoldsRegister(c)'
      /\ \A d \in Calls \ {c} : /\ HoldsHandler(d)' = HoldsHandler(d)
                                /\ HoldsRegister(d)' = HoldsRegister(d)
  BY <1>1, OnwardAsked DEF Onward, HoldsHandler, HoldsRegister
<1>4. ASSUME NEW d \in Calls \ {c} PROVE Locked(d)'
  <2>1. HoldsRegister(d) => At(d) # At(c)
    BY <1>1 DEF IInv, Apart, HoldsRegister
  <2>2. HoldsHandler(d) /\ Asked(c).target = 0 => At(d) # At(c)
    BY <1>1 DEF IInv, Apart, HoldsHandler, ByHandler
  <2> QED
    BY <1>1, <1>2, <1>3, <2>1, <2>2, OnwardAsked DEF IInv, Locked
<1>5. Locked(c)'
  BY <1>3 DEF Locked
<1>6. \A d, e \in Calls : d # e => Apart(d, e)'
  BY <1>1, <1>3, OnwardAsked DEF IInv, Apart
<1> QED
  BY <1>1, <1>4, <1>5, <1>6, OnwardAsked DEF IInv

\* Who waits in the queue holds nothing.
LEMMA CancelStep == ASSUME IInv, CancelQueue PROVE IInv'
<1>1. /\ UNCHANGED <<policy, safe, locks, request>>
      /\ \A c \in Calls : \/ pc'[c] = pc[c]
                          \/ pc[c] = "queued" /\ pc'[c] = "done"
      /\ pc' \in [Calls -> Labels]
  BY DEF CancelQueue, IInv, Types, Labels
<1>2. \A c \in Calls : Asked(c)' = Asked(c) /\ At(c)' = At(c)
  BY <1>1 DEF Asked, At
<1>3. Types' /\ Alone'
  BY <1>1, <1>2 DEF IInv, Types, Alone, InProgress, Serialized
<1>4. \A c \in Calls : /\ HoldsHandler(c)' = HoldsHandler(c)
                       /\ HoldsRegister(c)' = HoldsRegister(c)
  BY <1>1, <1>2 DEF HoldsHandler, HoldsRegister, ByHandler
<1> QED
  BY <1>1, <1>2, <1>3, <1>4 DEF IInv, Locked, Apart

LEMMA OtherStep ==
  ASSUME IInv, UNCHANGED <<policy, safe, locks, pc, request>> PROVE IInv'
<1>1. \A c \in Calls : Asked(c)' = Asked(c) /\ At(c)' = At(c)
  BY DEF Asked, At
<1>2. Types' /\ Alone'
  BY <1>1 DEF IInv, Types, Alone, InProgress, Serialized
<1>3. \A c \in Calls : /\ HoldsHandler(c)' = HoldsHandler(c)
                       /\ HoldsRegister(c)' = HoldsRegister(c)
  BY <1>1 DEF HoldsHandler, HoldsRegister, ByHandler
<1> QED
  BY <1>1, <1>2, <1>3 DEF IInv, Locked, Apart

LEMMA IInvInit == Init => IInv
BY DEF Init, IInv, Types, Labels, Alone, InProgress, Locked, Apart,
       HoldsHandler, HoldsRegister

LEMMA IInvStep == IInv /\ [Next]_vars => IInv'
<1> SUFFICES ASSUME IInv, [Next]_vars PROVE IInv'
  OBVIOUS
<1>1. ASSUME NEW c \in Calls, Call(c) \/ Step(c) PROVE IInv'
  BY <1>1, CallStep, SubmitStep, StartStep, UnroutedStep, LockHandlerStep,
     EnterStep, ApplyStep DEF Step
<1>2. CASE CancelQueue
  BY <1>2, CancelStep
<1>3. CASE Shutdown \/ DestroySystem \/ UNCHANGED vars
  BY <1>3, OtherStep DEF Shutdown, DestroySystem, vars
<1> QED
  BY <1>1, <1>2, <1>3 DEF Next

LEMMA ExclusiveAccess == IInv => AccessExclusive
<1> SUFFICES ASSUME IInv, NEW c \in Calls, NEW d \in Calls, c # d,
                    pc[c] = "access", pc[d] = "access", At(c) = At(d)
             PROVE  FALSE
  BY DEF AccessExclusive
<1>1. ~safe
  BY DEF IInv, Apart, HoldsRegister
<1>2. ~Serialized(Asked(c)) /\ ~Serialized(Asked(d))
  BY DEF IInv, Alone, InProgress
<1>3. HoldsHandler(c) /\ HoldsHandler(d)
  BY <1>1, <1>2 DEF Serialized, HoldsHandler, ByHandler
<1> QED
  BY <1>3 DEF IInv, Apart

\* No two calls are in the map of a register at once, in any legal combination
\* of register policy, system policy, direct and routed calls.
THEOREM AccessesExclude == Spec => []AccessExclusive
BY ExclusiveAccess, IInvInit, IInvStep, PTL DEF Spec
-----------------------------------------------------------------------------
(* Lifetime of the shared handler.                                         *)

\* Without an executor the system outlives its calls; with one, each of its
\* operations has a pointer of its own until it ends.
Shared ==
  /\ policy # "async" => 0 \in owners
  /\ \A c \in Calls :
       InProgress(c) /\ Asked(c).target = 0 /\ policy = "async" => c \in owners

\* Whoever gives up a pointer has ended, or is the asynchronous system.
GivesUp(gone) ==
  /\ owners' = owners \ gone /\ UNCHANGED <<policy, request>>
  /\ \/ gone \subseteq Calls
     \/ policy = "async" /\ gone = {0}
  /\ \A c \in Calls : InProgress(c)' => InProgress(c) /\ c \notin gone

LEMMA GiveUpStep == ASSUME Shared, NEW gone, GivesUp(gone) PROVE Shared'
<1>1. 0 \notin Calls
  BY DEF Calls
<1>2. \A c \in Calls : Asked(c)' = Asked(c)
  BY DEF Asked, GivesUp
<1> QED
  BY <1>1, <1>2 DEF Shared, GivesUp

LEMMA SharedStep ==
  ASSUME Types, Shared, [Next]_vars PROVE Shared'
<1>1. ASSUME NEW c \in Calls, Call(c) PROVE Shared'
  <2>1. PICK r \in Requests :
          /\ r.target = 0 => 0 \in owners
          /\ request' = [request EXCEPT ![c] = {r}]
          /\ IF r.target = 0 /\ policy = "async" THEN owners' = Captures(c)
             ELSE owners' = owners
    BY <1>1 DEF Call, Set
  <2>2. /\ UNCHANGED policy /\ owners \subseteq owners'
        /\ \A d \in Calls \ {c} : pc'[d] = pc[d] /\ Asked(d)' = Asked(d)
    BY <1>1, <2>1 DEF Types, Call, Set, Captures, Asked
  <2>3. Asked(c)' = r
    BY <2>1 DEF Types, Asked
  <2>4. policy' # "async" => 0 \in owners'
    BY <2>2 DEF Shared
  <2>5. ASSUME NEW d \in Calls,
               InProgress(d)', Asked(d)'.target = 0, policy' = "async"
        PROVE  d \in owners'
    <3>1. CASE d = c
      BY <2>1, <2>2, <2>3, <2>5, <3>1 DEF Captures
    <3>2. CASE d # c
      BY <2>2, <2>5, <3>2 DEF Shared, InProgress
    <3> QED
      BY <3>1, <3>2
  <2> QED
    BY <2>4, <2>5 DEF Shared
<1>2. ASSUME NEW c \in Calls, Step(c) PROVE Shared'
  <2>1. InProgress(c) /\ UNCHANGED <<policy, request>>
    BY <1>2 DEF Step, Submit, Start, Unrouted, LockHandler, Enter, Apply, InProgress
  <2>2. \/ owners' = owners \ {c} /\ pc' = [pc EXCEPT ![c] = "done"]
        \/ UNCHANGED owners /\ \E x : pc' = [pc EXCEPT ![c] = x]
    BY <1>2 DEF Step, Submit, Start, Unrouted, LockHandler, Enter, Apply, Done, Set
  <2>3. CASE owners' = owners \ {c} /\ pc' = [pc EXCEPT ![c] = "done"]
    <3>1. \A d \in Calls : InProgress(d)' => InProgress(d) /\ d \notin {c}
      BY <2>1, <2>3 DEF Types, InProgress
    <3>2. GivesUp({c})
      BY <2>1, <2>3, <3>1 DEF GivesUp
    <3> QED
      BY <3>2, GiveUpStep
  <2>4. CASE UNCHANGED owners /\ \E x : pc' = [pc EXCEPT ![c] = x]
    <3>1. owners' = owners \ {}
      BY <2>4
    <3>2. \A d \in Calls : InProgress(d)' => InProgress(d)
      BY <2>1, <2>4 DEF Types, InProgress
    <3>3. GivesUp({})
      BY <2>1, <3>1, <3>2 DEF GivesUp
    <3> QED
      BY <3>3, GiveUpStep
  <2> QED
    BY <2>2, <2>3, <2>4
<1>3. CASE CancelQueue
  <2> DEFINE dropped == {c \in Calls : pc[c] = "queued"}
  <2>1. /\ UNCHANGED <<policy, request>> /\ owners' = owners \ dropped
        /\ pc' = [c \in Calls |-> IF c \in dropped THEN "done" ELSE pc[c]]
    BY <1>3 DEF CancelQueue
  <2>2. \A c \in Calls : InProgress(c)' => InProgress(c) /\ c \notin dropped
    BY <2>1 DEF InProgress
  <2>3. GivesUp(dropped)
    BY <2>1, <2>2 DEF GivesUp
  <2> QED
    BY <2>3, GiveUpStep
<1>4. CASE DestroySystem
  <2>1. \A c \in Calls : InProgress(c)' => InProgress(c) /\ c \notin {0}
    BY <1>4 DEF DestroySystem, InProgress, Calls
  <2> QED
    BY <1>4, <2>1, GiveUpStep DEF GivesUp, DestroySystem
<1>5. CASE Shutdown \/ UNCHANGED vars
  <2>1. /\ owners' = owners \ {} /\ UNCHANGED <<policy, request>>
        /\ \A c \in Calls : InProgress(c)' => InProgress(c)
    BY <1>5 DEF Shutdown, vars, InProgress
  <2>2. GivesUp({})
    BY <2>1 DEF GivesUp
  <2> QED
    BY <2>2, GiveUpStep
<1> QED
  BY <1>1, <1>2, <1>3, <1>4, <1>5 DEF Next

\* No operation uses a handler that is gone, whenever the asynchronous system
\* is destroyed, its executor stopped or its queue cancelled.
THEOREM HandlerOutlives == Spec => []HandlerAlive
<1>1. Init => Shared
  BY DEF Init, Shared, InProgress
<1>2. IInv /\ Shared /\ [Next]_vars => Shared'
  BY SharedStep DEF IInv
<1>3. Shared => HandlerAlive
  BY DEF Shared, HandlerAlive
<1> QED
  BY <1>1, <1>2, <1>3, IInvInit, IInvStep, PTL DEF Spec
-----------------------------------------------------------------------------
(* The order of the executor.                                              *)

Conditions == {"caller", "offered", "queued", "claimed", "rejected",
               "value", "error", "exception", "cancelled"}
Started == {"claimed", "value", "error"}

\* How far a call is, and what the executor knows of its operation.
Linked(c) ==
  /\ pc[c] = "idle" => status[c] = "caller"
  /\ pc[c] = "submit" => status[c] = "offered"
  /\ pc[c] = "queued" => status[c] = "queued"

Positions == 1 .. Len(accepted)
Once ==
  /\ \A m, n \in Positions : accepted[m] = accepted[n] => m = n
  /\ \A n \in Positions : status[accepted[n]] \notin {"caller", "offered"}
\* The queue is what was accepted after the first q operations.
Waiting(q) ==
  /\ Len(queue) = Len(accepted) - q
  /\ \A j \in 1 .. Len(queue) : queue[j] = accepted[q + j]
  /\ \A n \in Positions : status[accepted[n]] = "queued" <=> n > q

\* What still runs of the operations accepted before the n-th.
Running(n) ==
  {d \in {accepted[m] : m \in 1 .. n - 1} : status[d] = "claimed"}
Bounded(n) == status[accepted[n]] \in Started => Cardinality(Running(n)) < Workers

OInv ==
  /\ accepted \in Seq(Calls) /\ queue \in Seq(Calls)
  /\ status \in [Calls -> Conditions]
  /\ \A c \in Calls : Linked(c)
  /\ Once
  /\ \E q \in 0 .. Len(accepted) : Waiting(q)
  /\ \A n \in Positions : Bounded(n)

LEMMA AcceptedCalls ==
  ASSUME OInv
  PROVE  /\ Len(accepted) \in Nat /\ DOMAIN accepted = Positions
         /\ \A n \in Positions : accepted[n] \in Calls
         /\ Len(queue) \in Nat /\ DOMAIN queue = 1 .. Len(queue)
         /\ \A j \in 1 .. Len(queue) : queue[j] \in Calls
BY LenProperties, ElementOfSeq DEF OInv, Positions

LEMMA FewCalls ==
  ASSUME NEW S \in SUBSET Calls, NEW T \in SUBSET S
  PROVE  /\ Cardinality(S) \in Nat /\ Cardinality(T) \in Nat
         /\ Cardinality(T) <= Cardinality(S)
<1>1. IsFiniteSet(Calls)
  <2>1. CallLimit \in Int
    BY ExecutorAssumption
  <2> QED
    BY <2>1, FS_Interval DEF Calls
<1>2. IsFiniteSet(S)
  BY <1>1, FS_Subset
<1>3. IsFiniteSet(T) /\ Cardinality(T) <= Cardinality(S)
  BY <1>2, FS_Subset
<1> QED
  BY <1>2, <1>3, FS_CardinalityType

LEMMA RunningShrinks ==
  ASSUME OInv, NEW n \in Positions, Running(n)' \subseteq Running(n),
         status'[accepted'[n]] \in Started => status[accepted[n]] \in Started
  PROVE  Bounded(n)'
<1>1. Running(n) \in SUBSET Calls
  BY AcceptedCalls DEF Running, Positions
<1>2. /\ Cardinality(Running(n)) \in Nat /\ Cardinality(Running(n)') \in Nat
      /\ Cardinality(Running(n)') <= Cardinality(Running(n))
  BY <1>1, FewCalls
<1>3. Cardinality(Running(n)') < Workers \/ status'[accepted'[n]] \notin Started
  BY <1>2, ExecutorAssumption DEF OInv, Bounded
<1> QED
  BY <1>3 DEF Bounded

\* A step after which the same operations wait, and no other one runs.
Steady ==
  /\ UNCHANGED <<accepted, queue>> /\ status' \in [Calls -> Conditions]
  /\ \A c \in Calls :
       /\ status'[c] = "queued" <=> status[c] = "queued"
       /\ status'[c] \in Started => status[c] \in Started
       /\ status'[c] = "claimed" => status[c] = "claimed"
       /\ status'[c] \in {"caller", "offered"} =>
            status[c] \in {"caller", "offered"}

LEMMA SteadyStep ==
  ASSUME OInv, Steady, \A c \in Calls : Linked(c)' PROVE OInv'
<1>1. Positions' = Positions /\ accepted' = accepted /\ queue' = queue
  BY DEF Steady, Positions
<1>2. Once'
  BY <1>1, AcceptedCalls DEF Steady, OInv, Once
<1>3. \E q \in 0 .. Len(accepted) : Waiting(q)'
  <2>1. PICK q \in 0 .. Len(accepted) : Waiting(q)
    BY DEF OInv
  <2>2. Waiting(q)'
    BY <1>1, <2>1, AcceptedCalls DEF Steady, Waiting
  <2> QED
    BY <2>2
<1>4. \A n \in Positions : Bounded(n)'
  <2> SUFFICES ASSUME NEW n \in Positions PROVE Bounded(n)'
    OBVIOUS
  <2>1. Running(n)' \subseteq Running(n)
    BY <1>1, AcceptedCalls DEF Running, Steady, Positions
  <2>2. status'[accepted'[n]] \in Started => status[accepted[n]] \in Started
    BY <1>1, AcceptedCalls DEF Steady
  <2> QED
    BY <2>1, <2>2, RunningShrinks
<1> QED
  BY <1>1, <1>2, <1>3, <1>4 DEF OInv, Steady

\* What the steps of the executor do to the status of the operations.
LEMMA Changes ==
  ASSUME OInv, NEW S, NEW s \in Conditions, Pool!Becomes(S, s)
  PROVE  /\ status' \in [Calls -> Conditions]
         /\ \A c \in Calls : status'[c] = IF c \in S THEN s ELSE status[c]
BY DEF OInv, Pool!Becomes

LEMMA Single ==
  ASSUME NEW c PROVE Pool!TasksIn(<<c>>) = {c}
BY DEF Pool!TasksIn

LEMMA CallSteady ==
  ASSUME OInv, IInv, NEW c \in Calls, Call(c) PROVE OInv'
<1>1. PICK r \in Requests :
        IF r.target = 0 /\ policy = "async"
        THEN /\ pc' = [pc EXCEPT ![c] = "submit"]
             /\ Pool!Offer /\ status'[c] = "offered"
        ELSE pc' = [pc EXCEPT ![c] = Dispatch(r)] /\ UNCHANGED pool
  BY DEF Call, Set
<1>2. pc[c] = "idle" /\ status[c] = "caller" /\ UNCHANGED accepted
  BY DEF Call, OInv, Linked
<1>3. /\ pc \in [Calls -> Labels]
      /\ Dispatch(r) \notin {"idle", "submit", "queued"}
  BY DEF IInv, Types, Dispatch
<1>4. CASE r.target = 0 /\ policy = "async"
  <2>1. PICK x \in Calls :
          /\ status[x] = "caller" /\ Pool!Becomes({x}, "offered")
          /\ UNCHANGED queue
    <3>1. PICK x \in Calls : /\ \A k \in Pool!TasksIn(<<x>>) : status[k] = "caller"
                             /\ Pool!Becomes(Pool!TasksIn(<<x>>), "offered")
                             /\ UNCHANGED queue
      BY <1>1, <1>4 DEF Pool!Offer
    <3> QED
      BY <3>1, Single
  <2>2. /\ status' \in [Calls -> Conditions]
        /\ \A d \in Calls : status'[d] = IF d = x THEN "offered" ELSE status[d]
    BY <2>1, Changes DEF Conditions
  <2>3. x = c
    BY <1>1, <1>2, <1>4, <2>2
  <2>4. \A d \in Calls : Linked(d)'
    BY <1>1, <1>3, <1>4, <2>2, <2>3 DEF OInv, Linked
  <2>5. Steady
    BY <1>2, <2>1, <2>2 DEF Steady, Started
  <2> QED
    BY <2>4, <2>5, SteadyStep
<1>5. CASE ~(r.target = 0 /\ policy = "async")
  <2>1. UNCHANGED <<queue, status>>
    BY <1>1, <1>5 DEF pool
  <2>2. \A d \in Calls : Linked(d)'
    BY <1>1, <1>3, <1>5, <2>1 DEF OInv, Linked
  <2>3. Steady
    BY <1>2, <2>1 DEF Steady, OInv
  <2> QED
    BY <2>2, <2>3, SteadyStep
<1> QED
  BY <1>4, <1>5

LEMMA RefuseSteady ==
  ASSUME OInv, IInv, NEW c \in Calls, pc[c] = "submit", Pool!Refuse,
         status'[c] = "rejected", pc' = [pc EXCEPT ![c] = "done"],
         UNCHANGED accepted
  PROVE  OInv'
<1>1. PICK x \in Calls :
        /\ status[x] = "offered" /\ Pool!Becomes({x}, "rejected")
        /\ UNCHANGED queue
  <2>1. PICK x \in Calls :
          LET left == {k \in Pool!TasksIn(<<x>>) : status[k] = "offered"} IN
          left # {} /\ Pool!Becomes(left, "rejected") /\ UNCHANGED queue
    BY DEF Pool!Refuse
  <2>2. {k \in Pool!TasksIn(<<x>>) : status[k] = "offered"} = {x}
    BY <2>1, Single
  <2> QED
    BY <2>1, <2>2
<1>2. /\ status' \in [Calls -> Conditions]
      /\ \A d \in Calls : status'[d] = IF d = x THEN "rejected" ELSE status[d]
  BY <1>1, Changes DEF Conditions
<1>3. x = c
  BY <1>2 DEF OInv, Linked
<1>4. \A d \in Calls : Linked(d)'
  BY <1>2, <1>3 DEF OInv, Linked, IInv, Types
<1>5. Steady
  BY <1>1, <1>2 DEF Steady, Started
<1> QED
  BY <1>4, <1>5, SteadyStep

\* An accepted operation is the last of those that wait.
LEMMA AcceptOrdered ==
  ASSUME OInv, IInv, NEW c \in Calls, pc[c] = "submit", Pool!Accept,
         status'[c] = "queued", pc' = [pc EXCEPT ![c] = "queued"],
         accepted' = Append(accepted, c)
  PROVE  OInv'
<1>1. PICK x \in Calls :
        /\ status[x] = "offered" /\ Pool!Becomes({x}, "queued")
        /\ queue' = queue \o <<x>>
  <2>1. PICK x \in Calls : \E m \in 1 .. Len(<<x>>) : \E n \in m .. Len(<<x>>) :
          /\ \A i \in 1 .. Len(<<x>>) : (status[<<x>>[i]] = "offered") <=> (i >= m)
          /\ queue' = queue \o SubSeq(<<x>>, m, n)
          /\ Pool!Becomes(Pool!TasksIn(SubSeq(<<x>>, m, n)), "queued")
    BY DEF Pool!Accept
  <2>2. PICK m \in 1 .. Len(<<x>>), n \in 1 .. Len(<<x>>) :
          /\ \A i \in 1 .. Len(<<x>>) : (status[<<x>>[i]] = "offered") <=> (i >= m)
          /\ queue' = queue \o SubSeq(<<x>>, m, n)
          /\ Pool!Becomes(Pool!TasksIn(SubSeq(<<x>>, m, n)), "queued")
          /\ m <= n
    BY <2>1
  <2>3. m = 1 /\ n = 1 /\ <<x>>[1] = x /\ Len(<<x>>) = 1
    BY <2>2
  <2>4. SubSeq(<<x>>, 1, 1) = <<x>>
    <3>1. <<x>> \in Seq(Calls)
      OBVIOUS
    <3> QED
      BY <2>3, <3>1, SubSeqFull
  <2> QED
    BY <2>2, <2>3, <2>4, Single
<1>2. /\ status' \in [Calls -> Conditions]
      /\ \A d \in Calls : status'[d] = IF d = x THEN "queued" ELSE status[d]
  BY <1>1, Changes DEF Conditions
<1>3. x = c
  BY <1>2 DEF OInv, Linked
<1>4. \A d \in Calls : Linked(d)'
  BY <1>2, <1>3 DEF OInv, Linked, IInv, Types
<1>5. PICK len \in Nat : len = Len(accepted)
  BY AcceptedCalls
<1>6. /\ accepted' \in Seq(Calls) /\ Len(accepted') = len + 1
      /\ \A n \in 1 .. len : accepted'[n] = accepted[n]
      /\ accepted'[len + 1] = c
  BY <1>5, AppendProperties DEF OInv
<1>7. PICK waiting \in Nat : waiting = Len(queue)
  BY AcceptedCalls
<1>8. /\ queue' \in Seq(Calls) /\ Len(queue') = waiting + 1
      /\ \A n \in 1 .. waiting : queue'[n] = queue[n]
      /\ queue'[waiting + 1] = c
  <2>1. queue' = Append(queue, c)
    BY <1>1, <1>3, AppendIsConcat DEF OInv
  <2> QED
    BY <1>7, <2>1, AppendProperties DEF OInv
<1>9. /\ Positions = 1 .. len /\ Positions' = 1 .. len + 1
      /\ \A n \in 1 .. len : accepted[n] \in Calls /\ accepted[n] # c
  BY <1>1, <1>3, <1>5, <1>6, AcceptedCalls DEF Positions, OInv, Once
<1>10. Once'
  <2>1. \A m, n \in 1 .. len + 1 : accepted'[m] = accepted'[n] => m = n
    <3> SUFFICES ASSUME NEW m \in 1 .. len + 1, NEW n \in 1 .. len + 1,
                        accepted'[m] = accepted'[n]
                 PROVE  m = n
      OBVIOUS
    <3>1. /\ m \in 1 .. len \/ m = len + 1
          /\ n \in 1 .. len \/ n = len + 1
      BY <1>5
    <3>2. CASE m \in 1 .. len /\ n \in 1 .. len
      BY <1>6, <1>9, <3>2 DEF OInv, Once
    <3>3. CASE ~(m \in 1 .. len /\ n \in 1 .. len)
      BY <1>6, <1>9, <3>1, <3>3
    <3> QED
      BY <3>2, <3>3
  <2>2. ASSUME NEW n \in 1 .. len + 1
        PROVE  status'[accepted'[n]] \notin {"caller", "offered"}
    <3>1. n \in 1 .. len \/ n = len + 1
      BY <1>5
    <3>2. CASE n \in 1 .. len
      BY <1>2, <1>3, <1>6, <1>9, <3>2 DEF OInv, Once
    <3>3. CASE n = len + 1
      BY <1>2, <1>3, <1>6, <3>3
    <3> QED
      BY <3>1, <3>2, <3>3
  <2> QED
    BY <1>9, <2>1, <2>2 DEF Once
<1>11. \E q \in 0 .. Len(accepted') : Waiting(q)'
  <2>1. PICK q \in 0 .. len : Waiting(q)
    BY <1>5 DEF OInv
  <2>2. waiting = len - q
    BY <1>5, <1>7, <2>1 DEF Waiting
  <2>3. Len(queue') = Len(accepted') - q
    BY <1>5, <1>6, <1>7, <1>8, <2>1, <2>2
  <2>4. ASSUME NEW j \in 1 .. Len(queue') PROVE queue'[j] = accepted'[q + j]
    <3>1. j \in 1 .. waiting \/ j = waiting + 1
      BY <1>7, <1>8
    <3>2. CASE j \in 1 .. waiting
      <4>1. q + j \in 1 .. len
        BY <1>5, <2>1, <2>2, <3>2
      <4> QED
        BY <1>6, <1>7, <1>8, <2>1, <3>2, <4>1 DEF Waiting
    <3>3. CASE j = waiting + 1
      <4>1. q + j = len + 1
        BY <1>5, <2>1, <2>2, <3>3
      <4> QED
        BY <1>6, <1>8, <3>3, <4>1
    <3> QED
      BY <3>1, <3>2, <3>3
  <2>5. ASSUME NEW n \in 1 .. len + 1
        PROVE  status'[accepted'[n]] = "queued" <=> n > q
    <3>1. n \in 1 .. len \/ n = len + 1
      BY <1>5
    <3>2. CASE n \in 1 .. len
      BY <1>2, <1>3, <1>6, <1>9, <2>1, <3>2 DEF Waiting
    <3>3. CASE n = len + 1
      <4>1. n > q
        BY <1>5, <2>1, <3>3
      <4> QED
        BY <1>2, <1>3, <1>6, <3>3, <4>1
    <3> QED
      BY <3>1, <3>2, <3>3
  <2>6. q \in 0 .. Len(accepted')
    BY <1>5, <1>6, <2>1
  <2>7. Waiting(q)'
    BY <1>9, <2>3, <2>4, <2>5 DEF Waiting
  <2> QED
    BY <2>6, <2>7
<1>12. ASSUME NEW n \in Positions' PROVE Bounded(n)'
  <2>1. n \in 1 .. len \/ n = len + 1
    BY <1>5, <1>9
  <2>2. CASE n = len + 1
    BY <1>2, <1>3, <1>6, <2>2 DEF Bounded, Started
  <2>3. CASE n \in 1 .. len
    <3>1. \A m \in 1 .. n - 1 : /\ m \in 1 .. len
                                /\ accepted'[m] = accepted[m]
                                /\ status'[accepted[m]] = status[accepted[m]]
      <4>1. \A m \in 1 .. n - 1 : m \in 1 .. len
        BY <1>5, <2>3
      <4> QED
        BY <1>2, <1>3, <1>6, <1>9, <4>1
    <3>2. Running(n)' \subseteq Running(n)
      <4> SUFFICES ASSUME NEW d \in Running(n)' PROVE d \in Running(n)
        OBVIOUS
      <4>1. PICK m \in 1 .. n - 1 : d = accepted'[m]
        BY DEF Running
      <4>2. status'[d] = "claimed" /\ d = accepted[m] /\ status[d] = "claimed"
        BY <3>1, <4>1 DEF Running
      <4> QED
        BY <4>1, <4>2 DEF Running
    <3>3. status'[accepted'[n]] = status[accepted[n]]
      BY <1>2, <1>3, <1>6, <1>9, <2>3
    <3> QED
      BY <1>9, <2>3, <3>2, <3>3, RunningShrinks
  <2> QED
    BY <2>1, <2>2, <2>3
<1> QED
  BY <1>2, <1>4, <1>6, <1>8, <1>10, <1>11, <1>12 DEF OInv

\* The oldest waiting operation starts, and only while a worker is free.
LEMMA StartOrdered ==
  ASSUME OInv, IInv, NEW c \in Calls, Start(c) PROVE OInv'
<1>1. /\ pc[c] = "queued" /\ status[c] = "queued" /\ status'[c] = "claimed"
      /\ Cardinality({d \in Calls : status[d] = "claimed"}) < Workers
      /\ pc' = [pc EXCEPT ![c] = Dispatch(Asked(c))] /\ UNCHANGED accepted
  BY DEF Start, Set, OInv, Linked
<1>2. PICK waiting \in Nat : waiting = Len(queue)
  BY AcceptedCalls
<1>3. /\ waiting \in Nat \ {0} /\ queue' = SubSeq(queue, 2, waiting)
      /\ Pool!Becomes({queue[1]}, "claimed")
  <2>1. PICK n \in 1 .. waiting :
          /\ n > 1 => n <= 1
          /\ Pool!Becomes(Pool!TasksIn(SubSeq(queue, 1, n)), "claimed")
          /\ queue' = SubSeq(queue, n + 1, waiting)
    BY <1>2 DEF Start, Pool!Start
  <2>2. n = 1 /\ waiting # 0
    BY <1>2, <2>1
  <2>3. Pool!TasksIn(SubSeq(queue, 1, 1)) = {queue[1]}
    <3>1. 1 \in Int /\ \A i \in 1 .. 1 : queue[i] \in Calls
      BY <1>2, <2>2, AcceptedCalls
    <3>2. /\ SubSeq(queue, 1, 1) \in Seq(Calls) /\ Len(SubSeq(queue, 1, 1)) = 1
          /\ SubSeq(queue, 1, 1)[1] = queue[1]
      BY <3>1, SubSeqProperties
    <3>3. DOMAIN SubSeq(queue, 1, 1) = {1}
      BY <3>2, LenProperties
    <3> QED
      BY <3>2, <3>3 DEF Pool!TasksIn
  <2>4. /\ Pool!Becomes(Pool!TasksIn(SubSeq(queue, 1, 1)), "claimed")
        /\ queue' = SubSeq(queue, 2, waiting)
    <3>1. n + 1 = 2
      BY <2>2
    <3> QED
      BY <2>1, <2>2, <3>1
  <2> QED
    BY <1>2, <2>2, <2>3, <2>4
<1>4. /\ status' \in [Calls -> Conditions]
      /\ \A d \in Calls : status'[d] = IF d = queue[1] THEN "claimed" ELSE status[d]
  BY <1>3, Changes DEF Conditions
<1>5. queue[1] = c
  BY <1>1, <1>4
<1>6. /\ queue' \in Seq(Calls) /\ Len(queue') = waiting - 1
      /\ \A j \in 1 .. waiting - 1 : queue'[j] = queue[j + 1]
  <2>1. 2 \in Int /\ waiting \in Int /\ \A i \in 2 .. waiting : queue[i] \in Calls
    BY <1>2, AcceptedCalls
  <2>2. /\ queue' \in Seq(Calls)
        /\ Len(queue') = IF 2 <= waiting THEN waiting - 2 + 1 ELSE 0
        /\ \A j \in 1 .. waiting - 2 + 1 : queue'[j] = queue[2 + j - 1]
    BY <1>3, <2>1, SubSeqProperties
  <2> QED
    BY <1>3, <2>2
<1>7. PICK len \in Nat : len = Len(accepted)
  BY AcceptedCalls
<1>8. PICK q \in 0 .. len : Waiting(q)
  BY <1>7 DEF OInv
<1>9. /\ waiting = len - q /\ q + 1 \in 1 .. len
      /\ accepted[q + 1] = c /\ Positions = 1 .. len /\ Positions' = Positions
  BY <1>1, <1>2, <1>3, <1>5, <1>7, <1>8 DEF Waiting, Positions
<1>10. \A n \in 1 .. len : /\ accepted[n] \in Calls
                           /\ n # q + 1 => accepted[n] # c
                           /\ status[accepted[n]] = "queued" <=> n > q
  BY <1>8, <1>9, AcceptedCalls DEF OInv, Once, Waiting
<1>11. \A d \in Calls : Linked(d)'
  BY <1>1, <1>4, <1>5 DEF OInv, Linked, IInv, Types, Dispatch
<1>12. Once'
  BY <1>1, <1>4, <1>9, <1>10 DEF OInv, Once
<1>13. \E p \in 0 .. Len(accepted') : Waiting(p)'
  <2>1. PICK p \in 0 .. len : p = q + 1
    BY <1>9
  <2>2. Len(queue') = Len(accepted') - p
    BY <1>1, <1>6, <1>7, <1>8, <1>9, <2>1
  <2>3. ASSUME NEW j \in 1 .. Len(queue') PROVE queue'[j] = accepted'[p + j]
    <3>1. j \in 1 .. waiting - 1 /\ j + 1 \in 1 .. waiting
          /\ q + (j + 1) = p + j
      BY <1>2, <1>3, <1>6, <1>8, <2>1
    <3>2. queue[j + 1] = accepted[q + (j + 1)]
      BY <1>2, <1>8, <3>1 DEF Waiting
    <3> QED
      BY <1>1, <1>6, <3>1, <3>2
  <2>4. ASSUME NEW n \in 1 .. len
        PROVE  status'[accepted'[n]] = "queued" <=> n > p
    <3>1. status'[accepted[n]] = "queued" <=> n > q /\ n # q + 1
      BY <1>4, <1>5, <1>9, <1>10
    <3> QED
      BY <1>1, <1>7, <1>8, <2>1, <3>1
  <2>5. Waiting(p)'
    BY <1>9, <2>2, <2>3, <2>4 DEF Waiting
  <2> QED
    BY <1>1, <1>7, <2>5
<1>14. ASSUME NEW n \in 1 .. len PROVE Bounded(n)'
  <2>1. CASE n > q + 1
    <3>1. status'[accepted'[n]] = "queued"
      BY <1>1, <1>4, <1>5, <1>7, <1>8, <1>10, <2>1
    <3> QED
      BY <3>1 DEF Bounded, Started
  <2>2. CASE n <= q + 1
    <3>1. \A m \in 1 .. n - 1 : m \in 1 .. len /\ m # q + 1
      BY <1>7, <1>8, <2>2
    <3>2. \A m \in 1 .. n - 1 : /\ accepted[m] \in Calls
                                /\ status'[accepted[m]] = status[accepted[m]]
      BY <1>4, <1>5, <1>10, <3>1
    <3>3. Running(n)' = Running(n)
      BY <1>1, <3>2 DEF Running
    <3>4. CASE n = q + 1
      <4> DEFINE busy == {d \in Calls : status[d] = "claimed"}
      <4>1. Running(n) \in SUBSET busy /\ busy \in SUBSET Calls
        BY <3>2 DEF Running
      <4>2. /\ Cardinality(busy) \in Nat /\ Cardinality(Running(n)) \in Nat
            /\ Cardinality(Running(n)) <= Cardinality(busy)
        BY <4>1, FewCalls
      <4>3. Cardinality(Running(n)) < Workers
        BY <1>1, <4>2, ExecutorAssumption
      <4> QED
        BY <3>3, <4>3 DEF Bounded
    <3>5. CASE n # q + 1
      <4>1. status'[accepted'[n]] = status[accepted[n]]
        BY <1>1, <1>4, <1>5, <1>10, <3>5
      <4> QED
        BY <1>9, <3>3, <4>1, RunningShrinks
    <3> QED
      BY <3>4, <3>5
  <2> QED
    BY <1>7, <1>8, <2>1, <2>2
<1> QED
  BY <1>1, <1>4, <1>6, <1>9, <1>11, <1>12, <1>13, <1>14 DEF OInv

LEMMA CancelOrdered ==
  ASSUME OInv, IInv, CancelQueue PROVE OInv'
<1>1. /\ queue' = <<>> /\ UNCHANGED accepted
      /\ Pool!Becomes(Pool!TasksIn(queue), "cancelled")
      /\ pc' = [c \in Calls |-> IF pc[c] = "queued" THEN "done" ELSE pc[c]]
  BY DEF CancelQueue, Pool!Cancel
<1>2. /\ status' \in [Calls -> Conditions]
      /\ \A d \in Calls : status'[d] = IF d \in Pool!TasksIn(queue)
                                       THEN "cancelled" ELSE status[d]
  BY <1>1, Changes DEF Conditions
<1>3. PICK len \in Nat : len = Len(accepted)
  BY AcceptedCalls
<1>4. PICK q \in 0 .. len : Waiting(q)
  BY <1>3 DEF OInv
<1>5. /\ Positions = 1 .. len /\ Positions' = 1 .. len
      /\ \A n \in 1 .. len : accepted[n] \in Calls
  BY <1>1, <1>3, AcceptedCalls DEF Positions
<1>6. \A d \in Calls : d \in Pool!TasksIn(queue) => status[d] = "queued"
  <2> SUFFICES ASSUME NEW j \in 1 .. Len(queue) PROVE status[queue[j]] = "queued"
    BY AcceptedCalls DEF Pool!TasksIn
  <2>1. q + j \in 1 .. len /\ q + j > q
    BY <1>3, <1>4, AcceptedCalls DEF Waiting
  <2> QED
    BY <1>4, <1>5, <2>1 DEF Waiting
<1>7. ASSUME NEW n \in 1 .. len PROVE status'[accepted[n]] # "queued"
  <2>1. CASE n > q
    <3>1. PICK j \in 1 .. Len(queue) : q + j = n
      <4>1. n - q \in 1 .. Len(queue) /\ q + (n - q) = n
        BY <1>3, <1>4, <2>1, AcceptedCalls DEF Waiting
      <4> QED
        BY <4>1
    <3>2. accepted[n] \in Pool!TasksIn(queue)
      BY <1>4, <3>1, AcceptedCalls DEF Waiting, Pool!TasksIn
    <3> QED
      BY <1>2, <1>5, <3>2
  <2>2. CASE ~(n > q)
    BY <1>2, <1>4, <1>5, <2>2 DEF Waiting
  <2> QED
    BY <2>1, <2>2
<1>8. \A d \in Calls : Linked(d)'
  BY <1>1, <1>2, <1>6 DEF OInv, Linked, IInv, Types
<1>9. Once'
  BY <1>1, <1>2, <1>5 DEF OInv, Once
<1>10. \E p \in 0 .. Len(accepted') : Waiting(p)'
  <2>1. Len(queue') = 0 /\ queue' \in Seq(Calls)
    BY <1>1, EmptySeq
  <2>2. Waiting(len)'
    BY <1>1, <1>3, <1>5, <1>7, <2>1 DEF Waiting
  <2>3. len \in 0 .. Len(accepted')
    BY <1>1, <1>3
  <2> QED
    BY <2>2, <2>3
<1>11. ASSUME NEW n \in 1 .. len PROVE Bounded(n)'
  <2>1. \A d \in Calls : status'[d] \in Started => status[d] = status'[d]
    BY <1>2, <1>6 DEF Started
  <2>2. Running(n)' \subseteq Running(n)
    <3> SUFFICES ASSUME NEW m \in 1 .. n - 1, status'[accepted[m]] = "claimed"
                 PROVE  status[accepted[m]] = "claimed"
      BY <1>1 DEF Running
    <3>1. m \in 1 .. len
      BY <1>3
    <3> QED
      BY <1>5, <2>1, <3>1 DEF Started
  <2> QED
    BY <1>1, <1>5, <2>1, <2>2, RunningShrinks
<1> QED
  BY <1>1, <1>2, <1>5, <1>8, <1>9, <1>10, <1>11, EmptySeq DEF OInv

\* The end of an operation, and the steps that the executor has no part in.
LEMMA EndSteady ==
  ASSUME OInv, IInv, NEW c \in Calls, pc' = [pc EXCEPT ![c] = "done"],
         NEW answer, Settle(c, answer), UNCHANGED accepted
  PROVE  OInv'
<1>1. CASE UNCHANGED <<queue, status>>
  <2>1. \A d \in Calls : Linked(d)'
    BY <1>1 DEF OInv, Linked, IInv, Types
  <2>2. Steady
    BY <1>1 DEF Steady, OInv
  <2> QED
    BY <2>1, <2>2, SteadyStep
<1>2. CASE Pool!Settle /\ status'[c] = IF answer.status = "ok" THEN "value"
                                       ELSE "error"
  <2>1. PICK k \in Calls, outcome \in Conditions :
          /\ outcome \in {"value", "error", "exception"}
          /\ status[k] = "claimed" /\ Pool!Becomes({k}, outcome)
          /\ UNCHANGED queue
    BY <1>2 DEF Pool!Settle, Pool!Settled, Conditions
  <2>2. /\ status' \in [Calls -> Conditions]
        /\ \A d \in Calls : status'[d] = IF d = k THEN outcome ELSE status[d]
    BY <2>1, Changes
  <2>3. \A d \in Calls : Linked(d)'
    BY <2>1, <2>2 DEF OInv, Linked, IInv, Types
  <2>4. Steady
    BY <2>1, <2>2 DEF Steady, Started
  <2> QED
    BY <2>3, <2>4, SteadyStep
<1> QED
  BY <1>1, <1>2 DEF Settle, pool

LEMMA SilentSteady ==
  ASSUME OInv, UNCHANGED <<accepted, queue, status>>,
         \A c \in Calls : pc'[c] \in {"idle", "submit", "queued"} => pc'[c] = pc[c]
  PROVE  OInv'
<1>1. \A c \in Calls : Linked(c)'
  BY DEF OInv, Linked
<1>2. Steady
  BY DEF Steady, OInv
<1> QED
  BY <1>1, <1>2, SteadyStep

LEMMA OInvInit == Init => OInv
<1> SUFFICES ASSUME Init PROVE OInv
  OBVIOUS
<1>1. /\ accepted = <<>> /\ queue = <<>>
      /\ status = [c \in Calls |-> "caller"] /\ pc = [c \in Calls |-> "idle"]
  BY DEF Init, Pool!Init
<1>2. /\ accepted \in Seq(Calls) /\ queue \in Seq(Calls)
      /\ Len(accepted) = 0 /\ Len(queue) = 0
  BY <1>1, EmptySeq
<1>3. Positions = {} /\ 0 \in 0 .. Len(accepted)
  BY <1>2 DEF Positions
<1>4. Waiting(0)
  BY <1>2, <1>3 DEF Waiting
<1>5. status \in [Calls -> Conditions] /\ \A c \in Calls : Linked(c)
  BY <1>1 DEF Conditions, Linked
<1> QED
  BY <1>2, <1>3, <1>4, <1>5 DEF OInv, Once

LEMMA OInvStep == IInv /\ OInv /\ [Next]_vars => OInv'
<1> SUFFICES ASSUME IInv, OInv, [Next]_vars PROVE OInv'
  OBVIOUS
<1>1. ASSUME NEW c \in Calls, Submit(c) PROVE OInv'
  <2>1. CASE Pool!Accept /\ status'[c] = "queued"
    BY <1>1, <2>1, AcceptOrdered DEF Submit, Set, Done, Pool!Refuse
  <2>2. CASE Pool!Refuse /\ status'[c] = "rejected"
    BY <1>1, <2>2, RefuseSteady DEF Submit, Set, Done
  <2> QED
    BY <1>1, <2>1, <2>2 DEF Submit
<1>2. ASSUME NEW c \in Calls, LockHandler(c) \/ Enter(c) PROVE OInv'
  <2>1. /\ UNCHANGED <<accepted, queue, status>>
        /\ \E label \in {"register", "access"} : pc' = [pc EXCEPT ![c] = label]
    BY <1>2 DEF LockHandler, Enter, Set, pool
  <2>2. \A d \in Calls :
          pc'[d] \in {"idle", "submit", "queued"} => pc'[d] = pc[d]
    BY <2>1 DEF IInv, Types
  <2> QED
    BY <2>1, <2>2, SilentSteady
<1>3. ASSUME NEW c \in Calls, Unrouted(c) PROVE OInv'
  BY <1>3, EndSteady DEF Unrouted, Done, Set
<1>4. ASSUME NEW c \in Calls, Apply(c) PROVE OInv'
  <2>1. PICK answer : answer = Answer(Asked(c), At(c), seen[c])
    OBVIOUS
  <2>2. Settle(c, answer) /\ pc' = [pc EXCEPT ![c] = "done"] /\ UNCHANGED accepted
    BY <1>4, <2>1 DEF Apply, Done, Set
  <2> QED
    BY <2>2, EndSteady
<1>5. CASE Shutdown \/ DestroySystem \/ UNCHANGED vars
  BY <1>5, SilentSteady DEF Shutdown, DestroySystem, Pool!Stop, pool, vars
<1>6. ASSUME NEW c \in Calls, Call(c) \/ Step(c) PROVE OInv'
  BY <1>1, <1>2, <1>3, <1>4, <1>6, CallSteady, StartOrdered DEF Step
<1> QED
  BY <1>5, <1>6, CancelOrdered DEF Next

LEMMA OrderShows == OInv => OvertakesOnlyRunning
<1> SUFFICES ASSUME OInv, NEW n \in Positions, status[accepted[n]] \in Started
             PROVE  LET before == {accepted[m] : m \in 1 .. n - 1} IN
                    /\ \A d \in before : status[d] # "queued"
                    /\ Cardinality({d \in before : status[d] = "claimed"}) < Workers
  BY AcceptedCalls DEF OvertakesOnlyRunning, Started
<1>1. PICK q \in 0 .. Len(accepted) : Waiting(q)
  BY DEF OInv
<1>2. ~(n > q)
  BY <1>1 DEF Waiting, Started
<1>3. ASSUME NEW m \in 1 .. n - 1 PROVE status[accepted[m]] # "queued"
  <2>1. m \in Positions /\ ~(m > q)
    BY <1>1, <1>2, AcceptedCalls DEF Positions
  <2> QED
    BY <1>1, <2>1 DEF Waiting
<1>4. Cardinality(Running(n)) < Workers
  BY DEF OInv, Bounded
<1> QED
  BY <1>3, <1>4 DEF Running

\* However many workers there are: an operation of an asynchronous system that
\* has been started found every operation accepted before it started as well,
\* or cancelled, and fewer of them still running than there are workers.
THEOREM OvertakingBounded == Spec => []OvertakesOnlyRunning
<1>1. Init => IInv /\ OInv
  BY IInvInit, OInvInit
<1>2. IInv /\ OInv /\ [Next]_vars => IInv' /\ OInv'
  BY IInvStep, OInvStep
<1> QED
  BY <1>1, <1>2, OrderShows, PTL DEF Spec
=============================================================================
