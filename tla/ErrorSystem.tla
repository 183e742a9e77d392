---------------------------- MODULE ErrorSystem ----------------------------
(***************************************************************************)
(* Register, Handler, ConcurrentHandler and the three systems of           *)
(* include/vosp/error.hpp: calls on registers of one category each, made   *)
(* directly or routed by a system that is not synchronized, that has a     *)
(* mutex for each register, or that submits to an executor.  The executor  *)
(* is the worker pool as PoolContract describes it; each of its workers    *)
(* runs one operation at a time.                                           *)
(*                                                                         *)
(* The mutexes are those of the policies, and there may be none: so the    *)
(* access to a register's map is two steps, the look at it (Enter) and the *)
(* change that follows from what was seen (Apply).                         *)
(***************************************************************************)
EXTENDS Naturals, Sequences, SequencesExt, FiniteSets, Functions

CONSTANTS
  CallLimit,    \* bound: each call is made once
  DirectLimit,  \* bound: calls that go to a register directly
  Registers,  \* a sequence: the category and the limit of each register
  Requests,   \* [op, error, target]; target 0 is the system, i register i
  Workers, QueueCapacity

Calls == 1 .. CallLimit
max_register_capacity == 1000000

\* What validate_limits lets pass.
ASSUME RegistersAssumption ==
  Registers \in Seq([category : STRING, limit : 1 .. max_register_capacity])
ASSUME RequestsAssumption ==
  \A r \in Requests :
    /\ r.op \in {"add", "remove", "remove_code", "clear",
                 "contains", "find", "snapshot"}
    /\ r.target \in {0} \cup DOMAIN Registers
    /\ r.target = 0 => r.op \in {"add", "remove"}
    /\ r.error.code \in Nat
ASSUME ExecutorAssumption ==
  {Workers, QueueCapacity, CallLimit, DirectLimit} \subseteq Nat \ {0}

VARIABLES
  policy,           \* of the system: "single", "multi", "async"
  safe,             \* the register policy is ThreadSafe
  errors,           \* errors_ of each register: code -> Error
  locks,            \* held mutexes: <<"handler", i>>, <<"register", i>>
  owners,           \* of the shared handler: the system (0) and closures
  pc, request,      \* where each call is, and what it asks for
  seen, result,     \* what each call read, and returned (as a set)
  accepted,         \* history: calls accepted by the executor, in order
  queue, status, stopping, calls  \* the executor

pool == <<queue, status, stopping, calls>>
vars == <<policy, safe, errors, locks, owners, pc, request, seen, result,
          accepted, queue, status, stopping, calls>>

Pool == INSTANCE PoolContract WITH
          Clients <- {}, Tasks <- Calls, Spans <- {<<c>> : c \in Calls},
          Bulk <- {}, Capacity <- QueueCapacity, BulkClaim <- 1

Init ==
  /\ policy \in {"single", "multi", "async"} /\ safe \in BOOLEAN
  /\ errors = [i \in DOMAIN Registers |-> <<>>] /\ locks = {} /\ owners = {0}
  /\ pc = [c \in Calls |-> "idle"] /\ request = [c \in Calls |-> {}]
  /\ seen = [c \in Calls |-> <<>>] /\ result = [c \in Calls |-> {}]
  /\ accepted = <<>>
  /\ Pool!Init

Set(f, c, value) == f' = [f EXCEPT ![c] = value]
InProgress(c) == pc[c] \notin {"idle", "done"}
Asked(c) == CHOOSE r \in request[c] : TRUE
Error(c) == Asked(c).error
Async(c) == policy = "async" /\ Asked(c).target = 0

\* dispatch: the first register of the category, if there is one.
First(r) ==
  {i \in DOMAIN Registers :
     /\ Registers[i].category = r.error.category
     /\ \A j \in 1 .. i - 1 : Registers[j].category # r.error.category}
Route(r) ==
  IF r.target # 0 THEN r.target
  ELSE IF First(r) = {} THEN 0 ELSE CHOOSE i \in First(r) : TRUE
\* The register that call c works on, and the first mutex it needs.
At(c) == Route(Asked(c))
Dispatch(r) ==
  IF Route(r) = 0 THEN "unrouted"
  ELSE IF r.target = 0 /\ policy # "single" THEN "handler" ELSE "register"

\* Results are [status, found, count]; the error of a failed call is its status.
Failed(why) == [status |-> why, found |-> {}, count |-> 0]
Found(S, n) == [status |-> "ok", found |-> S, count |-> n]
Done(c, answer) ==
  Set(pc, c, "done") /\ Set(result, c, {answer}) /\ owners' = owners \ {c}
-----------------------------------------------------------------------------
(* Calls.                                                                  *)

\* What the application must not overlap with anything else.
Serialized(r) == IF r.target = 0 THEN policy = "single" ELSE ~safe
MayOverlap(r) ==
  \A d \in Calls : InProgress(d) => ~Serialized(r) /\ ~Serialized(Asked(d))

CapturesNothing(c) == owners                                   \* mutant
Captures(c) == owners \cup {c}

DirectCalls == {c \in Calls : pc[c] # "idle" /\ Asked(c).target # 0}

Call(c) ==
  /\ pc[c] = "idle" /\ (c > 1 => pc[c - 1] # "idle")
  /\ \E r \in Requests :
       /\ MayOverlap(r)
       /\ IF r.target = 0 THEN 0 \in owners
          ELSE Cardinality(DirectCalls) < DirectLimit
       /\ Set(request, c, {r})
       /\ IF r.target = 0 /\ policy = "async"
          THEN /\ Set(pc, c, "submit") /\ owners' = Captures(c)
               /\ Pool!Offer /\ status'[c] = "offered"
          ELSE Set(pc, c, Dispatch(r)) /\ UNCHANGED <<owners, pool>>
  /\ UNCHANGED <<policy, safe, errors, locks, seen, result, accepted>>

\* executor_.submit returns a future, or throws once the pool is stopping.
Submit(c) ==
  /\ pc[c] = "submit"
  /\ \/ /\ Pool!Accept /\ status'[c] = "queued" /\ Set(pc, c, "queued")
        /\ accepted' = Append(accepted, c) /\ UNCHANGED <<result, owners>>
     \/ /\ Pool!Refuse /\ status'[c] = "rejected"
        /\ Done(c, Failed("rejected")) /\ UNCHANGED accepted
  /\ UNCHANGED <<policy, safe, errors, locks, request, seen>>
-----------------------------------------------------------------------------
(* The executor.                                                           *)

Start(c) ==
  /\ pc[c] = "queued"
  /\ Cardinality({d \in Calls : status[d] = "claimed"}) < Workers
  /\ Pool!Start /\ status'[c] = "claimed" /\ Set(pc, c, Dispatch(Asked(c)))
  /\ UNCHANGED <<policy, safe, errors, locks, owners, request, seen, result,
                 accepted>>

\* The application clears the queue or cancels it while it shuts down.
CancelQueue ==
  /\ Pool!Cancel
  /\ LET dropped == {c \in Calls : pc[c] = "queued"} IN
     /\ pc' = [c \in Calls |-> IF c \in dropped THEN "done" ELSE pc[c]]
     /\ result' = [c \in Calls |-> IF c \in dropped
                                   THEN {Failed("cancelled")} ELSE result[c]]
     /\ owners' = owners \ dropped
  /\ UNCHANGED <<policy, safe, errors, locks, request, seen, accepted>>

Shutdown ==
  /\ policy = "async" /\ ~stopping /\ Pool!Stop
  /\ UNCHANGED <<policy, safe, errors, locks, owners, pc, request, seen,
                 result, accepted>>

\* The application destroys the asynchronous system between its calls; the
\* executor and the registers live on.
DestroySystem ==
  /\ policy = "async" /\ 0 \in owners /\ \A c \in Calls : pc[c] # "submit"
  /\ owners' = owners \ {0}
  /\ UNCHANGED <<policy, safe, errors, locks, pc, request, seen, result,
                 accepted, pool>>
-----------------------------------------------------------------------------
(* Routing and the registers.                                              *)

\* The future of an asynchronous operation gets what the operation returned.
Settle(c, answer) ==
  IF ~Async(c) THEN UNCHANGED pool
  ELSE /\ Pool!Settle
       /\ status'[c] = IF answer.status = "ok" THEN "value" ELSE "error"

Unrouted(c) ==
  /\ pc[c] = "unrouted"
  /\ Done(c, Failed("missing_register")) /\ Settle(c, Failed("missing_register"))
  /\ UNCHANGED <<policy, safe, errors, locks, request, seen, accepted>>

LockHandlerNever(c) ==                                         \* mutant
  /\ pc[c] = "handler" /\ Set(pc, c, "register")
  /\ UNCHANGED <<policy, safe, errors, locks, owners, request, seen, result,
                 accepted, pool>>
LockHandler(c) ==
  /\ pc[c] = "handler" /\ <<"handler", At(c)>> \notin locks
  /\ locks' = locks \cup {<<"handler", At(c)>>} /\ Set(pc, c, "register")
  /\ UNCHANGED <<policy, safe, errors, owners, request, seen, result,
                 accepted, pool>>

Enter(c) ==
  /\ pc[c] = "register"
  /\ IF safe THEN /\ <<"register", At(c)>> \notin locks
                  /\ locks' = locks \cup {<<"register", At(c)>>}
     ELSE UNCHANGED locks
  /\ Set(pc, c, "access") /\ Set(seen, c, errors[At(c)])
  /\ UNCHANGED <<policy, safe, errors, owners, request, result, accepted, pool>>

Held(f, e) == e.code \in DOMAIN f
FullAbove(f, i) == Cardinality(DOMAIN f) > Registers[i].limit  \* mutant
Full(f, i) == Cardinality(DOMAIN f) >= Registers[i].limit
EqualByCode(f, e) == Held(f, e)                                \* mutant
Equal(f, e) == Held(f, e) /\ f[e.code] = e

\* What a call on register i returns when it finds f there ...
Answer(r, i, f) ==
  LET e == r.error IN
  CASE r.op \in {"add", "remove"} /\ e.category # Registers[i].category ->
         Failed("category")
    [] r.op = "add" /\ e.category = Registers[i].category ->
         IF Held(f, e) THEN Failed("duplicate")
         ELSE IF Full(f, i) THEN Failed("capacity") ELSE Found({}, 0)
    [] r.op = "remove" /\ e.category = Registers[i].category ->
         IF Equal(f, e) THEN Found({}, 0) ELSE Failed("missing")
    [] r.op = "remove_code" ->
         IF Held(f, e) THEN Found({}, 0) ELSE Failed("missing")
    [] r.op = "contains" -> Found({d \in {e} : Equal(f, d)}, 0)
    [] r.op = "find" -> Found({f[k] : k \in DOMAIN f \cap {e.code}}, 0)
    [] r.op = "snapshot" -> Found(Range(f), Cardinality(DOMAIN f))
    [] r.op = "clear" -> Found({}, Cardinality(DOMAIN f))
\* ... and what a call that succeeds leaves there.
Left(r, f) ==
  LET without(K) == Restrict(f, DOMAIN f \ K) IN
  CASE r.op = "add" -> [k \in DOMAIN f \cup {r.error.code} |->
                          IF k = r.error.code THEN r.error ELSE f[k]]
    [] r.op \in {"remove", "remove_code"} -> without({r.error.code})
    [] r.op = "clear" -> without(DOMAIN f)
    [] OTHER -> f

ReleasedOnSuccess(c, answer) ==                                \* mutant
  IF answer.status = "ok" THEN {"handler", "register"} \X {At(c)} ELSE {}
\* A system call gives back both mutexes, a direct call its register's.
Released(c, answer) ==
  {<<"register", At(c)>>} \cup
  IF Asked(c).target = 0 THEN {<<"handler", At(c)>>} ELSE {}

Apply(c) ==
  /\ pc[c] = "access"
  /\ LET answer == Answer(Asked(c), At(c), seen[c]) IN
     /\ errors' = [errors EXCEPT ![At(c)] =
          IF answer.status = "ok" THEN Left(Asked(c), seen[c]) ELSE @]
     /\ locks' = locks \ Released(c, answer)
     /\ Done(c, answer) /\ Settle(c, answer)
  /\ Set(seen, c, <<>>)
  /\ UNCHANGED <<policy, safe, request, accepted>>
-----------------------------------------------------------------------------
(* The specification.                                                      *)

Step(c) ==
  \/ Submit(c) \/ Start(c) \/ Unrouted(c)
  \/ LockHandler(c) \/ Enter(c) \/ Apply(c)
Next ==
  \/ \E c \in Calls : Call(c) \/ Step(c)
  \/ CancelQueue \/ Shutdown \/ DestroySystem

Spec == Init /\ [][Next]_vars
\* As long as some call or worker can take a step, one of them does.
FairSpec == Spec /\ WF_vars(\E c \in Calls : Step(c))
-----------------------------------------------------------------------------
(* Properties.                                                             *)

\* The type of every variable; a register keeps to its limit and holds, under
\* each code, an error of that code and of its category.
TypeOK ==
  /\ policy \in {"single", "multi", "async"} /\ safe \in BOOLEAN
  /\ \A i \in DOMAIN Registers :
       /\ Cardinality(DOMAIN errors[i]) <= Registers[i].limit
       /\ \A k \in DOMAIN errors[i] :
            errors[i][k].code = k /\ errors[i][k].category = Registers[i].category
  /\ locks \subseteq {"handler", "register"} \X DOMAIN Registers
  /\ owners \subseteq Calls \cup {0}
  /\ pc \in [Calls -> {"idle", "submit", "queued", "unrouted", "handler",
                       "register", "access", "done"}]
  /\ \A c \in Calls : /\ request[c] \subseteq Requests
                      /\ (request[c] = {}) <=> (pc[c] = "idle")
                      /\ (result[c] = {}) <=> (pc[c] # "done")

\* Never do two calls access the map of a register at once: where the register
\* has no mutex, the routing lock or the application keeps them apart.
AccessExclusive ==
  \A c, d \in Calls :
    pc[c] = "access" /\ pc[d] = "access" /\ At(c) = At(d) => c = d

\* An operation that runs on the executor uses a handler that still exists,
\* also after the destruction of the system.
HandlerAlive ==
  \A c \in Calls :
    InProgress(c) /\ Asked(c).target = 0 => owners \cap {0, c} # {}

\* An operation overtakes one that was accepted before it only if that one is
\* already running: never more of them than there are other workers.
OvertakesOnlyRunning ==
  \A n \in DOMAIN accepted :
    status[accepted[n]] \in {"claimed", "value", "error"} =>
      LET before == {accepted[m] : m \in 1 .. n - 1} IN
      /\ \A d \in before : status[d] # "queued"
      /\ Cardinality({d \in before : status[d] = "claimed"}) < Workers

\* Every call returns and every future becomes ready: as the calls are bounded,
\* the time comes, again and again, when none is in progress.
CallsEnd == []<>(\A c \in Calls : ~InProgress(c))

Registry == INSTANCE ErrorRegistry WITH
  stored <- [i \in DOMAIN Registers |-> Range(errors[i])],
  open <- request, answer <- result
\* Registers and systems implement ErrorRegistry.
ImplementsRegistry == Registry!Spec
=============================================================================
