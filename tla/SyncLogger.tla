----------------------------- MODULE SyncLogger -----------------------------
(***************************************************************************)
(* Logger<Policy, Dispatch, Metadata> with the serialized or the parallel  *)
(* dispatch (include/vosp/logger.hpp): a registry of external and owned    *)
(* sinks, whose callbacks run on the thread that writes.                   *)
(*                                                                         *)
(* A sole external sink is also published in an atomic that a write reads  *)
(* without mutex_: attach and detach change the registry and then store    *)
(* that atomic, two steps under mutex_ that such a write may come between. *)
(* A callback ends in one step, which may follow calls that it makes into  *)
(* its own logger.  A filtered record returns at once and is no action.    *)
(***************************************************************************)
EXTENDS Naturals, Sequences, SequencesExt, FiniteSets

CONSTANTS
  Threads,
  Sinks,
  Owned,       \* the sinks the application manages by shared_ptr
  Reentrant,   \* the sinks whose callback may call the logger
  NoSink,      \* nullptr
  CallLimit    \* bound: calls of all threads

ASSUME SinksAssumption ==
  /\ IsFiniteSet(Sinks) /\ Owned \subseteq Sinks /\ Reentrant \subseteq Sinks
  /\ NoSink \notin Sinks
ASSUME LimitAssumption == CallLimit \in Nat

\* A call of a thread, and the one that a callback of that call makes.
Calls == Threads \X {"outer", "nested"}
Nested(c) == <<c[1], "nested">>
Outer(c) == <<c[1], "outer">>

VARIABLES
  sinks,                    \* sinks_: a slot has an owner if its sink is Owned
  single_non_owning_sink,
  published,                \* history: sinks_ when the pointer was last stored
  callback_mutex,           \* recursive: the calls that hold it
  serializes_callbacks,     \* the Dispatch policy
  held,                     \* the Owned sinks the application still points to
  pc,
  argument,                 \* local: what attach and detach are called with
  selected,                 \* local: the sinks to call, the current one first
  owners,                   \* local: the Owned sinks the snapshot keeps alive
  result,                   \* what the call returns, or is about to
  calls                     \* bound: calls made so far

registry == <<sinks, single_non_owning_sink, published>>
environment == <<serializes_callbacks, held>>
locals == <<argument, selected, owners>>
vars == <<sinks, single_non_owning_sink, published, callback_mutex,
          serializes_callbacks, held, pc, argument, selected, owners, result,
          calls>>

\* refresh_single_sink_fast_path: what it publishes of a registry.
FastPathAnyOwner(slots) == IF Len(slots) = 1 THEN slots[1] ELSE NoSink \* mutant
FastPath(slots) ==
  IF Len(slots) = 1 /\ slots[1] \notin Owned THEN slots[1] ELSE NoSink

\* The constructors: no sink, external sinks, or one that the logger owns.
Init ==
  /\ \/ \E S \in SUBSET (Sinks \ Owned) : sinks \in SetToSeqs(S)
     \/ \E s \in Owned : sinks = <<s>>
  /\ single_non_owning_sink = FastPath(sinks) /\ published = sinks
  /\ callback_mutex = {} /\ serializes_callbacks \in BOOLEAN
  /\ held = Owned
  /\ pc = [c \in Calls |-> "idle"] /\ argument = [c \in Calls |-> NoSink]
  /\ selected = [c \in Calls |-> <<>>] /\ owners = [c \in Calls |-> {}]
  /\ result = [c \in Calls |-> "true"] /\ calls = 0

Goto(c, label) == pc' = [pc EXCEPT ![c] = label]
Report(c, value) == result' = [result EXCEPT ![c] = value]
-----------------------------------------------------------------------------
(* Calls.  Who names a sink holds it: a nested call runs in a callback.    *)

Begin(c, label) ==
  /\ pc[c] = "idle" /\ Goto(c, label) /\ Report(c, "true")
  /\ c = Nested(c) => /\ pc[Outer(c)] = "callback"
                      /\ Head(selected[Outer(c)]) \in Reentrant
  /\ calls < CallLimit /\ calls' = calls + 1
  /\ UNCHANGED <<registry, callback_mutex, environment, selected, owners>>

CallWrite(c) == Begin(c, "write") /\ UNCHANGED argument
CallRegistry(c) ==
  \E s \in (Sinks \ Owned) \cup held, label \in {"attach", "detach"} :
    Begin(c, label) /\ argument' = [argument EXCEPT ![c] = s]

\* The application gives up its pointer to an Owned sink.
DropOwner(s) ==
  /\ s \in held /\ held' = held \ {s}
  /\ UNCHANGED <<registry, callback_mutex, serializes_callbacks, pc, locals,
                 result, calls>>
-----------------------------------------------------------------------------
(* attach and detach.                                                      *)

\* mutex_ is held between the change of the registry and the store of the
\* pointer; every other section under it is one step.
MutexIgnored == TRUE                                           \* mutant
MutexFree == \A c \in Calls : pc[c] # "publish"

Change(c, slots) ==
  /\ MutexFree /\ sinks' = slots /\ Goto(c, "publish")
  /\ UNCHANGED <<single_non_owning_sink, published, callback_mutex, environment,
                 locals, result, calls>>
\* The registry stays: the sink is there already, or is not.
Refuse(c) ==
  /\ MutexFree /\ Goto(c, "idle") /\ Report(c, "false")
  /\ argument' = [argument EXCEPT ![c] = NoSink]
  /\ UNCHANGED <<registry, callback_mutex, environment, selected, owners, calls>>

AttachUnchecked(c) ==                                          \* mutant
  pc[c] = "attach" /\ Change(c, Append(sinks, argument[c]))
Attach(c) ==
  /\ pc[c] = "attach"
  /\ IF Contains(sinks, argument[c]) THEN Refuse(c)
     ELSE Change(c, Append(sinks, argument[c]))

\* A sink has one slot at most.
Detach(c) ==
  /\ pc[c] = "detach"
  /\ \/ \E i \in DOMAIN sinks :
          sinks[i] = argument[c] /\ Change(c, RemoveAt(sinks, i))
     \/ ~Contains(sinks, argument[c]) /\ Refuse(c)

Publish(c) ==
  /\ pc[c] = "publish" /\ Goto(c, "idle") /\ Report(c, "true")
  /\ single_non_owning_sink' = FastPath(sinks) /\ published' = sinks
  /\ argument' = [argument EXCEPT ![c] = NoSink]
  /\ UNCHANGED <<sinks, callback_mutex, environment, selected, owners, calls>>
-----------------------------------------------------------------------------
(* write.                                                                  *)

\* The fast path: the atomic is read, mutex_ is not taken.
WriteFastUnlocked(c) ==                                        \* mutant
  /\ pc[c] = "write" /\ single_non_owning_sink # NoSink
  /\ selected' = [selected EXCEPT ![c] = <<single_non_owning_sink>>]
  /\ Goto(c, "callback")
  /\ UNCHANGED <<registry, callback_mutex, environment, argument, owners,
                 result, calls>>
WriteFast(c) ==
  /\ pc[c] = "write" /\ single_non_owning_sink # NoSink
  /\ selected' = [selected EXCEPT ![c] = <<single_non_owning_sink>>]
  /\ Goto(c, "serialize")
  /\ UNCHANGED <<registry, callback_mutex, environment, argument, owners,
                 result, calls>>

WriteSlow(c) ==
  /\ pc[c] = "write" /\ single_non_owning_sink = NoSink
  /\ Goto(c, "select")
  /\ UNCHANGED <<registry, callback_mutex, environment, locals, result, calls>>

WriteSelect(c) ==
  /\ pc[c] = "select" /\ MutexFree
  /\ IF sinks = <<>> THEN Goto(c, "idle") /\ Report(c, "false")
     ELSE Goto(c, "serialize") /\ UNCHANGED result
  /\ selected' = [selected EXCEPT ![c] = sinks]
  /\ owners' = [owners EXCEPT ![c] = ToSet(sinks) \cap Owned]
  /\ UNCHANGED <<registry, callback_mutex, environment, argument, calls>>

\* callback_mutex_ can be taken by a thread that has it.
MayLockOnce(c) == callback_mutex = {}                          \* mutant
MayLock(c) == callback_mutex \subseteq {Outer(c), Nested(c)}

WriteSerialize(c) ==
  /\ pc[c] = "serialize"
  /\ IF serializes_callbacks
     THEN MayLock(c) /\ callback_mutex' = callback_mutex \cup {c}
     ELSE UNCHANGED callback_mutex
  /\ Goto(c, "callback")
  /\ UNCHANGED <<registry, environment, locals, result, calls>>

\* The callback of the current sink ends; the last one, and one that throws,
\* end the call, which drops its lock and its snapshot.
WriteCallback(c) ==
  /\ pc[c] = "callback" /\ (c = Outer(c) => pc[Nested(c)] = "idle")
  /\ \E outcome \in {"true", "false", "throws"} :
       /\ Report(c, IF outcome = "true" THEN result[c] ELSE outcome)
       /\ IF outcome = "throws" \/ Len(selected[c]) = 1
          THEN /\ Goto(c, "idle")
               /\ callback_mutex' = callback_mutex \ {c}
               /\ selected' = [selected EXCEPT ![c] = <<>>]
               /\ owners' = [owners EXCEPT ![c] = {}]
          ELSE /\ selected' = [selected EXCEPT ![c] = Tail(@)]
               /\ UNCHANGED <<pc, callback_mutex, owners>>
  /\ UNCHANGED <<registry, environment, argument, calls>>
-----------------------------------------------------------------------------
(* The specification.                                                      *)

Step(c) ==
  \/ Attach(c) \/ Detach(c) \/ Publish(c)
  \/ WriteFast(c) \/ WriteSlow(c) \/ WriteSelect(c) \/ WriteSerialize(c)
  \/ WriteCallback(c)
Next ==
  \/ \E c \in Calls : CallWrite(c) \/ CallRegistry(c) \/ Step(c)
  \/ \E s \in Owned : DropOwner(s)

Spec == Init /\ [][Next]_vars
\* A call that can take a step takes one, and callbacks end.
FairSpec == Spec /\ \A c \in Calls : WF_vars(Step(c))
-----------------------------------------------------------------------------
(* Properties.                                                             *)

Labels == {"idle", "attach", "detach", "publish", "write", "select",
           "serialize", "callback"}
\* The type of every variable; attach_slot registers a sink at most once.
TypeOK ==
  /\ sinks \in Seq(Sinks) /\ IsInjective(sinks)
  /\ published \in Seq(Sinks) /\ IsInjective(published)
  /\ single_non_owning_sink \in Sinks \cup {NoSink}
  /\ callback_mutex \subseteq Calls /\ serializes_callbacks \in BOOLEAN
  /\ held \subseteq Owned
  /\ pc \in [Calls -> Labels] /\ argument \in [Calls -> Sinks \cup {NoSink}]
  /\ selected \in [Calls -> Seq(Sinks)] /\ owners \in [Calls -> SUBSET Owned]
  /\ result \in [Calls -> {"true", "false", "throws"}]
  /\ calls \in 0 .. CallLimit

\* Somebody's shared_ptr keeps an Owned sink alive: the application's, a
\* slot's, that of an attach in progress or that of a snapshot.
Alive(s) ==
  \/ s \notin Owned \/ s \in held \/ Contains(sinks, s)
  \/ \E c \in Calls : s \in owners[c] \/ (pc[c] = "attach" /\ argument[c] = s)
\* Every sink that write_entry has selected and not yet called still exists,
\* whatever detach and the application did since: a sink reached over the
\* pointer that is read without mutex_, too.
CallbacksAlive ==
  \A c \in Calls : \A s \in ToSet(selected[c]) : Alive(s)

\* SerializedSinkDispatch: callbacks of two threads never overlap, whichever
\* of the two paths through write_entry each of them took.
CallbacksSerialized ==
  serializes_callbacks =>
    \A c, d \in Calls : pc[c] = "callback" /\ pc[d] = "callback" => c[1] = d[1]

Contract == INSTANCE SyncLoggerContract WITH
  registry <- published, todo <- selected
\* Every step is a step of SyncLoggerContract or none: a registry change takes
\* effect when the pointer is stored, for writes that take mutex_ and for those
\* that do not, and a write that comes between the change and the store finds
\* the registry of before.  No write calls a sink it did not select, skips one,
\* or reports success that one of them denied.
ImplementsContract == Contract!Spec

\* Every call returns, also one that a callback makes into its own logger
\* while callback_mutex_ is held.
CallsReturn == \A c \in Calls : (pc[c] # "idle") ~> (pc[c] = "idle")
=============================================================================
