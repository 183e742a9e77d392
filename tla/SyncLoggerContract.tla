------------------------- MODULE SyncLoggerContract -------------------------
(***************************************************************************)
(* What the synchronous Logger promises: attach, detach and the selection  *)
(* of a record's sinks are atomic, a write calls the sinks it selected in  *)
(* the order of their registration, each once, up to the first one that    *)
(* throws, and reports whether all of them accepted the record.            *)
(***************************************************************************)
EXTENDS Naturals, Sequences, SequencesExt

CONSTANTS Sinks, Calls

VARIABLES
  registry,   \* the registered sinks, oldest first
  todo,       \* of each write: the selected sinks it has not called yet
  result      \* what each call returns, as far as it is known
vars == <<registry, todo, result>>

Init ==
  /\ registry \in Seq(Sinks) /\ IsInjective(registry)
  /\ todo = [c \in Calls |-> <<>>] /\ result = [c \in Calls |-> "true"]

Report(c, value) == result' = [result EXCEPT ![c] = value]
Begin(c) == todo[c] = <<>> /\ Report(c, "true") /\ UNCHANGED <<registry, todo>>

Attach(c, s) ==
  /\ IF Contains(registry, s) THEN Report(c, "false") /\ UNCHANGED registry
     ELSE Report(c, "true") /\ registry' = Append(registry, s)
  /\ todo[c] = <<>> /\ UNCHANGED todo

Detach(c, s) ==
  /\ \/ \E i \in DOMAIN registry :
          /\ registry[i] = s /\ registry' = RemoveAt(registry, i)
          /\ Report(c, "true")
     \/ ~Contains(registry, s) /\ Report(c, "false") /\ UNCHANGED registry
  /\ todo[c] = <<>> /\ UNCHANGED todo

Select(c) ==
  /\ todo[c] = <<>> /\ todo' = [todo EXCEPT ![c] = registry]
  /\ IF registry = <<>> THEN Report(c, "false") ELSE UNCHANGED result
  /\ UNCHANGED registry

\* The callback of the next sink ends.
Deliver(c) ==
  /\ todo[c] # <<>> /\ UNCHANGED registry
  /\ \/ todo' = [todo EXCEPT ![c] = Tail(@)] /\ UNCHANGED result
     \/ todo' = [todo EXCEPT ![c] = Tail(@)] /\ Report(c, "false")
     \/ todo' = [todo EXCEPT ![c] = <<>>] /\ Report(c, "throws")

Next == \E c \in Calls :
  \/ Begin(c) \/ Select(c) \/ Deliver(c)
  \/ \E s \in Sinks : Attach(c, s) \/ Detach(c, s)

Spec == Init /\ [][Next]_vars
=============================================================================
