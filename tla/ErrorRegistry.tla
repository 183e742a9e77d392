--------------------------- MODULE ErrorRegistry ---------------------------
(***************************************************************************)
(* What registers and the systems that route to them promise, whatever     *)
(* synchronization their policies select (include/vosp/error.hpp): every   *)
(* operation takes effect at one moment between its call and its answer,   *)
(* on the first register of its category; an operation that an executor    *)
(* refuses or cancels never takes effect.                                  *)
(***************************************************************************)
EXTENDS Naturals, FiniteSets

CONSTANTS
  Calls,
  Registers,  \* a sequence: the category and the limit of each register
  Requests    \* [op, error, target]; target 0 is the system, i register i

VARIABLES
  stored,     \* the set of errors in each register
  open,       \* the request of each call in progress, as a set
  answer      \* what each call returned, as a set
vars == <<stored, open, answer>>

Routes(r) ==
  IF r.target # 0 THEN {r.target}
  ELSE {i \in DOMAIN Registers :
          /\ Registers[i].category = r.error.category
          /\ \A j \in 1 .. i - 1 : Registers[j].category # r.error.category}
Matching(S, r) == {e \in S : e.code = r.error.code}
Fits(r, i) == r.error.category = Registers[i].category

Init ==
  /\ stored = [i \in DOMAIN Registers |-> {}]
  /\ open = [c \in Calls |-> {}] /\ answer = [c \in Calls |-> {}]

Call(c) ==
  /\ open[c] = {} /\ answer[c] = {}
  /\ \E r \in Requests : open' = [open EXCEPT ![c] = {r}]
  /\ UNCHANGED <<stored, answer>>

Answer(c, status, found, count) ==
  /\ answer' = [answer EXCEPT ![c] =
                 {[status |-> status, found |-> found, count |-> count]}]
  /\ UNCHANGED open

\* An operation changes what a register holds, and succeeds.
Change(c) ==
  \E r \in open[c] : \E i \in Routes(r) :
    LET S == stored[i] IN
    \/ /\ r.op = "add" /\ Fits(r, i) /\ Matching(S, r) = {}
       /\ Cardinality(S) < Registers[i].limit
       /\ stored' = [stored EXCEPT ![i] = S \cup {r.error}]
       /\ Answer(c, "ok", {}, 0)
    \/ /\ r.op = "remove" /\ Fits(r, i) /\ r.error \in S
       /\ stored' = [stored EXCEPT ![i] = S \ {r.error}]
       /\ Answer(c, "ok", {}, 0)
    \/ /\ r.op = "remove_code" /\ Matching(S, r) # {}
       /\ stored' = [stored EXCEPT ![i] = S \ Matching(S, r)]
       /\ Answer(c, "ok", {}, 0)
    \/ /\ r.op = "clear"
       /\ stored' = [stored EXCEPT ![i] = {}]
       /\ Answer(c, "ok", {}, Cardinality(S))

\* An operation is turned down, for a reason that is true at that moment.
Decline(c) ==
  \E r \in open[c] :
    \/ Routes(r) = {} /\ Answer(c, "missing_register", {}, 0)
    \/ \E i \in Routes(r) :
         LET S == stored[i] IN
         \/ /\ r.op \in {"add", "remove"} /\ ~Fits(r, i)
            /\ Answer(c, "category", {}, 0)
         \/ /\ r.op = "add" /\ Fits(r, i) /\ Matching(S, r) # {}
            /\ Answer(c, "duplicate", {}, 0)
         \/ /\ r.op = "add" /\ Fits(r, i) /\ Matching(S, r) = {}
            /\ Cardinality(S) = Registers[i].limit
            /\ Answer(c, "capacity", {}, 0)
         \/ /\ r.op = "remove" /\ Fits(r, i) /\ r.error \notin S
            /\ Answer(c, "missing", {}, 0)
         \/ /\ r.op = "remove_code" /\ Matching(S, r) = {}
            /\ Answer(c, "missing", {}, 0)

Observe(c) ==
  \E r \in open[c] : \E i \in Routes(r) :
    LET S == stored[i] IN
    \/ r.op = "contains" /\ Answer(c, "ok", {r.error} \cap S, 0)
    \/ r.op = "find" /\ Answer(c, "ok", Matching(S, r), 0)
    \/ r.op = "snapshot" /\ Answer(c, "ok", S, Cardinality(S))

\* Only what goes through an executor can be refused, or cancelled with
\* everything else in its queue.
Pending == {c \in Calls : answer[c] = {} /\ \E r \in open[c] : r.target = 0}
Drop(C, status) ==
  /\ C # {}
  /\ answer' = [c \in Calls |->
       IF c \in C THEN {[status |-> status, found |-> {}, count |-> 0]}
       ELSE answer[c]]
  /\ UNCHANGED <<stored, open>>

Next ==
  \/ \E c \in Calls :
       \/ Call(c)
       \/ answer[c] = {} /\ Change(c)
       \/ answer[c] = {} /\ (Decline(c) \/ Observe(c)) /\ UNCHANGED stored
  \/ \E C \in SUBSET Pending : \E status \in {"cancelled", "rejected"} :
       Drop(C, status)

Spec == Init /\ [][Next]_vars
=============================================================================
